------------------------------- MODULE SignIn -------------------------------
(***************************************************************************)
(* Installation, settings and sign-in through an OIDC provider, in one     *)
(* server process.  The settings are rows of system_settings; what is in   *)
(* force is a copy in memory, made by apply(), which reads one key after   *)
(* the other, and the AuthService built from it.  A sign-in is an attempt  *)
(* stored for ten minutes, a visit to the provider, and a callback that    *)
(* redeems the attempt and exchanges a code.  A setting is the number of   *)
(* the save that wrote it; 0 is what the environment says.                 *)
(***************************************************************************)
EXTENDS Integers, Sequences, FiniteSets

CONSTANTS Request, Attempt, None,
          EnvProvider,   \* providers that the environment configures
          MaxSaves       \* bound on writes to the settings

\* The keys that apply() reads, in its order.
Keys     == <<"authentik", "sakura", "provider", "local_login">>
Key      == {Keys[i] : i \in DOMAIN Keys}
Provider == {"authentik", "sakura"}

ASSUME SignInAssumption ==
    /\ None \notin Request \cup Attempt
    /\ EnvProvider \subseteq Provider
    /\ MaxSaves \in Nat

VARIABLES installed,  \* installation_state.completed
          stored,     \* system_settings
          config,     \* the settings in force
          auth,       \* the authentik of the AuthService in force
          attempt,    \* oidc_login_attempts
          users,      \* the issuers that users are known by
          stage,      \* where a request waits
          topic,      \* the key it saves, "all" to install, or its attempt
          read,       \* what its apply() has read, or the issuer it trusts
          saves,      \* history: writes to the settings
          sessions,   \* history: sessions an attempt has opened
          alone,      \* history: the request that applies and met no other
          behind      \* history: what may differ from the settings stored

settings == <<installed, stored, config, auth>>
requests == <<stage, topic, read>>
history  == <<alone, behind>>
vars     == <<settings, attempt, users, requests, saves, sessions, history>>

\* A row that was deleted keeps its purpose, as history.
NoAttempt == [purpose |-> "none", provider |-> None, there |-> FALSE]

Init ==
    /\ installed = FALSE
    /\ stored = [k \in Key |-> 0]
    /\ config = stored
    /\ auth = 0
    /\ attempt = [a \in Attempt |-> NoAttempt]
    /\ users = {}
    /\ stage = [r \in Request |-> "idle"]
    /\ topic = [r \in Request |-> None]
    /\ read = [r \in Request |-> <<>>]
    /\ saves = 0
    /\ sessions = [a \in Attempt |-> 0]
    /\ alone = None
    /\ behind = {}

Goes(r, to, about, values) ==
    /\ stage' = [stage EXCEPT ![r] = to]
    /\ topic' = [topic EXCEPT ![r] = about]
    /\ read' = [read EXCEPT ![r] = values]

Answered(r) == Goes(r, "idle", None, <<>>)

\* browserLoginConfigured()
Configured(p) == config[p] > 0 \/ p \in EnvProvider

-----------------------------------------------------------------------------
(* Installation and settings.                                              *)

\* setupGuard or the check for an administrator; then the endpoints of the
\* provider are tried, which takes seconds.
BeginSave(r) ==
    /\ stage[r] = "idle"
    /\ \/ ~installed /\ Goes(r, "tested", "all", <<>>)
       \/ installed /\ \E k \in Key \ {"local_login"} : Goes(r, "tested", k, <<>>)
    /\ UNCHANGED <<settings, attempt, users, saves, sessions, history>>

Applying == {r \in Request : stage[r] = "applying"}

\* The transaction of r has written values; r goes on with apply().
Commits(r, values) ==
    /\ saves < MaxSaves
    /\ saves' = saves + 1
    /\ stored' = values
    /\ Goes(r, "applying", topic[r], <<>>)
    /\ alone' = IF Applying = {} THEN r ELSE None
    /\ behind' = IF Applying = {} THEN behind ELSE {"config", "auth"}
    /\ UNCHANGED <<config, auth, attempt, users, sessions>>

\* saveProvider(), saveAuthentik() and saveSakura()
Save(r) ==
    /\ stage[r] = "tested"
    /\ topic[r] # "all"
    /\ Commits(r, [stored EXCEPT ![topic[r]] = saves + 1])
    /\ UNCHANGED installed

\* complete(): the keys that were filled in, and at least a way to sign in.  The
\* row of the installation is read again FOR UPDATE.
Install(r) ==
    /\ stage[r] = "tested"
    /\ topic[r] = "all"
    /\ ~installed
    /\ \E given \in SUBSET Key :
          /\ given \cap {"authentik", "sakura", "local_login"} # {}
          /\ Commits(r, [k \in Key |-> IF k \in given THEN saves + 1
                                       ELSE IF k = "authentik" THEN 0 ELSE stored[k]])
    /\ installed' = TRUE

\* apply(): a key is read.
ReadKey(r) ==
    /\ stage[r] = "applying"
    /\ Len(read[r]) < Len(Keys)
    /\ Goes(r, "applying", topic[r], Append(read[r], stored[Keys[Len(read[r]) + 1]]))
    /\ UNCHANGED <<settings, attempt, users, saves, sessions, history>>

\* Mutation: only the settings of Authentik themselves build it.
OnlyAuthentik(k) == k = "authentik"

\* All but PUT /api/admin/sakura build an AuthService from the new settings.
Rebuilds(k) == k # "sakura"

\* The last key was read: what apply() returns is in force.
Apply(r) ==
    /\ stage[r] = "applying"
    /\ Len(read[r]) = Len(Keys)
    /\ config' = [k \in Key |-> read[r][CHOOSE i \in DOMAIN Keys : Keys[i] = k]]
    /\ auth' = IF Rebuilds(topic[r]) THEN config'["authentik"] ELSE auth
    /\ alone' = IF alone = r THEN None ELSE alone
    /\ behind' = IF alone # r THEN behind
                 ELSE IF topic[r] # "sakura" THEN {} ELSE behind \ {"config"}
    /\ Answered(r)
    /\ UNCHANGED <<installed, stored, attempt, users, saves, sessions>>

\* A test, a check or a statement fails; what was committed stays.
SaveFails(r) ==
    /\ stage[r] \in {"tested", "applying"}
    /\ Answered(r)
    /\ alone' = IF alone = r THEN None ELSE alone
    /\ behind' = IF r \in Applying THEN {"config", "auth"} ELSE behind
    /\ UNCHANGED <<settings, attempt, users, saves, sessions>>

\* The process starts again, at any moment, and applies what is stored.
Restart ==
    /\ config' = stored
    /\ auth' = stored["authentik"]
    /\ stage' = [r \in Request |-> "idle"]
    /\ topic' = [r \in Request |-> None]
    /\ read' = [r \in Request |-> <<>>]
    /\ alone' = None
    /\ behind' = {}
    /\ UNCHANGED <<installed, stored, attempt, users, saves, sessions>>

-----------------------------------------------------------------------------
(* Sign-in.                                                                *)

\* begin(), in one statement; expired rows are removed by Expires.
BeginAttempt(a, purpose, p) ==
    /\ installed
    /\ attempt[a] = NoAttempt
    /\ Configured(p)
    /\ attempt' = [attempt EXCEPT ![a] = [purpose |-> purpose, provider |-> p, there |-> TRUE]]
    /\ UNCHANGED <<settings, users, requests, saves, sessions, history>>

\* /auth/start, with the provider the browser asks for or the first one.
StartLogin(a) == \E p \in Provider : BeginAttempt(a, "login", p)

\* /auth/login: a silent probe, where it cannot get in the way.
StartProbe(a) ==
    /\ config["local_login"] = 0
    /\ ~Configured("sakura")
    /\ BeginAttempt(a, "probe", "authentik")

\* Mutation: the attempt is read and stays.
LooksAtAttempt(a) == UNCHANGED attempt

\* DELETE ... RETURNING
Deleted(a) == attempt' = [attempt EXCEPT ![a].there = FALSE]

Expires(a) ==
    /\ attempt[a].there
    /\ Deleted(a)
    /\ UNCHANGED <<settings, users, requests, saves, sessions, history>>

\* The browser comes to /auth/callback with a code, as often as it likes.
Callback(r) ==
    /\ stage[r] = "idle"
    /\ \E a \in Attempt : attempt[a] # NoAttempt /\ Goes(r, "returned", a, <<>>)
    /\ UNCHANGED <<settings, attempt, users, saves, sessions, history>>

\* consumeAttempt(): the purpose is part of the condition.
Consume(a, purpose) ==
    /\ attempt[a].there
    /\ attempt[a].purpose = purpose
    /\ Deleted(a)

\* The settings that verifyIdToken() starts with; without them it throws, and
\* nothing is left to redeem.
Trusts(r, to, a) ==
    LET p == attempt[a].provider IN
    IF Configured(p)
    THEN Goes(r, to, a, <<p, config[p]>>)
    ELSE Goes(r, "ordinary", a, <<>>)

\* probeCallback()
RedeemProbe(r) ==
    /\ stage[r] = "returned"
    /\ Consume(topic[r], "probe")
    /\ Trusts(r, "probing", topic[r])
    /\ UNCHANGED <<settings, users, saves, sessions, history>>

\* It throws, since the attempt is none or for any other reason, before or after
\* it was redeemed, and the ordinary login is tried.
ProbeThrows(r) ==
    /\ stage[r] \in {"returned", "probing"}
    /\ Goes(r, "ordinary", topic[r], <<>>)
    /\ UNCHANGED <<settings, attempt, users, saves, sessions, history>>

\* The name of the visitor goes to the login page in a cookie.
ProbeVerified(r) ==
    /\ stage[r] = "probing"
    /\ Answered(r)
    /\ UNCHANGED <<settings, attempt, users, saves, sessions, history>>

\* callback()
RedeemLogin(r) ==
    /\ stage[r] = "ordinary"
    /\ Consume(topic[r], "login")
    /\ Trusts(r, "exchanging", topic[r])
    /\ UNCHANGED <<settings, users, saves, sessions, history>>

\* The ID token is verified.  The issuer of the subject comes from the
\* settings in force by now, which need not be those that verified the token.
EnsureUser(r) ==
    /\ stage[r] = "exchanging"
    /\ LET p == read[r][1] IN
          /\ Configured(p)
          /\ users' = users \cup {<<p, config[p]>>}
    /\ Goes(r, "issuing", topic[r], <<>>)
    /\ UNCHANGED <<settings, attempt, saves, sessions, history>>

\* issueSession()
IssueSession(r) ==
    /\ stage[r] = "issuing"
    /\ sessions' = [sessions EXCEPT ![topic[r]] = @ + 1]
    /\ Answered(r)
    /\ UNCHANGED <<settings, attempt, users, saves, history>>

\* The provider answers with an error: the attempt is spent, whatever it is for.
FailedCallback(r) ==
    /\ stage[r] = "returned"
    /\ attempt[topic[r]].there
    /\ Deleted(topic[r])
    /\ Answered(r)
    /\ UNCHANGED <<settings, users, saves, sessions, history>>

\* No attempt, no binding cookie, a code or a token that does not verify, or a
\* statement that fails.
CallbackFails(r) ==
    /\ stage[r] \in {"returned", "ordinary", "exchanging", "issuing"}
    /\ Answered(r)
    /\ UNCHANGED <<settings, attempt, users, saves, sessions, history>>

-----------------------------------------------------------------------------
RequestStep(r) ==
    \/ BeginSave(r) \/ Save(r) \/ Install(r) \/ ReadKey(r) \/ Apply(r) \/ SaveFails(r)
    \/ Callback(r) \/ RedeemProbe(r) \/ ProbeVerified(r) \/ ProbeThrows(r)
    \/ RedeemLogin(r) \/ EnsureUser(r) \/ IssueSession(r)
    \/ FailedCallback(r) \/ CallbackFails(r)

Next ==
    \/ \E r \in Request : RequestStep(r)
    \/ \E a \in Attempt : StartLogin(a) \/ StartProbe(a) \/ Expires(a)
    \/ Restart

Spec == Init /\ [][Next]_vars

-----------------------------------------------------------------------------
\* A browser that reloads the callback, or two that share its address, open at
\* most one session, and a probe opens none (session.ts: a probe cannot be
\* turned into a session; the row is deleted on read).
AttemptIsSingleUse ==
    \A a \in Attempt :
        /\ sessions[a] <= 1
        /\ attempt[a].purpose = "probe" => sessions[a] = 0

\* When no save is at work, the settings in force are those stored, unless two
\* saves overlapped or one failed after its commit and nothing was applied
\* since (index.ts: saved and in force at once).
SavedIsInForce ==
    Applying = {} => /\ "config" \notin behind => config = stored
                     /\ "auth" \notin behind => auth = stored["authentik"]

=============================================================================
