---------------------------- MODULE SignInProofs ----------------------------
(***************************************************************************)
(* Proofs about SignIn for any number of requests, attempts and saves.     *)
(***************************************************************************)
EXTENDS SignIn, TLAPS

Stages == {"idle", "tested", "applying", "returned", "probing", "ordinary", "exchanging", "issuing"}

Attempts == [purpose : {"none", "login", "probe"}, provider : Provider \cup {None}, there : BOOLEAN]

\* What the proofs need of the types.
TypeOK ==
    /\ stored \in [Key -> Int]
    /\ attempt \in [Attempt -> Attempts]
    /\ stage \in [Request -> Stages]
    /\ topic \in [Request -> Key \cup {"all", None} \cup Attempt]
    /\ DOMAIN read = Request
    /\ sessions \in [Attempt -> Nat]
    /\ saves \in Nat
    /\ alone \in Request \cup {None}
    /\ behind \subseteq {"config", "auth"}

-----------------------------------------------------------------------------
\* A request that has redeemed an attempt to log in and is not answered.
Redeeming(r) == stage[r] \in {"exchanging", "issuing"}

\* While an attempt is there nobody has redeemed it; once it is redeemed, one
\* request goes on with it, and that one opens the session.
Single(a) ==
    /\ attempt[a].there => sessions[a] = 0
    /\ sessions[a] <= 1
    /\ sessions[a] > 0 => attempt[a].purpose = "login"
    /\ \A r \in Request : Redeeming(r) /\ topic[r] = a =>
          /\ ~attempt[a].there
          /\ sessions[a] = 0
          /\ attempt[a].purpose = "login"
          /\ \A q \in Request \ {r} : ~(Redeeming(q) /\ topic[q] = a)

AboutAttempt(r) ==
    stage[r] \in {"returned", "probing", "ordinary", "exchanging", "issuing"} => topic[r] \in Attempt

AttemptInv ==
    /\ TypeOK
    /\ \A a \in Attempt : Single(a)
    /\ \A r \in Request : AboutAttempt(r)

-----------------------------------------------------------------------------
\* Whoever applies alone has read what is stored now.
AloneReadsStored ==
    alone # None =>
        /\ Applying = {alone}
        /\ read[alone] \in Seq(Int)
        /\ Len(read[alone]) <= Len(Keys)
        /\ \A i \in 1 .. Len(read[alone]) : read[alone][i] = stored[Keys[i]]

\* Saves that overlap are behind from the start.
OverlapIsBehind == Applying # {} /\ alone = None => behind = {"config", "auth"}

\* Sakura's settings do not touch what the AuthService was built from.
SakuraLeavesAuth ==
    alone # None /\ topic[alone] = "sakura" /\ "auth" \notin behind => auth = stored["authentik"]

SettingsInv == TypeOK /\ AloneReadsStored /\ OverlapIsBehind /\ SakuraLeavesAuth /\ SavedIsInForce

IInv == AttemptInv /\ SettingsInv

-----------------------------------------------------------------------------
LEMMA KeyFacts ==
    /\ Len(Keys) = 4 /\ DOMAIN Keys = 1 .. 4
    /\ \A k \in Key : \E i \in 1 .. 4 : Keys[i] = k
    /\ Key = {"authentik", "sakura", "provider", "local_login"}
  <1>1. Len(Keys) = 4 /\ DOMAIN Keys = 1 .. 4
    BY DEF Keys
  <1>2. Keys[1] = "authentik" /\ Keys[2] = "sakura" /\ Keys[3] = "provider" /\ Keys[4] = "local_login"
    BY DEF Keys
  <1> QED BY <1>1, <1>2 DEF Key

LEMMA DeletedFacts ==
    ASSUME attempt \in [Attempt -> Attempts], NEW a \in Attempt, Deleted(a)
    PROVE  /\ attempt' \in [Attempt -> Attempts]
           /\ \A b \in Attempt : attempt'[b].purpose = attempt[b].purpose
           /\ \A b \in Attempt \ {a} : attempt'[b] = attempt[b]
           /\ ~attempt'[a].there
  BY DEF Deleted, Attempts

LEMMA TypesKept == IInv /\ [Next]_vars => TypeOK'
  <1> SUFFICES ASSUME IInv, [Next]_vars PROVE TypeOK'
    OBVIOUS
  <1>0. TypeOK /\ \A r \in Request : stage[r] \notin {"idle", "tested", "applying"} => topic[r] \in Attempt
    BY DEF IInv, AttemptInv, AboutAttempt, TypeOK, Stages
  <1> USE SignInAssumption, <1>0 DEF TypeOK, Stages, settings, requests, history
  <1>1. ASSUME NEW r \in Request, NEW to \in Stages, NEW a \in Key \cup {"all", None} \cup Attempt,
               NEW values, Goes(r, to, a, values)
        PROVE  /\ stage' \in [Request -> Stages]
               /\ topic' \in [Request -> Key \cup {"all", None} \cup Attempt]
               /\ DOMAIN read' = Request
    BY <1>1 DEF Goes
  <1>2. ASSUME NEW r \in Request, NEW values \in [Key -> Int], Commits(r, values) PROVE TypeOK'
    <2>1. alone' \in Request \cup {None} /\ behind' \subseteq {"config", "auth"} /\ stored' = values
      BY <1>2 DEF Commits
    <2>2. saves' \in Nat /\ UNCHANGED <<attempt, sessions>>
      BY <1>2 DEF Commits
    <2>3. Goes(r, "applying", topic[r], <<>>)
      BY <1>2 DEF Commits
    <2> QED BY <1>1, <1>2, <2>1, <2>2, <2>3
  <1>3. ASSUME NEW r \in Request, BeginSave(r) PROVE TypeOK'
    BY <1>1, <1>3 DEF BeginSave
  <1>4. ASSUME NEW r \in Request, Save(r) PROVE TypeOK'
    <2>1. saves + 1 \in Int /\ stored \in [Key -> Int]
      OBVIOUS
    <2>2. [stored EXCEPT ![topic[r]] = saves + 1] \in [Key -> Int]
      BY <2>1, Zenon
    <2> QED BY <1>2, <1>4, <2>2 DEF Save
  <1>5. ASSUME NEW r \in Request, Install(r) PROVE TypeOK'
    <2>1. PICK given \in SUBSET Key :
             Commits(r, [k \in Key |-> IF k \in given THEN saves + 1
                                       ELSE IF k = "authentik" THEN 0 ELSE stored[k]])
      BY <1>5 DEF Install
    <2> QED BY <1>2, <2>1
  <1>6. ASSUME NEW r \in Request, ReadKey(r) PROVE TypeOK'
    BY <1>1, <1>6 DEF ReadKey
  <1>7. ASSUME NEW r \in Request, Apply(r) PROVE TypeOK'
    BY <1>1, <1>7 DEF Apply, Answered
  <1>8. ASSUME NEW r \in Request, SaveFails(r) PROVE TypeOK'
    BY <1>1, <1>8 DEF SaveFails, Answered
  <1>9. ASSUME NEW a \in Attempt, StartLogin(a) \/ StartProbe(a) PROVE TypeOK'
    <2>1. PICK p \in Provider, purpose \in {"login", "probe"} : BeginAttempt(a, purpose, p)
      BY <1>9 DEF StartLogin, StartProbe, Provider
    <2>2. [purpose |-> purpose, provider |-> p, there |-> TRUE] \in Attempts
      BY DEF Attempts
    <2> QED BY <2>1, <2>2 DEF BeginAttempt
  <1>10. ASSUME NEW a \in Attempt, Expires(a) PROVE TypeOK'
    BY <1>10, DeletedFacts DEF Expires
  <1>11. ASSUME NEW r \in Request, Callback(r) PROVE TypeOK'
    BY <1>1, <1>11 DEF Callback
  <1>12. ASSUME NEW r \in Request, RedeemProbe(r) \/ RedeemLogin(r) PROVE TypeOK'
    <2>1. topic[r] \in Attempt /\ Deleted(topic[r])
      BY <1>12 DEF RedeemProbe, RedeemLogin, Consume
    <2>2. \E to \in Stages : \E values : Goes(r, to, topic[r], values)
      BY <1>12 DEF RedeemProbe, RedeemLogin, Trusts
    <2> QED BY <1>1, <1>12, <2>1, <2>2, DeletedFacts DEF RedeemProbe, RedeemLogin
  <1>13. ASSUME NEW r \in Request, ProbeThrows(r) \/ ProbeVerified(r) \/ EnsureUser(r) \/ CallbackFails(r)
         PROVE  TypeOK'
    BY <1>1, <1>13 DEF ProbeThrows, ProbeVerified, EnsureUser, CallbackFails, Answered
  <1>14. ASSUME NEW r \in Request, IssueSession(r) PROVE TypeOK'
    <2>1. sessions' \in [Attempt -> Nat]
      BY <1>14 DEF IssueSession
    <2> QED BY <1>1, <1>14, <2>1 DEF IssueSession, Answered
  <1>15. ASSUME NEW r \in Request, FailedCallback(r) PROVE TypeOK'
    <2>1. topic[r] \in Attempt
      BY <1>15 DEF FailedCallback
    <2> QED BY <1>1, <1>15, <2>1, DeletedFacts DEF FailedCallback, Answered
  <1>16. CASE Restart
    BY <1>16 DEF Restart
  <1>17. CASE UNCHANGED vars
    BY <1>17 DEF vars
  <1> QED BY <1>3, <1>4, <1>5, <1>6, <1>7, <1>8, <1>9, <1>10, <1>11, <1>12, <1>13, <1>14, <1>15, <1>16, <1>17
          DEF Next, RequestStep

-----------------------------------------------------------------------------
(* Attempts.                                                               *)

\* A step that leaves attempts and sessions alone and lets nobody redeem.
LEMMA NothingRedeemed ==
    ASSUME AttemptInv, UNCHANGED <<attempt, sessions>>,
           \A r \in Request : Redeeming(r)' => Redeeming(r) /\ topic'[r] = topic[r]
    PROVE  \A a \in Attempt : Single(a)'
  BY DEF AttemptInv, Single

LEMMA AttemptsKept == IInv /\ [Next]_vars => \A a \in Attempt : Single(a)'
  <1> SUFFICES ASSUME IInv, [Next]_vars PROVE \A a \in Attempt : Single(a)'
    OBVIOUS
  <1>0. AttemptInv
    BY DEF IInv
  <1> USE SignInAssumption, <1>0
  <1>1. ASSUME NEW r \in Request, BeginSave(r) \/ ReadKey(r) \/ Apply(r) \/ SaveFails(r) \/ Callback(r)
                                  \/ ProbeThrows(r) \/ ProbeVerified(r) \/ EnsureUser(r) \/ CallbackFails(r)
        PROVE  \A a \in Attempt : Single(a)'
    <2>1. UNCHANGED <<attempt, sessions>>
      BY <1>1 DEF BeginSave, ReadKey, Apply, SaveFails, Callback, ProbeThrows, ProbeVerified, EnsureUser, CallbackFails
    <2>2. \/ \E to \in Stages \ {"exchanging", "issuing"} : \E a, values : Goes(r, to, a, values)
          \/ \E values : stage[r] = "exchanging" /\ Goes(r, "issuing", topic[r], values)
      BY <1>1 DEF BeginSave, ReadKey, Apply, SaveFails, Callback, ProbeThrows, ProbeVerified, EnsureUser,
                  CallbackFails, Answered, Stages
    <2>3. \A q \in Request : Redeeming(q)' => Redeeming(q) /\ topic'[q] = topic[q]
      BY <2>2 DEF AttemptInv, TypeOK, Redeeming, Goes, Stages
    <2> QED BY <2>1, <2>3, NothingRedeemed
  <1>2. ASSUME NEW r \in Request, Save(r) \/ Install(r) PROVE \A a \in Attempt : Single(a)'
    <2>1. PICK values : Commits(r, values)
      BY <1>2 DEF Save, Install
    <2>2. \A q \in Request : Redeeming(q)' => Redeeming(q) /\ topic'[q] = topic[q]
      BY <2>1 DEF AttemptInv, TypeOK, Redeeming, Commits, Goes, Stages
    <2> QED BY <2>1, <2>2, NothingRedeemed DEF Commits
  <1>3. ASSUME NEW b \in Attempt, StartLogin(b) \/ StartProbe(b) PROVE \A a \in Attempt : Single(a)'
    <2>1. PICK p \in Provider, purpose \in {"login", "probe"} : BeginAttempt(b, purpose, p)
      BY <1>3 DEF StartLogin, StartProbe, Provider
    <2>2. attempt[b].purpose = "none" /\ UNCHANGED <<stage, topic, sessions>>
      BY <2>1 DEF BeginAttempt, NoAttempt, requests
    <2>3. sessions[b] = 0 /\ \A r \in Request : ~(Redeeming(r) /\ topic[r] = b)
      BY <2>2 DEF AttemptInv, TypeOK, Single
    <2>4. \A a \in Attempt \ {b} : attempt'[a] = attempt[a]
      BY <2>1 DEF BeginAttempt, AttemptInv, TypeOK
    <2> QED BY <2>2, <2>3, <2>4 DEF AttemptInv, Single, Redeeming
  <1>4. ASSUME NEW b \in Attempt, Deleted(b), UNCHANGED sessions,
               \A r \in Request : Redeeming(r)' => Redeeming(r) /\ topic'[r] = topic[r]
        PROVE  \A a \in Attempt : Single(a)'
    <2>1. /\ \A a \in Attempt : attempt'[a].purpose = attempt[a].purpose
          /\ \A a \in Attempt : attempt'[a].there => attempt[a].there
      BY <1>4, DeletedFacts DEF AttemptInv, TypeOK
    <2> QED BY <1>4, <2>1 DEF AttemptInv, Single
  <1>5. ASSUME NEW a \in Attempt, Expires(a) PROVE \A b \in Attempt : Single(b)'
    BY <1>4, <1>5 DEF Expires, Redeeming, requests
  <1>6. ASSUME NEW r \in Request, RedeemProbe(r) \/ FailedCallback(r) PROVE \A a \in Attempt : Single(a)'
    <2>1. topic[r] \in Attempt /\ Deleted(topic[r]) /\ UNCHANGED sessions
      BY <1>6 DEF AttemptInv, AboutAttempt, RedeemProbe, FailedCallback, Consume
    <2>2. \E to \in {"probing", "ordinary", "idle"} : \E a, values : Goes(r, to, a, values)
      BY <1>6 DEF RedeemProbe, FailedCallback, Trusts, Answered
    <2>3. \A q \in Request : Redeeming(q)' => Redeeming(q) /\ topic'[q] = topic[q]
      BY <2>2 DEF AttemptInv, TypeOK, Redeeming, Goes
    <2> QED BY <1>4, <2>1, <2>3
  <1>7. ASSUME NEW r \in Request, RedeemLogin(r) PROVE \A a \in Attempt : Single(a)'
    <2>1. PICK b \in Attempt : /\ b = topic[r] /\ attempt[b].there /\ attempt[b].purpose = "login"
                               /\ Deleted(b) /\ UNCHANGED sessions
      BY <1>7 DEF AttemptInv, AboutAttempt, RedeemLogin, Consume
    <2>2. /\ \A q \in Request \ {r} : stage'[q] = stage[q] /\ topic'[q] = topic[q]
          /\ topic'[r] = b
      BY <1>7, <2>1 DEF AttemptInv, TypeOK, RedeemLogin, Trusts, Goes
    <2>3. /\ ~attempt'[b].there
          /\ \A a \in Attempt : attempt'[a].purpose = attempt[a].purpose
          /\ \A a \in Attempt : attempt'[a].there => attempt[a].there
      BY <2>1, DeletedFacts DEF AttemptInv, TypeOK
    <2>4. sessions[b] = 0 /\ \A q \in Request : ~(Redeeming(q) /\ topic[q] = b)
      BY <2>1 DEF AttemptInv, Single
    <2>5. Single(b)'
      BY <2>1, <2>2, <2>3, <2>4 DEF Single, Redeeming
    <2>6. ASSUME NEW a \in Attempt \ {b} PROVE Single(a)'
      BY <2>1, <2>2, <2>3 DEF AttemptInv, Single, Redeeming
    <2> QED BY <2>5, <2>6
  <1>8. ASSUME NEW r \in Request, IssueSession(r) PROVE \A a \in Attempt : Single(a)'
    <2>1. PICK b \in Attempt : b = topic[r]
      BY <1>8 DEF AttemptInv, AboutAttempt, IssueSession
    <2>2. /\ \A q \in Request \ {r} : stage'[q] = stage[q] /\ topic'[q] = topic[q]
          /\ ~Redeeming(r)' /\ Redeeming(r) /\ UNCHANGED attempt
      BY <1>8 DEF AttemptInv, TypeOK, IssueSession, Answered, Goes, Redeeming
    <2>3. \A a \in Attempt : sessions'[a] = IF a = b THEN sessions[a] + 1 ELSE sessions[a]
      BY <1>8, <2>1 DEF AttemptInv, TypeOK, IssueSession
    <2>4. \A q \in Request : Redeeming(q)' => Redeeming(q) /\ topic'[q] = topic[q] /\ topic[q] # b
      BY <2>1, <2>2 DEF AttemptInv, Single, Redeeming
    <2>5. ~attempt[b].there /\ sessions[b] = 0 /\ attempt[b].purpose = "login"
      BY <2>1, <2>2 DEF AttemptInv, Single
    <2>6. Single(b)'
      BY <2>2, <2>3, <2>4, <2>5 DEF Single
    <2>7. ASSUME NEW a \in Attempt \ {b} PROVE Single(a)'
      BY <2>2, <2>3, <2>4 DEF AttemptInv, Single
    <2> QED BY <2>6, <2>7
  <1>9. CASE Restart
    <2>1. \A q \in Request : ~Redeeming(q)'
      BY <1>9 DEF Restart, Redeeming
    <2> QED BY <1>9, <2>1, NothingRedeemed DEF Restart
  <1>10. CASE UNCHANGED vars
    BY <1>10, NothingRedeemed DEF vars, requests, Redeeming
  <1> QED BY <1>1, <1>2, <1>3, <1>5, <1>6, <1>7, <1>8, <1>9, <1>10 DEF Next, RequestStep

LEMMA TopicsKept == IInv /\ [Next]_vars => \A r \in Request : AboutAttempt(r)'
  <1> SUFFICES ASSUME IInv, [Next]_vars, NEW q \in Request PROVE AboutAttempt(q)'
    OBVIOUS
  <1>0. TypeOK /\ \A r \in Request : AboutAttempt(r)
    BY DEF IInv, AttemptInv
  <1> USE <1>0 DEF TypeOK
  <1>1. ASSUME UNCHANGED <<stage, topic>> PROVE AboutAttempt(q)'
    BY <1>1 DEF AboutAttempt
  <1>2. ASSUME NEW r \in Request, NEW to, NEW a, NEW values, Goes(r, to, a, values),
               to \in {"idle", "tested", "applying"} \/ a \in Attempt
        PROVE  AboutAttempt(q)'
    BY <1>2 DEF AboutAttempt, Goes
  <1>3. ASSUME NEW r \in Request, RequestStep(r) PROVE AboutAttempt(q)'
    <2>1. \E to, a, values :
             /\ Goes(r, to, a, values)
             /\ to \in {"idle", "tested", "applying"} \/ a \in Attempt
      <3>1. CASE BeginSave(r) \/ Apply(r) \/ SaveFails(r) \/ ReadKey(r) \/ Save(r) \/ Install(r)
        BY <3>1 DEF BeginSave, Apply, SaveFails, ReadKey, Save, Install, Commits, Answered
      <3>2. CASE Callback(r) \/ ProbeVerified(r) \/ FailedCallback(r) \/ CallbackFails(r) \/ IssueSession(r)
        BY <3>2 DEF Callback, ProbeVerified, FailedCallback, CallbackFails, IssueSession, Answered
      <3>3. CASE RedeemProbe(r) \/ ProbeThrows(r) \/ RedeemLogin(r) \/ EnsureUser(r)
        <4>1. topic[r] \in Attempt
          BY <3>3 DEF AboutAttempt, RedeemProbe, ProbeThrows, RedeemLogin, EnsureUser
        <4> QED BY <3>3, <4>1 DEF RedeemProbe, ProbeThrows, RedeemLogin, EnsureUser, Trusts
      <3> QED BY <1>3, <3>1, <3>2, <3>3 DEF RequestStep
    <2> QED BY <1>2, <2>1
  <1>4. CASE Restart
    BY <1>4 DEF AboutAttempt, Restart
  <1> QED BY <1>1, <1>3, <1>4
          DEF Next, StartLogin, StartProbe, BeginAttempt, Expires, requests, vars

-----------------------------------------------------------------------------
(* Settings.                                                               *)

\* Neither who applies nor what is stored or in force has changed.
LEMMA NothingApplied ==
    ASSUME SettingsInv, UNCHANGED <<stored, config, auth, alone, behind>>,
           \A r \in Request : stage[r] = "applying" <=> stage'[r] = "applying",
           \A r \in Applying : topic'[r] = topic[r] /\ read'[r] = read[r]
    PROVE  AloneReadsStored' /\ OverlapIsBehind' /\ SakuraLeavesAuth' /\ SavedIsInForce'
  <1>1. Applying' = Applying
    BY DEF Applying
  <1>2. alone # None => alone \in Applying
    BY DEF SettingsInv, AloneReadsStored
  <1> QED BY <1>1, <1>2 DEF SettingsInv, AloneReadsStored, OverlapIsBehind, SakuraLeavesAuth, SavedIsInForce

LEMMA SettingsKept == IInv /\ [Next]_vars => AloneReadsStored' /\ OverlapIsBehind' /\ SakuraLeavesAuth' /\ SavedIsInForce'
  <1> SUFFICES ASSUME IInv, [Next]_vars
               PROVE  AloneReadsStored' /\ OverlapIsBehind' /\ SakuraLeavesAuth' /\ SavedIsInForce'
    OBVIOUS
  <1>0. SettingsInv /\ TypeOK
    BY DEF IInv, SettingsInv
  <1> USE <1>0, SignInAssumption
  <1>1. ASSUME NEW r \in Request,
               BeginSave(r) \/ Callback(r) \/ RedeemProbe(r) \/ ProbeThrows(r) \/ ProbeVerified(r)
               \/ RedeemLogin(r) \/ EnsureUser(r) \/ IssueSession(r) \/ FailedCallback(r) \/ CallbackFails(r)
        PROVE  AloneReadsStored' /\ OverlapIsBehind' /\ SakuraLeavesAuth' /\ SavedIsInForce'
    <2>1. UNCHANGED <<stored, config, auth, alone, behind>>
      BY <1>1 DEF BeginSave, Callback, RedeemProbe, ProbeThrows, ProbeVerified, RedeemLogin, EnsureUser,
                  IssueSession, FailedCallback, CallbackFails, settings, history
    <2>2. stage[r] # "applying" /\ \E to \in Stages \ {"applying"} : \E a, values : Goes(r, to, a, values)
      BY <1>1 DEF BeginSave, Callback, RedeemProbe, ProbeThrows, ProbeVerified, RedeemLogin, EnsureUser,
                  IssueSession, FailedCallback, CallbackFails, Trusts, Answered, Stages
    <2> QED BY <2>1, <2>2, NothingApplied DEF TypeOK, Goes, Applying
  <1>2. ASSUME NEW r \in Request, Save(r) \/ Install(r)
        PROVE  AloneReadsStored' /\ OverlapIsBehind' /\ SakuraLeavesAuth' /\ SavedIsInForce'
    <2>1. \E values : Commits(r, values) /\ (topic[r] = "sakura" => values["authentik"] = stored["authentik"])
      <3>1. CASE Install(r)
        BY <3>1 DEF Install
      <3>2. CASE Save(r)
        <4>1. topic[r] = "sakura" =>
                 [stored EXCEPT ![topic[r]] = saves + 1]["authentik"] = stored["authentik"]
          BY KeyFacts DEF TypeOK
        <4> QED BY <3>2, <4>1 DEF Save
      <3> QED BY <1>2, <3>1, <3>2
    <2>2. /\ Goes(r, "applying", topic[r], <<>>)
          /\ alone' = IF Applying = {} THEN r ELSE None
          /\ behind' = IF Applying = {} THEN behind ELSE {"config", "auth"}
          /\ topic[r] = "sakura" => stored'["authentik"] = stored["authentik"]
          /\ UNCHANGED <<config, auth>>
      BY <2>1 DEF Commits
    <2>3. Applying' = Applying \cup {r} /\ read'[r] = <<>> /\ topic'[r] = topic[r]
      BY <2>2 DEF Applying, Goes, TypeOK
    <2>4. AloneReadsStored'
      <3>1. <<>> \in Seq(Int) /\ Len(<<>>) = 0
        OBVIOUS
      <3>2. alone' # None => alone' = r /\ Applying' = {r}
        BY <2>2, <2>3
      <3>3. read'[r] \in Seq(Int) /\ Len(read'[r]) <= Len(Keys)
        BY <2>3, <3>1, KeyFacts
      <3>4. \A i \in 1 .. Len(read'[r]) : FALSE
        BY <2>3, <3>1
      <3> QED BY <3>2, <3>3, <3>4 DEF AloneReadsStored
    <2>5. OverlapIsBehind' /\ SavedIsInForce'
      BY <2>2, <2>3 DEF OverlapIsBehind, SavedIsInForce
    <2>6. SakuraLeavesAuth'
      BY <2>2, <2>3 DEF SakuraLeavesAuth, SettingsInv, SavedIsInForce
    <2> QED BY <2>4, <2>5, <2>6
  <1>3. ASSUME NEW r \in Request, ReadKey(r)
        PROVE  AloneReadsStored' /\ OverlapIsBehind' /\ SakuraLeavesAuth' /\ SavedIsInForce'
    <2>1. /\ Applying' = Applying /\ r \in Applying
          /\ UNCHANGED <<stored, config, auth, alone, behind, topic>>
          /\ \A q \in Request \ {r} : read'[q] = read[q]
          /\ Len(read[r]) < Len(Keys)
          /\ read'[r] = Append(read[r], stored[Keys[Len(read[r]) + 1]])
      BY <1>3 DEF ReadKey, Goes, Applying, TypeOK, settings, history
    <2>2. AloneReadsStored'
      <3>1. CASE alone = r
        <4>1. read[r] \in Seq(Int) /\ \A i \in 1 .. Len(read[r]) : read[r][i] = stored[Keys[i]]
          BY <3>1 DEF SettingsInv, AloneReadsStored
        <4>2. Keys[Len(read[r]) + 1] \in Key
          BY <2>1, <4>1, KeyFacts DEF Key
        <4>3. stored[Keys[Len(read[r]) + 1]] \in Int
          BY <4>2 DEF TypeOK
        <4>4. /\ read'[r] \in Seq(Int) /\ Len(read'[r]) = Len(read[r]) + 1
              /\ \A i \in 1 .. Len(read[r]) + 1 : read'[r][i] = stored[Keys[i]]
          BY <2>1, <4>1, <4>3
        <4>5. Applying' = {r} /\ alone' = r /\ stored' = stored /\ Len(read'[r]) <= Len(Keys)
          BY <2>1, <3>1, <4>1, <4>4, KeyFacts DEF SettingsInv, AloneReadsStored
        <4> QED BY <4>4, <4>5 DEF AloneReadsStored
      <3>2. CASE alone # r
        BY <2>1, <3>2 DEF SettingsInv, AloneReadsStored, TypeOK
      <3> QED BY <3>1, <3>2
    <2> QED BY <2>1, <2>2 DEF SettingsInv, OverlapIsBehind, SakuraLeavesAuth, SavedIsInForce
  <1>4. ASSUME NEW r \in Request, Apply(r)
        PROVE  AloneReadsStored' /\ OverlapIsBehind' /\ SakuraLeavesAuth' /\ SavedIsInForce'
    <2>1. /\ Applying' = Applying \ {r} /\ r \in Applying
          /\ \A q \in Request \ {r} : read'[q] = read[q] /\ topic'[q] = topic[q]
          /\ UNCHANGED stored
      BY <1>4 DEF Apply, Answered, Goes, Applying, TypeOK
    <2>2. CASE alone = r
      <3>1. Applying' = {} /\ alone' = None
        BY <1>4, <2>1, <2>2 DEF Apply, SettingsInv, AloneReadsStored
      <3>2. \A k \in Key : config'[k] = stored[k]
        <4> SUFFICES ASSUME NEW k \in Key PROVE config'[k] = stored[k]
          OBVIOUS
        <4> DEFINE i == CHOOSE i \in DOMAIN Keys : Keys[i] = k
        <4>1. i \in DOMAIN Keys /\ Keys[i] = k
          BY KeyFacts
        <4>2. config'[k] = read[r][i]
          BY <1>4 DEF Apply
        <4>3. i \in 1 .. Len(read[r]) /\ \A j \in 1 .. Len(read[r]) : read[r][j] = stored[Keys[j]]
          BY <1>4, <2>2, <4>1, KeyFacts DEF Apply, SettingsInv, AloneReadsStored
        <4> HIDE DEF i
        <4> QED BY <4>1, <4>2, <4>3
      <3>3. config' = stored
        <4>1. config' = [k \in Key |-> config'[k]]
          BY <1>4 DEF Apply
        <4> QED BY <3>2, <4>1 DEF TypeOK
      <3>4. /\ topic[r] # "sakura" => auth' = stored["authentik"]
            /\ topic[r] = "sakura" /\ "auth" \notin behind' => auth' = stored["authentik"]
        BY <1>4, <2>2, <3>3, KeyFacts DEF Apply, Rebuilds, SettingsInv, SakuraLeavesAuth
      <3> QED BY <2>1, <3>1, <3>3, <3>4 DEF AloneReadsStored, OverlapIsBehind, SakuraLeavesAuth, SavedIsInForce
    <2>3. CASE alone # r
      <3>1. alone = None /\ behind = {"config", "auth"}
        BY <2>1, <2>3 DEF SettingsInv, AloneReadsStored, OverlapIsBehind
      <3>2. alone' = None /\ behind' = {"config", "auth"}
        BY <1>4, <2>3, <3>1 DEF Apply
      <3> QED BY <3>2 DEF AloneReadsStored, OverlapIsBehind, SakuraLeavesAuth, SavedIsInForce
    <2> QED BY <2>2, <2>3
  <1>5. ASSUME NEW r \in Request, SaveFails(r)
        PROVE  AloneReadsStored' /\ OverlapIsBehind' /\ SakuraLeavesAuth' /\ SavedIsInForce'
    <2>1. /\ Applying' = Applying \ {r}
          /\ \A q \in Request \ {r} : read'[q] = read[q] /\ topic'[q] = topic[q]
          /\ alone' = IF alone = r THEN None ELSE alone
          /\ behind' = IF r \in Applying THEN {"config", "auth"} ELSE behind
          /\ UNCHANGED <<stored, config, auth>>
      BY <1>5 DEF SaveFails, Answered, Goes, Applying, TypeOK, settings
    <2>2. CASE r \in Applying
      <3>1. alone' = None /\ behind' = {"config", "auth"}
        BY <2>1, <2>2 DEF SettingsInv, AloneReadsStored
      <3> QED BY <3>1 DEF AloneReadsStored, OverlapIsBehind, SakuraLeavesAuth, SavedIsInForce
    <2>3. CASE r \notin Applying
      <3>1. alone # r /\ Applying' = Applying /\ UNCHANGED <<alone, behind>>
        BY <2>1, <2>3 DEF SettingsInv, AloneReadsStored
      <3> QED BY <2>1, <3>1
              DEF SettingsInv, AloneReadsStored, OverlapIsBehind, SakuraLeavesAuth, SavedIsInForce, TypeOK
    <2> QED BY <2>2, <2>3
  <1>6. CASE Restart
    <2>1. Applying' = {} /\ alone' = None /\ config' = stored' /\ auth' = stored'["authentik"]
      BY <1>6 DEF Restart, Applying
    <2> QED BY <2>1 DEF AloneReadsStored, OverlapIsBehind, SakuraLeavesAuth, SavedIsInForce
  <1>7. CASE \/ \E a \in Attempt : StartLogin(a) \/ StartProbe(a) \/ Expires(a)
             \/ UNCHANGED vars
    <2>1. UNCHANGED <<settings, requests, history>>
      BY <1>7 DEF StartLogin, StartProbe, BeginAttempt, Expires, vars
    <2> QED BY <2>1, NothingApplied DEF settings, requests, history
  <1> QED BY <1>1, <1>2, <1>3, <1>4, <1>5, <1>6, <1>7 DEF Next, RequestStep

-----------------------------------------------------------------------------
LEMMA Initial == Init => IInv
  <1> SUFFICES ASSUME Init PROVE IInv
    OBVIOUS
  <1> USE SignInAssumption, KeyFacts DEF Init
  <1>1. TypeOK
    <2>1. NoAttempt \in Attempts
      BY DEF NoAttempt, Attempts
    <2> QED BY <2>1 DEF TypeOK, Stages
  <1>2. AttemptInv
    BY <1>1 DEF AttemptInv, Single, Redeeming, AboutAttempt, NoAttempt
  <1>3. AloneReadsStored /\ OverlapIsBehind /\ SakuraLeavesAuth /\ SavedIsInForce
    BY DEF AloneReadsStored, OverlapIsBehind, SakuraLeavesAuth, SavedIsInForce, Applying
  <1> QED BY <1>1, <1>2, <1>3 DEF IInv, SettingsInv

LEMMA Inductive == IInv /\ [Next]_vars => IInv'
  BY TypesKept, AttemptsKept, TopicsKept, SettingsKept DEF IInv, AttemptInv, SettingsInv

LEMMA Invariance == Spec => []IInv
  BY Initial, Inductive, PTL DEF Spec

\* However often and by however many a callback is loaded, an attempt opens at
\* most one session and a probe none (consumeAttempt() deletes what it reads).
THEOREM OneSessionPerAttempt == Spec => []AttemptIsSingleUse
  <1>1. IInv => AttemptIsSingleUse
    BY DEF IInv, AttemptInv, TypeOK, Single, AttemptIsSingleUse
  <1> QED BY <1>1, Invariance, PTL

\* Saves that do not overlap and do not fail end with the settings stored in
\* force, for any number of saves, other requests and restarts.
THEOREM SavesTakeEffect == Spec => []SavedIsInForce
  <1>1. IInv => SavedIsInForce
    BY DEF IInv, SettingsInv
  <1> QED BY <1>1, Invariance, PTL
=============================================================================
