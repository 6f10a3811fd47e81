------------------------------ MODULE Accounts ------------------------------
(***************************************************************************)
(* Local accounts and the web sessions opened with them.  Logins lock the  *)
(* row of the account; the requests that manage accounts take one advisory *)
(* lock first.  A login is two transactions: one checks the password, the  *)
(* next opens the session, and the password may change between them.       *)
(***************************************************************************)
EXTENDS Naturals, FiniteSets

CONSTANTS User, Admin,   \* local user names; the one the installation made
          Request, Session, None,
          Threshold,     \* LOCKOUT_THRESHOLD
          MaxVersions,   \* bound on credential versions
          MaxGuesses     \* bound on wrong passwords in a row

ASSUME AccountsAssumption ==
    /\ Admin \in User
    /\ None \notin User \cup Request \cup Session
    /\ Threshold \in Nat \ {0}
    /\ MaxVersions \in Nat \ {0}
    /\ MaxGuesses \in Nat

VARIABLES known,    \* a users row with the subject local:<name> exists
          version,  \* credential_version, 0 without a credential
          admin,    \* is_system_admin
          failed,   \* failed_attempts
          locked,   \* locked_until > now()
          session,  \* live rows of web_sessions
          versions, \* the versions drawn so far
          stage,    \* where a request waits
          task,     \* what it does
          about,    \* the account it is about
          via,      \* the session it came with
          read,     \* what it read of the row; the version its session will have
          row,      \* who holds the row of an account FOR UPDATE
          guesses   \* history: wrong passwords since the last reset

accounts == <<known, version, admin, failed, locked, versions, guesses>>
requests == <<stage, task, about, via, read>>
vars     == <<accounts, session, requests, row>>

NoSession == [user |-> None, version |-> 0, proved |-> 0]
NoRow     == [version |-> 0, failed |-> 0, bound |-> 0]

Init ==
    /\ known = [u \in User |-> u = Admin]
    /\ version = [u \in User |-> IF u = Admin THEN 1 ELSE 0]
    /\ admin = [u \in User |-> u = Admin]
    /\ failed = [u \in User |-> 0]
    /\ locked = [u \in User |-> FALSE]
    /\ session = [s \in Session |-> NoSession]
    /\ versions = 1
    /\ stage = [r \in Request |-> "idle"]
    /\ task = [r \in Request |-> "none"]
    /\ about = [r \in Request |-> None]
    /\ via = [r \in Request |-> None]
    /\ read = [r \in Request |-> NoRow]
    /\ row = [u \in User |-> None]
    /\ guesses = [u \in User |-> 0]

Has(u)    == version[u] # 0
RowOf(u)  == [NoRow EXCEPT !.version = version[u], !.failed = failed[u]]
Live(s)   == session[s] # NoSession

\* authenticate(): the row is live and bound to the present credential.
Valid(s) == Live(s) /\ Has(session[s].user) /\ session[s].version = version[session[s].user]

\* The request is answered; a transaction it had open has ended.
Answered(r) ==
    /\ stage' = [stage EXCEPT ![r] = "idle"]
    /\ task' = [task EXCEPT ![r] = "none"]
    /\ about' = [about EXCEPT ![r] = None]
    /\ via' = [via EXCEPT ![r] = None]
    /\ read' = [read EXCEPT ![r] = NoRow]
    /\ row' = [u \in User |-> IF row[u] = r THEN None ELSE row[u]]

Goes(r, to) == stage' = [stage EXCEPT ![r] = to]

\* A statement fails or times out, or the process dies: a rollback.
Abandon(r) ==
    /\ stage[r] # "idle"
    /\ Answered(r)
    /\ UNCHANGED <<accounts, session>>

-----------------------------------------------------------------------------
(* The lockout.                                                            *)

\* A lock passes with time; the count stays.
Unlocks(u) ==
    /\ locked[u]
    /\ locked' = [locked EXCEPT ![u] = FALSE]
    /\ UNCHANGED <<known, version, admin, failed, versions, guesses, session, requests, row>>

\* Every fifth wrong password in a row.
Locks(n) == n % Threshold = 0

\* The count that was read, and one more.
WrongPassword(r) ==
    LET u == about[r]
        n == read[r].failed + 1
    IN  /\ guesses[u] < MaxGuesses
        /\ failed' = [failed EXCEPT ![u] = n]
        /\ locked' = [locked EXCEPT ![u] = Locks(n)]
        /\ guesses' = [guesses EXCEPT ![u] = @ + 1]
        /\ Answered(r)
        /\ UNCHANGED <<known, version, admin, versions, session>>

Forgive(u) ==
    /\ failed' = [failed EXCEPT ![u] = 0]
    /\ locked' = [locked EXCEPT ![u] = FALSE]
    /\ guesses' = [guesses EXCEPT ![u] = 0]

-----------------------------------------------------------------------------
(* Login and sessions.                                                     *)

\* Mutation: the login reads the row without locking it.
ReadsRow(r, u) ==
    /\ row' = row
    /\ about' = [about EXCEPT ![r] = u]
    /\ read' = [read EXCEPT ![r] = RowOf(u)]

\* SELECT ... FOR UPDATE waits for the row and then reads it.
TakeRow(r, u) ==
    /\ row[u] = None
    /\ row' = [row EXCEPT ![u] = r]
    /\ about' = [about EXCEPT ![r] = u]
    /\ read' = [read EXCEPT ![r] = RowOf(u)]

\* An unknown or locked account is refused like a wrong password.
Login(r, u) ==
    /\ stage[r] = "idle"
    /\ Has(u)
    /\ ~locked[u]
    /\ TakeRow(r, u)
    /\ Goes(r, "checking")
    /\ task' = [task EXCEPT ![r] = "login"]
    /\ UNCHANGED <<accounts, session, via>>

RightPassword(r) ==
    /\ stage[r] = "checking"
    /\ task[r] = "login"
    /\ Forgive(about[r])
    /\ row' = [row EXCEPT ![about[r]] = None]
    /\ Goes(r, "issuing")
    /\ UNCHANGED <<known, version, admin, versions, session, task, about, via, read>>

LoginFails(r) ==
    /\ stage[r] = "checking"
    /\ task[r] = "login"
    /\ WrongPassword(r)

\* Mutation: the session is bound to the credential of the moment.
FenceOpen(u, seen) == Has(u) /\ ~locked[u]

\* What issueSession's SELECT finds: the credential that was checked, not locked.
Fence(u, seen) == Has(u) /\ version[u] = seen /\ ~locked[u]

\* INSERT ... SELECT reads the credential without locking it ...
IssueReads(r) ==
    /\ stage[r] = "issuing"
    /\ Fence(about[r], read[r].version)
    /\ Goes(r, "inserting")
    /\ read' = [read EXCEPT ![r].bound = version[about[r]]]
    /\ UNCHANGED <<accounts, session, task, about, via, row>>

IssueRefused(r) ==
    /\ stage[r] = "issuing"
    /\ ~Fence(about[r], read[r].version)
    /\ Answered(r)
    /\ UNCHANGED <<accounts, session>>

\* ... and its row is seen by others when it commits, maybe after a rotation.
IssueCommits(r, s) ==
    /\ stage[r] = "inserting"
    /\ ~Live(s)
    /\ session' = [session EXCEPT ![s] =
          [user |-> about[r], version |-> read[r].bound, proved |-> read[r].version]]
    /\ Answered(r)
    /\ UNCHANGED accounts

\* 12 hours.
Expire(s) ==
    /\ Live(s)
    /\ session' = [session EXCEPT ![s] = NoSession]
    /\ UNCHANGED <<accounts, requests, row>>

-----------------------------------------------------------------------------
(* Requests that come with a session.                                      *)

\* adminApi(): the session is checked once, when the request comes.
Begin(r, s, what) ==
    /\ stage[r] = "idle"
    /\ Valid(s)
    /\ Goes(r, "ready")
    /\ task' = [task EXCEPT ![r] = what]
    /\ via' = [via EXCEPT ![r] = s]

\* "Log out", "end my other sessions", "change my password".
BeginOwn(r, s, what) ==
    /\ Begin(r, s, what)
    /\ about' = [about EXCEPT ![r] = session[s].user]
    /\ UNCHANGED <<accounts, session, read, row>>

\* An administrator manages account u.
BeginManaging(r, s, what, u) ==
    /\ Begin(r, s, what)
    /\ admin[session[s].user]
    /\ about' = [about EXCEPT ![r] = u]
    /\ UNCHANGED <<accounts, session, read, row>>

Ends(gone) == session' = [s \in Session |-> IF s \in gone THEN NoSession ELSE session[s]]
SessionsOf(u) == {s \in Session : session[s].user = u}

EndOwnSession(r, s) ==
    /\ stage[r] = "ready"
    /\ task[r] = "logout"
    /\ s \in SessionsOf(about[r])
    /\ Ends({s})
    /\ Answered(r)
    /\ UNCHANGED accounts

EndOtherSessions(r) ==
    /\ stage[r] = "ready"
    /\ task[r] = "others"
    /\ Ends(SessionsOf(about[r]) \ {via[r]})
    /\ Answered(r)
    /\ UNCHANGED accounts

-----------------------------------------------------------------------------
(* Account management: transaction() holds one lock for all of it.         *)

Managing == {"create", "reset", "remove", "promote", "demote", "unlock", "change", "provision"}
InTransaction == {r \in Request : stage[r] \in {"locked", "checking", "deciding", "writing"}
                                  /\ task[r] \in Managing}

\* At boot the server declares the administrator of its environment.
Provision(r, u) ==
    /\ stage[r] = "idle"
    /\ Goes(r, "ready")
    /\ task' = [task EXCEPT ![r] = "provision"]
    /\ about' = [about EXCEPT ![r] = u]
    /\ UNCHANGED <<accounts, session, via, read, row>>

\* pg_advisory_xact_lock.
Acquire(r) ==
    /\ stage[r] = "ready"
    /\ task[r] \in Managing
    /\ InTransaction = {}
    /\ Goes(r, "locked")
    /\ UNCHANGED <<accounts, session, task, about, via, read, row>>

\* The account must exist, for a creation it must not: names stay taken when
\* their credential is removed.
Admissible(r) ==
    CASE task[r] = "create"    -> ~known[about[r]]
      [] task[r] = "provision" -> TRUE
      [] task[r] = "change"    -> Has(about[r]) /\ ~locked[about[r]]
      [] OTHER                 -> Has(about[r])

\* Removing or demoting an administrator takes another one.
TakesAdmin(r) == task[r] \in {"remove", "demote"} /\ admin[about[r]]

LockAccount(r) ==
    /\ stage[r] = "locked"
    /\ Admissible(r)
    /\ TakeRow(r, about[r])
    /\ Goes(r, CASE task[r] = "change" -> "checking"
                 [] TakesAdmin(r)      -> "deciding"
                 [] OTHER              -> "writing")
    /\ UNCHANGED <<accounts, session, task, via>>

Reject(r) ==
    /\ stage[r] = "locked"
    /\ ~Admissible(r)
    /\ row[about[r]] = None
    /\ Answered(r)
    /\ UNCHANGED <<accounts, session>>

OtherAdmins(u) == {v \in User \ {u} : admin[v] /\ Has(v) /\ ~locked[v]}

\* Mutation: the other administrators are read, not locked.
SeesAnotherAdmin(r) ==
    /\ OtherAdmins(about[r]) # {}
    /\ UNCHANGED row

\* requireAnotherAdmin(): waits for the rows of the others and keeps them.
RequireAnotherAdmin(r) ==
    LET others == OtherAdmins(about[r]) IN
    /\ others # {}
    /\ \A v \in others : row[v] = None
    /\ row' = [u \in User |-> IF u \in others THEN r ELSE row[u]]

Decide(r) ==
    /\ stage[r] = "deciding"
    /\ RequireAnotherAdmin(r)
    /\ Goes(r, "writing")
    /\ UNCHANGED <<accounts, session, task, about, via, read>>

NoOtherAdmin(r) ==
    /\ stage[r] = "deciding"
    /\ OtherAdmins(about[r]) = {}
    /\ Answered(r)
    /\ UNCHANGED <<accounts, session>>

\* rotatePassword() with a new version, and revokeLocalSessions().
Rotate(u) ==
    /\ versions < MaxVersions
    /\ versions' = versions + 1
    /\ version' = [version EXCEPT ![u] = versions + 1]
    /\ Forgive(u)
    /\ Ends(SessionsOf(u))

Upsert(u, isAdmin) ==
    /\ Rotate(u)
    /\ known' = [known EXCEPT ![u] = TRUE]
    /\ admin' = [admin EXCEPT ![u] = isAdmin]

Writes(r) ==
    LET u == about[r] IN
    \/ task[r] = "create" /\ \E isAdmin \in BOOLEAN : Upsert(u, isAdmin)
    \/ task[r] = "provision" /\ Upsert(u, TRUE)
    \/ task[r] = "reset" /\ Rotate(u) /\ UNCHANGED <<known, admin>>
    \/ /\ task[r] = "remove"
       /\ version' = [version EXCEPT ![u] = 0]
       /\ Forgive(u)
       /\ Ends(SessionsOf(u))
       /\ UNCHANGED <<known, admin, versions>>
    \/ /\ task[r] \in {"promote", "demote"}
       /\ admin' = [admin EXCEPT ![u] = task[r] = "promote"]
       /\ UNCHANGED <<known, version, failed, locked, versions, guesses, session>>
    \/ /\ task[r] = "unlock"
       /\ Forgive(u)
       /\ UNCHANGED <<known, version, admin, versions, session>>

Write(r) ==
    /\ stage[r] = "writing"
    /\ Writes(r)
    /\ Answered(r)

\* changePassword(): the present password is checked under the lock.
ChangePassword(r) ==
    /\ stage[r] = "checking"
    /\ task[r] = "change"
    /\ Rotate(about[r])
    /\ Answered(r)
    /\ UNCHANGED <<known, admin>>

\* A wrong guess is committed, not rolled back.
ChangeFails(r) ==
    /\ stage[r] = "checking"
    /\ task[r] = "change"
    /\ WrongPassword(r)

-----------------------------------------------------------------------------
RequestStep(r) ==
    \/ Abandon(r)
    \/ \E u \in User : Login(r, u) \/ Provision(r, u)
    \/ RightPassword(r) \/ LoginFails(r)
    \/ IssueReads(r) \/ IssueRefused(r) \/ \E s \in Session : IssueCommits(r, s)
    \/ \E s \in Session :
          \/ \E what \in {"logout", "others", "change"} : BeginOwn(r, s, what)
          \/ \E what \in Managing \ {"change", "provision"}, u \in User : BeginManaging(r, s, what, u)
          \/ EndOwnSession(r, s)
    \/ EndOtherSessions(r)
    \/ Acquire(r) \/ LockAccount(r) \/ Reject(r) \/ Decide(r) \/ NoOtherAdmin(r) \/ Write(r)
    \/ ChangePassword(r) \/ ChangeFails(r)

Next ==
    \/ \E r \in Request : RequestStep(r)
    \/ \E u \in User : Unlocks(u)
    \/ \E s \in Session : Expire(s)

Spec == Init /\ [][Next]_vars

-----------------------------------------------------------------------------
TypeOK ==
    /\ known \in [User -> BOOLEAN]
    /\ version \in [User -> Nat]
    /\ admin \in [User -> BOOLEAN]
    /\ failed \in [User -> Nat]
    /\ locked \in [User -> BOOLEAN]
    /\ session \in [Session -> {NoSession} \cup [user : User, version : Nat, proved : Nat]]
    /\ versions \in Nat
    /\ stage \in [Request -> {"idle", "checking", "issuing", "inserting", "ready", "locked", "deciding", "writing"}]
    /\ task \in [Request -> Managing \cup {"none", "login", "logout", "others"}]
    /\ about \in [Request -> User \cup {None}]
    /\ via \in [Request -> Session \cup {None}]
    /\ read \in [Request -> [version : Nat, failed : Nat, bound : Nat]]
    /\ row \in [User -> Request \cup {None}]
    /\ guesses \in [User -> Nat]

\* A session that is accepted was opened with the password of today, whenever
\* the password changed while its login was on its way (README: a login with
\* the old password leaves no usable session behind a reset).
OldPasswordIsDead == \A s \in Session : Valid(s) => session[s].proved = version[session[s].user]

\* Usable: an account that can sign in and manage the others.
Usable(u) == admin[u] /\ Has(u) /\ ~locked[u]

\* Removing or demoting an administrator, by whomever and beside whatever
\* logins, leaves another one that is not locked (requireAnotherAdmin).
AnotherAdminRemains ==
    [][\A u \in User : admin[u] /\ Has(u) /\ ~(admin[u] /\ Has(u))'
          => \E v \in User \ {u} : Usable(v)']_vars

\* No wrong password goes uncounted, however logins and changes of the
\* password interleave: guesses sent at the same time do not share a count.
EveryGuessCounts == \A u \in User : failed[u] = guesses[u]

=============================================================================
