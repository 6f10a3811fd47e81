--------------------------- MODULE AccountsProofs ---------------------------
(***************************************************************************)
(* Proofs about Accounts for any number of users, requests and sessions.   *)
(* What a request knows of an account stays true while it holds the row of *)
(* the account: nobody else writes there.                                  *)
(***************************************************************************)
EXTENDS Accounts, TLAPS

Holding == {"checking", "deciding", "writing"}

\* Whoever removes or demotes an administrator keeps the row of another one.
KeepsAnother(r) ==
    stage[r] = "writing" /\ task[r] \in {"remove", "demote"} /\ admin[about[r]]
        => \E v \in User \ {about[r]} : Usable(v) /\ row[v] = r

\* What request r may rely on.
Relies(r) ==
    /\ stage[r] # "idle" => about[r] \in User
    /\ stage[r] \in Holding => row[about[r]] = r
    /\ stage[r] = "checking" => read[r].failed = failed[about[r]]
    /\ stage[r] \in Holding /\ task[r] \notin {"create", "provision"} => known[about[r]]
    /\ stage[r] = "deciding" => task[r] \in {"remove", "demote"}
    /\ stage[r] = "inserting" => read[r].bound = read[r].version
    /\ stage[r] = "writing" /\ task[r] = "create" => ~known[about[r]]
    /\ KeepsAnother(r)

\* A session is bound to the credential its login proved.
BoundIsProved == \A s \in Session : session[s].version = session[s].proved

UnknownHasNone == \A u \in User : ~known[u] => ~Has(u)

IInv ==
    /\ TypeOK
    /\ EveryGuessCounts
    /\ BoundIsProved
    /\ UnknownHasNone
    /\ \A r \in Request : Relies(r)

-----------------------------------------------------------------------------
\* What a step of request r leaves to the others: their local state, the rows
\* they hold, and whatever is written in accounts r does not hold.
LeavesToOthers(r) ==
    /\ \A q \in Request \ {r} :
          stage'[q] = stage[q] /\ task'[q] = task[q] /\ about'[q] = about[q] /\ read'[q] = read[q]
    /\ \A u \in User : row[u] \in Request \ {r} =>
          /\ row'[u] = row[u]
          /\ known'[u] = known[u] /\ version'[u] = version[u] /\ admin'[u] = admin[u]
          /\ failed'[u] = failed[u] /\ locked'[u] = locked[u] /\ guesses'[u] = guesses[u]

LEMMA AnsweredTypes ==
    ASSUME TypeOK, NEW r \in Request, Answered(r)
    PROVE  /\ stage'[r] = "idle"
           /\ stage' \in [Request -> {"idle", "checking", "issuing", "inserting", "ready", "locked", "deciding", "writing"}]
           /\ task' \in [Request -> Managing \cup {"none", "login", "logout", "others"}]
           /\ about' \in [Request -> User \cup {None}]
           /\ via' \in [Request -> Session \cup {None}]
           /\ read' \in [Request -> [version : Nat, failed : Nat, bound : Nat]]
           /\ row' \in [User -> Request \cup {None}]
           /\ \A q \in Request \ {r} : stage'[q] = stage[q] /\ task'[q] = task[q] /\ about'[q] = about[q] /\ read'[q] = read[q]
           /\ \A u \in User : row[u] # r => row'[u] = row[u]
  BY DEF TypeOK, Answered, NoRow

LEMMA RotateTypes ==
    ASSUME TypeOK, NEW u \in User, Rotate(u)
    PROVE  /\ versions' \in Nat
           /\ version' \in [User -> Nat]
           /\ failed' \in [User -> Nat]
           /\ locked' \in [User -> BOOLEAN]
           /\ guesses' \in [User -> Nat]
           /\ session' \in [Session -> {NoSession} \cup [user : User, version : Nat, proved : Nat]]
  BY DEF TypeOK, Rotate, Forgive, Ends

LEMMA LockTypes ==
    ASSUME TypeOK, NEW r \in Request, NEW u \in User, TakeRow(r, u)
    PROVE  /\ row' \in [User -> Request \cup {None}]
           /\ about' \in [Request -> User \cup {None}]
           /\ read' \in [Request -> [version : Nat, failed : Nat, bound : Nat]]
  BY DEF TypeOK, TakeRow, RowOf, NoRow

\* A wrong password is counted, whether or not it locks the account.
LEMMA WrongPasswordTypes ==
    ASSUME TypeOK, NEW r \in Request, about[r] \in User, WrongPassword(r)
    PROVE  TypeOK'
  <1>1. failed' \in [User -> Nat] /\ guesses' \in [User -> Nat]
    BY DEF TypeOK, WrongPassword
  <1>2. locked' \in [User -> BOOLEAN]
    <2>1. Locks(read[r].failed + 1) \in BOOLEAN
      BY DEF Locks
    <2>2. locked' = [locked EXCEPT ![about[r]] = Locks(read[r].failed + 1)]
      BY DEF WrongPassword
    <2> QED BY <2>1, <2>2, Zenon DEF TypeOK
  <1> QED BY <1>1, <1>2, AnsweredTypes DEF TypeOK, WrongPassword

LEMMA WriteTypes ==
    ASSUME TypeOK, NEW r \in Request, about[r] \in User, Write(r)
    PROVE  TypeOK'
  <1>1. ASSUME NEW isAdmin \in BOOLEAN, Upsert(about[r], isAdmin) PROVE TypeOK'
    <2>1. known' \in [User -> BOOLEAN]
      BY <1>1 DEF TypeOK, Upsert
    <2>2. admin' \in [User -> BOOLEAN]
      BY <1>1, Zenon DEF TypeOK, Upsert
    <2> QED BY <1>1, <2>1, <2>2, RotateTypes, AnsweredTypes DEF TypeOK, Write, Upsert
  <1>2. CASE task[r] = "reset"
    BY <1>2, RotateTypes, AnsweredTypes DEF TypeOK, Write, Writes
  <1>3. CASE task[r] \in {"remove", "unlock"}
    <2>1. Forgive(about[r]) /\ UNCHANGED <<known, admin, versions>>
      BY <1>3 DEF Write, Writes
    <2>2. version' \in [User -> Nat]
      <3>1. version' = [version EXCEPT ![about[r]] = 0] \/ version' = version
        BY <1>3 DEF Write, Writes
      <3> QED BY <3>1 DEF TypeOK
    <2>3. session' \in [Session -> {NoSession} \cup [user : User, version : Nat, proved : Nat]]
      BY <1>3 DEF TypeOK, Write, Writes, Ends
    <2> QED BY <2>1, <2>2, <2>3, AnsweredTypes DEF TypeOK, Write, Forgive
  <1>4. CASE task[r] \in {"promote", "demote"}
    <2>1. admin' \in [User -> BOOLEAN]
      BY <1>4 DEF TypeOK, Write, Writes
    <2> QED BY <1>4, <2>1, AnsweredTypes DEF TypeOK, Write, Writes
  <1> QED BY <1>1, <1>2, <1>3, <1>4 DEF Write, Writes

LEMMA TypesKept == IInv /\ [Next]_vars => TypeOK'
  <1> SUFFICES ASSUME IInv, [Next]_vars PROVE TypeOK'
    OBVIOUS
  <1> USE AccountsAssumption
  <1> USE DEF IInv
  <1>0. \A r \in Request : stage[r] # "idle" => about[r] \in User
    BY DEF Relies
  <1>1. ASSUME NEW r \in Request, Abandon(r) \/ IssueRefused(r) \/ Reject(r) \/ NoOtherAdmin(r) PROVE TypeOK'
    BY <1>1, AnsweredTypes DEF TypeOK, Abandon, IssueRefused, Reject, NoOtherAdmin, accounts
  <1>2. ASSUME NEW r \in Request, LoginFails(r) \/ ChangeFails(r) PROVE TypeOK'
    BY <1>0, <1>2, WrongPasswordTypes DEF LoginFails, ChangeFails
  <1>3. ASSUME NEW r \in Request, NEW u \in User, Login(r, u) PROVE TypeOK'
    BY <1>3, LockTypes DEF TypeOK, Login, Goes, accounts
  <1>4. ASSUME NEW r \in Request, NEW u \in User, Provision(r, u) PROVE TypeOK'
    BY <1>4 DEF TypeOK, Provision, Goes, Managing, accounts
  <1>5. ASSUME NEW r \in Request, RightPassword(r) PROVE TypeOK'
    BY <1>0, <1>5 DEF TypeOK, RightPassword, Forgive, Goes
  <1>6. ASSUME NEW r \in Request, IssueReads(r) PROVE TypeOK'
    BY <1>0, <1>6 DEF TypeOK, IssueReads, Goes, accounts
  <1>7. ASSUME NEW r \in Request, NEW s \in Session, IssueCommits(r, s) PROVE TypeOK'
    BY <1>0, <1>7, AnsweredTypes DEF TypeOK, IssueCommits, accounts
  <1>8. ASSUME NEW r \in Request, NEW s \in Session, NEW what \in {"logout", "others", "change"},
               BeginOwn(r, s, what)
        PROVE  TypeOK'
    BY <1>8 DEF TypeOK, BeginOwn, Begin, Valid, Live, Goes, Managing, accounts
  <1>9. ASSUME NEW r \in Request, NEW s \in Session, NEW u \in User, NEW what \in Managing,
               BeginManaging(r, s, what, u)
        PROVE  TypeOK'
    BY <1>9 DEF TypeOK, BeginManaging, Begin, Goes, accounts
  <1>10. ASSUME NEW r \in Request, EndOtherSessions(r) \/ \E s \in Session : EndOwnSession(r, s) PROVE TypeOK'
    BY <1>10, AnsweredTypes DEF TypeOK, EndOtherSessions, EndOwnSession, Ends, accounts
  <1>11. ASSUME NEW r \in Request, Acquire(r) PROVE TypeOK'
    BY <1>11 DEF TypeOK, Acquire, Goes, accounts
  <1>12. ASSUME NEW r \in Request, LockAccount(r) PROVE TypeOK'
    BY <1>0, <1>12, LockTypes DEF TypeOK, LockAccount, Goes, accounts
  <1>13. ASSUME NEW r \in Request, Decide(r) PROVE TypeOK'
    BY <1>13 DEF TypeOK, Decide, RequireAnotherAdmin, Goes, accounts
  <1>14. ASSUME NEW r \in Request, Write(r) PROVE TypeOK'
    BY <1>0, <1>14, WriteTypes DEF Write
  <1>15. ASSUME NEW r \in Request, ChangePassword(r) PROVE TypeOK'
    BY <1>0, <1>15, RotateTypes, AnsweredTypes DEF TypeOK, ChangePassword
  <1>16. ASSUME NEW u \in User, Unlocks(u) PROVE TypeOK'
    BY <1>16 DEF TypeOK, Unlocks, requests
  <1>17. ASSUME NEW s \in Session, Expire(s) PROVE TypeOK'
    BY <1>17 DEF TypeOK, Expire, requests, accounts
  <1>18. CASE UNCHANGED vars
    BY <1>18 DEF TypeOK, vars, requests, accounts
  <1> QED BY <1>1, <1>2, <1>3, <1>4, <1>5, <1>6, <1>7, <1>8, <1>9, <1>10, <1>11, <1>12, <1>13, <1>14,
             <1>15, <1>16, <1>17, <1>18 DEF Next, RequestStep

-----------------------------------------------------------------------------
\* Whatever r does, it writes accounts whose row it holds and no other.
LEMMA Separation ==
    ASSUME IInv, NEW r \in Request, RequestStep(r)
    PROVE  LeavesToOthers(r)
  <1> USE AccountsAssumption
  <1> USE DEF IInv
  <1>0. /\ stage[r] # "idle" => about[r] \in User
        /\ stage[r] \in Holding => row[about[r]] = r
    BY DEF Relies
  <1>1. ASSUME Abandon(r) \/ IssueRefused(r) \/ Reject(r) \/ NoOtherAdmin(r) PROVE LeavesToOthers(r)
    BY <1>1, AnsweredTypes DEF LeavesToOthers, Abandon, IssueRefused, Reject, NoOtherAdmin, accounts
  <1>2. ASSUME LoginFails(r) \/ ChangeFails(r) PROVE LeavesToOthers(r)
    BY <1>0, <1>2, AnsweredTypes DEF TypeOK, LeavesToOthers, Holding, LoginFails, ChangeFails, WrongPassword
  <1>3. ASSUME NEW u \in User, Login(r, u) PROVE LeavesToOthers(r)
    BY <1>3 DEF TypeOK, LeavesToOthers, Login, TakeRow, Goes, accounts
  <1>4. ASSUME NEW u \in User, Provision(r, u) PROVE LeavesToOthers(r)
    BY <1>4 DEF TypeOK, LeavesToOthers, Provision, Goes, accounts
  <1>5. ASSUME RightPassword(r) PROVE LeavesToOthers(r)
    BY <1>0, <1>5 DEF TypeOK, LeavesToOthers, Holding, RightPassword, Forgive, Goes
  <1>6. ASSUME IssueReads(r) PROVE LeavesToOthers(r)
    BY <1>6 DEF TypeOK, LeavesToOthers, IssueReads, Goes, accounts
  <1>7. ASSUME NEW s \in Session, IssueCommits(r, s) PROVE LeavesToOthers(r)
    BY <1>7, AnsweredTypes DEF LeavesToOthers, IssueCommits, accounts
  <1>8. ASSUME NEW s \in Session, NEW what \in {"logout", "others", "change"}, BeginOwn(r, s, what)
        PROVE  LeavesToOthers(r)
    BY <1>8 DEF TypeOK, LeavesToOthers, BeginOwn, Begin, Goes, accounts
  <1>9. ASSUME NEW s \in Session, NEW u \in User, NEW what \in Managing, BeginManaging(r, s, what, u)
        PROVE  LeavesToOthers(r)
    BY <1>9 DEF TypeOK, LeavesToOthers, BeginManaging, Begin, Goes, accounts
  <1>10. ASSUME EndOtherSessions(r) \/ \E s \in Session : EndOwnSession(r, s) PROVE LeavesToOthers(r)
    BY <1>10, AnsweredTypes DEF LeavesToOthers, EndOtherSessions, EndOwnSession, accounts
  <1>11. ASSUME Acquire(r) PROVE LeavesToOthers(r)
    BY <1>11 DEF TypeOK, LeavesToOthers, Acquire, Goes, accounts
  <1>12. ASSUME LockAccount(r) PROVE LeavesToOthers(r)
    BY <1>0, <1>12 DEF TypeOK, LeavesToOthers, LockAccount, TakeRow, Goes, accounts
  <1>13. ASSUME Decide(r) PROVE LeavesToOthers(r)
    BY <1>13 DEF TypeOK, LeavesToOthers, Decide, RequireAnotherAdmin, Goes, accounts
  <1>14. ASSUME Write(r) PROVE LeavesToOthers(r)
    <2>1. row[about[r]] = r
      BY <1>0, <1>14 DEF Holding, Write
    <2>2. \A u \in User \ {about[r]} :
             /\ known'[u] = known[u] /\ version'[u] = version[u] /\ admin'[u] = admin[u]
             /\ failed'[u] = failed[u] /\ locked'[u] = locked[u] /\ guesses'[u] = guesses[u]
      BY <1>14 DEF TypeOK, Write, Writes, Upsert, Rotate, Forgive
    <2> QED BY <1>14, <2>1, <2>2, AnsweredTypes DEF LeavesToOthers, Write
  <1>15. ASSUME ChangePassword(r) PROVE LeavesToOthers(r)
    <2>1. row[about[r]] = r
      BY <1>0, <1>15 DEF Holding, ChangePassword
    <2>2. \A u \in User \ {about[r]} :
             /\ known'[u] = known[u] /\ version'[u] = version[u] /\ admin'[u] = admin[u]
             /\ failed'[u] = failed[u] /\ locked'[u] = locked[u] /\ guesses'[u] = guesses[u]
      BY <1>15 DEF TypeOK, ChangePassword, Rotate, Forgive
    <2> QED BY <1>15, <2>1, <2>2, AnsweredTypes DEF LeavesToOthers, ChangePassword
  <1> QED BY <1>1, <1>2, <1>3, <1>4, <1>5, <1>6, <1>7, <1>8, <1>9, <1>10, <1>11, <1>12, <1>13, <1>14, <1>15
          DEF RequestStep

\* So what another request relies on is undisturbed.
LEMMA OthersRely ==
    ASSUME IInv, NEW r \in Request, RequestStep(r), NEW q \in Request \ {r}
    PROVE  Relies(q)'
  <1>1. LeavesToOthers(r)
    BY Separation
  <1>2. stage'[q] = stage[q] /\ task'[q] = task[q] /\ about'[q] = about[q] /\ read'[q] = read[q]
    BY <1>1 DEF LeavesToOthers
  <1>3. CASE stage[q] \in Holding
    <2>1. about[q] \in User /\ row[about[q]] = q /\ Relies(q)
      BY <1>3 DEF IInv, Relies, Holding
    <2>2. /\ row'[about[q]] = q
          /\ known'[about[q]] = known[about[q]] /\ failed'[about[q]] = failed[about[q]]
          /\ admin'[about[q]] = admin[about[q]]
      BY <1>1, <2>1 DEF LeavesToOthers
    <2>3. \A v \in User : row[v] = q => row'[v] = q /\ (Usable(v) => Usable(v)')
      BY <1>1 DEF LeavesToOthers, Usable, Has
    <2>4. KeepsAnother(q)'
      BY <1>2, <2>1, <2>2, <2>3 DEF Relies, KeepsAnother
    <2> QED BY <1>2, <2>1, <2>2, <2>4 DEF Relies, Holding
  <1>4. CASE stage[q] \notin Holding
    BY <1>2, <1>4 DEF IInv, Relies, KeepsAnother, Holding
  <1> QED BY <1>3, <1>4

\* What r finds out for itself.
LEMMA Establishes ==
    ASSUME IInv, NEW r \in Request, RequestStep(r), TypeOK'
    PROVE  Relies(r)'
  <1> USE AccountsAssumption
  <1> USE DEF IInv
  <1>0. stage[r] # "idle" => about[r] \in User
    BY DEF Relies
  <1>1. ASSUME stage'[r] = "idle" PROVE Relies(r)'
    BY <1>1 DEF Relies, KeepsAnother, Holding
  <1>2. ASSUME Answered(r) PROVE Relies(r)'
    BY <1>1, <1>2, AnsweredTypes
  <1>3. ASSUME NEW u \in User, Login(r, u) PROVE Relies(r)'
    BY <1>3 DEF TypeOK, UnknownHasNone, Relies, KeepsAnother, Holding, Login, TakeRow, RowOf, NoRow, Goes, accounts
  <1>4. ASSUME NEW u \in User, Provision(r, u) PROVE Relies(r)'
    BY <1>4 DEF TypeOK, Relies, KeepsAnother, Holding, Provision, Goes, accounts
  <1>5. ASSUME RightPassword(r) PROVE Relies(r)'
    BY <1>0, <1>5 DEF TypeOK, Relies, KeepsAnother, Holding, RightPassword, Goes
  <1>6. ASSUME IssueReads(r) PROVE Relies(r)'
    BY <1>0, <1>6 DEF TypeOK, Relies, KeepsAnother, Holding, IssueReads, Fence, Goes, accounts
  <1>8. ASSUME NEW s \in Session, NEW what \in {"logout", "others", "change"}, BeginOwn(r, s, what)
        PROVE  Relies(r)'
    BY <1>8 DEF TypeOK, Relies, KeepsAnother, Holding, BeginOwn, Begin, Valid, Live, NoSession, Goes, accounts
  <1>9. ASSUME NEW s \in Session, NEW u \in User, NEW what \in Managing, BeginManaging(r, s, what, u)
        PROVE  Relies(r)'
    BY <1>9 DEF TypeOK, Relies, KeepsAnother, Holding, BeginManaging, Begin, Goes, accounts
  <1>11. ASSUME Acquire(r) PROVE Relies(r)'
    BY <1>0, <1>11 DEF TypeOK, Relies, KeepsAnother, Holding, Acquire, Goes, accounts
  <1>12. ASSUME LockAccount(r) PROVE Relies(r)'
    BY <1>0, <1>12 DEF TypeOK, UnknownHasNone, Relies, KeepsAnother, Holding, LockAccount, TakesAdmin, Admissible,
                       TakeRow, RowOf, NoRow, Goes, accounts
  <1>13. ASSUME Decide(r) PROVE Relies(r)'
    <2>1. about[r] \in User /\ row[about[r]] = r
      BY <1>0, <1>13 DEF Relies, Holding, Decide
    <2>2. stage'[r] = "writing" /\ UNCHANGED <<accounts, task, about, read>>
      BY <1>13 DEF TypeOK, Decide, Goes
    <2>3. task[r] \in {"remove", "demote"} /\ known[about[r]]
      BY <1>13 DEF Relies, Holding, Decide
    <2>4. row'[about[r]] = r
      BY <1>13, <2>1 DEF TypeOK, Decide, RequireAnotherAdmin, OtherAdmins
    <2>5. PICK v \in OtherAdmins(about[r]) : row'[v] = r
      BY <1>13 DEF TypeOK, Decide, RequireAnotherAdmin, OtherAdmins
    <2>6. v \in User \ {about[r]} /\ Usable(v)'
      BY <2>2, <2>5 DEF OtherAdmins, Usable, Has, accounts
    <2> QED BY <2>1, <2>2, <2>3, <2>4, <2>5, <2>6 DEF Relies, KeepsAnother, Holding, accounts
  <1> QED BY <1>2, <1>3, <1>4, <1>5, <1>6, <1>8, <1>9, <1>11, <1>12, <1>13
          DEF RequestStep, Abandon, IssueRefused, Reject, NoOtherAdmin, LoginFails, ChangeFails, WrongPassword,
              IssueCommits, EndOtherSessions, EndOwnSession, Write, ChangePassword

-----------------------------------------------------------------------------
\* The parts of IInv about accounts and sessions.
LEMMA CountsKept == IInv /\ [Next]_vars => EveryGuessCounts'
  <1> SUFFICES ASSUME IInv, [Next]_vars PROVE EveryGuessCounts'
    OBVIOUS
  <1> USE DEF IInv
  <1>1. ASSUME NEW r \in Request, LoginFails(r) \/ ChangeFails(r) PROVE EveryGuessCounts'
    <2>1. about[r] \in User /\ read[r].failed = failed[about[r]]
      BY <1>1 DEF Relies, LoginFails, ChangeFails
    <2> QED BY <1>1, <2>1 DEF TypeOK, EveryGuessCounts, LoginFails, ChangeFails, WrongPassword
  <1>2. ASSUME NEW u \in User, Forgive(u) PROVE EveryGuessCounts'
    BY <1>2 DEF TypeOK, EveryGuessCounts, Forgive
  <1>3. ASSUME UNCHANGED <<failed, guesses>> PROVE EveryGuessCounts'
    BY <1>3 DEF EveryGuessCounts
  <1>4. ASSUME NEW r \in Request, RightPassword(r) \/ Write(r) \/ ChangePassword(r) PROVE EveryGuessCounts'
    <2>1. about[r] \in User
      BY <1>4 DEF Relies, RightPassword, Write, ChangePassword
    <2>2. Forgive(about[r]) \/ UNCHANGED <<failed, guesses>>
      BY <1>4 DEF RightPassword, Write, Writes, Upsert, Rotate, ChangePassword
    <2> QED BY <1>2, <1>3, <2>1, <2>2
  <1> QED BY <1>1, <1>3, <1>4
          DEF Next, RequestStep, Abandon, Login, Provision, IssueReads, IssueRefused, IssueCommits,
              BeginOwn, BeginManaging, EndOwnSession, EndOtherSessions, Acquire, LockAccount, Reject,
              Decide, NoOtherAdmin, Unlocks, Expire, accounts, vars

LEMMA SessionsKept == IInv /\ [Next]_vars => BoundIsProved'
  <1> SUFFICES ASSUME IInv, [Next]_vars PROVE BoundIsProved'
    OBVIOUS
  <1> USE DEF IInv
  <1>1. ASSUME NEW r \in Request, NEW s \in Session, IssueCommits(r, s) PROVE BoundIsProved'
    <2>1. read[r].bound = read[r].version
      BY <1>1 DEF Relies, IssueCommits
    <2> QED BY <1>1, <2>1 DEF TypeOK, BoundIsProved, IssueCommits
  <1>2. ASSUME NEW gone \in SUBSET Session, Ends(gone) PROVE BoundIsProved'
    BY <1>2 DEF TypeOK, BoundIsProved, Ends, NoSession
  <1>3. ASSUME UNCHANGED session PROVE BoundIsProved'
    BY <1>3 DEF BoundIsProved
  <1>4. ASSUME NEW r \in Request, EndOtherSessions(r) \/ Write(r) \/ ChangePassword(r)
                                  \/ \E s \in Session : EndOwnSession(r, s)
        PROVE  BoundIsProved'
    <2>1. UNCHANGED session \/ \E gone \in SUBSET Session : Ends(gone)
      BY <1>4 DEF EndOtherSessions, EndOwnSession, Write, Writes, Upsert, Rotate, ChangePassword, SessionsOf
    <2> QED BY <1>2, <1>3, <2>1
  <1>5. ASSUME NEW s \in Session, Expire(s) PROVE BoundIsProved'
    BY <1>5 DEF TypeOK, BoundIsProved, Expire, NoSession
  <1> QED BY <1>1, <1>3, <1>4, <1>5
          DEF Next, RequestStep, Abandon, Login, LoginFails, ChangeFails, WrongPassword, RightPassword,
              Provision, IssueReads, IssueRefused, BeginOwn, BeginManaging, Acquire, LockAccount, Reject,
              Decide, NoOtherAdmin, Unlocks, vars

LEMMA UnknownKept == IInv /\ [Next]_vars => UnknownHasNone'
  <1> SUFFICES ASSUME IInv, [Next]_vars PROVE UnknownHasNone'
    OBVIOUS
  <1> USE DEF IInv
  <1>1. ASSUME NEW r \in Request, Write(r) PROVE UnknownHasNone'
    <2>1. about[r] \in User
      BY <1>1 DEF Relies, Write
    <2>2. ASSUME NEW isAdmin \in BOOLEAN, Upsert(about[r], isAdmin) PROVE UnknownHasNone'
      BY <2>1, <2>2 DEF TypeOK, UnknownHasNone, Has, Upsert, Rotate
    <2>3. CASE task[r] = "reset"
      <3>1. known[about[r]]
        BY <1>1, <2>3 DEF Relies, Holding, Write
      <3> QED BY <1>1, <2>1, <2>3, <3>1 DEF TypeOK, UnknownHasNone, Has, Write, Writes, Rotate
    <2> QED BY <1>1, <2>1, <2>2, <2>3 DEF TypeOK, UnknownHasNone, Has, Write, Writes
  <1>2. ASSUME NEW r \in Request, ChangePassword(r) PROVE UnknownHasNone'
    <2>1. about[r] \in User /\ known[about[r]]
      BY <1>2 DEF Relies, Holding, ChangePassword
    <2> QED BY <1>2, <2>1 DEF TypeOK, UnknownHasNone, Has, ChangePassword, Rotate
  <1>3. ASSUME UNCHANGED <<known, version>> PROVE UnknownHasNone'
    BY <1>3 DEF UnknownHasNone, Has
  <1> QED BY <1>1, <1>2, <1>3
          DEF Next, RequestStep, Abandon, Login, LoginFails, ChangeFails, WrongPassword, RightPassword,
              Provision, IssueReads, IssueRefused, IssueCommits, BeginOwn, BeginManaging, EndOwnSession,
              EndOtherSessions, Acquire, LockAccount, Reject, Decide, NoOtherAdmin, Unlocks, Expire,
              accounts, vars

-----------------------------------------------------------------------------
LEMMA Initial == Init => IInv
  <1> SUFFICES ASSUME Init PROVE IInv
    OBVIOUS
  <1> USE AccountsAssumption DEF Init
  <1>1. admin \in [User -> BOOLEAN] /\ known \in [User -> BOOLEAN]
    BY Zenon
  <1>2. TypeOK
    BY <1>1 DEF TypeOK, NoSession, NoRow
  <1>3. EveryGuessCounts /\ BoundIsProved /\ \A r \in Request : Relies(r)
    BY DEF EveryGuessCounts, BoundIsProved, NoSession, Relies, KeepsAnother, Holding
  <1>4. UnknownHasNone
    BY DEF UnknownHasNone, Has
  <1> QED BY <1>2, <1>3, <1>4 DEF IInv

LEMMA Inductive == IInv /\ [Next]_vars => IInv'
  <1> SUFFICES ASSUME IInv, [Next]_vars PROVE IInv'
    OBVIOUS
  <1>1. TypeOK' /\ EveryGuessCounts' /\ BoundIsProved' /\ UnknownHasNone'
    BY TypesKept, CountsKept, SessionsKept, UnknownKept
  <1>2. ASSUME NEW q \in Request PROVE Relies(q)'
    <2>1. ASSUME NEW r \in Request, RequestStep(r) PROVE Relies(q)'
      BY <1>1, <2>1, OthersRely, Establishes
    <2>2. ASSUME NEW u \in User, Unlocks(u) PROVE Relies(q)'
      <3>1. \A v \in User : Usable(v) => Usable(v)'
        BY <2>2 DEF IInv, TypeOK, Unlocks, Usable, Has
      <3> QED BY <2>2, <3>1 DEF IInv, Relies, KeepsAnother, Unlocks, requests
    <2>3. CASE (\E s \in Session : Expire(s)) \/ UNCHANGED vars
      BY <2>3 DEF IInv, Relies, KeepsAnother, Usable, Has, Expire, requests, accounts, vars
    <2> QED BY <2>1, <2>2, <2>3 DEF Next
  <1> QED BY <1>1, <1>2 DEF IInv

LEMMA Invariance == Spec => []IInv
  BY Initial, Inductive, PTL DEF Spec

\* Every variable of the accounts keeps its type.
THEOREM TypeCorrect == Spec => []TypeOK
  <1>1. IInv => TypeOK
    BY DEF IInv
  <1> QED BY <1>1, Invariance, PTL

\* Guesses that arrive at the same time, or beside a change of the password,
\* are all counted (LocalLoginService.login() holds the row from the read of
\* failed_attempts to its commit).
THEOREM GuessesCount == Spec => []EveryGuessCounts
  <1>1. IInv => EveryGuessCounts
    BY DEF IInv
  <1> QED BY <1>1, Invariance, PTL

\* No session outlives the password it was opened with, although login and
\* session are two transactions (issueSession() compares the version).
THEOREM OldPasswordDies == Spec => []OldPasswordIsDead
  <1>1. IInv => OldPasswordIsDead
    BY DEF IInv, BoundIsProved, OldPasswordIsDead, Valid
  <1> QED BY <1>1, Invariance, PTL

\* An administrator who loses the role or the account leaves another one who
\* can sign in (requireAnotherAdmin() keeps the row of one it has seen).
THEOREM AdminRemains == Spec => AnotherAdminRemains
  <1> DEFINE Rules(u) == admin[u] /\ Has(u)
             Succeeded == \A u \in User : Rules(u) /\ ~Rules(u)' => \E v \in User \ {u} : Usable(v)'
  <1>1. ASSUME IInv, [Next]_vars PROVE [Succeeded]_vars
    <2> SUFFICES ASSUME NEW u \in User, Rules(u), ~Rules(u)', Next
                 PROVE  \E v \in User \ {u} : Usable(v)'
      BY <1>1
    <2> USE <1>1 DEF IInv
    <2>1. PICK r \in Request : Write(r)
      <3>1. ~UNCHANGED <<version, admin>>
        BY DEF Has
      <3>2. ~\E r \in Request : ChangePassword(r)
        BY DEF TypeOK, Has, ChangePassword, Rotate
      <3> QED BY <3>1, <3>2
              DEF Next, RequestStep, Abandon, Login, LoginFails, ChangeFails, WrongPassword, RightPassword,
                  Provision, IssueReads, IssueRefused, IssueCommits, BeginOwn, BeginManaging, EndOwnSession,
                  EndOtherSessions, Acquire, LockAccount, Reject, Decide, NoOtherAdmin, Unlocks, Expire, accounts
    <2>2. about[r] \in User /\ row[about[r]] = r /\ KeepsAnother(r)
      BY <2>1 DEF Relies, Holding, Write
    <2>3. u = about[r] /\ task[r] \in {"remove", "demote"}
      BY <2>1, <2>2 DEF TypeOK, Relies, UnknownHasNone, Has, Write, Writes, Upsert, Rotate
    <2>4. PICK v \in User \ {u} : Usable(v) /\ row[v] = r
      BY <2>1, <2>2, <2>3 DEF KeepsAnother, Write
    <2>5. Usable(v)'
      BY <2>1, <2>3, <2>4 DEF TypeOK, Usable, Has, Write, Writes, Forgive
    <2> QED BY <2>5
  <1> QED BY <1>1, Invariance, PTL DEF Spec, AnotherAdminRemains
=============================================================================
