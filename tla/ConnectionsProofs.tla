-------------------------- MODULE ConnectionsProofs --------------------------
(***************************************************************************)
(* Theorems about what holds a connection of the server: its requests, in  *)
(* ServerLifecycle, for any number of requests, operations and slots, and  *)
(* the presence of its clients, in ClientSessions, for any number of       *)
(* calls, requests, DELETEs and faults.                                    *)
(***************************************************************************)
EXTENDS ServerLifecycle, ClientSessions, FiniteSetTheorems, TLAPS

-----------------------------------------------------------------------------
(* Requests and the shutdown.                                              *)

\* What a request has started belongs to a slot it still holds, but for the
\* cleanup of a stream that was cancelled with nothing else pending.
SlotHeld ==
    \A r \in Request :
        /\ ~Settled(r) => r \in Active
        /\ transport[r] = "open" => stage[r] = "streaming"
        /\ transport[r] = "working" => stage[r] = "finishing"
        /\ transport[r] = "stray" => stage[r] = "done" /\ left[r]

\* stop() waits for a snapshot of the slots; nothing is admitted after it.
SnapshotCovers == stopping => Active \subseteq awaited

\* The database closes last.
ClosedLast == database = "closed" => stopping /\ worker = "idle" /\ Active = {}

SlotsBounded == Cardinality(Active) <= MaxConcurrent

\* The inductive invariant.
IInv == TypeOK /\ SlotHeld /\ SnapshotCovers /\ ClosedLast /\ SlotsBounded

LEMMA ActiveFinite == IsFiniteSet(Active) /\ Cardinality(Active) \in Nat
<1>1. Active \subseteq Request
  BY DEF Active
<1> QED BY <1>1, FS_Subset, FS_CardinalityType, LifecycleAssumption

LEMMA ActiveShrinks ==
  ASSUME Active' \subseteq Active, SlotsBounded
  PROVE  SlotsBounded'
<1>1. Cardinality(Active') <= Cardinality(Active)
  BY ActiveFinite, FS_Subset
<1>2. IsFiniteSet(Active') /\ Cardinality(Active') \in Nat
  BY ActiveFinite, FS_Subset, FS_CardinalityType
<1> QED BY <1>1, <1>2, ActiveFinite, LifecycleAssumption DEF SlotsBounded

LEMMA InitIInv == Init => IInv
<1> SUFFICES ASSUME Init PROVE IInv
  OBVIOUS
<1>1. Active = {}
  BY DEF Init, Active
<1>2. SlotsBounded
  BY <1>1, FS_EmptySet, LifecycleAssumption DEF SlotsBounded
<1>3. TypeOK
  BY DEF Init, TypeOK, Stage
<1>4. SlotHeld
  BY DEF Init, SlotHeld, Settled, Active
<1>5. SnapshotCovers /\ ClosedLast
  BY DEF Init, SnapshotCovers, ClosedLast
<1> QED BY <1>2, <1>3, <1>4, <1>5 DEF IInv

\* The parts of IInv that do not count slots.
Core == TypeOK /\ SlotHeld /\ SnapshotCovers /\ ClosedLast

\* Aborting any set of admitted requests.
LEMMA AbortKeeps ==
  ASSUME TypeOK, SlotHeld, NEW R \in SUBSET Request, Abort(R), UNCHANGED op,
         \A r \in Request : left[r] => left'[r]
  PROVE  /\ stage' \in [Request -> Stage] /\ aborted' \in [Request -> BOOLEAN]
         /\ transport' \in [Request -> {"none", "open", "working", "stray", "closed"}]
         /\ SlotHeld' /\ Active' = Active
<1>1. /\ stage' \in [Request -> Stage] /\ aborted' \in [Request -> BOOLEAN]
      /\ transport' \in [Request -> {"none", "open", "working", "stray", "closed"}]
  BY DEF Abort, TypeOK, Stage, Closed
<1>2. \A r \in Request :
         /\ stage'[r] = IF r \in R /\ stage[r] = "streaming" THEN "finishing" ELSE stage[r]
         /\ transport'[r] = IF r \in R /\ stage[r] = "streaming" THEN Closed(transport[r]) ELSE transport[r]
  BY DEF Abort
<1>3. Active' = Active
  BY <1>2 DEF Active
<1>4. SlotHeld'
  BY <1>2, <1>3 DEF SlotHeld, Settled, Closed, TypeOK
<1> QED BY <1>1, <1>3, <1>4

LEMMA RequestStepIInv ==
  ASSUME IInv, NEW r \in Request, RequestStep(r)
  PROVE  IInv'
<1> USE LifecycleAssumption
<1>1. CASE Refuse(r)
  <2>1. Core'
    BY <1>1 DEF Refuse, Core, IInv, TypeOK, Stage, SlotHeld, SnapshotCovers, ClosedLast, Settled, Active, server
  <2>2. Active' \subseteq Active
    BY <1>1 DEF Refuse, Active, IInv, TypeOK
  <2> QED BY <2>1, <2>2, ActiveShrinks DEF Core, IInv
<1>2. CASE Admit(r)
  <2>1. Active' = Active \cup {r} /\ r \notin Active
    BY <1>2 DEF Admit, Active, IInv, TypeOK
  <2>2. Cardinality(Active') = Cardinality(Active) + 1
    BY <2>1, ActiveFinite, FS_AddElement
  <2>3. SlotsBounded'
    BY <1>2, <2>2, ActiveFinite DEF Admit, SlotsBounded
  <2>4. TypeOK'
    BY <1>2 DEF Admit, IInv, TypeOK, Stage, server
  <2>5. SlotHeld'
    BY <1>2 DEF Admit, IInv, TypeOK, SlotHeld, Settled, Active
  <2>6. SnapshotCovers' /\ ClosedLast'
    BY <1>2 DEF Admit, IInv, SnapshotCovers, ClosedLast, server
  <2> QED BY <2>3, <2>4, <2>5, <2>6 DEF IInv
<1>3. ASSUME NEW k \in Op, StartOperation(r, k) \/ EndOperation(r, k)
      PROVE  IInv'
  <2>1. PICK st \in {"working", "settled"} :
          /\ op' = [op EXCEPT ![r][k] = st]
          /\ st = "working" => r \in Active
          /\ st = "settled" => op[r][k] = "working"
    BY <1>3 DEF StartOperation, EndOperation, Active
  <2>2. UNCHANGED <<stage, transport, aborted, left, server>>
    BY <1>3 DEF StartOperation, EndOperation
  <2>3. Active' = Active
    BY <2>2 DEF Active
  <2>4. \A q \in Request, h \in Op : op'[q][h] = IF q = r /\ h = k THEN st ELSE op[q][h]
    BY <2>1 DEF IInv, TypeOK
  <2>5. op' \in [Request -> [Op -> {"none", "working", "settled"}]]
    BY <2>1 DEF IInv, TypeOK
  <2>6. SlotHeld'
    BY <2>1, <2>2, <2>3, <2>4 DEF IInv, SlotHeld, Settled
  <2> QED BY <2>2, <2>3, <2>5, <2>6 DEF IInv, TypeOK, SnapshotCovers, ClosedLast, SlotsBounded, server
<1>4. CASE RespondEmpty(r)
  <2>1. Core' /\ Active' = Active
    BY <1>4 DEF RespondEmpty, Core, IInv, TypeOK, Stage, SlotHeld, SnapshotCovers, ClosedLast, Settled, Active, server
  <2> QED BY <2>1 DEF Core, IInv, SlotsBounded
<1>5. ASSUME NEW mcp \in BOOLEAN, RespondStream(r, mcp)
      PROVE  IInv'
  <2>1. Core' /\ Active' = Active
    BY <1>5 DEF RespondStream, Core, IInv, TypeOK, Stage, SlotHeld, SnapshotCovers, ClosedLast, Settled, Active, server
  <2> QED BY <2>1 DEF Core, IInv, SlotsBounded
<1>6. CASE EndStream(r)
  <2>1. Abort({r}) /\ UNCHANGED <<op, left, server>>
    BY <1>6 DEF EndStream
  <2> QED BY <2>1, AbortKeeps DEF IInv, TypeOK, SnapshotCovers, ClosedLast, SlotsBounded, server
<1>7. CASE Leave(r)
  <2>1. PICK R \in SUBSET Request : Abort(R)
    BY <1>7 DEF Leave
  <2>2. left' \in [Request -> BOOLEAN] /\ UNCHANGED <<op, server>>
    BY <1>7 DEF Leave, IInv, TypeOK
  <2>3. \A q \in Request : left[q] => left'[q]
    BY <1>7 DEF Leave, IInv, TypeOK
  <2> QED BY <2>1, <2>2, <2>3, AbortKeeps DEF IInv, TypeOK, SnapshotCovers, ClosedLast, SlotsBounded, server
<1>8. CASE CancelStream(r)
  <2>1. left' \in [Request -> BOOLEAN] /\ UNCHANGED <<op, server>>
    BY <1>8 DEF CancelStream, IInv, TypeOK
  <2>2. left'[r] /\ \A q \in Request : left[q] => left'[q]
    BY <1>8 DEF CancelStream, IInv, TypeOK
  <2>3. CASE Settled(r) /\ transport[r] = "open"
    <3>1. /\ stage' = [stage EXCEPT ![r] = "done"]
          /\ transport' = [transport EXCEPT ![r] = "stray"]
          /\ aborted' = [aborted EXCEPT ![r] = TRUE]
      BY <1>8, <2>3 DEF CancelStream
    <3>2. Active' \subseteq Active
      BY <3>1 DEF Active, IInv, TypeOK
    <3>3. TypeOK'
      BY <2>1, <3>1 DEF IInv, TypeOK, Stage, server
    <3>4. SlotHeld'
      BY <2>1, <2>3, <2>2, <3>1 DEF IInv, TypeOK, SlotHeld, Settled, Active
    <3>5. SnapshotCovers' /\ ClosedLast'
      BY <2>1, <3>2 DEF IInv, SnapshotCovers, ClosedLast, server
    <3> QED BY <3>2, <3>3, <3>4, <3>5, ActiveShrinks DEF IInv
  <2>4. CASE ~(Settled(r) /\ transport[r] = "open")
    BY <1>8, <2>1, <2>4, <2>2, AbortKeeps DEF CancelStream, IInv, TypeOK, SnapshotCovers, ClosedLast, SlotsBounded, server
  <2> QED BY <2>3, <2>4
<1>9. CASE EndTransport(r)
  <2>1. Core' /\ Active' = Active
    BY <1>9 DEF EndTransport, Core, IInv, TypeOK, SlotHeld, SnapshotCovers, ClosedLast, Settled, Active, server
  <2> QED BY <2>1 DEF Core, IInv, SlotsBounded
<1>10. CASE Free(r)
  <2>1. Core'
    BY <1>10 DEF Free, Finished, Core, IInv, TypeOK, Stage, SlotHeld, SnapshotCovers, ClosedLast, Settled, Active, server
  <2>2. Active' \subseteq Active
    BY <1>10 DEF Free, Active, IInv, TypeOK
  <2> QED BY <2>1, <2>2, ActiveShrinks DEF Core, IInv
<1> QED BY <1>1, <1>2, <1>3, <1>4, <1>5, <1>6, <1>7, <1>8, <1>9, <1>10 DEF RequestStep

LEMMA ServerStepIInv ==
  ASSUME IInv, ServerStep
  PROVE  IInv'
<1>1. CASE StartRun \/ EndRun
  <2>1. /\ UNCHANGED <<requests, stopping, awaited, http, database, exited>>
        /\ worker' \in {"idle", "running"}
        /\ stopping => worker' = "idle" \/ worker' = worker
    BY <1>1 DEF StartRun, EndRun
  <2>2. TypeOK'
    BY <2>1 DEF IInv, TypeOK, requests
  <2>3. SlotHeld' /\ SnapshotCovers' /\ SlotsBounded'
    BY <2>1 DEF IInv, SlotHeld, SnapshotCovers, SlotsBounded, Settled, Active, requests
  <2>4. ClosedLast'
    BY <2>1 DEF IInv, ClosedLast, Active, requests
  <2> QED BY <2>2, <2>3, <2>4 DEF IInv
<1>2. CASE Shutdown
  <2>1. Active \in SUBSET Request
    BY DEF Active
  <2>2. SlotHeld' /\ Active' = Active /\ TypeOK'
    BY <1>2, <2>1, AbortKeeps DEF Shutdown, IInv, TypeOK
  <2> QED BY <1>2, <2>2 DEF Shutdown, IInv, SnapshotCovers, ClosedLast, SlotsBounded
<1>3. CASE CloseHttp \/ Exit \/ Deadline
  <2>1. /\ UNCHANGED <<requests, stopping, awaited, worker, database>>
        /\ http' \in {"closed", http} /\ exited' \in {"clean", "dirty", exited}
    BY <1>3 DEF CloseHttp, Exit, Deadline
  <2>2. TypeOK'
    BY <2>1 DEF IInv, TypeOK, requests
  <2>3. SlotHeld' /\ SnapshotCovers' /\ ClosedLast' /\ SlotsBounded'
    BY <2>1 DEF IInv, SlotHeld, SnapshotCovers, ClosedLast, SlotsBounded, Settled, Active, requests
  <2> QED BY <2>2, <2>3 DEF IInv
<1>4. CASE CloseDatabase
  <2>1. Active = {}
    BY <1>4 DEF CloseDatabase, Drained, IInv, SnapshotCovers, Active
  <2>2. /\ UNCHANGED <<requests, stopping, awaited, worker, http, exited>>
        /\ database' = "closed" /\ stopping /\ worker = "idle"
    BY <1>4 DEF CloseDatabase, Drained
  <2>3. TypeOK'
    BY <2>2 DEF IInv, TypeOK, requests
  <2>4. SlotHeld' /\ SnapshotCovers' /\ ClosedLast' /\ SlotsBounded'
    BY <2>1, <2>2 DEF IInv, SlotHeld, SnapshotCovers, ClosedLast, SlotsBounded, Settled, Active, requests
  <2> QED BY <2>3, <2>4 DEF IInv
<1> QED BY <1>1, <1>2, <1>3, <1>4 DEF ServerStep

LEMMA NextIInv == IInv /\ [Next]_vars => IInv'
<1> SUFFICES ASSUME IInv, [Next]_vars PROVE IInv'
  OBVIOUS
<1>1. CASE ServerStep
  BY <1>1, ServerStepIInv
<1>2. ASSUME NEW r \in Request, RequestStep(r) PROVE IInv'
  BY <1>2, RequestStepIInv
<1>3. CASE UNCHANGED vars
  BY <1>3 DEF IInv, TypeOK, SlotHeld, SnapshotCovers, ClosedLast, SlotsBounded, Settled, Active, vars, requests, server
<1> QED BY <1>1, <1>2, <1>3 DEF Next

\* The inductive invariant holds in every reachable state.
THEOREM Invariance == Spec => []IInv
  BY InitIInv, NextIInv, PTL DEF Spec

\* Every variable keeps its type.
THEOREM TypeCorrect == Spec => []TypeOK
<1>1. IInv => TypeOK
  BY DEF IInv
<1> QED BY <1>1, Invariance, PTL

\* Detached work and awaited cleanup included, no more requests are at work
\* than there are slots; only strays come on top.
THEOREM BoundedWork == Spec => []WorkIsBounded
<1>1. ASSUME IInv PROVE WorkIsBounded
  <2> DEFINE Busy == {r \in Request : AtWork(r)} \ Strays
  <2>1. Busy \subseteq Active
    <3> SUFFICES ASSUME NEW r \in Request, AtWork(r), r \notin Active PROVE r \in Strays
      OBVIOUS
    <3> QED BY <1>1 DEF IInv, SlotHeld, AtWork, Strays, Active
  <2>2. Cardinality(Busy) <= Cardinality(Active) /\ IsFiniteSet(Busy)
    BY <2>1, ActiveFinite, FS_Subset
  <2>3. Cardinality(Busy) \in Nat
    BY <2>2, FS_CardinalityType
  <2>4. Cardinality(Busy) <= MaxConcurrent
    BY <1>1, <2>2, <2>3, ActiveFinite, LifecycleAssumption DEF IInv, SlotsBounded
  <2> QED BY <2>4 DEF WorkIsBounded
<1> QED BY <1>1, Invariance, PTL

\* PostgreSQL stays available to everything admitted before the shutdown, but
\* for the cleanup of a cancelled stream that held no slot any more.
THEOREM DatabaseClosesLast == Spec => []DatabaseOutlivesWork
<1>1. ASSUME IInv PROVE DatabaseOutlivesWork
  BY <1>1 DEF IInv, ClosedLast, SlotHeld, DatabaseOutlivesWork, AtWork, Strays, Active
<1> QED BY <1>1, Invariance, PTL

\* After SIGTERM nothing streams, and what its handlers still return does not
\* begin to: their requests are aborted.
ShutdownAborts ==
    stopping => \A r \in Request : stage[r] # "streaming" /\ (stage[r] = "running" => aborted[r])

LEMMA AbortsInvariance == Spec => []ShutdownAborts
<1>1. Init => ShutdownAborts
  BY DEF Init, ShutdownAborts
<1>2. ASSUME TypeOK, ShutdownAborts, [Next]_vars PROVE ShutdownAborts'
  <2> USE <1>2 DEF TypeOK, ShutdownAborts
  <2>1. ASSUME NEW r \in Request, RequestStep(r) PROVE ShutdownAborts'
    <3>1. CASE Refuse(r) \/ Admit(r) \/ RespondEmpty(r) \/ EndTransport(r) \/ Free(r)
      BY <3>1 DEF Refuse, Admit, RespondEmpty, EndTransport, Free, server
    <3>2. ASSUME NEW k \in Op, StartOperation(r, k) \/ EndOperation(r, k) PROVE ShutdownAborts'
      BY <3>2 DEF StartOperation, EndOperation, server
    <3>3. ASSUME NEW mcp \in BOOLEAN, RespondStream(r, mcp) PROVE ShutdownAborts'
      BY <3>3 DEF RespondStream, server
    <3>4. CASE EndStream(r) \/ Leave(r) \/ CancelStream(r)
      BY <3>4 DEF EndStream, Leave, CancelStream, Abort, server
    <3> QED BY <2>1, <3>1, <3>2, <3>3, <3>4 DEF RequestStep
  <2>2. CASE Shutdown
    BY <2>2 DEF Shutdown, Abort, Active
  <2>3. CASE ServerStep /\ ~Shutdown
    BY <2>3 DEF ServerStep, StartRun, EndRun, CloseHttp, CloseDatabase, Exit, Deadline, requests
  <2>4. CASE UNCHANGED vars
    BY <2>4 DEF vars, requests, server
  <2> QED BY <2>1, <2>2, <2>3, <2>4 DEF Next
<1> QED BY <1>1, <1>2, TypeCorrect, PTL DEF Spec

\* The strays that may meet a closed pool are those of before SIGTERM: a
\* shutdown aborts every stream that has begun or is about to, whose cleanup
\* is then awaited (lifecycle.ts:51-60).
THEOREM StraysPredateShutdown == Spec => [][stopping => Strays' \subseteq Strays]_vars
<1>1. ASSUME IInv, ShutdownAborts, [Next]_vars, stopping
      PROVE  Strays' \subseteq Strays \/ UNCHANGED vars
  <2> USE <1>1 DEF IInv, TypeOK
  <2>1. ASSUME NEW r \in Request, RequestStep(r), NEW q \in Strays' PROVE q \in Strays
    <3>1. q \in Request /\ transport'[q] = "stray"
      BY <2>1 DEF Strays
    <3>2. transport[q] = "stray"
      <4>1. ASSUME NEW R \in SUBSET Request, Abort(R) PROVE transport[q] = "stray"
        BY <3>1, <4>1 DEF Abort, Closed
      <4>2. CASE EndStream(r) \/ Leave(r) \/ CancelStream(r)
        BY <4>1, <4>2 DEF EndStream, Leave, CancelStream, ShutdownAborts
      <4>3. ASSUME NEW k \in Op, StartOperation(r, k) \/ EndOperation(r, k) PROVE transport[q] = "stray"
        BY <3>1, <4>3 DEF StartOperation, EndOperation
      <4>4. ASSUME NEW mcp \in BOOLEAN, RespondStream(r, mcp) PROVE transport[q] = "stray"
        BY <3>1, <4>4 DEF RespondStream
      <4>5. CASE Refuse(r) \/ Admit(r) \/ RespondEmpty(r) \/ EndTransport(r) \/ Free(r)
        BY <3>1, <4>5 DEF Refuse, Admit, RespondEmpty, EndTransport, Free
      <4> QED BY <2>1, <4>2, <4>3, <4>4, <4>5 DEF RequestStep
    <3> QED BY <3>1, <3>2 DEF Strays, SlotHeld, Active
  <2>2. CASE ServerStep
    BY <2>2 DEF ServerStep, StartRun, EndRun, Shutdown, CloseHttp, CloseDatabase, Exit, Deadline, requests, Strays, Settled
  <2> QED BY <1>1, <2>1, <2>2 DEF Next
<1> QED BY <1>1, Invariance, AbortsInvariance, PTL DEF Spec

-----------------------------------------------------------------------------
(* The presence of a client.                                               *)

\* Without a row nothing is counted.
NoRowIsBlank == ~exists => operations = 0

SessionsInv == SessionsTypeOK /\ NoRowIsBlank /\ CountMatches /\ NoPhantomUpload

LEMMA OpenIsFinite ==
    ASSUME SessionsTypeOK
    PROVE  IsFiniteSet(Open) /\ Cardinality(Open) \in Nat
  <1>1. Open \in SUBSET Call
    BY DEF Open
  <1> QED BY <1>1, SessionsAssumption, FS_Subset, FS_CardinalityType

\* What the count of open calls does when one call begins or ends.
LEMMA OpenGrows ==
    ASSUME SessionsTypeOK, NEW c \in Call, call[c] # "open", call' = [call EXCEPT ![c] = "open"]
    PROVE  Cardinality(Open') = Cardinality(Open) + 1 /\ Open' # {}
  <1>1. Open' = Open \cup {c} /\ c \notin Open
    BY DEF SessionsTypeOK, Open
  <1> QED BY <1>1, OpenIsFinite, FS_AddElement

LEMMA OpenShrinks ==
    ASSUME SessionsTypeOK, NEW c \in Call, call[c] = "open", call' = [call EXCEPT ![c] = "over"]
    PROVE  Cardinality(Open') = Cardinality(Open) - 1 /\ Open # {}
  <1>1. Open' = Open \ {c} /\ c \in Open
    BY DEF SessionsTypeOK, Open
  <1> QED BY <1>1, OpenIsFinite, FS_RemoveElement

LEMMA OpenStays ==
    ASSUME SessionsTypeOK, NEW c \in Call, NEW to \in {"unseen", "over"}, call[c] # "open", call' = [call EXCEPT ![c] = to]
    PROVE  Open' = Open
  BY DEF SessionsTypeOK, Open

LEMMA SessionsStart == SessionsInit => SessionsInv
  <1> SUFFICES ASSUME SessionsInit PROVE SessionsInv
    OBVIOUS
  <1>1. Open = {}
    BY DEF SessionsInit, Open
  <1>2. Cardinality(Open) = 0
    BY <1>1, FS_EmptySet
  <1>3. exists \in BOOLEAN /\ disconnected \in BOOLEAN /\ torn \in BOOLEAN
    BY Zenon DEF SessionsInit
  <1>4. SessionsTypeOK
    BY <1>3, SessionsAssumption DEF SessionsInit, SessionsTypeOK, Silence
  <1>5. NoRowIsBlank /\ CountMatches /\ NoPhantomUpload
    BY <1>2 DEF SessionsInit, NoRowIsBlank, CountMatches, NoPhantomUpload
  <1> QED BY <1>4, <1>5 DEF SessionsInv

\* touch() leaves a row of the right type and one more call on it, or none.
LEMMA TouchFacts ==
    ASSUME SessionsInv, NEW delta \in {0, 1}, Touch(delta)
    PROVE  /\ exists' \in BOOLEAN /\ disconnected' \in BOOLEAN /\ silence' \in Silence
           /\ operations' = operations + delta /\ operations' \in Nat
           /\ NoRowIsBlank'
  <1>1. exists' \in BOOLEAN /\ disconnected' \in BOOLEAN
    BY Zenon DEF Touch
  <1>2. operations' = operations + delta /\ operations' \in Nat
    BY DEF Touch, SessionsInv, NoRowIsBlank, SessionsTypeOK
  <1>3. silence' \in Silence /\ exists'
    BY DEF Touch, Silence
  <1> QED BY <1>1, <1>2, <1>3 DEF NoRowIsBlank

LEMMA SessionsKeep == SessionsInv /\ [SessionsNext]_sessionVars => SessionsInv'
  <1> SUFFICES ASSUME SessionsInv, [SessionsNext]_sessionVars PROVE SessionsInv'
    OBVIOUS
  <1>0. SessionsTypeOK /\ IsFiniteSet(Open) /\ Cardinality(Open) \in Nat
    BY OpenIsFinite DEF SessionsInv
  <1> USE SessionsAssumption, <1>0
      DEF SessionsInv, SessionsTypeOK, NoRowIsBlank, CountMatches, NoPhantomUpload, row
  <1>1. ASSUME NEW c \in Call, BeginCall(c) PROVE SessionsInv'
    <2>1. Cardinality(Open') = Cardinality(Open) + 1
      BY <1>1, OpenGrows DEF BeginCall
    <2>2. Touch(1) /\ UNCHANGED <<others, deletes, faults, orphans, torn>>
      BY <1>1 DEF BeginCall
    <2>3. call' \in [Call -> {"new", "open", "unseen", "over"}]
      BY <1>1 DEF BeginCall
    <2> QED BY <2>1, <2>2, <2>3, TouchFacts
  <1>2. ASSUME NEW c \in Call, BeginUntracked(c) PROVE SessionsInv'
    <2>1. Cardinality(Open') = Cardinality(Open)
      BY <1>2, OpenStays DEF BeginUntracked
    <2>2. UNCHANGED <<others, deletes, torn>> /\ faults' \in 0 .. MaxFaults
      BY <1>2 DEF BeginUntracked, Fault
    <2>3. call' \in [Call -> {"new", "open", "unseen", "over"}]
      BY <1>2 DEF BeginUntracked
    <2>4. CASE Touch(1) /\ orphans' = orphans + 1
      BY <2>1, <2>2, <2>3, <2>4, TouchFacts
    <2>5. CASE UNCHANGED <<row, orphans>>
      BY <2>1, <2>2, <2>3, <2>5
    <2> QED BY <1>2, <2>4, <2>5 DEF BeginUntracked
  <1>3. CASE OtherRequest
    <2>1. Cardinality(Open') = Cardinality(Open)
      BY <1>3 DEF OtherRequest, Open
    <2>2. Touch(0) /\ UNCHANGED <<call, deletes, faults, orphans, torn>> /\ others' \in 0 .. MaxRequests
      BY <1>3 DEF OtherRequest
    <2> QED BY <2>1, <2>2, TouchFacts
  <1>4. ASSUME NEW c \in Call, EndCall(c) PROVE SessionsInv'
    <2>1. Cardinality(Open') = Cardinality(Open) - 1 /\ Cardinality(Open) # 0
      BY <1>4, OpenShrinks, FS_EmptySet DEF EndCall
    <2> QED BY <1>4, <2>1 DEF EndCall, Release, Decreased, Silence
  <1>5. ASSUME NEW c \in Call, EndUnreleased(c) PROVE SessionsInv'
    <2>1. Cardinality(Open') = Cardinality(Open) - 1
      BY <1>5, OpenShrinks DEF EndUnreleased
    <2> QED BY <1>5, <2>1 DEF EndUnreleased, Fault
  <1>6. ASSUME NEW c \in Call, EndUntracked(c) PROVE SessionsInv'
    <2>1. Open' = Open
      BY <1>6, OpenStays DEF EndUntracked
    <2> QED BY <1>6, <2>1 DEF EndUntracked
  <1>7. CASE Disconnect
    <2>1. Cardinality(Open') = Cardinality(Open)
      BY <1>7 DEF Disconnect, Open
    <2>2. Open = {} => Cardinality(Open) = 0
      BY FS_EmptySet
    <2>3. operations' = 0 /\ orphans' = 0
      BY <1>7 DEF Disconnect
    <2>4. disconnected' \in BOOLEAN
      BY <1>7, Zenon DEF Disconnect
    <2>5. torn' \in BOOLEAN /\ (~torn' => Open = {})
      BY <1>7, Zenon DEF Disconnect
    <2>6. deletes' \in 0 .. MaxDeletes /\ UNCHANGED <<exists, silence, call, others, faults>>
      BY <1>7 DEF Disconnect
    <2> QED BY <2>1, <2>2, <2>3, <2>4, <2>5, <2>6
  <1>8. ASSUME NEW lost \in SUBSET Open, Crash(lost) PROVE SessionsInv'
    <2>1. Open' = Open \ lost /\ Open \cap lost = lost
      BY <1>8 DEF Crash, Open
    <2>2. IsFiniteSet(lost) /\ Cardinality(lost) \in Nat
      BY <1>8, FS_Subset, FS_CardinalityType
    <2>3. Cardinality(Open \ lost) = Cardinality(Open) - Cardinality(Open \cap lost)
      BY FS_Difference
    <2>4. Cardinality(Open') = Cardinality(Open) - Cardinality(lost)
      BY <2>1, <2>3
    <2>5. call' \in [Call -> {"new", "open", "unseen", "over"}]
      BY <1>8 DEF Crash
    <2> QED BY <1>8, <2>2, <2>4, <2>5 DEF Crash, Fault
  <1>9. CASE Elapse
    <2>1. Open' = Open
      BY <1>9 DEF Elapse, Open
    <2> QED BY <1>9, <2>1 DEF Elapse, Silence
  <1>10. CASE UNCHANGED sessionVars
    <2>1. Open' = Open
      BY <1>10 DEF sessionVars, Open
    <2> QED BY <1>10, <2>1 DEF sessionVars
  <1> QED BY <1>1, <1>2, <1>3, <1>4, <1>5, <1>6, <1>7, <1>8, <1>9, <1>10 DEF SessionsNext

LEMMA SessionsInvariance == SessionsSpec => []SessionsInv
  BY SessionsStart, SessionsKeep, PTL DEF SessionsSpec

\* Every variable of a client's presence keeps its type.
THEOREM SessionsTypeCorrect == SessionsSpec => []SessionsTypeOK
  <1>1. SessionsInv => SessionsTypeOK
    BY DEF SessionsInv
  <1> QED BY <1>1, SessionsInvariance, PTL

\* No increment or decrement is lost, however many calls begin and end at the
\* same time (touch() and release() are single statements).
THEOREM CountIsExact == SessionsSpec => []CountMatches
  <1>1. SessionsInv => CountMatches
    BY DEF SessionsInv
  <1> QED BY <1>1, SessionsInvariance, PTL

\* However DELETEs, crashes and late releases interleave, the counter errs
\* downwards only.
THEOREM NoUploadIsInvented == SessionsSpec => []NoPhantomUpload
  <1>1. SessionsInv => NoPhantomUpload
    BY DEF SessionsInv
  <1> QED BY <1>1, SessionsInvariance, PTL

=============================================================================
