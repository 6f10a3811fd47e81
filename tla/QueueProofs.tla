----------------------------- MODULE QueueProofs -----------------------------
(***************************************************************************)
(* Theorems about the job queue and the imports that run on it, for every  *)
(* set of jobs, workers and positions and every value of the bounds.  The  *)
(* first part is about JobQueue alone; the second gets its facts about     *)
(* rows from there, by way of the refinement: an import's steps are steps  *)
(* of the job queue.                                                       *)
(***************************************************************************)
EXTENDS ImportQueue, TLAPS

-----------------------------------------------------------------------------
(* The job queue.                                                          *)

\* A row that was never enqueued is as the INSERT will find it.
AbsentIsClean ==
    \A j \in Job : status[j] = "absent" =>
        attempts[j] = 0 /\ ~cancelRequested[j] /\ lockedBy[j] = NoWorker

\* The inductive invariant: the four facts support each other.
IInv == TypeOK /\ AbsentIsClean /\ NoStrandedJob /\ CancelBinds /\ FenceIsExact

-----------------------------------------------------------------------------
LEMMA InitIInv == Init => IInv
  BY JobQueueAssumption
  DEF Init, IInv, TypeOK, AbsentIsClean, NoStrandedJob, CancelBinds, FenceIsExact,
      Status, Phase, Running

\* Rows changed by Enqueue, Cancel, Retry, Expire or Elapse.
LEMMA RowStepIInv ==
  ASSUME IInv, NEW j \in Job, RowStep(j)
  PROVE  IInv'
<1> USE JobQueueAssumption DEF IInv, run
<1>1. CASE Enqueue(j)
  BY <1>1 DEF Enqueue, TypeOK, Status, AbsentIsClean, NoStrandedJob, CancelBinds, FenceIsExact, Owns
<1>2. CASE Cancel(j)
  BY <1>2 DEF Cancel, CancelledStatus, TypeOK, Status, AbsentIsClean, NoStrandedJob, CancelBinds,
              FenceIsExact, Owns
<1>3. CASE Retry(j)
  BY <1>3 DEF Retry, TypeOK, Status, AbsentIsClean, NoStrandedJob, CancelBinds, FenceIsExact, Owns
<1>4. CASE Expire(j)
  BY <1>4 DEF Expire, TypeOK, Status, AbsentIsClean, NoStrandedJob, CancelBinds, FenceIsExact, Owns
<1>5. CASE Elapse(j)
  BY <1>5 DEF Elapse, TypeOK, Status, AbsentIsClean, NoStrandedJob, CancelBinds, FenceIsExact, Owns
<1> QED BY <1>1, <1>2, <1>3, <1>4, <1>5 DEF RowStep

-----------------------------------------------------------------------------
(* The claim transaction.                                                  *)

\* Rows after the claim transaction, whoever it locked a row for: the invariant's
\* facts about rows hold again, and a run that may still report kept its lock.
LEMMA ClaimRowsIInv ==
  ASSUME IInv, NEW w \in Worker, NEW picked \in SUBSET Eligible, ClaimRows(w, picked)
  PROVE  /\ status' \in [Job -> Status]
         /\ attempts' \in [Job -> 0..MaxAttempts]
         /\ cancelRequested' = cancelRequested
         /\ lockedBy' \in [Job -> Worker \cup {NoWorker}]
         /\ stale' \in [Job -> BOOLEAN]
         /\ due' \in [Job -> BOOLEAN]
         /\ epoch' \in [Job -> Nat]
         /\ AbsentIsClean'
         /\ NoStrandedJob'
         /\ CancelBinds'
         /\ \A v \in Worker, j \in Job :
              Owns(v, j)' => (j \in picked /\ v = w) \/ (Owns(v, j) /\ epoch'[j] = epoch[j])
<1> USE JobQueueAssumption DEF IInv, TypeOK, ClaimRows, AfterReap, ReapedStatus, Reaped, Eligible, Status
<1>1. status' \in [Job -> Status]
  OBVIOUS
<1>2. attempts' \in [Job -> 0..MaxAttempts]
  OBVIOUS
<1>3. /\ lockedBy' \in [Job -> Worker \cup {NoWorker}]
      /\ stale' \in [Job -> BOOLEAN]
      /\ due' \in [Job -> BOOLEAN]
      /\ epoch' \in [Job -> Nat]
  OBVIOUS
<1>4. AbsentIsClean'
  BY DEF AbsentIsClean
<1>5. NoStrandedJob'
  BY DEF NoStrandedJob
<1>6. CancelBinds'
  BY DEF CancelBinds
<1>7. \A v \in Worker, j \in Job :
         Owns(v, j)' => (j \in picked /\ v = w) \/ (Owns(v, j) /\ epoch'[j] = epoch[j])
  BY DEF Owns
<1> QED BY <1>1, <1>2, <1>3, <1>4, <1>5, <1>6, <1>7

LEMMA ClaimStepIInv ==
  ASSUME IInv, NEW w \in Worker,
         (\E j \in Job : ClaimJob(w, j)) \/ ClaimNothing(w) \/ ClaimSkips(w) \/ ClaimError(w)
  PROVE  IInv'
<1> USE JobQueueAssumption
<1>1. ASSUME NEW j \in Job, ClaimJob(w, j) PROVE IInv'
  <2>1. {j} \in SUBSET Eligible /\ ClaimRows(w, {j})
    BY <1>1 DEF ClaimJob
  <2>2. TypeOK' /\ AbsentIsClean' /\ NoStrandedJob' /\ CancelBinds'
    BY <1>1, <2>1, ClaimRowsIInv DEF ClaimJob, IInv, TypeOK, Phase, Running
  <2>3. FenceIsExact'
    <3> SUFFICES ASSUME NEW v \in Worker, phase'[v] \in Running, Owns(v, current[v])'
                 PROVE  token'[v] = epoch'[current'[v]]
      BY DEF FenceIsExact
    <3>1. CASE v = w
      BY <1>1, <2>1, <3>1 DEF ClaimJob, ClaimRows, IInv, TypeOK
    <3>2. CASE v # w
      <4>1. phase[v] \in Running /\ current'[v] = current[v] /\ token'[v] = token[v]
        BY <1>1, <3>2 DEF ClaimJob, IInv, TypeOK
      <4>2. current[v] \in Job
        BY <4>1 DEF IInv, TypeOK
      <4>3. Owns(v, current[v]) /\ epoch'[current[v]] = epoch[current[v]]
        BY <2>1, <3>2, <4>1, <4>2, ClaimRowsIInv DEF Owns
      <4> QED BY <4>1, <4>2, <4>3 DEF IInv, FenceIsExact
    <3> QED BY <3>1, <3>2
  <2> QED BY <2>2, <2>3 DEF IInv
<1>2. ASSUME ClaimNothing(w) \/ ClaimSkips(w) \/ ClaimError(w) PROVE IInv'
  <2>1. CASE UNCHANGED row
    BY <1>2, <2>1 DEF row, ClaimNothing, ClaimSkips, ClaimError, Fault, IInv, TypeOK, Phase, Running, AbsentIsClean,
       NoStrandedJob, CancelBinds, FenceIsExact, Owns
  <2>2. ASSUME NEW picked \in SUBSET Eligible, ClaimRows(w, picked)
        PROVE  IInv'
    <3>1. TypeOK' /\ AbsentIsClean' /\ NoStrandedJob' /\ CancelBinds'
      BY <1>2, <2>2, ClaimRowsIInv DEF ClaimNothing, ClaimSkips, ClaimError, Fault, IInv, TypeOK, Phase, Running
    <3>2. FenceIsExact'
      <4> SUFFICES ASSUME NEW v \in Worker, phase'[v] \in Running, Owns(v, current[v])'
                   PROVE  token'[v] = epoch'[current'[v]]
        BY DEF FenceIsExact
      <4>1. v # w /\ phase[v] \in Running /\ current'[v] = current[v] /\ token'[v] = token[v]
        BY <1>2 DEF ClaimNothing, ClaimSkips, ClaimError, IInv, TypeOK, Running
      <4>2. current[v] \in Job
        BY <4>1 DEF IInv, TypeOK
      <4>3. Owns(v, current[v]) /\ epoch'[current[v]] = epoch[current[v]]
        BY <2>2, <4>1, <4>2, ClaimRowsIInv DEF Owns
      <4> QED BY <4>1, <4>2, <4>3 DEF IInv, FenceIsExact
    <3> QED BY <3>1, <3>2 DEF IInv
  <2>3. \/ UNCHANGED row
        \/ \E picked \in SUBSET Eligible : ClaimRows(w, picked)
    <3>1. CASE ClaimNothing(w) \/ ClaimSkips(w)
      BY <3>1 DEF ClaimNothing, ClaimSkips
    <3>2. CASE ClaimError(w)
      <4>1. ASSUME NEW j \in Eligible, ClaimRows(w, {j})
            PROVE  \E picked \in SUBSET Eligible : ClaimRows(w, picked)
        BY <4>1
      <4> QED BY <3>2, <4>1 DEF ClaimError
    <3> QED BY <1>2, <3>1, <3>2
  <2> QED BY <2>1, <2>2, <2>3
<1> QED BY <1>1, <1>2

-----------------------------------------------------------------------------
(* Steps of a run.                                                         *)

\* Steps that leave every lock, status and counter alone, and start no run.
LEMMA QuietStepIInv ==
  ASSUME IInv, NEW w \in Worker,
         UNCHANGED <<status, attempts, cancelRequested, lockedBy, due, epoch, current, token>>,
         stale' \in [Job -> BOOLEAN],
         aborted' \in [Worker -> BOOLEAN],
         stopping' \in [Worker -> BOOLEAN],
         phase' \in [Worker -> Phase],
         \A v \in Worker : phase'[v] \in Running => phase[v] \in Running,
         retries' = retries,
         faults' \in 0..MaxFaults
  PROVE  IInv'
BY DEF IInv, TypeOK, AbsentIsClean, NoStrandedJob, CancelBinds, FenceIsExact, Owns

LEMMA RunStepIInv ==
  ASSUME IInv, NEW w \in Worker,
         \/ Poll(w)
         \/ Heartbeat(w)
         \/ HeartbeatError(w)
         \/ ObserveAbort(w)
         \/ BodyStep(w)
         \/ Stop(w)
         \/ Crash(w)
  PROVE  IInv'
<1> USE JobQueueAssumption DEF IInv, TypeOK, Phase, Running, row, run, Fault, RefreshLease
<1>1. CASE Poll(w)
  BY <1>1, QuietStepIInv DEF Poll
<1>2. CASE Heartbeat(w)
  <2>1. aborted' \in [Worker -> BOOLEAN] /\ stale' \in [Job -> BOOLEAN]
    BY <1>2 DEF Heartbeat, Interrupted
  <2>2. phase' \in [Worker -> Phase]
    BY <1>2 DEF Heartbeat
  <2> QED BY <1>2, <2>1, <2>2, QuietStepIInv DEF Heartbeat
<1>3. CASE HeartbeatError(w)
  <2>1. stale' \in [Job -> BOOLEAN]
        /\ UNCHANGED <<status, attempts, cancelRequested, lockedBy, due, epoch>>
    BY <1>3 DEF HeartbeatError
  <2>2. phase' \in [Worker -> Phase] /\ faults' \in 0..MaxFaults
    BY <1>3 DEF HeartbeatError
  <2> QED BY <1>3, <2>1, <2>2, QuietStepIInv DEF HeartbeatError
<1>4. CASE ObserveAbort(w)
  BY <1>4, QuietStepIInv DEF ObserveAbort
<1>5. CASE BodyStep(w)
  <2>1. CASE Progress(w)
    BY <2>1, QuietStepIInv DEF Progress
  <2>2. CASE ProgressError(w)
    <3>1. stale' \in [Job -> BOOLEAN]
          /\ UNCHANGED <<status, attempts, cancelRequested, lockedBy, due, epoch>>
      BY <2>2 DEF ProgressError
    <3>2. phase' \in [Worker -> Phase] /\ faults' \in 0..MaxFaults
      BY <2>2 DEF ProgressError
    <3> QED BY <2>2, <3>1, <3>2, QuietStepIInv DEF ProgressError
  <2>3. CASE BodyReturns(w) \/ BodyThrows(w)
    BY <2>3, QuietStepIInv DEF BodyReturns, BodyThrows, LeaveBody
  <2> QED BY <1>5, <2>1, <2>2, <2>3 DEF BodyStep
<1>6. CASE Stop(w)
  BY <1>6, QuietStepIInv DEF Stop
<1>7. CASE Crash(w)
  BY <1>7, QuietStepIInv DEF Crash
<1> QED BY <1>1, <1>2, <1>3, <1>4, <1>5, <1>6, <1>7

-----------------------------------------------------------------------------
(* Reports.                                                                *)

\* A fenced report either changes nothing or ends the one run it belongs to, with a
\* status the row's attempts and cancel flag allow.
LEMMA ReportIInv ==
  ASSUME IInv, NEW w \in Worker, NEW j \in Job,
         NEW next \in {"pending", "completed", "failed"},
         NEW charged \in 0..MaxAttempts,
         NEW available \in BOOLEAN,
         next = "pending" => charged < MaxAttempts,
         Report(w, j, next, charged, available),
         phase' \in [Worker -> Phase],
         current' \in [Worker -> Job \cup {NoJob}],
         token' \in [Worker -> Nat],
         UNCHANGED <<aborted, stopping, retries>>,
         faults' \in 0..MaxFaults,
         \A v \in Worker : phase'[v] \in Running =>
             phase[v] \in Running /\ current'[v] = current[v] /\ token'[v] = token[v]
  PROVE  IInv'
<1> USE JobQueueAssumption DEF IInv
<1>1. TypeOK'
  <2>1. /\ status' \in [Job -> Status]
        /\ attempts' \in [Job -> 0..MaxAttempts]
        /\ cancelRequested' \in [Job -> BOOLEAN]
        /\ lockedBy' \in [Job -> Worker \cup {NoWorker}]
    BY DEF Report, TypeOK, row, Status
  <2>2. /\ stale' \in [Job -> BOOLEAN]
        /\ due' \in [Job -> BOOLEAN]
        /\ epoch' \in [Job -> Nat]
    BY DEF Report, TypeOK, row
  <2> QED BY <2>1, <2>2 DEF TypeOK
<1>2. AbsentIsClean' /\ NoStrandedJob' /\ CancelBinds'
  BY DEF Report, TypeOK, row, Owns, AbsentIsClean, NoStrandedJob, CancelBinds
<1>3. FenceIsExact'
  BY DEF Report, TypeOK, row, Owns, FenceIsExact
<1> QED BY <1>1, <1>2, <1>3

LEMMA ReportStepIInv ==
  ASSUME IInv, NEW w \in Worker, ReportStep(w)
  PROVE  IInv'
<1> USE JobQueueAssumption DEF EndRun, Fault
<1>1. phase[w] \in Running /\ current[w] \in Job
  BY DEF ReportStep, Complete, CompleteError, Fail, Release, ReportError, Running, IInv, TypeOK
<1>2. /\ phase' \in [Worker -> Phase]
      /\ current' \in [Worker -> Job \cup {NoJob}]
      /\ token' \in [Worker -> Nat]
      /\ UNCHANGED <<aborted, stopping, retries>>
      /\ faults' \in 0..MaxFaults
      /\ \A v \in Worker : phase'[v] \in Running =>
             phase[v] \in Running /\ current'[v] = current[v] /\ token'[v] = token[v]
  BY <1>1 DEF ReportStep, Complete, CompleteError, Fail, Release, ReportError, Running, Phase, IInv, TypeOK
<1>3. attempts[current[w]] \in 0..MaxAttempts /\ due[current[w]] \in BOOLEAN
  BY <1>1 DEF IInv, TypeOK
<1>4. CASE CompleteRow(w, current[w])
  BY <1>1, <1>2, <1>3, <1>4, ReportIInv DEF CompleteRow
<1>5. CASE FailRow(w, current[w])
  BY <1>1, <1>2, <1>3, <1>5, ReportIInv DEF FailRow
<1>6. CASE ReleaseRow(w, current[w])
  <2> DEFINE charged == IF attempts[current[w]] > 0 THEN attempts[current[w]] - 1 ELSE 0
  <2>1. charged \in 0..MaxAttempts /\ charged < MaxAttempts
    BY <1>3
  <2> QED BY <1>1, <1>2, <1>6, <2>1, ReportIInv DEF ReleaseRow
<1>7. CASE UNCHANGED row
  BY <1>2, <1>7 DEF row, IInv, TypeOK, AbsentIsClean, NoStrandedJob, CancelBinds, FenceIsExact, Owns
<1> QED BY <1>4, <1>5, <1>6, <1>7 DEF ReportStep, Complete, CompleteError, Fail, Release, ReportError

-----------------------------------------------------------------------------
LEMMA NextIInv == IInv /\ [Next]_vars => IInv'
<1> SUFFICES ASSUME IInv, [Next]_vars PROVE IInv'
  OBVIOUS
<1>1. ASSUME NEW j \in Job, RowStep(j) PROVE IInv'
  BY <1>1, RowStepIInv
<1>2. ASSUME NEW w \in Worker, WorkerStep(w) PROVE IInv'
  BY <1>2, ClaimStepIInv, RunStepIInv, ReportStepIInv DEF WorkerStep
<1>3. ASSUME NEW w \in Worker, BodyStep(w) PROVE IInv'
  BY <1>3, RunStepIInv
<1>4. CASE UNCHANGED vars
  BY <1>4 DEF vars, row, run, IInv, TypeOK, AbsentIsClean, NoStrandedJob, CancelBinds, FenceIsExact, Owns
<1> QED BY <1>1, <1>2, <1>3, <1>4 DEF Next

\* Every reachable state satisfies the inductive invariant.
THEOREM Invariance == Spec => []IInv
  BY InitIInv, NextIInv, PTL DEF Spec

\* Every variable keeps its type.
THEOREM TypeCorrect == Spec => []TypeOK
<1>1. IInv => TypeOK
  BY DEF IInv
<1> QED BY <1>1, Invariance, PTL

\* No pending job is unclaimable and no processing job is without a holder.
THEOREM NothingStranded == Spec => []NoStrandedJob
<1>1. IInv => NoStrandedJob
  BY DEF IInv
<1> QED BY <1>1, Invariance, PTL

\* A requested cancel binds the job until a retry.
THEOREM CancelIsBinding == Spec => []CancelBinds
<1>1. IInv => CancelBinds
  BY DEF IInv
<1> QED BY <1>1, Invariance, PTL

\* The worker id in locked_by fences as exactly as a claim number would.
THEOREM FencingExact == Spec => []FenceIsExact
<1>1. IInv => FenceIsExact
  BY DEF IInv
<1> QED BY <1>1, Invariance, PTL

-----------------------------------------------------------------------------
(* What a step may do to one row.                                          *)

\* Which rows each kind of worker step touches.
LEMMA RowsTouched ==
  ASSUME IInv, NEW w \in Worker, WorkerStep(w) \/ BodyStep(w)
  PROVE  \/ phase[w] = "claiming" /\ \E picked \in SUBSET Eligible : ClaimRows(w, picked)
         \/ /\ UNCHANGED <<status, attempts, cancelRequested, lockedBy, due, epoch>>
            /\ stale' \in [Job -> BOOLEAN]
         \/ /\ phase[w] \in {"complete", "fail", "release"}
            /\ phase'[w] # phase[w]
            /\ current[w] \in Job
            /\ \/ phase[w] = "complete" /\ CompleteRow(w, current[w])
               \/ FailRow(w, current[w])
               \/ ReleaseRow(w, current[w])
<1> USE DEF IInv, TypeOK, row, run
<1>1. CASE \E j \in Job : ClaimJob(w, j)
  BY <1>1 DEF ClaimJob
<1>2. CASE ClaimNothing(w)
  BY <1>2 DEF ClaimNothing
<1>3. CASE ClaimError(w) \/ ClaimSkips(w)
  BY <1>3 DEF ClaimError, ClaimSkips
<1>4. CASE ReportStep(w)
  BY <1>4 DEF ReportStep, Complete, CompleteError, Fail, Release, ReportError, EndRun, Running
<1>5. CASE Poll(w) \/ Heartbeat(w) \/ HeartbeatError(w) \/ ObserveAbort(w) \/ Stop(w) \/ Crash(w) \/ BodyStep(w)
  BY <1>5 DEF Poll, Heartbeat, HeartbeatError, ObserveAbort, Stop, Crash, BodyStep, Progress, ProgressError,
     BodyReturns, BodyThrows, LeaveBody, RefreshLease
<1> QED BY <1>1, <1>2, <1>3, <1>4, <1>5 DEF WorkerStep

LeaseStep(j) ==
    status[j] = "processing" /\ ~stale[j] /\ (status'[j] # "processing" \/ lockedBy'[j] # lockedBy[j]) =>
        \E w \in Worker :
            /\ lockedBy[j] = w
            /\ current[w] = j
            /\ phase[w] \in {"complete", "fail", "release"}
            /\ token[w] = epoch[j]
            /\ phase'[w] # phase[w]

LEMMA NextLeaseStep ==
  ASSUME IInv, Next, NEW j \in Job
  PROVE  LeaseStep(j)
<1> USE DEF IInv, TypeOK
<1>1. ASSUME NEW i \in Job, RowStep(i) PROVE LeaseStep(j)
  BY <1>1 DEF RowStep, Enqueue, Cancel, CancelledStatus, Retry, Expire, Elapse, LeaseStep
<1>2. ASSUME NEW w \in Worker, WorkerStep(w) \/ BodyStep(w) PROVE LeaseStep(j)
  <2>1. ASSUME NEW picked \in SUBSET Eligible, ClaimRows(w, picked) PROVE LeaseStep(j)
    BY <2>1 DEF ClaimRows, AfterReap, Reaped, Eligible, LeaseStep
  <2>2. CASE UNCHANGED <<status, attempts, cancelRequested, lockedBy, due, epoch>>
    BY <2>2 DEF LeaseStep
  <2>3. ASSUME phase[w] \in {"complete", "fail", "release"}, phase'[w] # phase[w], current[w] \in Job,
               \/ CompleteRow(w, current[w])
               \/ FailRow(w, current[w])
               \/ ReleaseRow(w, current[w])
        PROVE  LeaseStep(j)
    BY <2>3 DEF CompleteRow, FailRow, ReleaseRow, Report, row, Owns, FenceIsExact, Running, LeaseStep
  <2> QED BY <1>2, <2>1, <2>2, <2>3, RowsTouched
<1> QED BY <1>1, <1>2 DEF Next

\* While a lease is fresh, only a report of the run that holds it ends it.
THEOREM LeaseIsRespected == Spec => LeaseRespected
<1>1. IInv /\ [Next]_vars => [\A j \in Job : LeaseStep(j)]_vars
  BY NextLeaseStep
<1>2. Spec => [][\A j \in Job : LeaseStep(j)]_vars
  BY <1>1, Invariance, PTL DEF Spec
<1> QED BY <1>2 DEF LeaseRespected, LeaseStep

FinishStep(j) ==
    status[j] \in Terminal /\ status'[j] # status[j] =>
        /\ status[j] # "completed"
        /\ retries' = retries + 1
        /\ status'[j] = "pending"
        /\ attempts'[j] = 0
        /\ ~cancelRequested'[j]

LEMMA NextFinishStep ==
  ASSUME IInv, Next, NEW j \in Job
  PROVE  FinishStep(j) /\ (cancelRequested[j] => epoch'[j] = epoch[j])
<1> USE DEF IInv, TypeOK, Terminal
<1> DEFINE Goal == FinishStep(j) /\ (cancelRequested[j] => epoch'[j] = epoch[j])
<1>1. ASSUME NEW i \in Job, RowStep(i) PROVE Goal
  BY <1>1 DEF RowStep, Enqueue, Cancel, CancelledStatus, Retry, Expire, Elapse, FinishStep
<1>2. ASSUME NEW w \in Worker, WorkerStep(w) \/ BodyStep(w) PROVE Goal
  <2>1. ASSUME NEW picked \in SUBSET Eligible, ClaimRows(w, picked) PROVE Goal
    BY <2>1 DEF ClaimRows, AfterReap, Reaped, Eligible, FinishStep
  <2>2. CASE UNCHANGED <<status, attempts, cancelRequested, lockedBy, due, epoch>>
    BY <2>2 DEF FinishStep
  <2>3. ASSUME current[w] \in Job,
               \/ CompleteRow(w, current[w])
               \/ FailRow(w, current[w])
               \/ ReleaseRow(w, current[w])
        PROVE  Goal
    BY <2>3 DEF CompleteRow, FailRow, ReleaseRow, Report, row, Owns, FinishStep
  <2> QED BY <1>2, <2>1, <2>2, <2>3, RowsTouched
<1> QED BY <1>1, <1>2 DEF Next

\* A finished job is reopened by a retry only, and a completed one never.
THEOREM FinishIsFinal == Spec => FinishedStaysFinished
<1>1. IInv /\ [Next]_vars => [\A j \in Job : FinishStep(j)]_vars
  BY NextFinishStep
<1>2. Spec => [][\A j \in Job : FinishStep(j)]_vars
  BY <1>1, Invariance, PTL DEF Spec
<1> QED BY <1>2 DEF FinishedStaysFinished, FinishStep

\* No worker claims a job whose cancel was requested.
THEOREM CancelledNeverRuns == Spec => NoRunAfterCancel
<1>1. IInv /\ [Next]_vars => [\A j \in Job : cancelRequested[j] => epoch'[j] = epoch[j]]_vars
  BY NextFinishStep
<1>2. Spec => [][\A j \in Job : cancelRequested[j] => epoch'[j] = epoch[j]]_vars
  BY <1>1, Invariance, PTL DEF Spec
<1> QED BY <1>2 DEF NoRunAfterCancel

-----------------------------------------------------------------------------
(* JobQueue implements JobLifecycle.                                       *)

LEMMA InitRefines == Init => Lifecycle!Init
  BY DEF Init, Lifecycle!Init, userState, runsLeft

ViewOK == userState \in [Job -> Lifecycle!State] /\ runsLeft \in [Job -> 0..MaxAttempts]

LEMMA ViewTypes == TypeOK => ViewOK
<1> SUFFICES ASSUME TypeOK PROVE ViewOK
  OBVIOUS
<1>1. ASSUME NEW j \in Job PROVE userState[j] \in Lifecycle!State
  BY DEF userState, Lifecycle!State, TypeOK, Status
<1>2. ASSUME NEW j \in Job
      PROVE  (IF userState[j] \in {"queued", "running"} THEN MaxAttempts - attempts[j] ELSE 0) \in 0..MaxAttempts
  BY JobQueueAssumption DEF TypeOK
<1> QED BY <1>1, <1>2 DEF ViewOK, userState, runsLeft

RowRefines(j) ==
    Lifecycle!JobStep(j) \/ (userState'[j] = userState[j] /\ runsLeft'[j] = runsLeft[j])

\* Each job of a step moves as JobLifecycle lets it, or stays.
LEMMA NextRowRefines ==
  ASSUME IInv, Next, NEW j \in Job
  PROVE  RowRefines(j)
<1> USE JobQueueAssumption
    DEF IInv, TypeOK, RowRefines, userState, runsLeft, Lifecycle!JobStep, Lifecycle!Moves,
        Lifecycle!Submit, Lifecycle!Start, Lifecycle!Requeue, Lifecycle!HandBack, Lifecycle!Succeed,
        Lifecycle!GiveUp, Lifecycle!CancelQueued, Lifecycle!CancelRunning, Lifecycle!Withdraw
<1>1. ASSUME NEW i \in Job, RowStep(i) PROVE RowRefines(j)
  <2>1. CASE Enqueue(i)
    BY <2>1 DEF Enqueue, AbsentIsClean
  <2>2. CASE Cancel(i)
    BY <2>2 DEF Cancel, CancelledStatus
  <2>3. CASE Retry(i)
    BY <2>3 DEF Retry
  <2>4. CASE Expire(i) \/ Elapse(i)
    BY <2>4 DEF Expire, Elapse
  <2> QED BY <1>1, <2>1, <2>2, <2>3, <2>4 DEF RowStep
<1>2. ASSUME NEW w \in Worker, WorkerStep(w) \/ BodyStep(w) PROVE RowRefines(j)
  <2>1. ASSUME NEW picked \in SUBSET Eligible, ClaimRows(w, picked) PROVE RowRefines(j)
    BY <2>1 DEF ClaimRows, AfterReap, ReapedStatus, Reaped, Eligible, NoStrandedJob
  <2>2. CASE UNCHANGED <<status, attempts, cancelRequested, lockedBy, due, epoch>>
    BY <2>2
  <2>3. ASSUME current[w] \in Job,
               \/ CompleteRow(w, current[w])
               \/ FailRow(w, current[w])
               \/ ReleaseRow(w, current[w])
        PROVE  RowRefines(j)
    BY <2>3 DEF CompleteRow, FailRow, ReleaseRow, Report, row, Owns, NoStrandedJob
  <2> QED BY <1>2, <2>1, <2>2, <2>3, RowsTouched
<1> QED BY <1>1, <1>2 DEF Next

\* Rows, leases and worker processes implement the life of a job its user sees.
THEOREM Refinement == Spec => ImplementsLifecycle
<1>1. IInv /\ IInv' /\ [Next]_vars => [Lifecycle!Next]_(Lifecycle!vars)
  <2>1. ASSUME IInv, IInv', Next PROVE Lifecycle!Next
    <3>1. \A j \in Job : RowRefines(j)
      BY <2>1, NextRowRefines
    <3>2. TypeOK'
      BY <2>1 DEF IInv
    <3>3. ViewOK'
      BY <3>2, ViewTypes, PTL
    <3> QED BY <3>1, <3>3 DEF Lifecycle!Next, RowRefines, ViewOK
  <2>2. CASE UNCHANGED vars
    BY <2>2 DEF vars, row, Lifecycle!vars, userState, runsLeft
  <2> QED BY <2>1, <2>2
<1> QED BY <1>1, InitRefines, Invariance, PTL DEF Spec, ImplementsLifecycle, Lifecycle!Spec

-----------------------------------------------------------------------------
(* Imports implement the job queue.                                        *)

LEMMA CommitIsProgress ==
  ASSUME TypeOK, NEW w \in Worker, NEW p \in Position,
         ImportItem(w, p) \/ ImportItemUnacknowledged(w, p)
  PROVE  Next \/ UNCHANGED vars
<1>1. CASE ImportItem(w, p)
  <2>1. UNCHANGED vars \/ Progress(w)
    BY <1>1 DEF ImportItem, CommitItem, MayImport, Interrupted, Progress, TypeOK, vars, row, run
  <2> QED BY <2>1 DEF Next, BodyStep
<1>2. CASE ImportItemUnacknowledged(w, p)
  <2>1. ProgressError(w)
    BY <1>2 DEF ImportItemUnacknowledged, CommitItem, ProgressError
  <2> QED BY <2>1 DEF Next, BodyStep
<1> QED BY <1>1, <1>2

LEMMA ImportStepIsQueueStep == TypeOK /\ [ImportNext]_allVars => [Next]_vars
<1> SUFFICES ASSUME TypeOK, ImportNext PROVE Next \/ UNCHANGED vars
  BY DEF allVars
<1>1. ASSUME NEW j \in Job, ImportRowStep(j) PROVE Next \/ UNCHANGED vars
  BY <1>1 DEF ImportRowStep, EnqueueImport, RetryImport, Cleanup, RowStep, Next
<1>2. ASSUME NEW w \in Worker, ImportWorkerStep(w) PROVE Next \/ UNCHANGED vars
  BY <1>2 DEF ImportWorkerStep, Next
<1>3. ASSUME NEW w \in Worker, ImportBody(w) PROVE Next \/ UNCHANGED vars
  <2>1. CASE LoadPositions(w)
    BY <2>1 DEF LoadPositions
  <2>2. CASE FinishImport(w) \/ ThrowImport(w)
    BY <2>2 DEF FinishImport, ThrowImport, BodyStep, Next
  <2> QED BY <1>3, <2>1, <2>2, CommitIsProgress DEF ImportBody
<1> QED BY <1>1, <1>2, <1>3 DEF ImportNext

\* Item processing never changes a row in a way the queue's operations would not.
THEOREM ImportsRunTheQueue == ImportSpec => ImplementsJobQueue
<1>1. ImportInit => Init /\ IInv
  BY InitIInv DEF ImportInit
<1>2. IInv /\ [ImportNext]_allVars => [Next]_vars /\ IInv'
  BY ImportStepIsQueueStep, NextIInv DEF IInv
<1> QED BY <1>1, <1>2, PTL DEF ImportSpec, ImplementsJobQueue, Spec

\* The job queue's inductive invariant holds of imports too.
LEMMA QueueInvariance == ImportSpec => []IInv
  BY ImportsRunTheQueue, Invariance, PTL DEF ImplementsJobQueue

-----------------------------------------------------------------------------
(* The inductive invariant of imports.                                     *)

ImportVarsOK ==
    /\ item \in [Job -> [Position -> ItemStatus]]
    /\ copies \in [Job -> [Position -> Nat]]
    /\ loaded \in [Worker -> BOOLEAN]
    /\ work \in [Worker -> SUBSET Position]

\* Items come and go together, and a row that was never enqueued imported nothing.
ItemsTogether ==
    \A j \in Job :
        /\ (\A p \in Position : item[j][p] = "none") \/ (\A p \in Position : item[j][p] # "none")
        /\ status[j] = "absent" => \A p \in Position : copies[j][p] = 0

\* What a run that still holds its lease knows: it has left no record pending
\* behind it, and it reports completion only when every record is settled.
RunKnows ==
    \A w \in Worker :
        /\ loaded[w] => phase[w] = "running"
        /\ phase[w] \in {"running", "complete"} /\ Owns(w, current[w]) =>
              /\ loaded[w] => \A p \in Position \ work[w] : item[current[w]][p] # "pending"
              /\ phase[w] = "complete" => \A p \in Position : item[current[w]][p] \in Done \cup {"none"}

ItemInv == ImportVarsOK /\ ItemsTogether /\ RunKnows /\ ExactlyOnce /\ CompletedImportsEverything /\ PayloadKept

LEMMA InitItemInv == ImportInit => ItemInv
  BY DEF ImportInit, Init, ItemInv, ImportVarsOK, ItemsTogether, RunKnows, ExactlyOnce,
         CompletedImportsEverything, PayloadKept, ItemStatus, Done, Running

\* What a worker's step may do to the row of a job.
LEMMA WorkerEffect ==
  ASSUME IInv, NEW w \in Worker, WorkerStep(w) \/ BodyStep(w), NEW j \in Job
  PROVE  /\ status'[j] \in {"pending", "processing"} => status[j] \in {"pending", "processing"}
         /\ status'[j] = "absent" => status[j] = "absent"
         /\ status'[j] = "completed" =>
              \/ status[j] = "completed"
              \/ phase[w] = "complete" /\ current[w] = j /\ Owns(w, j)
         /\ \A v \in Worker : Owns(v, j)' => Owns(v, j) \/ (v = w /\ phase[w] = "claiming")
<1> USE JobQueueAssumption DEF IInv, TypeOK, Status, Owns
<1> DEFINE Goal ==
        /\ status'[j] \in {"pending", "processing"} => status[j] \in {"pending", "processing"}
        /\ status'[j] = "absent" => status[j] = "absent"
        /\ status'[j] = "completed" =>
             \/ status[j] = "completed"
             \/ phase[w] = "complete" /\ current[w] = j /\ Owns(w, j)
        /\ \A v \in Worker : Owns(v, j)' => Owns(v, j) \/ (v = w /\ phase[w] = "claiming")
<1>1. ASSUME phase[w] = "claiming", NEW picked \in SUBSET Eligible, ClaimRows(w, picked) PROVE Goal
  BY <1>1 DEF ClaimRows, AfterReap, ReapedStatus, Reaped, Eligible
<1>2. CASE UNCHANGED <<status, attempts, cancelRequested, lockedBy, due, epoch>>
  BY <1>2
<1>3. ASSUME phase[w] = "complete", current[w] \in Job, CompleteRow(w, current[w]) PROVE Goal
  BY <1>3 DEF CompleteRow, Report, row
<1>4. ASSUME current[w] \in Job, FailRow(w, current[w]) \/ ReleaseRow(w, current[w]) PROVE Goal
  BY <1>4 DEF FailRow, ReleaseRow, Report, row
<1> QED BY <1>1, <1>2, <1>3, <1>4, RowsTouched

\* Where a worker's step leaves the runs: it never takes a run into its body or on to
\* its completion, except by the first heartbeat.
LEMMA RunEffect ==
  ASSUME IInv, NEW w \in Worker, WorkerStep(w)
  PROVE  /\ \A v \in Worker \ {w} : phase'[v] = phase[v] /\ current'[v] = current[v]
         /\ phase'[w] = "running" => phase[w] \in {"claimed", "running"} /\ current'[w] = current[w]
         /\ phase'[w] = "complete" => phase[w] = "complete" /\ current'[w] = current[w]
<1> USE DEF IInv, TypeOK
<1>1. CASE Poll(w) \/ (\E j \in Job : ClaimJob(w, j)) \/ ClaimNothing(w) \/ ClaimSkips(w) \/ ClaimError(w)
  BY <1>1 DEF Poll, ClaimJob, ClaimNothing, ClaimSkips, ClaimError
<1>2. CASE Heartbeat(w) \/ HeartbeatError(w) \/ ObserveAbort(w) \/ Stop(w) \/ Crash(w)
  BY <1>2 DEF Heartbeat, HeartbeatError, ObserveAbort, Stop, Crash
<1>3. CASE ReportStep(w)
  BY <1>3 DEF ReportStep, Complete, CompleteError, Fail, Release, ReportError, EndRun
<1> QED BY <1>1, <1>2, <1>3 DEF WorkerStep

-----------------------------------------------------------------------------
(* Each kind of step preserves the invariant.                              *)

LEMMA RowStepItemInv ==
  ASSUME IInv, ItemInv, NEW j \in Job, ImportRowStep(j)
  PROVE  ItemInv'
<1> USE DEF IInv, TypeOK, ItemInv, ImportVarsOK
<1>1. UNCHANGED <<phase, current, loaded, work>>
  BY DEF ImportRowStep, EnqueueImport, Enqueue, RetryImport, Retry, Cleanup, Cancel, Expire, Elapse,
         importVars, run, vars
<1>2. \A v \in Worker, i \in Job : Owns(v, i)' => Owns(v, i) /\ item'[i] = item[i]
  BY DEF ImportRowStep, EnqueueImport, Enqueue, RetryImport, Retry, Cleanup, Expired, Terminal,
         Cancel, CancelledStatus, Expire, Elapse, importVars, vars, row, Owns
<1>3. RunKnows'
  BY <1>1, <1>2 DEF RunKnows, Running
<1>4. CASE EnqueueImport(j)
  <2>1. /\ status[j] = "absent" /\ status' = [status EXCEPT ![j] = "pending"]
        /\ item' = [item EXCEPT ![j] = [p \in Position |-> "pending"]]
        /\ copies' = copies
    BY <1>4 DEF EnqueueImport, Enqueue
  <2>2. ImportVarsOK'
    BY <1>1, <2>1 DEF ItemStatus
  <2>3. ItemsTogether' /\ ExactlyOnce' /\ PayloadKept'
    BY <2>1 DEF ItemsTogether, ExactlyOnce, PayloadKept
  <2>4. CompletedImportsEverything'
    BY <2>1 DEF CompletedImportsEverything
  <2> QED BY <1>3, <2>2, <2>3, <2>4
<1>5. CASE RetryImport(j)
  <2>1. /\ HasItems(j) /\ status[j] \in {"failed", "cancelled"}
        /\ status' = [status EXCEPT ![j] = "pending"]
        /\ item' = item /\ copies' = copies
    BY <1>5 DEF RetryImport, Retry, importVars
  <2>2. ItemsTogether' /\ ExactlyOnce' /\ PayloadKept' /\ CompletedImportsEverything'
    BY <2>1 DEF ItemsTogether, ExactlyOnce, PayloadKept, HasItems, CompletedImportsEverything
  <2> QED BY <1>1, <1>3, <2>1, <2>2
<1>6. CASE Cleanup(j)
  <2>1. /\ status[j] \in Terminal /\ status' = status /\ copies' = copies
        /\ item' = [item EXCEPT ![j] = [p \in Position |-> "none"]]
    BY <1>6 DEF Cleanup, Expired, vars, row
  <2>2. ImportVarsOK'
    BY <1>1, <2>1 DEF ItemStatus
  <2>3. ItemsTogether' /\ ExactlyOnce' /\ PayloadKept' /\ CompletedImportsEverything'
    BY <2>1 DEF ItemsTogether, ExactlyOnce, PayloadKept, CompletedImportsEverything, Terminal
  <2> QED BY <1>3, <2>2, <2>3
<1>7. CASE (Cancel(j) \/ Expire(j) \/ Elapse(j)) /\ UNCHANGED importVars
  <2>1. /\ item' = item /\ copies' = copies
        /\ \A i \in Job : status'[i] = status[i] \/ (status[i] = "pending" /\ status'[i] = "cancelled")
    BY <1>7 DEF Cancel, CancelledStatus, Expire, Elapse, importVars
  <2>2. ItemsTogether' /\ ExactlyOnce'
    BY <2>1 DEF ItemsTogether, ExactlyOnce
  <2>3. PayloadKept'
    BY <2>1 DEF PayloadKept
  <2>4. CompletedImportsEverything'
    BY <2>1 DEF CompletedImportsEverything
  <2> QED BY <1>1, <1>3, <2>1, <2>2, <2>3, <2>4
<1> QED BY <1>4, <1>5, <1>6, <1>7 DEF ImportRowStep

LEMMA WorkerStepItemInv ==
  ASSUME IInv, ItemInv, NEW w \in Worker, ImportWorkerStep(w)
  PROVE  ItemInv'
<1>1. WorkerStep(w) /\ UNCHANGED <<item, copies>>
  BY DEF ImportWorkerStep, ForgetBody, importVars
<1>2. ImportVarsOK'
  BY <1>1 DEF ImportWorkerStep, ForgetBody, importVars, ItemInv, ImportVarsOK
<1>3. ItemsTogether' /\ ExactlyOnce' /\ PayloadKept'
  BY <1>1, WorkerEffect DEF ItemInv, ItemsTogether, ExactlyOnce, PayloadKept
<1>4. CompletedImportsEverything'
  BY <1>1, WorkerEffect DEF ItemInv, CompletedImportsEverything, RunKnows, Running
<1>5. RunKnows'
  <2> SUFFICES ASSUME NEW v \in Worker
               PROVE  /\ loaded'[v] => phase'[v] = "running"
                      /\ phase'[v] \in {"running", "complete"} /\ Owns(v, current[v])' =>
                           /\ loaded'[v] => \A p \in Position \ work'[v] : item'[current'[v]][p] # "pending"
                           /\ phase'[v] = "complete" =>
                                \A p \in Position : item'[current'[v]][p] \in Done \cup {"none"}
    BY DEF RunKnows
  <2>1. phase'[v] \in {"running", "complete"} =>
           /\ phase[v] \in {"claimed", "running", "complete"}
           /\ phase'[v] = "complete" => phase[v] = "complete"
           /\ current'[v] = current[v]
    BY <1>1, RunEffect
  <2>2. phase[v] \in Running => current[v] \in Job
    BY DEF IInv, TypeOK
  <2>3. phase'[v] \in {"running", "complete"} /\ Owns(v, current[v])' => Owns(v, current[v])
    <3> SUFFICES ASSUME phase'[v] \in {"running", "complete"}, Owns(v, current[v])'
                 PROVE  Owns(v, current[v])
      OBVIOUS
    <3>1. Owns(v, current[v])' <=> lockedBy'[current[v]] = v /\ status'[current[v]] = "processing"
      BY <2>1 DEF Owns
    <3> QED BY <1>1, <2>1, <2>2, <3>1, WorkerEffect DEF Owns, Running
  <2>4. CASE v = w
    BY <1>1, <2>1, <2>3, <2>4 DEF ImportWorkerStep, ForgetBody, importVars, ItemInv, ImportVarsOK, RunKnows
  <2>5. CASE v # w
    <3>1. phase'[v] = phase[v] /\ current'[v] = current[v] /\ loaded'[v] = loaded[v] /\ work'[v] = work[v]
      BY <1>1, <2>5, RunEffect DEF ImportWorkerStep, ForgetBody, importVars, ItemInv, ImportVarsOK
    <3> QED BY <1>1, <2>3, <3>1 DEF ItemInv, RunKnows
  <2> QED BY <2>4, <2>5
<1> QED BY <1>2, <1>3, <1>4, <1>5 DEF ItemInv

\* A savepoint's outcome changes one record.
LEMMA OutcomeEffect ==
  ASSUME ImportVarsOK, NEW j \in Job, NEW p \in Position,
         NEW outcome \in {"completed", "skipped", "failed"}, ItemOutcome(j, p, outcome)
  PROVE  /\ item' \in [Job -> [Position -> ItemStatus]] /\ copies' \in [Job -> [Position -> Nat]]
         /\ \A i \in Job, q \in Position :
              /\ item'[i][q] = IF i = j /\ q = p THEN outcome ELSE item[i][q]
              /\ copies'[i][q] = IF i = j /\ q = p /\ outcome = "completed"
                                 THEN copies[i][q] + 1 ELSE copies[i][q]
<1> DEFINE more == IF outcome = "completed" THEN 1 ELSE 0
<1>1. /\ item' = [item EXCEPT ![j] = [item[j] EXCEPT ![p] = outcome]]
      /\ copies' = [copies EXCEPT ![j] = [copies[j] EXCEPT ![p] = copies[j][p] + more]]
  BY DEF ItemOutcome
<1>2. [item[j] EXCEPT ![p] = outcome] \in [Position -> ItemStatus]
  BY DEF ImportVarsOK, ItemStatus, Done
<1>3. [copies[j] EXCEPT ![p] = copies[j][p] + more] \in [Position -> Nat]
  BY DEF ImportVarsOK
<1>4. item' \in [Job -> [Position -> ItemStatus]] /\ copies' \in [Job -> [Position -> Nat]]
  BY <1>1, <1>2, <1>3 DEF ImportVarsOK
<1>5. ASSUME NEW i \in Job, NEW q \in Position
      PROVE  /\ item'[i][q] = IF i = j /\ q = p THEN outcome ELSE item[i][q]
             /\ copies'[i][q] = IF i = j /\ q = p /\ outcome = "completed"
                                THEN copies[i][q] + 1 ELSE copies[i][q]
  BY <1>1 DEF ImportVarsOK
<1> QED BY <1>4, <1>5

\* A transaction that commits a record's outcome.
LEMMA CommitItemInv ==
  ASSUME IInv, ItemInv, NEW w \in Worker, NEW p \in Position,
         ImportItem(w, p) \/ ImportItemUnacknowledged(w, p)
  PROVE  ItemInv'
<1> PICK j \in Job : current[w] = j
  BY DEF ImportItem, ImportItemUnacknowledged, CommitItem, Running, IInv, TypeOK
<1>1. /\ phase[w] = "running" /\ loaded[w] /\ p \in work[w]
      /\ Owns(w, j) /\ CommitItem(w, p)
  BY DEF ImportItem, ImportItemUnacknowledged, CommitItem, IsNext, MayImport
<1>2. UNCHANGED <<status, lockedBy>>
  BY <1>1 DEF CommitItem, RefreshLease, row
<1>3. \A v \in Worker, i \in Job : Owns(v, i)' <=> Owns(v, i)
  BY <1>2 DEF Owns
<1>4. /\ \A v \in Worker \ {w} : UNCHANGED <<phase[v], current[v], loaded[v], work[v]>>
      /\ \/ phase'[w] = "running" /\ current'[w] = j /\ loaded'[w] /\ work'[w] = work[w] \ {p}
         \/ phase'[w] \in {"release", "fail"} /\ ~loaded'[w]
      /\ loaded' \in [Worker -> BOOLEAN] /\ work' \in [Worker -> SUBSET Position]
  BY <1>1 DEF ImportItem, ImportItemUnacknowledged, run, IInv, TypeOK, ItemInv, ImportVarsOK
<1>5. CASE UNCHANGED <<item, copies>> /\ item[j][p] \in Done \cup {"none"}
  <2>1. RunKnows'
    BY <1>1, <1>3, <1>4, <1>5 DEF RunKnows, ItemInv, Owns, IInv, TypeOK, Running, Done
  <2> QED BY <1>2, <1>4, <1>5, <2>1
          DEF ItemInv, ImportVarsOK, ItemsTogether, ExactlyOnce, CompletedImportsEverything, PayloadKept
<1>6. ASSUME NEW outcome \in {"completed", "skipped", "failed"}, ItemOutcome(j, p, outcome),
             item[j][p] \in ItemStatus \ (Done \cup {"none"})
      PROVE  ItemInv'
  <2>1. /\ item' \in [Job -> [Position -> ItemStatus]] /\ copies' \in [Job -> [Position -> Nat]]
        /\ \A i \in Job, q \in Position :
             /\ item'[i][q] = IF i = j /\ q = p THEN outcome ELSE item[i][q]
             /\ copies'[i][q] = IF i = j /\ q = p /\ outcome = "completed"
                                THEN copies[i][q] + 1 ELSE copies[i][q]
    BY <1>6, OutcomeEffect DEF ItemInv
  <2>2. ImportVarsOK'
    BY <1>4, <2>1 DEF ImportVarsOK
  <2>3. status[j] = "processing" /\ item[j][p] \in {"pending", "failed"} /\ copies[j][p] = 0
    BY <1>1, <1>6 DEF Owns, ItemStatus, Done, ItemInv, ExactlyOnce
  <2>4. ExactlyOnce'
    BY <2>1, <2>3 DEF ExactlyOnce, ItemInv
  <2>5. PayloadKept'
    BY <1>2, <2>1, <2>3 DEF PayloadKept, ItemInv
  <2>6. ItemsTogether'
    <3>1. ASSUME NEW i \in Job
          PROVE  /\ (\A q \in Position : item'[i][q] = "none") \/ (\A q \in Position : item'[i][q] # "none")
                 /\ status[i] = "absent" => \A q \in Position : copies'[i][q] = 0
      <4>1. CASE i = j
        <5>1. \A q \in Position : item[j][q] # "none"
          BY <2>3 DEF ItemsTogether, ItemInv
        <5>2. \A q \in Position : item'[j][q] # "none"
          BY <2>1, <5>1
        <5> QED BY <2>3, <4>1, <5>2
      <4>2. CASE i # j
        <5>1. \A q \in Position : item'[i][q] = item[i][q] /\ copies'[i][q] = copies[i][q]
          BY <2>1, <4>2
        <5> QED BY <5>1 DEF ItemsTogether, ItemInv
      <4> QED BY <4>1, <4>2
    <3> QED BY <1>2, <3>1 DEF ItemsTogether
  <2>7. CompletedImportsEverything'
    BY <1>2, <2>1, <2>3 DEF CompletedImportsEverything, ItemInv
  <2>8. \A v \in Worker \ {w} : Owns(v, current[v]) => current[v] # j
    BY <1>1 DEF Owns
  <2>9. RunKnows'
    <3> SUFFICES ASSUME NEW v \in Worker
                 PROVE  /\ loaded'[v] => phase'[v] = "running"
                        /\ phase'[v] \in {"running", "complete"} /\ Owns(v, current[v])' =>
                             /\ loaded'[v] => \A q \in Position \ work'[v] : item'[current'[v]][q] # "pending"
                             /\ phase'[v] = "complete" =>
                                  \A q \in Position : item'[current'[v]][q] \in Done \cup {"none"}
      BY DEF RunKnows
    <3>1. CASE v = w
      <4>1. CASE phase'[w] = "running"
        <5>1. ASSUME NEW q \in Position \ work'[w] PROVE item'[j][q] # "pending"
          BY <1>1, <1>4, <2>1, <4>1, <5>1 DEF RunKnows, ItemInv
        <5> QED BY <1>4, <3>1, <4>1, <5>1
      <4> QED BY <1>4, <3>1, <4>1
    <3>2. CASE v # w
      <4>1. /\ phase'[v] = phase[v] /\ current'[v] = current[v]
            /\ loaded'[v] = loaded[v] /\ work'[v] = work[v]
        BY <1>4, <3>2
      <4>2. Owns(v, current[v])' <=> Owns(v, current[v])
        BY <1>2, <4>1 DEF Owns
      <4>3. ASSUME phase[v] \in {"running", "complete"}, Owns(v, current[v])
            PROVE  \A q \in Position : item'[current[v]][q] = item[current[v]][q]
        <5>1. current[v] \in Job /\ current[v] # j
          BY <2>8, <3>2, <4>3 DEF IInv, TypeOK, Running
        <5> QED BY <2>1, <5>1
      <4> QED BY <4>1, <4>2, <4>3 DEF RunKnows, ItemInv
    <3> QED BY <3>1, <3>2
  <2> QED BY <2>2, <2>4, <2>5, <2>7, <2>9, <2>6 DEF ItemInv
<1>7. item[j][p] \in ItemStatus
  BY DEF ItemInv, ImportVarsOK
<1> QED BY <1>1, <1>5, <1>6, <1>7 DEF CommitItem, AlreadySettled

LEMMA BodyItemInv ==
  ASSUME IInv, ItemInv, NEW w \in Worker, ImportBody(w)
  PROVE  ItemInv'
<1> USE DEF IInv, TypeOK, ItemInv, ImportVarsOK
<1>1. CASE LoadPositions(w)
  <2>1. RunKnows'
    BY <1>1 DEF LoadPositions, ToDo, RunKnows, vars, row, run, Owns
  <2>2. ItemsTogether' /\ ExactlyOnce' /\ CompletedImportsEverything' /\ PayloadKept'
    BY <1>1 DEF LoadPositions, vars, row, ItemsTogether, ExactlyOnce, CompletedImportsEverything, PayloadKept
  <2> QED BY <1>1, <2>1, <2>2 DEF LoadPositions, ToDo
<1>2. CASE FinishImport(w) \/ ThrowImport(w)
  <2>1. UNCHANGED <<status, lockedBy, current, item, copies>> /\ ForgetBody(w)
    BY <1>2 DEF FinishImport, ThrowImport, BodyReturns, BodyThrows, LeaveBody, ForgetBody, row
  <2>2. /\ \A v \in Worker \ {w} : phase'[v] = phase[v]
        /\ phase[w] = "running"
        /\ \/ phase'[w] = "fail"
           \/ phase'[w] = "complete" /\ loaded[w] /\ work[w] = {} /\ FailedItems(current[w]) = {}
    BY <1>2 DEF FinishImport, ThrowImport, BodyReturns, BodyThrows, LeaveBody
  <2>3. \A v \in Worker, i \in Job : Owns(v, i)' <=> Owns(v, i)
    BY <2>1 DEF Owns
  <2>4. phase'[w] = "complete" /\ Owns(w, current[w]) =>
           \A p \in Position : item[current[w]][p] \in Done \cup {"none"}
    BY <2>2 DEF RunKnows, FailedItems, Running, ItemStatus
  <2>5. RunKnows'
    BY <2>1, <2>2, <2>3, <2>4 DEF RunKnows, ForgetBody, Owns
  <2>6. ItemsTogether' /\ ExactlyOnce' /\ CompletedImportsEverything' /\ PayloadKept'
    BY <2>1 DEF ItemsTogether, ExactlyOnce, CompletedImportsEverything, PayloadKept
  <2> QED BY <2>1, <2>5, <2>6 DEF ForgetBody
<1> QED BY <1>1, <1>2, CommitItemInv DEF ImportBody

LEMMA NextItemInv == IInv /\ ItemInv /\ [ImportNext]_allVars => ItemInv'
<1> SUFFICES ASSUME IInv, ItemInv, [ImportNext]_allVars PROVE ItemInv'
  OBVIOUS
<1>1. CASE ImportNext
  BY <1>1, RowStepItemInv, WorkerStepItemInv, BodyItemInv DEF ImportNext
<1>2. CASE UNCHANGED allVars
  BY <1>2 DEF allVars, vars, row, run, importVars, ItemInv, ImportVarsOK, ItemsTogether, RunKnows,
     ExactlyOnce, CompletedImportsEverything, PayloadKept, Owns
<1> QED BY <1>1, <1>2

-----------------------------------------------------------------------------
\* Every reachable state of the imports satisfies the inductive invariant.
THEOREM ImportInvariance == ImportSpec => [](IInv /\ ItemInv)
  BY QueueInvariance, InitItemInv, NextItemInv, PTL DEF ImportSpec

\* Every variable keeps its type.
THEOREM ImportTypeCorrect == ImportSpec => []ImportTypeOK
<1>1. IInv /\ ItemInv => ImportTypeOK
  BY DEF IInv, ItemInv, ImportVarsOK, ImportTypeOK
<1> QED BY <1>1, ImportInvariance, PTL

\* No record is imported twice, and no item claims a memory that was rolled back.
THEOREM RecordsImportedOnce == ImportSpec => []ExactlyOnce
<1>1. IInv /\ ItemInv => ExactlyOnce
  BY DEF ItemInv
<1> QED BY <1>1, ImportInvariance, PTL

\* A job reported completed left none of its records behind.
THEOREM CompletedIsComplete == ImportSpec => []CompletedImportsEverything
<1>1. IInv /\ ItemInv => CompletedImportsEverything
  BY DEF ItemInv
<1> QED BY <1>1, ImportInvariance, PTL

\* A job that may still run has its whole payload, cleanup or not.
THEOREM PayloadIsKept == ImportSpec => []PayloadKept
<1>1. IInv /\ ItemInv => PayloadKept
  BY DEF ItemInv
<1> QED BY <1>1, ImportInvariance, PTL

=============================================================================
