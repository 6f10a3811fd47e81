------------------------------ MODULE JobQueue ------------------------------
(***************************************************************************)
(* The background job queue: rows of table ingestion_jobs as               *)
(* JobRepository changes them, and the BackgroundWorker processes that     *)
(* claim, heartbeat, run and report them.                                  *)
(*                                                                         *)
(* Every SQL statement (or transaction) is one step.  A worker's run is    *)
(* split at every await, so a statement of another worker, a cancel or a   *)
(* stop can land between any two of them.  Time is abstracted to two flags *)
(* of a row: stale (locked_at is older than staleAfterSeconds) and due     *)
(* (available_at has passed).  What a run computes is left to the modules  *)
(* that refine its body.                                                   *)
(***************************************************************************)
EXTENDS Naturals

CONSTANTS Job,          \* the rows a run of the system may create
          Worker,       \* worker processes; an id is used by one process only
          Durable,      \* the workers that are never stopped and never crash
          NoJob,        \* no job
          NoWorker,     \* SQL NULL in locked_by
          MaxAttempts,  \* column max_attempts
          MaxRetries,   \* bound on the retries users ask for
          MaxFaults     \* bound on statements that err or meet a locked row

ASSUME JobQueueAssumption ==
    /\ NoJob \notin Job
    /\ NoWorker \notin Worker
    /\ Durable \subseteq Worker
    /\ MaxAttempts \in Nat \ {0}
    /\ MaxRetries \in Nat
    /\ MaxFaults \in Nat

VARIABLES status, attempts, cancelRequested, lockedBy, stale, due,
          phase,     \* where a worker's runOnce stands
          current,   \* the job a worker is running
          aborted,   \* its AbortController's signal
          stopping,  \* stop() was called
          retries, faults,
          epoch,     \* history: how often a job was claimed
          token      \* history: the epoch of the claim a worker is running

row     == <<status, attempts, cancelRequested, lockedBy, stale, due, epoch>>
run     == <<phase, current, aborted, token>>
vars    == <<row, run, stopping, retries, faults>>

Status   == {"absent", "pending", "processing", "completed", "failed", "cancelled"}
Terminal == {"completed", "failed", "cancelled"}
Phase    == {"idle", "claiming", "claimed", "running", "complete", "fail", "release", "dead"}
Running  == {"claimed", "running", "complete", "fail", "release"}

Init ==
    /\ status = [j \in Job |-> "absent"]
    /\ attempts = [j \in Job |-> 0]
    /\ cancelRequested = [j \in Job |-> FALSE]
    /\ lockedBy = [j \in Job |-> NoWorker]
    /\ stale = [j \in Job |-> FALSE]
    /\ due = [j \in Job |-> TRUE]
    /\ epoch = [j \in Job |-> 0]
    /\ phase = [w \in Worker |-> "idle"]
    /\ current = [w \in Worker |-> NoJob]
    /\ aborted = [w \in Worker |-> FALSE]
    /\ token = [w \in Worker |-> 0]
    /\ stopping = [w \in Worker |-> FALSE]
    /\ retries = 0
    /\ faults = 0

-----------------------------------------------------------------------------
(* What users and the clock do to rows.                                    *)

Enqueue(j) ==
    /\ status[j] = "absent"
    /\ status' = [status EXCEPT ![j] = "pending"]
    /\ UNCHANGED <<attempts, cancelRequested, lockedBy, stale, due, epoch, run, stopping, retries, faults>>

CancelledStatus(j) == IF status[j] = "pending" THEN "cancelled" ELSE status[j]

Cancel(j) ==
    /\ status[j] \in {"pending", "processing"}
    /\ cancelRequested' = [cancelRequested EXCEPT ![j] = TRUE]
    /\ status' = [status EXCEPT ![j] = CancelledStatus(j)]
    /\ UNCHANGED <<attempts, lockedBy, stale, due, epoch, run, stopping, retries, faults>>

Retry(j) ==
    /\ status[j] \in {"failed", "cancelled"}
    /\ retries < MaxRetries
    /\ retries' = retries + 1
    /\ status' = [status EXCEPT ![j] = "pending"]
    /\ attempts' = [attempts EXCEPT ![j] = 0]
    /\ cancelRequested' = [cancelRequested EXCEPT ![j] = FALSE]
    /\ lockedBy' = [lockedBy EXCEPT ![j] = NoWorker]
    /\ stale' = [stale EXCEPT ![j] = FALSE]
    /\ due' = [due EXCEPT ![j] = TRUE]
    /\ UNCHANGED <<epoch, run, stopping, faults>>

\* locked_at becomes older than staleAfterSeconds; the holder may well be alive.
Expire(j) ==
    /\ status[j] = "processing"
    /\ ~stale[j]
    /\ stale' = [stale EXCEPT ![j] = TRUE]
    /\ UNCHANGED <<status, attempts, cancelRequested, lockedBy, due, epoch, run, stopping, retries, faults>>

\* available_at passes.
Elapse(j) ==
    /\ ~due[j]
    /\ due' = [due EXCEPT ![j] = TRUE]
    /\ UNCHANGED <<status, attempts, cancelRequested, lockedBy, stale, epoch, run, stopping, retries, faults>>

-----------------------------------------------------------------------------
(* claim(): one transaction that first takes back every stale lease and    *)
(* then locks one eligible row.  SKIP LOCKED may pass over a row another   *)
(* transaction holds, so any eligible row can be the one that is chosen.   *)

\* Mutations: the reaper forgets the attempt limit; it forgets the cancel; it does
\* not look at the age of a lock; it takes nothing back.
ReapAlwaysRequeues(j) == IF cancelRequested[j] THEN "cancelled" ELSE "pending"
ReapIgnoresCancel(j)  == IF attempts[j] >= MaxAttempts THEN "failed" ELSE "pending"
ReapFresh             == {j \in Job : status[j] = "processing"}
ReapNothing           == {}

Reaped == {j \in Job : status[j] = "processing" /\ stale[j]}

ReapedStatus(j) ==
    IF cancelRequested[j] THEN "cancelled"
    ELSE IF attempts[j] >= MaxAttempts THEN "failed" ELSE "pending"

AfterReap(j) == IF j \in Reaped THEN ReapedStatus(j) ELSE status[j]

Eligible ==
    {j \in Job : /\ AfterReap(j) = "pending"
                 /\ due[j] \/ j \in Reaped
                 /\ ~cancelRequested[j]
                 /\ attempts[j] < MaxAttempts}

\* Rows after the transaction that locks the rows in picked for worker w.
ClaimRows(w, picked) ==
    /\ status' = [j \in Job |-> IF j \in picked THEN "processing" ELSE AfterReap(j)]
    /\ attempts' = [j \in Job |-> IF j \in picked THEN attempts[j] + 1 ELSE attempts[j]]
    /\ lockedBy' = [j \in Job |-> IF j \in picked THEN w
                                  ELSE IF j \in Reaped THEN NoWorker ELSE lockedBy[j]]
    /\ stale' = [j \in Job |-> stale[j] /\ j \notin Reaped /\ j \notin picked]
    /\ due' = [j \in Job |-> due[j] \/ j \in Reaped]
    /\ epoch' = [j \in Job |-> IF j \in picked THEN epoch[j] + 1 ELSE epoch[j]]
    /\ UNCHANGED cancelRequested

\* runOnce(): single flight, a fresh AbortController per run.
Poll(w) ==
    /\ phase[w] = "idle"
    /\ ~stopping[w]
    /\ phase' = [phase EXCEPT ![w] = "claiming"]
    /\ aborted' = [aborted EXCEPT ![w] = FALSE]
    /\ UNCHANGED <<row, current, token, stopping, retries, faults>>

ClaimJob(w, j) ==
    /\ phase[w] = "claiming"
    /\ j \in Eligible
    /\ ClaimRows(w, {j})
    /\ phase' = [phase EXCEPT ![w] = "claimed"]
    /\ current' = [current EXCEPT ![w] = j]
    /\ token' = [token EXCEPT ![w] = epoch[j] + 1]
    /\ UNCHANGED <<aborted, stopping, retries, faults>>

ClaimNothing(w) ==
    /\ phase[w] = "claiming"
    /\ Eligible = {}
    /\ ClaimRows(w, {})
    /\ phase' = [phase EXCEPT ![w] = "idle"]
    /\ UNCHANGED <<current, aborted, token, stopping, retries, faults>>

\* One of the bounded number of statements that do not do what they should.
Fault == /\ faults < MaxFaults
         /\ faults' = faults + 1

\* SKIP LOCKED finds every eligible row locked by another statement.
ClaimSkips(w) ==
    /\ phase[w] = "claiming"
    /\ Eligible # {}
    /\ Fault
    /\ ClaimRows(w, {})
    /\ phase' = [phase EXCEPT ![w] = "idle"]
    /\ UNCHANGED <<current, aborted, token, stopping, retries>>

\* claim() throws: rolled back, or committed with the answer lost.
ClaimError(w) ==
    /\ phase[w] = "claiming"
    /\ Fault
    /\ \/ UNCHANGED row
       \/ \E j \in Eligible : ClaimRows(w, {j})
    /\ phase' = [phase EXCEPT ![w] = "idle"]
    /\ UNCHANGED <<current, aborted, token, stopping, retries>>

-----------------------------------------------------------------------------
(* A run.  Each report is fenced: it changes a row only while this worker  *)
(* holds its lock.                                                         *)

\* Mutation: a report checks that the job runs, not who runs it.
OwnsAnyRun(w, j) == status[j] = "processing"

Owns(w, j) == lockedBy[j] = w /\ status[j] = "processing"

RefreshLease(w, j) ==
    /\ stale' = [stale EXCEPT ![j] = @ /\ ~Owns(w, j)]
    /\ UNCHANGED <<status, attempts, cancelRequested, lockedBy, due, epoch>>

\* heartbeat() answers anything but 'active'.
Interrupted(w, j) == ~Owns(w, j) \/ cancelRequested[j]

\* The heartbeat timer, and the first heartbeat that decides whether to run.  One
\* already sent when the signal is raised still lands.
Heartbeat(w) ==
    /\ phase[w] \in Running
    /\ RefreshLease(w, current[w])
    /\ aborted' = [aborted EXCEPT ![w] = @ \/ Interrupted(w, current[w])]
    /\ phase' = [phase EXCEPT ![w] = IF @ # "claimed" THEN @
                                     ELSE IF aborted'[w] THEN "release" ELSE "running"]
    /\ UNCHANGED <<current, token, stopping, retries, faults>>

HeartbeatError(w) ==
    /\ phase[w] \in Running
    /\ Fault
    /\ UNCHANGED row \/ RefreshLease(w, current[w])
    /\ aborted' = [aborted EXCEPT ![w] = TRUE]
    /\ phase' = [phase EXCEPT ![w] = IF @ = "claimed" THEN "release" ELSE @]
    /\ UNCHANGED <<current, token, stopping, retries>>

\* progress(): a lost or cancelled job interrupts the run.
Progress(w) ==
    /\ phase[w] = "running"
    /\ RefreshLease(w, current[w])
    /\ phase' = [phase EXCEPT ![w] = IF Interrupted(w, current[w]) THEN "release" ELSE @]
    /\ UNCHANGED <<current, aborted, token, stopping, retries, faults>>

\* A statement of the body that also refreshes the lease throws: rolled back, or
\* committed with the answer lost.
ProgressError(w) ==
    /\ phase[w] = "running"
    /\ Fault
    /\ UNCHANGED row \/ RefreshLease(w, current[w])
    /\ phase' = [phase EXCEPT ![w] = IF aborted[w] THEN "release" ELSE "fail"]
    /\ UNCHANGED <<current, aborted, token, stopping, retries>>

\* throwIfAborted() finds the signal raised.
ObserveAbort(w) ==
    /\ phase[w] \in {"claimed", "running"}
    /\ aborted[w]
    /\ phase' = [phase EXCEPT ![w] = "release"]
    /\ UNCHANGED <<row, current, aborted, token, stopping, retries, faults>>

\* The body returns or throws while the signal is still clear.
LeaveBody(w, report) ==
    /\ phase[w] = "running"
    /\ ~aborted[w]
    /\ phase' = [phase EXCEPT ![w] = report]
    /\ UNCHANGED <<row, current, aborted, token, stopping, retries, faults>>

BodyReturns(w) == LeaveBody(w, "complete")
BodyThrows(w)  == LeaveBody(w, "fail")

\* A report's UPDATE: next status, attempts and availability of the row, if fenced in.
Report(w, j, next, charged, available) ==
    IF Owns(w, j)
    THEN /\ status' = [status EXCEPT ![j] = IF cancelRequested[j] THEN "cancelled" ELSE next]
         /\ attempts' = [attempts EXCEPT ![j] = charged]
         /\ lockedBy' = [lockedBy EXCEPT ![j] = NoWorker]
         /\ stale' = [stale EXCEPT ![j] = FALSE]
         /\ due' = [due EXCEPT ![j] = available]
         /\ UNCHANGED <<cancelRequested, epoch>>
    ELSE UNCHANGED row

CompleteRow(w, j) == Report(w, j, "completed", attempts[j], due[j])

\* Mutation: a failure always retries.
FailAlwaysRetries(w, j) == Report(w, j, "pending", attempts[j], FALSE)

FailRow(w, j) ==
    Report(w, j, IF attempts[j] < MaxAttempts THEN "pending" ELSE "failed", attempts[j], FALSE)

ReleaseRow(w, j) ==
    Report(w, j, "pending", IF attempts[j] > 0 THEN attempts[j] - 1 ELSE 0, TRUE)

EndRun(w) ==
    /\ phase' = [phase EXCEPT ![w] = "idle"]
    /\ current' = [current EXCEPT ![w] = NoJob]
    /\ token' = [token EXCEPT ![w] = 0]
    /\ UNCHANGED <<aborted, stopping, retries>>

Complete(w) ==
    /\ phase[w] = "complete"
    /\ CompleteRow(w, current[w])
    /\ EndRun(w)
    /\ UNCHANGED faults

\* complete() throws inside the try block: the catch clause reports instead.
CompleteError(w) ==
    /\ phase[w] = "complete"
    /\ Fault
    /\ UNCHANGED row \/ CompleteRow(w, current[w])
    /\ phase' = [phase EXCEPT ![w] = IF aborted[w] THEN "release" ELSE "fail"]
    /\ UNCHANGED <<current, aborted, token, stopping, retries>>

Fail(w) ==
    /\ phase[w] = "fail"
    /\ FailRow(w, current[w])
    /\ EndRun(w)
    /\ UNCHANGED faults

Release(w) ==
    /\ phase[w] = "release"
    /\ ReleaseRow(w, current[w])
    /\ EndRun(w)
    /\ UNCHANGED faults

\* fail() or release() throws: execute() rejects and the row stays locked.  (One
\* that took effect before its error is Fail or Release.)
ReportError(w) ==
    /\ phase[w] \in {"fail", "release"}
    /\ Fault
    /\ EndRun(w)
    /\ UNCHANGED row

-----------------------------------------------------------------------------
(* Shutdown and crash of a worker process.                                 *)

Stop(w) ==
    /\ w \notin Durable
    /\ phase[w] # "dead"
    /\ ~stopping[w]
    /\ stopping' = [stopping EXCEPT ![w] = TRUE]
    /\ aborted' = [aborted EXCEPT ![w] = @ \/ phase[w] # "idle"]
    /\ UNCHANGED <<row, phase, current, token, retries, faults>>

Crash(w) ==
    /\ w \notin Durable
    /\ phase[w] # "dead"
    /\ phase' = [phase EXCEPT ![w] = "dead"]
    /\ UNCHANGED <<row, current, aborted, token, stopping, retries, faults>>

-----------------------------------------------------------------------------
RowStep(j)  == Enqueue(j) \/ Cancel(j) \/ Retry(j) \/ Expire(j) \/ Elapse(j)

ReportStep(w) == Complete(w) \/ CompleteError(w) \/ Fail(w) \/ Release(w) \/ ReportError(w)

WorkerStep(w) ==
    \/ Poll(w)
    \/ \E j \in Job : ClaimJob(w, j)
    \/ ClaimNothing(w)
    \/ ClaimSkips(w)
    \/ ClaimError(w)
    \/ Heartbeat(w)
    \/ HeartbeatError(w)
    \/ ObserveAbort(w)
    \/ ReportStep(w)
    \/ Stop(w)
    \/ Crash(w)

BodyStep(w) == Progress(w) \/ ProgressError(w) \/ BodyReturns(w) \/ BodyThrows(w)

Next ==
    \/ \E j \in Job : RowStep(j)
    \/ \E w \in Worker : WorkerStep(w) \/ BodyStep(w)

Spec == Init /\ [][Next]_vars

(***************************************************************************)
(* Fairness.  A live worker's timers and statements run: it polls, its     *)
(* claim is answered, its first heartbeat is answered, its body ends       *)
(* (Provider calls have timeouts) and its report is sent.  Time passes: a  *)
(* backoff ends, and the lease of a row nobody is running becomes stale.   *)
(* Nothing forces a user action, a fault, a stop or a crash.               *)
(***************************************************************************)
Attended(j) == \E w \in Worker : phase[w] \in Running /\ current[w] = j /\ Owns(w, j)

Fairness ==
    /\ \A w \in Worker :
        /\ WF_vars(Poll(w))
        /\ WF_vars(ClaimNothing(w) \/ \E j \in Job : ClaimJob(w, j))
        /\ WF_vars(phase[w] = "claimed" /\ Heartbeat(w))
        /\ WF_vars(ObserveAbort(w) \/ BodyReturns(w) \/ BodyThrows(w))
        /\ WF_vars(Complete(w) \/ Fail(w) \/ Release(w))
    /\ \A j \in Job : WF_vars(Elapse(j)) /\ WF_vars(~Attended(j) /\ Expire(j))

LiveSpec == Spec /\ Fairness

-----------------------------------------------------------------------------
(* Properties.                                                             *)

TypeOK ==
    /\ status \in [Job -> Status]
    /\ attempts \in [Job -> 0..MaxAttempts]
    /\ cancelRequested \in [Job -> BOOLEAN]
    /\ lockedBy \in [Job -> Worker \cup {NoWorker}]
    /\ stale \in [Job -> BOOLEAN]
    /\ due \in [Job -> BOOLEAN]
    /\ epoch \in [Job -> Nat]
    /\ phase \in [Worker -> Phase]
    /\ current \in [Worker -> Job \cup {NoJob}]
    /\ aborted \in [Worker -> BOOLEAN]
    /\ token \in [Worker -> Nat]
    /\ stopping \in [Worker -> BOOLEAN]
    /\ retries \in 0..MaxRetries
    /\ faults \in 0..MaxFaults
    /\ \A w \in Worker : phase[w] \in Running => current[w] \in Job

\* No row is stranded: whatever mix of failures, releases, reaps, cancels and
\* retries a job went through, a pending one satisfies every condition of claim()
\* but its backoff, and a processing one has a holder whose lease can expire.
NoStrandedJob ==
    \A j \in Job :
        /\ status[j] = "pending" => /\ attempts[j] < MaxAttempts
                                    /\ ~cancelRequested[j]
                                    /\ lockedBy[j] = NoWorker
        /\ status[j] = "processing" => lockedBy[j] # NoWorker /\ attempts[j] > 0

\* A requested cancel is either honoured or still binding on the current run: no
\* job is completed, failed or queued again while cancel_requested is set.
CancelBinds ==
    \A j \in Job :
        /\ cancelRequested[j] => status[j] \in {"processing", "cancelled"}
        /\ status[j] = "cancelled" => cancelRequested[j]

\* The worker id is as good a fence as a fencing token: a run whose report would
\* pass the locked_by check is the run of the row's latest claim.
FenceIsExact ==
    \A w \in Worker :
        phase[w] \in Running /\ Owns(w, current[w]) => token[w] = epoch[current[w]]

\* While a lease is fresh, only a report of the run that holds it ends it.
LeaseRespected ==
    [][\A j \in Job :
        status[j] = "processing" /\ ~stale[j] /\ (status'[j] # "processing" \/ lockedBy'[j] # lockedBy[j]) =>
            \E w \in Worker :
                /\ lockedBy[j] = w
                /\ current[w] = j
                /\ phase[w] \in {"complete", "fail", "release"}
                /\ token[w] = epoch[j]
                /\ phase'[w] # phase[w]]_vars

\* Late statements of a superseded run cannot reopen or rewrite a finished job:
\* only retry does, never for a completed job, and it starts from a clean row.
FinishedStaysFinished ==
    [][\A j \in Job :
        status[j] \in Terminal /\ status'[j] # status[j] =>
            /\ status[j] # "completed"
            /\ retries' = retries + 1
            /\ status'[j] = "pending"
            /\ attempts'[j] = 0
            /\ ~cancelRequested'[j]]_vars

\* A job whose cancel was requested is never claimed again before a retry.
NoRunAfterCancel ==
    [][\A j \in Job : cancelRequested[j] => epoch'[j] = epoch[j]]_vars

\* Every queued job ends, if faults and retries are finitely many and one worker
\* survives: backoff, lost leases and crashed holders only delay it.
EveryJobSettles ==
    \A j \in Job : status[j] = "pending" ~> status[j] \in Terminal

\* A cancel of a running job is eventually honoured, whoever runs it and
\* whether or not that process survives.
CancelHonoured ==
    \A j \in Job : (status[j] = "processing" /\ cancelRequested[j]) ~> status[j] = "cancelled"

-----------------------------------------------------------------------------
(* Refinement of JobLifecycle: what a row shows its user.                  *)

userState ==
    [j \in Job |->
        CASE status[j] = "absent" -> "unknown"
          [] status[j] = "pending" -> "queued"
          [] status[j] = "processing" -> IF cancelRequested[j] THEN "stopping" ELSE "running"
          [] OTHER -> status[j]]

runsLeft ==
    [j \in Job |-> IF userState[j] \in {"queued", "running"} THEN MaxAttempts - attempts[j] ELSE 0]

Lifecycle == INSTANCE JobLifecycle WITH state <- userState, budget <- runsLeft

\* Rows, leases, late statements, faults and crashes implement the life of a job
\* its users were promised.
ImplementsLifecycle == Lifecycle!Spec
=============================================================================
