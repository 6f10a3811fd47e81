----------------------------- MODULE ImportQueue -----------------------------
(***************************************************************************)
(* Queued imports: the job queue with the body of an import_v2 run.        *)
(* ImportQueue.enqueue stores one import_items row per record together     *)
(* with the job; ImportQueue.execute reads the positions still to do and   *)
(* runs processImportItem, one transaction each, which checks the lease    *)
(* and the item under row locks and commits the new memory together with   *)
(* the item's new status.  OperationsService.cleanup deletes the items of  *)
(* finished jobs after the retention period.                               *)
(*                                                                         *)
(* A record's content is left out: whether it parses, is a duplicate or    *)
(* hits a quota is any of the outcomes the transaction can commit.         *)
(***************************************************************************)
EXTENDS JobQueue

CONSTANT Position   \* positions of the records of an import

ASSUME PositionAssumption == Position \subseteq Nat

VARIABLES item,     \* status of each import_items row
          copies,   \* history: memories inserted for the record
          loaded,   \* a run has read the positions it will process
          work      \* those it has not processed yet

importVars == <<item, copies, loaded, work>>
allVars    == <<vars, importVars>>

Done       == {"completed", "skipped"}
ItemStatus == {"none", "pending", "failed"} \cup Done

ImportInit ==
    /\ Init
    /\ item = [j \in Job |-> [p \in Position |-> "none"]]
    /\ copies = [j \in Job |-> [p \in Position |-> 0]]
    /\ loaded = [w \in Worker |-> FALSE]
    /\ work = [w \in Worker |-> {}]

HasItems(j) == \E p \in Position : item[j][p] # "none"

-----------------------------------------------------------------------------
EnqueueImport(j) ==
    /\ Enqueue(j)
    /\ item' = [item EXCEPT ![j] = [p \in Position |-> "pending"]]
    /\ UNCHANGED <<copies, loaded, work>>

\* Mutation: an import is retried whether or not its items still exist.
RetryWithoutItems(j) == Retry(j) /\ UNCHANGED importVars

\* retry() refuses an import whose payload was cleaned up.
RetryImport(j) ==
    /\ HasItems(j)
    /\ Retry(j)
    /\ UNCHANGED importVars

Expired(j) == status[j] \in Terminal /\ HasItems(j)

\* cleanup() locks finished jobs before it deletes their items.
Cleanup(j) ==
    /\ Expired(j)
    /\ item' = [item EXCEPT ![j] = [p \in Position |-> "none"]]
    /\ UNCHANGED <<vars, copies, loaded, work>>

-----------------------------------------------------------------------------
(* The body of a run.                                                      *)

ToDo(j) == {p \in Position : item[j][p] \in {"pending", "failed"}}

LoadPositions(w) ==
    /\ phase[w] = "running"
    /\ ~loaded[w]
    /\ loaded' = [loaded EXCEPT ![w] = TRUE]
    /\ work' = [work EXCEPT ![w] = ToDo(current[w])]
    /\ UNCHANGED <<vars, item, copies>>

\* The job row as processImportItem locks it.
MayImport(w, j) == Owns(w, j) /\ ~cancelRequested[j]

IsNext(w, p) == p \in work[w] /\ \A q \in work[w] : p <= q

\* Mutation: a failed record is marked without rolling back to the savepoint.
OutcomeWithoutRollback(j, p, outcome) ==
    /\ item' = [item EXCEPT ![j][p] = outcome]
    /\ copies' = [copies EXCEPT ![j][p] = @ + (IF outcome = "skipped" THEN 0 ELSE 1)]

\* What the savepoint leaves of a record that is still to be imported.
ItemOutcome(j, p, outcome) ==
    /\ item' = [item EXCEPT ![j][p] = outcome]
    /\ copies' = [copies EXCEPT ![j][p] = @ + (IF outcome = "completed" THEN 1 ELSE 0)]

AlreadySettled(j, p) == item[j][p] \in Done \cup {"none"}

\* A transaction that commits: the next record is skipped over if another run
\* settled it; otherwise its outcome is written and the lease refreshed.
CommitItem(w, p) ==
    LET j == current[w] IN
    /\ phase[w] = "running"
    /\ loaded[w]
    /\ IsNext(w, p)
    /\ MayImport(w, j)
    /\ IF AlreadySettled(j, p)
       THEN UNCHANGED <<row, item, copies>>
       ELSE /\ \E outcome \in {"completed", "skipped", "failed"} : ItemOutcome(j, p, outcome)
            /\ RefreshLease(w, j)

\* processImportItem returns and execute() goes on to the next position.  The signal
\* may have been raised since the transaction last looked at it.
ImportItem(w, p) ==
    /\ CommitItem(w, p)
    /\ work' = [work EXCEPT ![w] = @ \ {p}]
    /\ UNCHANGED <<run, stopping, retries, faults, loaded>>

\* Mutation: an error after an abort is reported as a failure of the job.
UnacknowledgedFails(w, p) ==
    /\ CommitItem(w, p)
    /\ Fault
    /\ phase' = [phase EXCEPT ![w] = "fail"]
    /\ loaded' = [loaded EXCEPT ![w] = FALSE]
    /\ work' = [work EXCEPT ![w] = {}]
    /\ UNCHANGED <<current, aborted, token, stopping, retries>>

\* COMMIT took effect but its answer was lost: the body throws.
ImportItemUnacknowledged(w, p) ==
    /\ CommitItem(w, p)
    /\ Fault
    /\ phase' = [phase EXCEPT ![w] = IF aborted[w] THEN "release" ELSE "fail"]
    /\ loaded' = [loaded EXCEPT ![w] = FALSE]
    /\ work' = [work EXCEPT ![w] = {}]
    /\ UNCHANGED <<current, aborted, token, stopping, retries>>

\* Mutation: execute() does not look at the failed items.
FailuresOverlooked(j) == {}

\* execute() counts the items when its positions are done.
FailedItems(j) == {p \in Position : item[j][p] = "failed"}

ForgetBody(w) ==
    /\ loaded' = [loaded EXCEPT ![w] = FALSE]
    /\ work' = [work EXCEPT ![w] = {}]
    /\ UNCHANGED <<item, copies>>

FinishImport(w) ==
    /\ loaded[w]
    /\ work[w] = {}
    /\ IF FailedItems(current[w]) = {} THEN BodyReturns(w) ELSE BodyThrows(w)
    /\ ForgetBody(w)

\* A lost lease, a cancel, a revoked role, a deleted space or a database error
\* rolls the item's transaction back and ends the body.
ThrowImport(w) == BodyThrows(w) /\ ForgetBody(w)

ImportBody(w) ==
    \/ LoadPositions(w)
    \/ \E p \in Position : ImportItem(w, p) \/ ImportItemUnacknowledged(w, p)
    \/ FinishImport(w)
    \/ ThrowImport(w)

-----------------------------------------------------------------------------
ImportRowStep(j) ==
    \/ EnqueueImport(j)
    \/ RetryImport(j)
    \/ Cleanup(j)
    \/ (Cancel(j) \/ Expire(j) \/ Elapse(j)) /\ UNCHANGED importVars

\* A run that leaves its body forgets what it had read.
ImportWorkerStep(w) ==
    /\ WorkerStep(w)
    /\ IF phase'[w] = "running" THEN UNCHANGED importVars ELSE ForgetBody(w)

ImportNext ==
    \/ \E j \in Job : ImportRowStep(j)
    \/ \E w \in Worker : ImportWorkerStep(w) \/ ImportBody(w)

ImportSpec == ImportInit /\ [][ImportNext]_allVars

-----------------------------------------------------------------------------
(* Properties.                                                             *)

ImportTypeOK ==
    /\ TypeOK
    /\ item \in [Job -> [Position -> ItemStatus]]
    /\ copies \in [Job -> [Position -> Nat]]
    /\ loaded \in [Worker -> BOOLEAN]
    /\ work \in [Worker -> SUBSET Position]

\* Each record becomes at most one memory, and its item says so: retries, lost
\* leases, crashes and lost answers never import a record twice or mark one
\* completed whose memory was rolled back.
ExactlyOnce ==
    \A j \in Job, p \in Position :
        /\ copies[j][p] <= 1
        /\ item[j][p] = "completed" => copies[j][p] = 1
        /\ item[j][p] \in {"pending", "failed", "skipped"} => copies[j][p] = 0

\* A job reported completed has no record left: every item that still exists
\* was imported or skipped.
CompletedImportsEverything ==
    \A j \in Job, p \in Position :
        status[j] = "completed" => item[j][p] \in Done \cup {"none"}

\* Cleanup and retry never leave a job that will run without its payload.
PayloadKept ==
    \A j \in Job, p \in Position :
        status[j] \in {"pending", "processing"} => item[j][p] # "none"

\* An import's runs are runs of the job queue: processing items never changes
\* a row in a way the queue's own operations would not.
ImplementsJobQueue == Spec
=============================================================================
