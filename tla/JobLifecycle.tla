---------------------------- MODULE JobLifecycle ----------------------------
(***************************************************************************)
(* What the job queue promises the user of a job, without rows, locks or   *)
(* workers: a job is queued, run a bounded number of times, and ends; a    *)
(* cancel takes it out for good; only a retry brings it back.              *)
(***************************************************************************)
EXTENDS Naturals

CONSTANTS Job, MaxAttempts

VARIABLES state,   \* what the user sees
          budget   \* runs the job may still be charged for

vars == <<state, budget>>

State == {"unknown", "queued", "running", "stopping", "completed", "failed", "cancelled"}

Init ==
    /\ state = [j \in Job |-> "unknown"]
    /\ budget = [j \in Job |-> 0]

Moves(j, from, to) == state[j] \in from /\ state'[j] = to

Submit(j)   == Moves(j, {"unknown", "failed", "cancelled"}, "queued") /\ budget'[j] = MaxAttempts

\* A run starts, from the queue or in place of a run that was given up on.
Start(j)    == Moves(j, {"queued", "running"}, "running") /\ budget[j] > 0 /\ budget'[j] = budget[j] - 1

\* A run failed or was lost: the job waits for another one only if it may have one.
Requeue(j)  == Moves(j, {"running"}, "queued") /\ budget[j] > 0 /\ budget'[j] = budget[j]

\* A run was interrupted before it could fail: it is not charged.
HandBack(j) == Moves(j, {"running"}, "queued") /\ budget'[j] = budget[j] + 1

Succeed(j)  == Moves(j, {"running"}, "completed") /\ budget'[j] = 0
GiveUp(j)   == Moves(j, {"running"}, "failed") /\ budget[j] = 0 /\ budget'[j] = 0

CancelQueued(j)  == Moves(j, {"queued"}, "cancelled") /\ budget'[j] = 0
CancelRunning(j) == Moves(j, {"running"}, "stopping") /\ budget'[j] = 0
Withdraw(j)      == Moves(j, {"stopping"}, "cancelled") /\ budget'[j] = 0

JobStep(j) ==
    \/ Submit(j)
    \/ Start(j)
    \/ Requeue(j)
    \/ HandBack(j)
    \/ Succeed(j)
    \/ GiveUp(j)
    \/ CancelQueued(j)
    \/ CancelRunning(j)
    \/ Withdraw(j)

\* One step may move several jobs: a claim takes back every expired lease at once.
Next ==
    /\ state' \in [Job -> State]
    /\ budget' \in [Job -> 0..MaxAttempts]
    /\ \A j \in Job : JobStep(j) \/ (state'[j] = state[j] /\ budget'[j] = budget[j])

Spec == Init /\ [][Next]_vars
=============================================================================
