------------------------------ MODULE Memories ------------------------------
(***************************************************************************)
(* The memories of one space: their versions, the trash, the quota that a  *)
(* trigger enforces, the conflicts found after a write and the synchronous *)
(* import.  Every request has its caller's role checked first and works    *)
(* later.  The transactions that write memories hold the row of the space, *)
(* so each of them is one action here; anything may happen before it.      *)
(***************************************************************************)
EXTENDS Integers, Sequences, FiniteSets

CONSTANTS Memory, Conflict, Request, None,
          Text,          \* contents, each one its number of bytes
          Role,          \* roles the caller may have, as roleLevel
          MaxMemories,   \* quotas that an owner may set
          MaxBytes,
          Total,         \* records of an import
          MaxVersions    \* bound on the versions kept

ASSUME MemoriesAssumption ==
    /\ IsFiniteSet(Memory)
    /\ None \notin Memory \cup Conflict \cup Request
    /\ Text \subseteq Nat \ {0}
    /\ Role \subseteq 0..4
    /\ MaxMemories \subseteq Nat
    /\ MaxBytes \subseteq Nat
    /\ Total \in Nat
    /\ MaxVersions \in Nat \ {0}

VARIABLES row,       \* memories
          versions,  \* memory_versions: the text of each snapshot
          counted,   \* memory_count and content_bytes of the space
          limit,     \* max_memories and max_content_bytes
          role,      \* the caller's role
          conflict,  \* memory_conflicts
          stage,     \* where a request waits
          needs,     \* the role it was checked for
          found,     \* the memory it looks for conflicts of
          like,      \* the candidates it has read
          job        \* the import that runs: by whom, how far, and its end

content  == <<row, versions, counted>>
requests == <<stage, needs, found, like>>
vars     == <<content, limit, role, conflict, requests, job>>

NoRow      == [text |-> 0, status |-> "none", trashed |-> TRUE]
Gone       == [NoRow EXCEPT !.status = "gone"]   \* an id is not given again
NoConflict == [a |-> None, b |-> None, status |-> "none"]
GoneToo    == [NoConflict EXCEPT !.status = "gone"]
NoJob      == [by |-> None, cancel |-> FALSE, done |-> 0, failed |-> 0, verdict |-> "none",
               stored |-> {}]   \* history: the memories the import has stored

\* roleLevel; without a role it is 0, and an owner is above an administrator.
contributor == 2
editor      == 3
admin       == 4

Init ==
    /\ row = [m \in Memory |-> NoRow]
    /\ versions = [m \in Memory |-> <<>>]
    /\ counted = [memories |-> 0, bytes |-> 0]
    /\ limit \in [memories : MaxMemories, bytes : MaxBytes]
    /\ role \in Role
    /\ conflict = [c \in Conflict |-> NoConflict]
    /\ stage = [r \in Request |-> "idle"]
    /\ needs = [r \in Request |-> 0]
    /\ found = [r \in Request |-> None]
    /\ like = [r \in Request |-> {}]
    /\ job = NoJob

Exists(m)  == row[m] \notin {NoRow, Gone}
Visible(m) == ~row[m].trashed

\* Request r goes on at a stage, with a role, a memory and its candidates.
Goes(r, to, level, m, xs) ==
    /\ stage' = [stage EXCEPT ![r] = to]
    /\ needs' = [needs EXCEPT ![r] = level]
    /\ found' = [found EXCEPT ![r] = m]
    /\ like' = [like EXCEPT ![r] = xs]

Answered(r) == Goes(r, "idle", 0, None, {})

\* A check inside the transaction throws, a statement fails or times out, the
\* process dies: a rollback.  A COMMIT whose answer is lost is the action it
\* commits.  The job of an import is left as it is, which nothing reads again.
Abandon(r) ==
    /\ stage[r] # "idle"
    /\ Answered(r)
    /\ job' = IF job.by = r THEN NoJob ELSE job
    /\ UNCHANGED <<content, limit, role, conflict>>

-----------------------------------------------------------------------------
(* The quota.                                                              *)

\* Mutation: what comes back from the trash is not counted again.
CountsOnce(x, y) == IF x = NoRow THEN 1 ELSE IF y.trashed /\ ~x.trashed THEN 0 - 1 ELSE 0

\* count_delta and bytes_delta: a row counts while it is not in the trash.
CountDelta(x, y) == (IF y.trashed THEN 0 ELSE 1) - (IF x.trashed THEN 0 ELSE 1)
BytesDelta(x, y) == (IF y.trashed THEN 0 ELSE y.text) - (IF x.trashed THEN 0 ELSE x.text)

\* The sum of a function's values, counted in units so that proofs can reason
\* about it: what is above zero less what is below.
Units(f) == UNION {{m} \X (1 .. f[m]) : m \in DOMAIN f}
SumOf(f) == Cardinality(Units(f)) - Cardinality(Units([m \in DOMAIN f |-> 0 - f[m]]))

\* enforce_memory_quota() for the rows a transaction changes; what shrinks a
\* space that is over its quota is let through.
Writes(rows) ==
    LET changed == {m \in Memory : rows[m] # row[m]}
        n == SumOf([m \in changed |-> CountDelta(row[m], rows[m])])
        b == SumOf([m \in changed |-> BytesDelta(row[m], rows[m])])
    IN  /\ n <= 0 \/ counted.memories + n <= limit.memories
        /\ b <= 0 \/ counted.bytes + b <= limit.bytes
        /\ counted' = [memories |-> counted.memories + n, bytes |-> counted.bytes + b]
        /\ row' = rows

\* The owner changes the quota, below what is used if he likes.
SetQuota ==
    /\ limit' \in [memories : MaxMemories, bytes : MaxBytes]
    /\ UNCHANGED <<content, role, conflict, requests, job>>

\* The transaction writes rows and a snapshot of each of them.
Saves(ms, rows) ==
    /\ SumOf([m \in Memory |-> Len(versions[m])]) + Cardinality(ms) <= MaxVersions
    /\ Writes(rows)
    /\ versions' = [m \in Memory |-> IF m \in ms THEN Append(versions[m], rows[m].text) ELSE versions[m]]

-----------------------------------------------------------------------------
(* Requests.  The caller's role may change while one waits.                *)

RoleChanges ==
    /\ role' \in Role
    /\ UNCHANGED <<content, limit, conflict, requests, job>>

\* requireSpaceRole().  What the request is about is read again later, so it
\* is chosen there.
Begin(r, level) ==
    /\ stage[r] = "idle"
    /\ role >= level
    /\ Goes(r, "ready", level, None, {})
    /\ UNCHANGED <<content, limit, role, conflict, job>>

\* Mutation: the role is checked before the transaction only.
CheckedBefore(r, level) == stage[r] = "ready" /\ needs[r] = level

\* The role is read again under the lock of the space.
Allowed(r, level) == stage[r] = "ready" /\ needs[r] = level /\ role >= level

\* remember(): the row, its sources and version 1.  A record of an import brings
\* its status along.
Insert(m, t, s) ==
    /\ row[m] = NoRow
    /\ Saves({m}, [row EXCEPT ![m] = [text |-> t, status |-> s, trashed |-> FALSE]])

\* memory_remember and its route.
Remember(r) ==
    /\ Allowed(r, contributor)
    /\ \E m \in Memory, t \in Text : Insert(m, t, "active")
    /\ Answered(r)
    /\ UNCHANGED <<limit, role, conflict, job>>

\* extractAndRemember(), one candidate, which is looked for conflicts of.
ExtractAndRemember(r) ==
    /\ Allowed(r, contributor)
    /\ \E m \in Memory, t \in Text :
          Insert(m, t, "active") /\ Goes(r, "detecting", contributor, m, {})
    /\ UNCHANGED <<limit, role, conflict, job>>

\* update(): any part of the memory; here a status is active or not.
Update(r) ==
    /\ Allowed(r, editor)
    /\ \E m \in Memory, t \in Text, s \in {"active", "inactive"} :
          /\ Visible(m)
          /\ Saves({m}, [row EXCEPT ![m].text = t, ![m].status = s])
    /\ Answered(r)
    /\ UNCHANGED <<limit, role, conflict, job>>

Trashed  == [m \in Memory |-> [row[m] EXCEPT !.status = "inactive", !.trashed = TRUE]]
Archived == [m \in Memory |-> [row[m] EXCEPT !.status = "inactive"]]
Restored == [m \in Memory |-> [row[m] EXCEPT !.status = "active", !.trashed = FALSE]]

\* The chosen rows are written, the others stay.
Chosen(ms, rows) == [m \in Memory |-> IF m \in ms THEN rows[m] ELSE row[m]]

\* forget(), to the trash; what is there already stays as it is.
Forget(r) ==
    /\ Allowed(r, editor)
    /\ \E m \in Memory : Visible(m) /\ Saves({m}, Chosen({m}, Trashed))
    /\ Answered(r)
    /\ UNCHANGED <<limit, role, conflict, job>>

\* MemoryManagement.change(): all of the chosen memories or none.
Change(r) ==
    /\ Allowed(r, editor)
    /\ \E ms \in SUBSET {m \in Memory : Exists(m)} \ {{}} :
          \/ (\A m \in ms : Visible(m)) /\ Saves(ms, Chosen(ms, Archived))
          \/ Saves(ms, Chosen(ms, Trashed))
          \/ Saves(ms, Chosen(ms, Restored))
    /\ Answered(r)
    /\ UNCHANGED <<limit, role, conflict, job>>

\* The restore of a version, with the status of its snapshot.
Revert(r) ==
    /\ Allowed(r, editor)
    /\ \E m \in {x \in Memory : Exists(x)}, s \in {"active", "inactive"} : \E v \in DOMAIN versions[m] :
          Saves({m}, [row EXCEPT ![m] = [text |-> versions[m][v], status |-> s, trashed |-> FALSE]])
    /\ Answered(r)
    /\ UNCHANGED <<limit, role, conflict, job>>

\* The rows go with all that refers to them.
Erase(ms) ==
    /\ Writes([m \in Memory |-> IF m \in ms THEN Gone ELSE row[m]])
    /\ versions' = [m \in Memory |-> IF m \in ms THEN <<>> ELSE versions[m]]
    /\ conflict' = [c \in Conflict |-> IF {conflict[c].a, conflict[c].b} \cap ms # {}
                                       THEN GoneToo ELSE conflict[c]]

\* Trashed memories, all of the chosen or none.
Purge(r) ==
    /\ Allowed(r, admin)
    /\ \E ms \in SUBSET {m \in Memory : Exists(m) /\ ~Visible(m)} \ {{}} : Erase(ms)
    /\ Answered(r)
    /\ UNCHANGED <<limit, role, job>>

\* forget() for good: it was visible when forget() looked, and may be in the
\* trash by now.
ForgetForGood(r) ==
    /\ Allowed(r, admin)
    /\ \E m \in Memory : Exists(m) /\ Erase({m})
    /\ Answered(r)
    /\ UNCHANGED <<limit, role, job>>

-----------------------------------------------------------------------------
(* Governance.                                                             *)

\* Where a request goes on after its memory has been looked at.
Resumes(r) == IF job.by = r THEN Goes(r, "looking", contributor, None, {}) ELSE Answered(r)

\* detectAfterWrite(): active memories like the one just written, read once;
\* skipped for a contributor, and an exact duplicate is linked only.
Detect(r) ==
    /\ stage[r] = "detecting"
    /\ \/ /\ Visible(found[r]) /\ role >= editor
          /\ \E similar \in SUBSET {x \in Memory \ {found[r]} : row[x].status = "active"} :
                Goes(r, "flagging", contributor, found[r], similar)
       \/ Resumes(r)
    /\ UNCHANGED <<content, limit, role, conflict, job>>

OpenPairs == {{conflict[c].a, conflict[c].b} : c \in {x \in Conflict : conflict[x].status = "open"}}

\* INSERT ... ON CONFLICT DO NOTHING under one_open_conflict_per_pair; a memory
\* that is gone by now ends the detection.
Flag(r) ==
    /\ stage[r] = "flagging"
    /\ LET a == found[r] IN
       \/ \E b \in like[r] :
             /\ \/ /\ Exists(a) /\ Exists(b) /\ {a, b} \notin OpenPairs
                   /\ \E c \in Conflict :
                         /\ conflict[c] = NoConflict
                         /\ conflict' = [conflict EXCEPT ![c] = [a |-> a, b |-> b, status |-> "open"]]
                \/ {a, b} \in OpenPairs /\ UNCHANGED conflict
             /\ Goes(r, "flagging", contributor, a, like[r] \ {b})
       \/ Resumes(r) /\ UNCHANGED conflict
    /\ UNCHANGED <<content, limit, role, job>>

\* Mutation: a decided conflict can be decided again.
AnyConflict(c) == conflict[c].a # None

\* The conflict is read again under the lock.
StillOpen(c) == conflict[c].status = "open"

\* Mutation: the merge writes no version.
MergeUnrecorded(a, b, t) ==
    /\ Writes([row EXCEPT ![b].status = "inactive", ![a].text = t])
    /\ UNCHANGED versions

Merge(a, b, t) == Saves({a}, [row EXCEPT ![b].status = "inactive", ![a].text = t])

Supersede(m) == Writes([row EXCEPT ![m].status = "inactive"]) /\ UNCHANGED versions

\* resolve(): neither side is looked at again, and only a merge writes a version.
Resolve(r) ==
    /\ Allowed(r, editor)
    /\ \E c \in Conflict, how \in {"keep_a", "keep_b", "merge", "dismiss"} :
          /\ StillOpen(c)
          /\ LET a == conflict[c].a
                 b == conflict[c].b IN
             \/ how = "keep_a" /\ Supersede(b)
             \/ how = "keep_b" /\ Supersede(a)
             \/ how = "merge" /\ \E t \in Text : Merge(a, b, t)
             \/ how = "dismiss" /\ UNCHANGED content
          /\ conflict' = [conflict EXCEPT ![c].status = IF how = "dismiss" THEN "dismissed" ELSE "resolved"]
    /\ Answered(r)
    /\ UNCHANGED <<limit, role, job>>

-----------------------------------------------------------------------------
(* The synchronous import: a job row that no worker ever claims.           *)

StartImport(r) ==
    /\ stage[r] = "idle"
    /\ job = NoJob
    /\ role >= contributor
    /\ job' = [NoJob EXCEPT !.by = r]
    /\ Goes(r, "looking", contributor, None, {})
    /\ UNCHANGED <<content, limit, role, conflict>>

\* JobRepository.cancel(), by an editor.
CancelImport ==
    /\ job # NoJob
    /\ role >= editor
    /\ job' = [job EXCEPT !.cancel = TRUE]
    /\ UNCHANGED <<content, limit, role, conflict, requests>>

\* cancel_requested is read before each record ...
Look(r) ==
    /\ stage[r] = "looking"
    /\ job.done + job.failed < Total
    /\ IF job.cancel
       THEN job' = NoJob /\ Answered(r)
       ELSE Goes(r, "importing", contributor, None, {}) /\ UNCHANGED job
    /\ UNCHANGED <<content, limit, role, conflict>>

ImportRecord(r) ==
    /\ stage[r] = "importing"
    /\ role >= contributor
    /\ \E m \in Memory, t \in Text, s \in {"active", "inactive"} :
          /\ Insert(m, t, s)
          /\ job' = [job EXCEPT !.done = @ + 1, !.stored = @ \cup {m}]
          /\ Goes(r, "detecting", contributor, m, {})
    /\ UNCHANGED <<limit, role, conflict>>

\* remember() throws and leaves j: it was rolled back, or its COMMIT took effect
\* and only the answer was lost.
Throws(j) ==
    \/ UNCHANGED content /\ job' = j
    \/ /\ role >= contributor
       /\ \E m \in Memory, t \in Text, s \in {"active", "inactive"} :
             Insert(m, t, s) /\ job' = [j EXCEPT !.stored = @ \cup {m}]

\* The record is not valid, does not fit or is refused, or its statements fail:
\* it is counted among the errors and the loop goes on.
RecordFails(r) ==
    /\ stage[r] = "importing"
    /\ Throws([job EXCEPT !.failed = @ + 1])
    /\ Goes(r, "looking", contributor, None, {})
    /\ UNCHANGED <<limit, role, conflict>>

\* Mutation: an aborted import is completed like any other.
VerdictOfRest(aborted) == IF job.failed = Total /\ Total > 0 THEN "failed" ELSE "completed"

Verdict(aborted) ==
    IF aborted THEN "cancelled"
    ELSE IF job.failed = Total /\ Total > 0 THEN "failed" ELSE "completed"

\* The client has gone and the record under way throws: it is not counted, and
\* the import is cancelled whether that was asked for or not.
Interrupted(r) ==
    /\ stage[r] = "importing"
    /\ Throws([job EXCEPT !.verdict = Verdict(TRUE)])
    /\ Goes(r, "closing", contributor, None, {})
    /\ UNCHANGED <<limit, role, conflict>>

\* ... and once more at the end: the last record, or the client has gone.
Judge(r, aborted) ==
    /\ stage[r] = "looking"
    /\ aborted \/ job.done + job.failed = Total
    /\ job' = [job EXCEPT !.verdict = IF job.cancel THEN "cancelled" ELSE Verdict(aborted)]
    /\ Goes(r, "closing", contributor, None, {})
    /\ UNCHANGED <<content, limit, role, conflict>>

\* An unconditional update to the verdict, whatever was asked since.
CloseImport(r) ==
    /\ stage[r] = "closing"
    /\ job' = NoJob
    /\ Answered(r)
    /\ UNCHANGED <<content, limit, role, conflict>>

-----------------------------------------------------------------------------
RequestStep(r) ==
    \/ \E level \in {contributor, editor, admin} : Begin(r, level)
    \/ Abandon(r)
    \/ Remember(r) \/ ExtractAndRemember(r) \/ Update(r) \/ Change(r) \/ Revert(r)
    \/ Forget(r) \/ ForgetForGood(r) \/ Purge(r)
    \/ Detect(r) \/ Flag(r) \/ Resolve(r)
    \/ StartImport(r) \/ Look(r) \/ ImportRecord(r) \/ RecordFails(r) \/ Interrupted(r)
    \/ \E aborted \in BOOLEAN : Judge(r, aborted)
    \/ CloseImport(r)

Next == (\E r \in Request : RequestStep(r)) \/ SetQuota \/ RoleChanges \/ CancelImport

Spec == Init /\ [][Next]_vars

-----------------------------------------------------------------------------
Rows == [text : Text \cup {0}, status : {"none", "gone", "active", "inactive"}, trashed : BOOLEAN]

TypeOK ==
    /\ row \in [Memory -> Rows]
    /\ versions \in [Memory -> Seq(Text)]
    /\ counted \in [memories : Nat, bytes : Nat]
    /\ limit \in [memories : MaxMemories, bytes : MaxBytes]
    /\ role \in Role
    /\ conflict \in [Conflict -> [a : Memory \cup {None}, b : Memory \cup {None},
                                  status : {"none", "gone", "open", "resolved", "dismissed"}]]
    /\ stage \in [Request -> {"idle", "ready", "detecting", "flagging", "looking", "importing", "closing"}]
    /\ needs \in [Request -> {0, contributor, editor, admin}]
    /\ found \in [Request -> Memory \cup {None}]
    /\ like \in [Request -> SUBSET Memory]
    /\ job \in [by : Request \cup {None}, cancel : BOOLEAN, done : Nat, failed : Nat,
                verdict : {"none", "completed", "failed", "cancelled"}, stored : SUBSET Memory]

Live == {m \in Memory : Visible(m)}
LiveBytes == SumOf([m \in Live |-> row[m].text])

\* However writes, the trash, restores, merges into it and purges follow each
\* other, no step adds memories or bytes beyond the quota: counted by the rows
\* themselves, not by the counters the trigger keeps (migration 016).
QuotaHolds ==
    [][/\ Cardinality(Live') > limit.memories => Cardinality(Live') <= Cardinality(Live)
       /\ LiveBytes' > limit.bytes => LiveBytes' <= LiveBytes]_row

\* Until it is erased a memory keeps every version, and its text is that of
\* the newest one (README: replacing and merging keep the version history).
HistoryIsKept ==
    [][\A m \in Memory : Exists(m) /\ Exists(m)' =>
          /\ Len(versions[m]) <= Len(versions'[m])
          /\ SubSeq(versions'[m], 1, Len(versions[m])) = versions[m]
          /\ row'[m].text = versions'[m][Len(versions'[m])]]_content

\* Whoever lost a role while a request waited changes nothing that needs it.
WritesNeedTheRole ==
    [][\A m \in Memory : row'[m] # row[m] =>
          role >= (IF row[m] = NoRow THEN contributor ELSE IF Exists(m)' THEN editor ELSE admin)]_row

\* Two people resolve a conflict at the same time: one of them decides it.
DecidedOnce ==
    [][\A c \in Conflict : conflict[c].status \notin {"none", "open"}
          => conflict'[c] \in {conflict[c], GoneToo}]_conflict

\* What an import reports against what it stored.  Completed, it has settled
\* every record; failed, all of them failed.  No memory it counts as completed
\* is missing from those it stored, and none was stored that it does not count:
\* as completed, or as failed when the answer to a COMMIT was lost, so that a
\* failed import may have stored memories.  Cancelled while a record was under
\* way it may have stored that one too (transfer/service.ts:103-119).
ImportTellsTheTruth ==
    /\ job.verdict = "completed" => job.done + job.failed = Total
    /\ job.verdict = "failed" => job.done = 0 /\ job.failed = Total
    /\ job.done <= Cardinality(job.stored)
    /\ Cardinality(job.stored) <= job.done + job.failed + (IF job.verdict = "cancelled" THEN 1 ELSE 0)

=============================================================================
