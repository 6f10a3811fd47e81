----------------------------- MODULE Embeddings -----------------------------
(***************************************************************************)
(* Derived vectors of memories.  An embedding request reads a memory's     *)
(* text, claims the memory's one row of memory_embeddings as pending,      *)
(* calls the Provider, and stores ready or failed.  Edits, trashing,       *)
(* restores and other requests for the same memory run between any two of  *)
(* these steps; an aborted or crashed request simply stops.                *)
(*                                                                         *)
(* A memory's text is identified by its embedding_revision, which trigger  *)
(* bump_memory_embedding_revision increases on every change of the text.   *)
(***************************************************************************)
EXTENDS Naturals

CONSTANTS Memory,
          Request,    \* embedding requests; each has a fresh request_id
          NoRequest,
          MaxEdits,   \* bound on changes of a memory's text
          MaxTrash,   \* bound on soft deletions
          MaxAborts   \* bound on aborted requests

ASSUME EmbeddingsAssumption ==
    /\ NoRequest \notin Request
    /\ MaxEdits \in Nat
    /\ MaxTrash \in Nat
    /\ MaxAborts \in Nat

VARIABLES revision,  \* memories.embedding_revision
          trashed,   \* memories.deleted_at IS NOT NULL
          purged,    \* the memory row is gone
          slot,      \* the memory_embeddings row
          stage,     \* where a request stands
          batch,     \* the memories it read
          read,      \* the revision it read of each
          todo,      \* those it has still to store in this stage
          trashings, aborts

memories == <<revision, trashed, purged, trashings>>
request  == <<stage, batch, read, todo, aborts>>
vars     == <<memories, slot, request>>

SlotStatus == {"none", "pending", "ready", "failed"}
Slot  == [status: SlotStatus, request: Request \cup {NoRequest}, source: Nat]
Empty == [status |-> "none", request |-> NoRequest, source |-> 0]

Stage == {"new", "claim", "embed", "ready", "failed", "done", "aborted"}

Init ==
    /\ revision = [m \in Memory |-> 0]
    /\ trashed = [m \in Memory |-> FALSE]
    /\ purged = [m \in Memory |-> FALSE]
    /\ slot = [m \in Memory |-> Empty]
    /\ stage = [r \in Request |-> "new"]
    /\ batch = [r \in Request |-> {}]
    /\ read = [r \in Request |-> [m \in Memory |-> 0]]
    /\ todo = [r \in Request |-> {}]
    /\ trashings = 0
    /\ aborts = 0

-----------------------------------------------------------------------------
(* Changes of the memory row, with the triggers of migration 012.          *)

\* The row's new revision invalidates every derived vector.
ChangeText(m) ==
    /\ revision[m] < MaxEdits
    /\ revision' = [revision EXCEPT ![m] = @ + 1]
    /\ slot' = [slot EXCEPT ![m] = Empty]

\* update() and merges change the text of a memory that is not in the trash.
Edit(m) ==
    /\ ~purged[m]
    /\ ~trashed[m]
    /\ ChangeText(m)
    /\ UNCHANGED <<trashed, purged, trashings, request>>

Trash(m) ==
    /\ ~purged[m]
    /\ ~trashed[m]
    /\ trashings < MaxTrash
    /\ trashings' = trashings + 1
    /\ trashed' = [trashed EXCEPT ![m] = TRUE]
    /\ UNCHANGED <<revision, purged, slot, request>>

Restore(m) ==
    /\ ~purged[m]
    /\ trashed[m]
    /\ trashed' = [trashed EXCEPT ![m] = FALSE]
    /\ UNCHANGED <<revision, purged, trashings, slot, request>>

\* Restoring a version whose text differs, from the trash or not.
RestoreVersion(m) ==
    /\ ~purged[m]
    /\ ChangeText(m)
    /\ trashed' = [trashed EXCEPT ![m] = FALSE]
    /\ UNCHANGED <<purged, trashings, request>>

\* A permanent delete cascades to the vector.
Purge(m) ==
    /\ ~purged[m]
    /\ purged' = [purged EXCEPT ![m] = TRUE]
    /\ slot' = [slot EXCEPT ![m] = Empty]
    /\ UNCHANGED <<revision, trashed, trashings, request>>

-----------------------------------------------------------------------------
(* storeEmbedding(): one statement that locks the memory row.              *)

\* Mutation: the statement does not compare the revision.
CurrentAnyRevision(r, m) == ~purged[m] /\ ~trashed[m]

\* current_memory: the row still has the revision the request read.
Current(r, m) == ~purged[m] /\ ~trashed[m] /\ revision[m] = read[r][m]

\* Mutation: ON CONFLICT DO UPDATE without its condition.
OverwritesSlot(r, m) == TRUE

\* The ON CONFLICT condition for a result: insert, or replace this request's row.
HoldsSlot(r, m) == slot[m].status = "none" \/ slot[m].request = r

Stores(r, m, status) == Current(r, m) /\ (status = "pending" \/ HoldsSlot(r, m))

StoreEmbedding(r, m, status) ==
    IF Stores(r, m, status)
    THEN slot' = [slot EXCEPT ![m] = [status |-> status, request |-> r, source |-> read[r][m]]]
    ELSE UNCHANGED slot

-----------------------------------------------------------------------------
(* A request.                                                              *)

\* embedMemory() is given the row of one memory; rebuildEmbeddings() selects a batch.
Begin(r, ms, next) ==
    /\ stage[r] = "new"
    /\ \A m \in ms : ~purged[m] /\ ~trashed[m]
    /\ batch' = [batch EXCEPT ![r] = ms]
    /\ read' = [read EXCEPT ![r] = [m \in Memory |-> IF m \in ms THEN revision[m] ELSE 0]]
    /\ todo' = [todo EXCEPT ![r] = ms]
    /\ stage' = [stage EXCEPT ![r] = next]
    /\ UNCHANGED <<memories, slot, aborts>>

\* With an embedding model the slots are claimed first; without one each memory is
\* only marked failed.
BeginConfigured(r, ms)   == Begin(r, ms, "claim")
BeginUnconfigured(r, ms) == Begin(r, ms, "failed")

\* embedMemory() gives up when it cannot claim; a batch, even of one, goes on.
AfterClaim(r, m) ==
    IF batch[r] = {m} /\ ~Stores(r, m, "pending") THEN {"embed", "done"} ELSE {"embed"}

\* The request is over, and with it what it knew.
Ends(r, how) ==
    /\ stage' = [stage EXCEPT ![r] = how]
    /\ batch' = [batch EXCEPT ![r] = {}]
    /\ read' = [read EXCEPT ![r] = [m \in Memory |-> 0]]
    /\ todo' = [todo EXCEPT ![r] = {}]

\* One memory of the batch after the other; the last one ends the stage.
AfterStore(r, m, next) ==
    /\ IF todo[r] = {m} /\ next = "done" THEN Ends(r, "done")
       ELSE /\ todo' = [todo EXCEPT ![r] = IF todo[r] = {m} THEN batch[r] ELSE @ \ {m}]
            /\ stage' = [stage EXCEPT ![r] = IF todo[r] = {m} THEN next ELSE @]
            /\ UNCHANGED <<batch, read>>
    /\ UNCHANGED <<memories, aborts>>

Claim(r, m) ==
    /\ stage[r] = "claim"
    /\ m \in todo[r]
    /\ StoreEmbedding(r, m, "pending")
    /\ \E next \in AfterClaim(r, m) : AfterStore(r, m, next)

\* Mutation: a Provider error ends the request without recording a failure.
AnswerDropsFailure(r) ==
    /\ stage[r] = "embed"
    /\ \E result \in {"ready", "done"} : stage' = [stage EXCEPT ![r] = result]
    /\ UNCHANGED <<memories, slot, batch, read, todo, aborts>>

\* The Provider answers; the answer may hold an invalid vector for any memory.
Answer(r) ==
    /\ stage[r] = "embed"
    /\ \E result \in {"ready", "failed"} : stage' = [stage EXCEPT ![r] = result]
    /\ UNCHANGED <<memories, slot, batch, read, todo, aborts>>

\* embedMemory() records a failure when storing the vector throws, stored or not.
AfterResult(r, m) ==
    IF batch[r] = {m} /\ stage[r] = "ready" THEN {"done", "failed"} ELSE {"done"}

Store(r, m) ==
    /\ stage[r] \in {"ready", "failed"}
    /\ m \in todo[r]
    /\ \E result \in {stage[r], "failed"} : StoreEmbedding(r, m, result)
    /\ \E next \in AfterResult(r, m) : AfterStore(r, m, next)

\* The signal of a closed connection or a stopping worker, a statement of a batch
\* that throws, or a crash.
Abort(r) ==
    /\ stage[r] \in {"claim", "embed", "ready", "failed"}
    /\ aborts < MaxAborts
    /\ aborts' = aborts + 1
    /\ Ends(r, "aborted")
    /\ UNCHANGED <<memories, slot>>

-----------------------------------------------------------------------------
MemoryStep(m) == Edit(m) \/ Trash(m) \/ Restore(m) \/ RestoreVersion(m) \/ Purge(m)

RequestStep(r) ==
    \/ \E ms \in SUBSET Memory : ms # {} /\ (BeginConfigured(r, ms) \/ BeginUnconfigured(r, ms))
    \/ \E m \in Memory : Claim(r, m) \/ Store(r, m)
    \/ Answer(r)
    \/ Abort(r)

Next ==
    \/ \E m \in Memory : MemoryStep(m)
    \/ \E r \in Request : RequestStep(r)

Spec == Init /\ [][Next]_vars

\* A request that was not aborted runs on: its statements are answered and the
\* Provider call ends (it has a timeout).
Fairness ==
    \A r \in Request : WF_vars(Answer(r) \/ \E m \in Memory : Claim(r, m) \/ Store(r, m))

LiveSpec == Spec /\ Fairness

-----------------------------------------------------------------------------
(* Properties.                                                             *)

TypeOK ==
    /\ revision \in [Memory -> Nat]
    /\ trashed \in [Memory -> BOOLEAN]
    /\ purged \in [Memory -> BOOLEAN]
    /\ slot \in [Memory -> Slot]
    /\ stage \in [Request -> Stage]
    /\ batch \in [Request -> SUBSET Memory]
    /\ read \in [Request -> [Memory -> Nat]]
    /\ todo \in [Request -> SUBSET Memory]
    /\ trashings \in Nat
    /\ aborts \in Nat
    /\ \A r \in Request : todo[r] \subseteq batch[r]

\* A vector that search may use was computed from the memory's present text,
\* however late the Provider answered and whatever was edited or restored meanwhile.
VectorIsCurrent ==
    \A m \in Memory : slot[m].status = "ready" => slot[m].source = revision[m]

\* A purged memory leaves no vector behind, not even from an answer that was late.
PurgedHasNoVector ==
    \A m \in Memory : purged[m] => slot[m] = Empty

\* A slower, older request never replaces what a newer claim wrote: a slot that
\* is taken changes for a new claim or for the request that holds it.
NewestClaimWins ==
    [][\A m \in Memory :
        slot[m].status # "none" /\ slot'[m].status # "none" /\ slot'[m] # slot[m] =>
            \/ slot'[m].status = "pending"
            \/ slot'[m].request = slot[m].request]_vars

\* A claimed slot is settled: the vector arrives, the failure is recorded, or the
\* text changed and cleared it, whoever claims it again meanwhile.  A slot stays
\* pending only if its last request was aborted, or if a memory was in the trash
\* when the result came, which is not stored then, and was restored later.
PendingSettles ==
    \A m \in Memory :
        LET waiting == slot[m].status = "pending"
            aborted == slot[m].request # NoRequest /\ stage[slot[m].request] = "aborted"
        IN  waiting ~> (~waiting \/ aborted \/ trashings > 0)
=============================================================================
