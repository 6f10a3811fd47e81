-------------------------- MODULE EmbeddingsProofs --------------------------
(***************************************************************************)
(* Theorems about Embeddings, for every set of memories and requests and   *)
(* every number of edits, deletions and aborts.                            *)
(***************************************************************************)
EXTENDS Embeddings, TLAPS

\* A slot without a status holds nothing else either.
EmptyIsBlank == \A m \in Memory : slot[m].status = "none" => slot[m] = Empty

\* The inductive invariant.
IInv == TypeOK /\ EmptyIsBlank /\ VectorIsCurrent /\ PurgedHasNoVector

LEMMA InitIInv == Init => IInv
  BY EmbeddingsAssumption
  DEF Init, IInv, TypeOK, EmptyIsBlank, VectorIsCurrent, PurgedHasNoVector, Slot, SlotStatus, Empty, Stage

LEMMA MemoryStepIInv ==
  ASSUME IInv, NEW m \in Memory, MemoryStep(m)
  PROVE  IInv'
<1> USE EmbeddingsAssumption
    DEF IInv, TypeOK, EmptyIsBlank, VectorIsCurrent, PurgedHasNoVector, request, Slot, SlotStatus, Empty
<1>1. CASE Edit(m)
  BY <1>1 DEF Edit, ChangeText
<1>2. CASE Trash(m)
  BY <1>2 DEF Trash
<1>3. CASE Restore(m)
  BY <1>3 DEF Restore
<1>4. CASE RestoreVersion(m)
  BY <1>4 DEF RestoreVersion, ChangeText
<1>5. CASE Purge(m)
  BY <1>5 DEF Purge
<1> QED BY <1>1, <1>2, <1>3, <1>4, <1>5 DEF MemoryStep

\* storeEmbedding() writes a slot for the present text or not at all, whatever the
\* request read and however long ago.
LEMMA StoreKeeps ==
  ASSUME IInv, UNCHANGED memories, NEW r \in Request, NEW m \in Memory,
         NEW st \in {"pending", "ready", "failed"}, StoreEmbedding(r, m, st)
  PROVE  /\ slot' \in [Memory -> Slot]
         /\ EmptyIsBlank' /\ VectorIsCurrent' /\ PurgedHasNoVector'
         /\ \A n \in Memory :
              slot[n].status # "none" /\ slot'[n].status # "none" /\ slot'[n] # slot[n] =>
                  slot'[n].status = "pending" \/ slot'[n].request = slot[n].request
<1> DEFINE written == [status |-> st, request |-> r, source |-> read[r][m]]
<1>1. CASE ~Stores(r, m, st)
  BY <1>1 DEF StoreEmbedding, IInv, TypeOK, EmptyIsBlank, VectorIsCurrent, PurgedHasNoVector, memories
<1>2. CASE Stores(r, m, st)
  <2>1. written \in Slot /\ written.status = st /\ written.request = r /\ written.source = read[r][m]
    BY DEF IInv, TypeOK, Slot, SlotStatus
  <2>2. slot' = [slot EXCEPT ![m] = written]
    BY <1>2 DEF StoreEmbedding
  <2>3. /\ slot' \in [Memory -> Slot]
        /\ \A n \in Memory : slot'[n] = IF n = m THEN written ELSE slot[n]
    BY <2>1, <2>2 DEF IInv, TypeOK
  <2> HIDE DEF written
  <2>4. EmptyIsBlank'
    BY <2>1, <2>3 DEF EmptyIsBlank, IInv
  <2>5. ~purged[m] /\ revision[m] = read[r][m] /\ UNCHANGED <<purged, revision>>
    BY <1>2 DEF Stores, Current, memories
  <2>6. VectorIsCurrent' /\ PurgedHasNoVector'
    BY <2>1, <2>3, <2>5 DEF VectorIsCurrent, PurgedHasNoVector, IInv
  <2>7. st # "pending" => slot[m].status = "none" \/ slot[m].request = r
    BY <1>2 DEF Stores, HoldsSlot
  <2>8. ASSUME NEW n \in Memory, slot[n].status # "none", slot'[n] # slot[n]
        PROVE  slot'[n].status = "pending" \/ slot'[n].request = slot[n].request
    BY <2>1, <2>3, <2>7, <2>8
  <2> QED BY <2>3, <2>4, <2>6, <2>8
<1> QED BY <1>1, <1>2

\* Every step of a request is a store of one slot, or leaves the slots alone.
LEMMA RequestStepStores ==
  ASSUME IInv, NEW r \in Request, RequestStep(r)
  PROVE  /\ UNCHANGED memories
         /\ stage' \in [Request -> Stage] /\ batch' \in [Request -> SUBSET Memory]
         /\ read' \in [Request -> [Memory -> Nat]] /\ todo' \in [Request -> SUBSET Memory]
         /\ aborts' \in Nat
         /\ \A q \in Request : todo'[q] \subseteq batch'[q]
         /\ \/ UNCHANGED slot
            \/ \E m \in Memory, st \in {"pending", "ready", "failed"} : StoreEmbedding(r, m, st)
<1> USE EmbeddingsAssumption DEF IInv, TypeOK, Stage
<1>1. ASSUME NEW ms \in SUBSET Memory, BeginConfigured(r, ms) \/ BeginUnconfigured(r, ms)
      PROVE  /\ UNCHANGED <<memories, slot, aborts>>
             /\ stage' \in [Request -> Stage] /\ batch' \in [Request -> SUBSET Memory]
             /\ read' \in [Request -> [Memory -> Nat]] /\ todo' \in [Request -> SUBSET Memory]
             /\ \A q \in Request : todo'[q] \subseteq batch'[q]
  <2>1. PICK next \in Stage : Begin(r, ms, next)
    BY <1>1 DEF BeginConfigured, BeginUnconfigured
  <2> DEFINE seen == [m \in Memory |-> IF m \in ms THEN revision[m] ELSE 0]
  <2>2. seen \in [Memory -> Nat]
    OBVIOUS
  <2>3. read' = [read EXCEPT ![r] = seen]
    BY <2>1 DEF Begin
  <2> HIDE DEF seen
  <2>4. read' \in [Request -> [Memory -> Nat]]
    BY <2>2, <2>3
  <2> QED BY <2>1, <2>4 DEF Begin
<1> DEFINE typed == /\ stage' \in [Request -> Stage] /\ batch' \in [Request -> SUBSET Memory]
                    /\ read' \in [Request -> [Memory -> Nat]] /\ todo' \in [Request -> SUBSET Memory]
                    /\ \A q \in Request : todo'[q] \subseteq batch'[q]
<1>2. ASSUME NEW how \in Stage, Ends(r, how)
      PROVE  typed
  <2> DEFINE blank == [m \in Memory |-> 0]
  <2>1. blank \in [Memory -> Nat]
    OBVIOUS
  <2>2. read' = [read EXCEPT ![r] = blank]
    BY <1>2 DEF Ends
  <2> HIDE DEF blank
  <2>3. read' \in [Request -> [Memory -> Nat]]
    BY <2>1, <2>2
  <2> QED BY <1>2, <2>3 DEF Ends
<1>3. ASSUME NEW m \in Memory, NEW next \in Stage, AfterStore(r, m, next)
      PROVE  typed /\ UNCHANGED <<memories, aborts>>
  <2>1. CASE todo[r] = {m} /\ next = "done"
    <3>1. Ends(r, "done") /\ UNCHANGED <<memories, aborts>>
      BY <1>3, <2>1 DEF AfterStore
    <3>2. typed
      BY <1>2, <3>1
    <3> QED BY <3>1, <3>2
  <2>2. CASE ~(todo[r] = {m} /\ next = "done")
    <3>1. /\ todo' = [todo EXCEPT ![r] = IF todo[r] = {m} THEN batch[r] ELSE @ \ {m}]
          /\ stage' = [stage EXCEPT ![r] = IF todo[r] = {m} THEN next ELSE @]
          /\ UNCHANGED <<batch, read, memories, aborts>>
      BY <1>3, <2>2 DEF AfterStore
    <3> QED BY <3>1
  <2> QED BY <2>1, <2>2
<1>4. ASSUME NEW m \in Memory, Claim(r, m)
      PROVE  typed /\ UNCHANGED <<memories, aborts>> /\ StoreEmbedding(r, m, "pending")
  BY <1>3, <1>4 DEF Claim, AfterClaim
<1>5. ASSUME NEW m \in Memory, Store(r, m)
      PROVE  /\ typed /\ UNCHANGED <<memories, aborts>>
             /\ \E st \in {"ready", "failed"} : StoreEmbedding(r, m, st)
  BY <1>3, <1>5 DEF Store, AfterResult
<1>6. CASE Answer(r)
  BY <1>6 DEF Answer
<1>7. CASE Abort(r)
  BY <1>2, <1>7 DEF Abort
<1> QED BY <1>1, <1>4, <1>5, <1>6, <1>7 DEF RequestStep

LEMMA NextIInv == IInv /\ [Next]_vars => IInv'
<1> SUFFICES ASSUME IInv, [Next]_vars PROVE IInv'
  OBVIOUS
<1>1. ASSUME NEW r \in Request, RequestStep(r) PROVE IInv'
  <2>1. CASE UNCHANGED slot
    BY <1>1, <2>1, RequestStepStores
    DEF IInv, TypeOK, EmptyIsBlank, VectorIsCurrent, PurgedHasNoVector, memories
  <2>2. CASE \E m \in Memory, st \in {"pending", "ready", "failed"} : StoreEmbedding(r, m, st)
    BY <1>1, <2>2, RequestStepStores, StoreKeeps DEF IInv, TypeOK, memories
  <2> QED BY <1>1, <2>1, <2>2, RequestStepStores
<1>2. CASE UNCHANGED vars
  BY <1>2 DEF vars, memories, request, IInv, TypeOK, EmptyIsBlank, VectorIsCurrent, PurgedHasNoVector
<1> QED BY <1>1, <1>2, MemoryStepIInv DEF Next

\* Every reachable state satisfies the inductive invariant.
THEOREM Invariance == Spec => []IInv
  BY InitIInv, NextIInv, PTL DEF Spec

\* Every variable keeps its type.
THEOREM TypeCorrect == Spec => []TypeOK
<1>1. IInv => TypeOK
  BY DEF IInv
<1> QED BY <1>1, Invariance, PTL

\* A ready vector always belongs to the memory's present text.
THEOREM VectorsAreCurrent == Spec => []VectorIsCurrent
<1>1. IInv => VectorIsCurrent
  BY DEF IInv
<1> QED BY <1>1, Invariance, PTL

\* A permanent delete leaves no vector, and no late answer brings one back.
THEOREM PurgeIsFinal == Spec => []PurgedHasNoVector
<1>1. IInv => PurgedHasNoVector
  BY DEF IInv
<1> QED BY <1>1, Invariance, PTL

ClaimStep ==
    \A m \in Memory :
        slot[m].status # "none" /\ slot'[m].status # "none" /\ slot'[m] # slot[m] =>
            \/ slot'[m].status = "pending"
            \/ slot'[m].request = slot[m].request

\* A late request never replaces what a newer claim of the slot wrote.
THEOREM NewestClaimStays == Spec => NewestClaimWins
<1>1. IInv /\ [Next]_vars => [ClaimStep]_vars
  <2>1. ASSUME IInv, NEW m \in Memory, MemoryStep(m) PROVE ClaimStep
    BY <2>1 DEF MemoryStep, Edit, Trash, Restore, RestoreVersion, Purge, ChangeText, Empty, ClaimStep,
                IInv, TypeOK
  <2>2. ASSUME IInv, NEW r \in Request, RequestStep(r) PROVE ClaimStep
    <3>1. CASE UNCHANGED slot
      BY <3>1 DEF ClaimStep
    <3>2. CASE \E m \in Memory, st \in {"pending", "ready", "failed"} : StoreEmbedding(r, m, st)
      BY <2>2, <3>2, RequestStepStores, StoreKeeps DEF ClaimStep
    <3> QED BY <2>2, <3>1, <3>2, RequestStepStores
  <2> QED BY <2>1, <2>2 DEF Next
<1> QED BY <1>1, Invariance, PTL DEF Spec, NewestClaimWins, ClaimStep
=============================================================================
