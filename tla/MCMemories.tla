----------------------------- MODULE MCMemories -----------------------------
(* Memories, conflicts and requests are interchangeable.                   *)
EXTENDS Memories, TLC

Symmetry == Permutations(Memory) \cup Permutations(Conflict) \cup Permutations(Request)
=============================================================================
