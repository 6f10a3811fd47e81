---------------------------- MODULE MCImportQueue ----------------------------
(* Instance of ImportQueue for TLC: workers are interchangeable.           *)
EXTENDS ImportQueue, TLC

Symmetry == Permutations(Worker)
=============================================================================
