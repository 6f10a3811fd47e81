------------------------------ MODULE MCSignIn ------------------------------
(* Requests and attempts are interchangeable.                              *)
EXTENDS SignIn, TLC

Symmetry == Permutations(Request) \cup Permutations(Attempt)
=============================================================================
