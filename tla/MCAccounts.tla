----------------------------- MODULE MCAccounts -----------------------------
(* Requests and sessions are interchangeable; the accounts are not.        *)
EXTENDS Accounts, TLC

Symmetry == Permutations(Request) \cup Permutations(Session)
=============================================================================
