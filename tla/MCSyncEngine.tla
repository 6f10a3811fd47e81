---------------------------- MODULE MCSyncEngine ----------------------------
(* Instances of SyncEngine for TLC: an empty message, one that fits a       *)
(* chunk, and one that needs several and has surrogate pairs at its cuts.   *)
EXTENDS SyncEngine

CONSTANTS empty, short, long

MCMessage == {empty, short, long}
MCLength  == [m \in MCMessage |-> CASE m = empty -> 0 [] m = short -> 2 [] m = long -> 16]
MCHigh    == [m \in MCMessage |-> IF m = long THEN {3, 7, 13} ELSE {}]
=============================================================================
