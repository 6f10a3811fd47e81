------------------------------ MODULE MCSpaces ------------------------------
(* Instances of Spaces for TLC: an owner, two users with an address each    *)
(* and an agent of one of them.                                             *)
EXTENDS Spaces

CONSTANTS ann, bob, cyd, atBob, atCyd, bot

MCHolder  == [e \in Email |-> IF e = atBob THEN bob ELSE cyd]
MCOwnerOf == [a \in Agent |-> bob]
=============================================================================
