------------------------------ MODULE MCHandoff ------------------------------
(***************************************************************************)
(* Instances of Handoff for TLC.                                           *)
(***************************************************************************)
EXTENDS Handoff, TLC

CONSTANTS ana, bruno, guest

Alike == Permutations(Operators) \cup Permutations(Requests)
=============================================================================
