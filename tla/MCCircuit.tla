------------------------------ MODULE MCCircuit ------------------------------
(***************************************************************************)
(* Instances of CircuitBreaker for TLC.                                    *)
(***************************************************************************)
EXTENDS CircuitBreaker, TLC

CONSTANTS c1, c2, c3, i1, i2

\* Two runs at one instance and one at the other.
TwoAndOne == (c1 :> i1) @@ (c2 :> i1) @@ (c3 :> i2)

Alike == Permutations({c1, c2})
=============================================================================
