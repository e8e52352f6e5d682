---------------------------- MODULE DeliveryChain ----------------------------
(***************************************************************************)
(* What webhook delivery promises of one callback to one endpoint: numbered*)
(* attempts, one after the other, up to a limit, and an end after which    *)
(* there is no other attempt.  It promises no end when a process stops.    *)
(***************************************************************************)
EXTENDS Naturals

CONSTANT Limit   \* the number of attempts allowed

VARIABLES
  attempt,       \* the number of the latest attempt, 0 before the first
  outcome

Init == attempt = 0 /\ outcome = "none"

Begin ==
  /\ outcome = "none"
  /\ attempt' = 1
  /\ outcome' = "trying"

TryAgain ==
  /\ outcome = "trying"
  /\ attempt < Limit
  /\ attempt' = attempt + 1
  /\ UNCHANGED outcome

Deliver ==
  /\ outcome = "trying"
  /\ outcome' = "delivered"
  /\ UNCHANGED attempt

GiveUp ==
  /\ outcome = "trying"
  /\ attempt = Limit
  /\ outcome' = "dead"
  /\ UNCHANGED attempt

Next == Begin \/ TryAgain \/ Deliver \/ GiveUp

Spec == Init /\ [][Next]_<<attempt, outcome>>
=============================================================================
