------------------------------- MODULE WorkItem -------------------------------
(***************************************************************************)
(* What the pipelines promise of one piece of queued work: one try at a    *)
(* time and a limit to the tries; results that are stored before they are  *)
(* passed on, and not more than PerTry of them in a try; completion only   *)
(* once a result was passed on or none is wanted; patience before it is    *)
(* given up.  It does not promise that the work is done only once.         *)
(***************************************************************************)
EXTENDS Naturals

CONSTANTS
  Limit,      \* the number of tries allowed
  Patience,   \* the number of tries before it may be given up
  PerTry      \* the number of results one try may store

VARIABLES status, tries, results, passed, wanted

Init ==
  /\ status = "none"
  /\ tries = 0 /\ results = 0 /\ passed = 0
  /\ wanted = TRUE

Accept ==
  /\ status = "none"
  /\ status' = "waiting"
  /\ UNCHANGED <<tries, results, passed, wanted>>

Try ==
  /\ status = "waiting"
  /\ tries < Limit
  /\ status' = "trying"
  /\ tries' = tries + 1
  /\ UNCHANGED <<results, passed, wanted>>

Store ==
  /\ status = "trying"
  /\ results < PerTry * tries
  /\ results' = results + 1
  /\ UNCHANGED <<status, tries, passed, wanted>>

PassOn ==
  /\ status = "trying"
  /\ passed < results
  /\ passed' = passed + 1
  /\ UNCHANGED <<status, tries, results, wanted>>

Waive ==
  /\ status = "trying"
  /\ wanted' = FALSE
  /\ UNCHANGED <<status, tries, results, passed>>

TryAgain ==
  /\ status = "trying"
  /\ status' = "waiting"
  /\ UNCHANGED <<tries, results, passed, wanted>>

Complete ==
  /\ status = "trying"
  /\ passed > 0 \/ ~wanted
  /\ status' = "completed"
  /\ UNCHANGED <<tries, results, passed, wanted>>

GiveUp ==
  /\ status = "trying"
  /\ tries >= Patience
  /\ status' = "failed"
  /\ UNCHANGED <<tries, results, passed, wanted>>

Next == Accept \/ Try \/ Store \/ PassOn \/ Waive \/ TryAgain \/ Complete \/ GiveUp

Spec == Init /\ [][Next]_<<status, tries, results, passed, wanted>>
=============================================================================
