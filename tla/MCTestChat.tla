----------------------------- MODULE MCTestChat -----------------------------
(***************************************************************************)
(* Instances of TestChat for TLC.                                          *)
(***************************************************************************)
EXTENDS TestChat, TLC

CONSTANTS s1, s2, c1, greeter, expert, name, plan

\* The greeter learns the name; with it the expert answers at once, who
\* may learn the plan, named like an API the greeter may not use.
TwoAgents == <<greeter, expert>>
NeedsName == (greeter :> {}) @@ (expert :> {name})
LearnsBoth == (greeter :> {name}) @@ (expert :> {plan})
ForeignPlan == (greeter :> {plan}) @@ (expert :> {})

\* A message with an image that can be stored, in one of them with a sound of no
\* length beside it, which is refused.
Image == [type |-> "image", data |-> "fits"]
Silence == [type |-> "audio", data |-> "empty"]
FilesOfSends == [s \in Sends |-> IF s = s1 THEN {{Image, Silence}} ELSE {{Image}}]
=============================================================================
