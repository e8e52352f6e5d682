----------------------------- MODULE MCKnowledge -----------------------------
(***************************************************************************)
(* Instances of KnowledgeIngestion for TLC.                                *)
(***************************************************************************)
EXTENDS KnowledgeIngestion, TLC

CONSTANTS guide, empty, manuals

\* Three characters in two chunks, and a document of white space.
Texts == (guide :> <<TRUE, FALSE, TRUE, FALSE>>) @@ (empty :> <<FALSE>>)

OneBase == [d \in Document |-> manuals]
=============================================================================
