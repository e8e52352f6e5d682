----------------------------- MODULE MCIngestion -----------------------------
(***************************************************************************)
(* Instances of IngestionPipeline for TLC.                                 *)
(***************************************************************************)
EXTENDS IngestionPipeline, TLC

CONSTANTS r1, r2, r3, acme, globex, ana, bia, k1, chat

WorkersAreAlike == Permutations(Workers)

From(c, u) == [client |-> c, user |-> u, key |-> None, convKey |-> None, media |-> FALSE]

\* Two messages of one customer, the first with an image, and one of another
\* customer of the same client that names a conversation.
SharedClient ==
  (r1 :> [From(acme, ana) EXCEPT !.media = TRUE]) @@
  (r2 :> From(acme, ana)) @@
  (r3 :> [From(acme, bia) EXCEPT !.convKey = chat])

\* A request, its repetition with the same key, and one without a key that
\* names its conversation.
RepeatedKey ==
  (r1 :> [From(acme, ana) EXCEPT !.key = k1]) @@
  (r2 :> [From(acme, ana) EXCEPT !.key = k1]) @@
  (r3 :> [From(acme, ana) EXCEPT !.convKey = chat])

\* Two clients that happen to use the same idempotency key.
SharedKey ==
  (r1 :> [From(acme, ana) EXCEPT !.key = k1]) @@
  (r2 :> [From(globex, bia) EXCEPT !.key = k1])
=============================================================================
