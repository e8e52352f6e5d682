------------------------------ MODULE MCWebhook ------------------------------
(***************************************************************************)
(* Instances of WebhookDelivery for TLC.                                   *)
(***************************************************************************)
EXTENDS WebhookDelivery, TLC

CONSTANTS crm, audit

\* One endpoint with the default limit and one that gets a single attempt.
Policies == (crm :> 0) @@ (audit :> 1)
=============================================================================
