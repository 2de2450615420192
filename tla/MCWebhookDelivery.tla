-------------------------- MODULE MCWebhookDelivery --------------------------
(* Two jobs, a payment for each, and an event that pays for neither.       *)
EXTENDS WebhookDelivery, TLC

CONSTANTS j1, j2, e1, e2, e3

Events == e1 :> j1 @@ e2 :> j2 @@ e3 :> j1
=============================================================================
