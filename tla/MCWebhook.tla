------------------------------ MODULE MCWebhook ------------------------------
(* Instances of WebhookDelivery for TLC. *)
EXTENDS WebhookDelivery, TLC

CONSTANTS d1, c1, c2

One == {d1}
Two == {c1, c2}
=============================================================================
