------------------------- MODULE MCWebhookDelivery --------------------------
(* Instances of WebhookDelivery for TLC. *)
EXTENDS WebhookDelivery

CONSTANTS d1, d2

TwoDeliveries == {d1, d2}

=============================================================================
