------------------------------ MODULE MCWebhook ------------------------------
(* Small instances of Webhook *)
EXTENDS Webhook

CONSTANTS e1, e2

OneDelivery == {e1}
TwoDeliveries == {e1, e2}
=============================================================================
