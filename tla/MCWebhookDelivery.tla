------------------------- MODULE MCWebhookDelivery -------------------------
(***************************************************************************)
(* Instances of WebhookDelivery for TLC.                                    *)
(***************************************************************************)
EXTENDS WebhookDelivery, TLC

CONSTANTS w1, w2
=============================================================================
