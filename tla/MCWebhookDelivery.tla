-------------------------- MODULE MCWebhookDelivery --------------------------
(* Instances of WebhookDelivery for TLC: status changes and overlapping      *)
(* runs of the WEBHOOK_NOTIFY task.                                        *)
EXTENDS WebhookDelivery, TLC
=============================================================================
