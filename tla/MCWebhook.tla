----------------------------- MODULE MCWebhook -----------------------------
(* Instances of WebhookDelivery for TLC. *)
EXTENDS WebhookDelivery, TLC

CONSTANTS e1, t1, w1, w2

WorkerSymmetry == Permutations(Workers)
=============================================================================
