----------------------------- MODULE MCWebhooks -----------------------------
(* Instances of the webhook dispatcher for TLC. *)
EXTENDS Webhooks
=============================================================================
