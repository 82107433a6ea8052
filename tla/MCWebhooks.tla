------------------------------ MODULE MCWebhooks ------------------------------
(* The environments near both templates, and bodies of up to two events.     *)
EXTENDS Webhooks
=============================================================================
