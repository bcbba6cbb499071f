----------------------------- MODULE MCWebhooks -----------------------------
(* The instance of Webhooks that TLC checks: one event, heard by two       *)
(* endpoints.                                                              *)
EXTENDS Webhooks

HearsAll == Event \X Endpoint
=============================================================================
