--------------------------- MODULE MCWebhookService ---------------------------
(* WebhookService for TLC: no more than three requests, so that one waits in the
   event loop while the queue holds another and a thread the third. *)
EXTENDS WebhookService
================================================================================
