--------------------------- MODULE MCWebhookSink ---------------------------
(* Small instances of WebhookSink for TLC: the workers are model values.   *)
EXTENDS WebhookSink
=============================================================================
