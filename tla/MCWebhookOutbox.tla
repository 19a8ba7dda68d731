--------------------------- MODULE MCWebhookOutbox ----------------------------
(* WebhookOutbox with one webhook and two events. *)
EXTENDS WebhookOutbox

CONSTANTS h1, e1, e2

OneHook == {h1}
TwoEvents == {e1, e2}
===============================================================================
