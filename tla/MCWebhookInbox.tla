--------------------------- MODULE MCWebhookInbox ---------------------------
(***************************************************************************)
(* Model checking of WebhookInbox: one resource, an order or a product,    *)
(* and two deliveries that speak of it, of whatever kind.                  *)
(***************************************************************************)
EXTENDS WebhookInbox, TLC

CONSTANTS thing, a, b

MCResourceOf == [f \in Events |-> thing]
=============================================================================
