------------------------------ MODULE MCBilling ------------------------------
(***************************************************************************)
(* Model checking of Billing: two subscriptions of a shop, the requests   *)
(* and deliveries one after another, beside a round of the cron.           *)
(***************************************************************************)
EXTENDS Billing, TLC

CONSTANTS p, q, visit, cron, none
=============================================================================
