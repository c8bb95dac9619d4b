---------------------------- MODULE MCCompliance ----------------------------
(***************************************************************************)
(* Model checking of Compliance: two deliveries of any topic, of the same  *)
(* practice when both ask for access.                                      *)
(***************************************************************************)
EXTENDS Compliance, TLC

CONSTANTS v, w, nobody

MCPractice == [r \in Requests |-> 1]
=============================================================================
