------------------------- MODULE MCConsentRegister -------------------------
(***************************************************************************)
(* Model checking of ConsentRegister: two browsers of one customer.        *)
(***************************************************************************)
EXTENDS ConsentRegister, TLC

CONSTANTS v, w, k, nobody
=============================================================================
