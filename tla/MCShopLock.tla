------------------------------ MODULE MCShopLock ------------------------------
(***************************************************************************)
(* ShopLock for TLC: an ordinary run and one of shop/redact.  The two take *)
(* the lock in either order, so each also plays the run that comes second. *)
(***************************************************************************)
EXTENDS ShopLock, TLC

CONSTANTS a, redact
==============================================================================
