----------------------------- MODULE MCSyncQueue -----------------------------
(***************************************************************************)
(* SyncQueue for TLC.  Rows meet only through the dedup index, their shop  *)
(* and the drains, so one configuration gives one row to two drains and    *)
(* many misfortunes, and another gives rows of every kind to one drain.    *)
(***************************************************************************)
EXTENDS SyncQueue, TLC

CONSTANTS r1, r2, r3, cron, lane, shop, t1, t2, t3

\* The one request of the narrow configurations.
SyncKey == r1 :> "sync"
OfShop == r1 :> shop
Locked == r1 :> "locked"

\* The wide one: two requests of one dedup key and one of an unknown type.
SharedKey == r1 :> "sync" @@ r2 :> "sync" @@ r3 :> "foreign"
OfShops == r1 :> shop @@ r2 :> NoShop @@ r3 :> shop
EveryKind == r1 :> "locked" @@ r2 :> "lockless" @@ r3 :> "unknown"

CronAndLane == cron :> EveryShop @@ lane :> shop
CronOnly == cron :> EveryShop
==============================================================================
