CONSTANTS
  r1 = r1  r2 = r2  r3 = r3  cron = cron  lane = lane  shop = shop
  Requests = {r1}
  t1 = t1  t2 = t2  t3 = t3
  Tokens = {t1, t2, t3}
  Drains = {cron, lane}
  Shops = {shop}
  NoRequest = NoRequest  NoDrain = NoDrain  NoShop = NoShop  NoToken = NoToken  EveryShop = EveryShop
  KeyOf <- SyncKey
  ShopOf <- OfShop
  KindOf <- Locked
  LaneOf <- CronAndLane
  MaxAttempts = 2
  ClaimBatch = 1
  MaxFaults = 3
SPECIFICATION FairSpec
INVARIANTS PInv CompletedWasRun DeadLetterEarned
PROPERTIES ClosedByItsHolder ImplementsWorkQueue EverySettled
