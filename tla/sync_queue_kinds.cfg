CONSTANTS
  r1 = r1  r2 = r2  r3 = r3  cron = cron  lane = lane  shop = shop
  Requests = {r1, r2, r3}
  t1 = t1  t2 = t2  t3 = t3
  Tokens = {t1, t2}
  Drains = {cron}
  Shops = {shop}
  NoRequest = NoRequest  NoDrain = NoDrain  NoShop = NoShop  NoToken = NoToken  EveryShop = EveryShop
  KeyOf <- SharedKey
  ShopOf <- OfShops
  KindOf <- EveryKind
  LaneOf <- CronOnly
  MaxAttempts = 2
  ClaimBatch = 2
  MaxFaults = 2
SPECIFICATION Spec
PROPERTIES ImplementsWorkQueue
