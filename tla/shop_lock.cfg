CONSTANTS
  a = a  redact = redact
  Runs = {a, redact}
  Erasers = {redact}
  NoRun = NoRun
  Ttl = 2  Cache = 2  Grace = 1
  MaxTime = 4  MaxBeats = 1  MaxFaults = 1
SPECIFICATION Spec
CHECK_DEADLOCK FALSE
INVARIANTS IInv DeadHolderLetsGo
PROPERTIES ImplementsShopLease PermitFollowsLock PermitFollowsErasure
