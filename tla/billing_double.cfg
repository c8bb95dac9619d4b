CONSTANTS
  p = p  q = q  visit = visit  cron = cron  none = none
  Subs = {p, q}  NoSub = none
  Visitors = {visit}  Rounds = {cron}
  MaxFaults = 0
SPECIFICATION Spec
INVARIANTS ExcessIsKnown
CHECK_DEADLOCK FALSE
