CONSTANTS
  p = p  q = q  visit = visit  cron = cron  none = none
  Subs = {p, q}  NoSub = none
  Visitors = {visit}  Rounds = {cron}
  MaxFaults = 1
SPECIFICATION FairSpec
INVARIANTS RInv CancelledWasAnswered
CHECK_DEADLOCK FALSE
PROPERTIES ReplacedIsCancelled AlignedAtLast
