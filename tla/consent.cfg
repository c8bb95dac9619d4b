CONSTANTS
  v = v  w = w  k = k  nobody = nobody
  Browsers = {1, 2}  NoBrowser = 0
  Withdrawing = {1}
  Workers = {v, w}
  Links = {k}
  Nobody = nobody
  MaxAttempts = 2  MaxFaults = 1
SPECIFICATION FairSpec
INVARIANTS PInv AppliedIsForgotten RevokedIsNotHandedBack AnsweredIsKept DeadLetterHadAllAttempts
PROPERTIES EverySettled
