CONSTANTS
  p = p  c = c  a = a  b = b
  Products = {p}
  Customers = {}
  Runs = {a, b}
  NoRun = NoRun  NoItem = NoItem
  Older = {}
  Overlap = 0  Skew = 0
  MaxAttempts = 2  MaxRepairs = 1
  MaxTime = 1  MaxVersion = 2  MaxFaults = 3
SPECIFICATION Spec
INVARIANTS NothingLostByRuns
