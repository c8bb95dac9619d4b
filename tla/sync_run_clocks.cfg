CONSTANTS
  p = p  c = c  a = a  b = b
  Products = {p}
  Customers = {c}
  Runs = {a}
  NoRun = NoRun  NoItem = NoItem
  Older = {p}
  Overlap = 1  Skew = 1
  MaxAttempts = 2  MaxRepairs = 1
  MaxTime = 2  MaxVersion = 2  MaxFaults = 2
SPECIFICATION Spec
INVARIANTS NothingForgotten
