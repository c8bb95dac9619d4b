CONSTANTS
  p = p  c = c  a = a  b = b
  Products = {p}
  Customers = {c}
  Runs = {a, b}
  NoRun = NoRun  NoItem = NoItem
  Older = {p}
  Overlap = 0  Skew = 0
  MaxAttempts = 2  MaxRepairs = 1
  MaxTime = 1  MaxVersion = 2  MaxFaults = 2
SPECIFICATION Spec
SYMMETRY Sym
INVARIANTS IInv NothingForgotten RepairsAreReread
