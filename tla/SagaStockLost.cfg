\* A confirmed order's reservation is never confirmed.
CONSTANTS
  i1 = i1
  i2 = i2
  o1 = o1
  o2 = o2
  r1 = r1
  r2 = r2
  None = None
  Orders = {o1}
  Items = {i1}
  Quantities = {1}
  InitialStock = 1
  Lines <- OneLine
  Runs = {r1}
  MaxRetries = 1
  MaxStalled = 0
  Attempts = 1
  MaxDbErrors = 0
  MaxLost = 0
SPECIFICATION Spec
SYMMETRY Symmetry
INVARIANTS ConfirmedKeepsStock
CHECK_DEADLOCK FALSE
