\* One order, delivered again after a stall and a timeout, with a failed query.
CONSTANTS
  i1 = i1
  i2 = i2
  o1 = o1
  o2 = o2
  r1 = r1
  r2 = r2
  None = None
  Orders = {o1}
  Items = {i1}
  Quantities = {1}
  InitialStock = 1
  Lines <- OneLine
  Runs = {r1, r2}
  MaxRetries = 1
  MaxStalled = 1
  Attempts = 2
  MaxDbErrors = 1
  MaxLost = 0
SPECIFICATION FairSpec
PROPERTIES OrderIsDecided
CHECK_DEADLOCK FALSE
