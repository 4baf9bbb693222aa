\* Requests and the expiry job race the scheduler's sweep.
CONSTANTS
  i1 = i1
  o1 = o1
  o2 = o2
  w1 = w1
  w2 = w2
  None = None
  Items = {i1}
  Orders = {o1, o2}
  Workers = {w1, w2}
  Quantities = {1}
  InitialStock = 2
  MaxFailures = 1
  CanRun <- OthersAndScheduler
SPECIFICATION FairSpec
PROPERTY ExpiredIsSwept
CHECK_DEADLOCK FALSE
