\* Two workers race over one reservation while another is pending.
CONSTANTS
  i1 = i1
  i2 = i2
  o1 = o1
  o2 = o2
  w1 = w1
  w2 = w2
  None = None
  Items = {i1}
  Orders = {o1, o2}
  Workers = {w1, w2}
  Quantities = {1}
  InitialStock = 2
  MaxFailures = 0
  CanRun <- ApiAndScheduler
SPECIFICATION AuditSpec
INVARIANT PendingIsHeld
CHECK_DEADLOCK FALSE
