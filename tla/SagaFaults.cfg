\* An order of one line and one of two compete for one unit, or one of them
\* meets every kind of fault while the other waits.
CONSTANTS
  i1 = i1
  i2 = i2
  o1 = o1
  o2 = o2
  r1 = r1
  r2 = r2
  None = None
  Orders = {o1, o2}
  Items = {i1, i2}
  Quantities = {1}
  InitialStock = 1
  Lines <- OneAndTwoLines
  Runs = {r1, r2}
  MaxRetries = 1
  MaxStalled = 1
  Attempts = 2
  MaxDbErrors = 2
  MaxLost = 1
SPECIFICATION Spec
SYMMETRY Symmetry
CONSTRAINT FaultsOrCompetition
INVARIANTS ConfirmedWasPaid AtMostOneCharge AllOrNothing
PROPERTIES OutcomeStands
CHECK_DEADLOCK FALSE
