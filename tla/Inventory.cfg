\* Two workers on any use case, two orders that may compete for two units,
\* one failure or crash.
CONSTANTS
  i1 = i1
  i2 = i2
  o1 = o1
  o2 = o2
  w1 = w1
  w2 = w2
  None = None
  Items = {i1}
  Orders = {o1, o2}
  Workers = {w1, w2}
  Quantities = {1, 2}
  InitialStock = 2
  MaxFailures = 1
  CanRun <- AnyUseCase
SPECIFICATION AuditSpec
SYMMETRY Symmetry
INVARIANTS StockSane NoOversell BooksBalance EventsTellTheTruth
PROPERTIES NoLostUpdate LedgerUntilOverlap
CHECK_DEADLOCK FALSE
