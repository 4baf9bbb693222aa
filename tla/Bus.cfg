\* Two processes; three failures of any kind.
CONSTANTS
  e1 = e1
  e2 = e2
  c1 = c1
  c2 = c2
  Events = {e1, e2}
  Refused = {e2}
  Messages <- ThreeCopies
  Consumers = {c1, c2}
  Prefetch = 2
  MaxRetries = 3
  MaxFaults = 3
  MayFail = {"handler", "connection", "process", "memory"}
SPECIFICATION FairSpec
INVARIANTS NothingLost TwiceOnlyIfDisturbed
PROPERTY QueueDrains
CHECK_DEADLOCK FALSE
