\* As many calls with an open transaction as the pool has connections.
CONSTANTS
  r1 = r1
  r2 = r2
  r3 = r3
  k1 = k1
  k2 = k2
  p1 = p1
  p2 = p2
  NoReply = NoReply
  Refused = Refused
  Failed = Failed
  Keys = {k1, k2}
  Requests = {r1, r2, r3}
  KeyOf <- OneRepeated
  Relays = {p1, p2}
  PoolSize = 2
  MaxFaults = 0
SPECIFICATION FairSpec
PROPERTY EveryCallIsAnswered
CHECK_DEADLOCK FALSE
