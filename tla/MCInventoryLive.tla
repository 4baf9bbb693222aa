--------------------------- MODULE MCInventoryLive ---------------------------
(* The scheduler's sweep and, beside it, any other use case, for liveness.  *)
EXTENDS InventoryReservation

CONSTANTS i1, o1, o2, w1, w2

OthersAndScheduler ==
  [w \in Workers |-> IF w = w1 THEN UseCases \ {"sweep"} ELSE {"sweep"}]
==============================================================================
