----------------------------- MODULE MCInventory -----------------------------
(* Instances of the reservation use cases for TLC.                         *)
EXTENDS InventoryAudit, TLC

CONSTANTS i1, i2, o1, o2, w1, w2

\* Every worker runs every use case.
AnyUseCase == [w \in Workers |-> UseCases]

\* The service as deployed: request goroutines and the scheduler's.
ApiAndScheduler ==
  [w \in Workers |-> IF w = w1 THEN {"reserve", "confirm", "release"}
                               ELSE {"sweep"}]

\* Workers are interchangeable only where each runs every use case.
Symmetry == Permutations(Orders) \cup Permutations(Workers)
==============================================================================
