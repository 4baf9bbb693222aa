---------------------------- MODULE MCOrderSaga ----------------------------
(* Instances of the order saga for TLC.                                    *)
EXTENDS OrderSaga, TLC

CONSTANTS i1, i2, o1, o2, r1, r2

\* Every order has one line, for one unit of one item.
OneLine == [o \in Orders |-> <<[item |-> i1, qty |-> 1]>>]

\* The second order has a second line, on another item.
OneAndTwoLines ==
  [o \in Orders |->
     IF o = o1 THEN <<[item |-> i1, qty |-> 1]>>
     ELSE <<[item |-> i1, qty |-> 1], [item |-> i2, qty |-> 1]>>]

\* Runs are interchangeable.
Symmetry == Permutations(Runs)

\* Faults befall one order while the other one waits; without faults the two
\* compete.
Waits(o) == job[o] = Job("waiting", None, 0, 0)
Faulty == dbErrors > 0 \/ lost > 0 \/ \E o \in Orders : ~DeliveredOnce(job[o])
FaultsOrCompetition == Faulty => \E o \in Orders : Waits(o)
==============================================================================
