---------------------------- MODULE MCOrderIntake ----------------------------
(* Instances of the order intake for TLC.                                  *)
EXTENDS OrderIntake, TLC

CONSTANTS r1, r2, r3, k1, k2, p1, p2

\* A call, its repetition, and another order.
OneRepeated == [r \in Requests |-> IF r = r3 THEN k2 ELSE k1]
==============================================================================
