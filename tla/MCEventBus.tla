----------------------------- MODULE MCEventBus -----------------------------
(* An instance of the event bus for TLC.                                   *)
EXTENDS EventBus

CONSTANTS e1, e2, c1, c2

\* An event sent three times, and one the schema refuses.
ThreeCopies == {<<e1, 1>>, <<e1, 2>>, <<e1, 3>>, <<e2, 1>>}
=============================================================================
