--------------------------- MODULE CircuitBreaker ---------------------------
(***************************************************************************)
(* The circuit breaker of the Orders Service (circuit-breaker.util.ts),    *)
(* with calls that overlap.  execute() looks at the state when a call      *)
(* starts and again when it ends, and nothing ties the two: a call that    *)
(* was admitted while the circuit was closed may end when it is open, or   *)
(* half open, and counts there.  Any number of calls may probe a half-open *)
(* circuit at once.  A call that times out fails; its late answer is       *)
(* dropped by the race in executeWithTimeout.                              *)
(*                                                                         *)
(* The counters are only compared with their thresholds, so a count is not *)
(* told apart from its threshold once it has reached it.                   *)
(***************************************************************************)
EXTENDS Integers

CONSTANTS
  Calls,             \* calls of execute() that may be under way at once
  FailureThreshold,  \* config.failureThreshold
  SuccessThreshold   \* config.successThreshold

ASSUME ThresholdAssumption ==
  FailureThreshold \in Nat \ {0} /\ SuccessThreshold \in Nat \ {0}

VARIABLES
  state,         \* CLOSED, OPEN or HALF_OPEN
  failureCount,
  successCount,
  due,           \* whether nextAttemptTime is undefined or has passed
  running,       \* calls under way
  healthy,       \* whether the service has recovered for good
  earned         \* successes in a row that ended in the half-open circuit

breakerVars == <<state, failureCount, successCount, due, running, healthy, earned>>

CircuitState == {"CLOSED", "OPEN", "HALF_OPEN"}

Counted(n, threshold) == IF n < threshold THEN n + 1 ELSE threshold

BreakerTypeOK ==
  /\ state \in CircuitState
  /\ failureCount \in 0 .. FailureThreshold
  /\ successCount \in 0 .. SuccessThreshold
  /\ due \in BOOLEAN
  /\ running \subseteq Calls
  /\ healthy \in BOOLEAN
  /\ earned \in 0 .. SuccessThreshold

BreakerInit ==
  /\ state = "CLOSED"
  /\ failureCount = 0
  /\ successCount = 0
  /\ due = TRUE
  /\ running = {}
  /\ healthy = FALSE
  /\ earned = 0

-----------------------------------------------------------------------------
\* open(): also when it is open already, which puts off the next attempt.
Open == state' = "OPEN" /\ due' = FALSE

\* reset()
Reset ==
  /\ state' = "CLOSED"
  /\ failureCount' = 0
  /\ successCount' = 0
  /\ due' = TRUE

\* Seeded fault: the successes of an earlier half-open period still count.
HalfOpen_keepsCount == state' = "HALF_OPEN" /\ UNCHANGED successCount

HalfOpen == state' = "HALF_OPEN" /\ successCount' = 0

\* Seeded fault: every call admitted by a half-open circuit half-opens it anew.
Admit_resetsCount(c) ==
  /\ c \notin running
  /\ running' = running \cup {c}
  /\ \/ state # "CLOSED" /\ due /\ HalfOpen /\ earned' = 0
     \/ state = "CLOSED" /\ UNCHANGED <<state, successCount, earned>>
  /\ UNCHANGED <<failureCount, due, healthy>>

\* execute() admits a call; an open circuit rejects it until it is due.
Admit(c) ==
  /\ c \notin running
  /\ running' = running \cup {c}
  /\ \/ state = "OPEN" /\ due /\ HalfOpen /\ earned' = 0
     \/ state # "OPEN" /\ UNCHANGED <<state, successCount, earned>>
  /\ UNCHANGED <<failureCount, due, healthy>>

HalfOpenNow == state = "HALF_OPEN"

\* onSuccess(), in the state the circuit has when the call ends.
Success(c) ==
  /\ c \in running
  /\ running' = running \ {c}
  /\ earned' = IF state = "HALF_OPEN" THEN Counted(earned, SuccessThreshold)
                                      ELSE earned
  /\ \/ /\ HalfOpenNow
        /\ IF successCount + 1 >= SuccessThreshold
           THEN Reset
           ELSE /\ successCount' = successCount + 1
                /\ UNCHANGED <<state, failureCount, due>>
     \/ /\ state = "CLOSED"
        /\ failureCount' = 0
        /\ UNCHANGED <<state, successCount, due>>
     \/ /\ ~HalfOpenNow /\ state = "OPEN"
        /\ UNCHANGED <<state, failureCount, successCount, due>>
  /\ UNCHANGED healthy

\* onFailure(), likewise; a timeout is a failure.
Failure(c) ==
  /\ c \in running /\ ~healthy
  /\ running' = running \ {c}
  /\ failureCount' = Counted(failureCount, FailureThreshold)
  /\ earned' = 0
  /\ IF state = "HALF_OPEN" \/ failureCount' >= FailureThreshold
     THEN Open
     ELSE UNCHANGED <<state, due>>
  /\ UNCHANGED <<successCount, healthy>>

\* recoveryTimeout has passed since the circuit was last opened.
Due ==
  /\ state = "OPEN" /\ ~due
  /\ due' = TRUE
  /\ UNCHANGED <<state, failureCount, successCount, running, healthy, earned>>

\* The operator's switches.
ForceOpen ==
  /\ ~healthy
  /\ Open
  /\ UNCHANGED <<failureCount, successCount, running, healthy, earned>>

ForceClose ==
  /\ Reset
  /\ UNCHANGED <<running, healthy, earned>>

\* The service recovers.
Recover ==
  /\ ~healthy
  /\ healthy' = TRUE
  /\ UNCHANGED <<state, failureCount, successCount, due, running, earned>>

BreakerNext ==
  \/ \E c \in Calls : Admit(c) \/ Success(c) \/ Failure(c)
  \/ Due \/ ForceOpen \/ ForceClose \/ Recover

BreakerSpec == BreakerInit /\ [][BreakerNext]_breakerVars

\* Callers keep calling, calls end, the clock advances.
BreakerFairSpec ==
  /\ BreakerSpec
  /\ \A c \in Calls : WF_breakerVars(Admit(c)) /\ WF_breakerVars(Success(c) \/ Failure(c))
  /\ WF_breakerVars(Due)

-----------------------------------------------------------------------------
(* Properties.                                                             *)

\* Whatever calls overlap and whoever forces it, the counters agree with the
\* state: a closed circuit is below its failure threshold, a half-open one
\* below its success threshold, and only an open one waits.
CountersAgree ==
  /\ state = "CLOSED" => failureCount < FailureThreshold
  /\ state = "HALF_OPEN" => successCount < SuccessThreshold
  /\ state # "OPEN" => due

\* The end of a call closes the circuit only after successThreshold successes
\* in a row within one half-open period: neither the successes of an earlier
\* period nor those that arrive while it is open count (onSuccess).
ClosingIsEarned ==
  [][state # "CLOSED" /\ state' = "CLOSED" /\ running' # running =>
       earned' = SuccessThreshold]_breakerVars

\* Once the service has recovered the circuit closes, whatever calls were
\* under way and however often it was reopened before.
Recovers == healthy ~> (state = "CLOSED")
==============================================================================
