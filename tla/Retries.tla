---- MODULE Retries ----
(***************************************************************************)
(* A reservation made with retries: by InventoryServiceClient, whose       *)
(* makeRequest repeats a request after some errors, or by a plain request  *)
(* under RetryUtil.executeWithRetry, which has no caller yet.  The service *)
(* may make the reservation and the caller not learn of it; it may also    *)
(* serve a request when its caller has given it up.  The repeated request  *)
(* then meets the order's reservation, which is answered with 500 and not  *)
(* with a refusal.                                                         *)
(***************************************************************************)
EXTENDS Naturals

CONSTANTS
    RetryOptions,   \* options of RetryUtil; isRetriable says if one is passed
    Exponents       \* bound: how far the backoff is computed

ASSUME RetryAssumption ==
    /\ Exponents \in Nat
    /\ RetryOptions \subseteq [maxAttempts: 1..(Exponents + 2), initialDelay: Nat, maxDelay: Nat,
                              doubleMultiplier: Nat, jitter: Nat, isRetriable: BOOLEAN]

VARIABLES
    caller,     \* who makes the call: the client, or options of RetryUtil
    requests,   \* requests sent
    call,       \* "sent", "waiting" for the next attempt or "ended"
    outcome,    \* the answer to the last request, the exception in the end
    waited,     \* milliseconds slept between requests
    unserved,   \* requests given up that the service has yet to serve
    made        \* whether and how the reservation came to be: "none",
                \* "answered", "silent" (answered badly or not at all) or
                \* "late", by a request nobody waited for any more

retryVars == <<caller, requests, call, outcome, waited, unserved, made>>

Client == [maxAttempts |-> 3]

\* Errors as axios reports them, by what the service may have done: nothing,
\* anything, nothing because the limiter or the use case refused, and anything
\* that ends in handleError's default.
NotReached == {"ECONNREFUSED"}
Unanswered == {"ETIMEDOUT", "ECONNABORTED", "ECONNRESET"}
Limited == {"429"}
Refusals == {"400", "404", "409"}
Broken == {"500"}
Errors == NotReached \cup Unanswered \cup Limited \cup Refusals \cup Broken

\* shouldRetry of the client.
ShouldRetry == {"ECONNREFUSED", "ETIMEDOUT"} \cup Broken

\* isDefaultRetriable of RetryUtil looks for words in the message, then for the
\* status.  ECONNABORTED says "timeout of 5000ms exceeded", but "connect
\* ETIMEDOUT" holds none of the words.
IsDefaultRetriable == {"ECONNABORTED", "ECONNREFUSED", "ECONNRESET"} \cup Broken \cup Limited

\* handleError: the exception the caller of the client sees.
HandleError(error) ==
    CASE error = "ECONNABORTED" -> "InventoryServiceTimeout"
      [] error \in (NotReached \cup Unanswered) \ {"ECONNABORTED"} -> "InventoryServiceUnavailable"
      [] error = "404" -> "ReservationNotFound"
      [] error = "409" -> "InsufficientStock"
      [] error \in Broken -> "InventoryServiceUnavailable"
      [] error \in {"400", "429"} -> error

AtMost(a, b) == IF a < b THEN a ELSE b

\* calculateDelay, without and with all of its jitter; a multiplier is in halves.
Powers(options) ==
    LET power[i \in 0..Exponents] ==
          IF i = 0 THEN options.initialDelay
          ELSE (power[i - 1] * options.doubleMultiplier) \div 2
    IN  power
CalculateDelay_uncapped(options, i) == Powers(options)[i]
CalculateDelay(options, i) == AtMost(Powers(options)[i], options.maxDelay)

\* The client waits two seconds after the first attempt and four after the next.
ClientDelay(retryCount) == 1000 * (IF retryCount = 1 THEN 2 ELSE 4)

-----------------------------------------------------------------------------
Attempts == caller.maxAttempts

MayRepeat(error) ==
    IF caller = Client THEN error \in ShouldRetry
    ELSE caller.isRetriable => error \in IsDefaultRetriable

SendRequest ==
    /\ call = "waiting"
    /\ call' = "sent" /\ requests' = requests + 1
    /\ UNCHANGED <<caller, outcome, waited, unserved, made>>

Answered ==
    /\ call = "sent" /\ made = "none"
    /\ call' = "ended" /\ outcome' = "success"
    /\ made' = "answered"
    /\ UNCHANGED <<caller, requests, waited, unserved>>

\* The client's delay is fixed, RetryUtil adds a jitter.
Sleeps ==
    IF caller = Client THEN {ClientDelay(requests)}
    ELSE {CalculateDelay(caller, requests - 1), CalculateDelay(caller, requests - 1) + caller.jitter}

\* Seeded fault: the order's reservation is answered like a conflict of stock.
ErrorsNow_conflict ==
    IF made = "none" THEN Errors ELSE (Errors \ Refusals) \cup {"409"}

\* ReserveStockUseCase looks for the order's reservation first, and the handler
\* has no status for ErrReservationAlreadyExists.
ErrorsNow == IF made = "none" THEN Errors ELSE Errors \ Refusals

\* An attempt fails.  A request that is not answered may be served now, later
\* or never; one answered with 500 may have been served.
AttemptFails(error) ==
    /\ call = "sent" /\ error \in ErrorsNow
    /\ \/ UNCHANGED <<unserved, made>>
       \/ error \in Unanswered \cup Broken /\ made = "none" /\ made' = "silent" /\ UNCHANGED unserved
       \/ error \in Unanswered /\ unserved' = unserved + 1 /\ UNCHANGED made
    /\ IF requests < Attempts /\ MayRepeat(error)
       THEN call' = "waiting" /\ outcome' = error /\ \E ms \in Sleeps : waited' = waited + ms
       ELSE /\ call' = "ended" /\ waited' = waited
            /\ outcome' = IF caller = Client THEN HandleError(error) ELSE error
    /\ UNCHANGED <<caller, requests>>

\* A request nobody waits for is served: it makes the reservation if there is
\* none and the stock lasts.
LateServed ==
    /\ unserved > 0 /\ unserved' = unserved - 1
    /\ UNCHANGED made \/ (made = "none" /\ made' = "late")
    /\ UNCHANGED <<caller, requests, call, outcome, waited>>

RetryInit ==
    /\ caller \in {Client} \cup RetryOptions
    /\ requests = 0 /\ call = "waiting" /\ outcome = "none" /\ waited = 0
    /\ unserved = 0 /\ made = "none"

RetryNext ==
    \/ SendRequest
    \/ Answered
    \/ \E error \in Errors : AttemptFails(error)
    \/ LateServed

RetrySpec == RetryInit /\ [][RetryNext]_retryVars

-----------------------------------------------------------------------------
\* What the caller may conclude when the call ends.  Success means that the
\* reservation was made by the request that was answered.  A refusal means that
\* none of the requests the caller waited for has made one, however often it
\* was repeated: a repetition that meets its own reservation is never told that
\* the stock is short, and only a request served after it was given up may
\* still make one.  Behind every other error there may be a reservation.  And
\* a refusal, a limit or, by the client, a timeout is not repeated by a caller
\* that looks at its errors (RetryUtil repeats everything when it is not told
\* what is retriable, and a limit when it is), nor does anybody sleep longer
\* than the delays allow.
RefusedOutcomes == Refusals \cup {"InsufficientStock", "ReservationNotFound"}
Selective == caller = Client \/ caller.isRetriable
NotRepeated == RefusedOutcomes \cup {"InventoryServiceTimeout"}
               \cup (IF caller = Client THEN Limited ELSE {})

HoldIsKnown ==
    /\ outcome = "success" <=> made = "answered"
    /\ outcome \in RefusedOutcomes => made \in {"none", "late"}
    /\ Selective /\ outcome \in NotRepeated => call = "ended"
    /\ waited <= IF caller = Client THEN 6000
                 ELSE (Attempts - 1) * (caller.maxDelay + caller.jitter)
====
