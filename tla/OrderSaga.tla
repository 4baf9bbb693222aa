------------------------------ MODULE OrderSaga ------------------------------
(***************************************************************************)
(* The order saga of the Orders Service (OrderProcessingSagaService):      *)
(* executeSaga as the Bull worker runs it, against the Inventory Service,  *)
(* the payment gateway and the two tables it writes, orders and            *)
(* saga_states.                                                            *)
(*                                                                         *)
(* A run is one execution of executeSaga.  It works on its own copy of the *)
(* saga row (the entity findOne returned) and saves the whole copy.  Every *)
(* await is an action: a call to a service, or a save.  Bull delivers a    *)
(* job again when its lock is not renewed, or when it has taken longer     *)
(* than its timeout, whether or not the run that had it still goes on, so  *)
(* several runs may work on one order.                                     *)
(*                                                                         *)
(* The Inventory Service is its promise, StockLedger; its HTTP handler     *)
(* answers 409 for too little stock and 500 for an order that already has  *)
(* a reservation.                                                          *)
(***************************************************************************)
EXTENDS Integers, Sequences

CONSTANTS
  Orders, Items, Quantities, InitialStock, None,  \* as in StockLedger
  Lines,        \* Lines[o]: the item and quantity of each line of order o
  Runs,         \* executions of the saga that may be going on at once
  MaxRetries,   \* config.maxRetries
  MaxStalled,   \* Bull's maxStalledCount
  Attempts,     \* the option attempts createOrder gives the job
  MaxDbErrors,  \* bound on failed queries of the Orders database
  MaxLost       \* bound on reservations whose answer is lost or late

ASSUME LinesAssumption ==
  Lines \in [Orders -> Seq([item : Items, qty : Quantities]) \ {<<>>}]
ASSUME StockAssumption == InitialStock \in Int /\ Quantities \subseteq Int
ASSUME BoundsAssumption ==
  /\ MaxRetries \in Nat /\ MaxStalled \in Nat /\ Attempts \in Nat \ {0}
  /\ MaxDbErrors \in Nat /\ MaxLost \in Nat
ASSUME NoneAssumption == None \notin Orders /\ None \notin Items /\ None \notin Runs

VARIABLES
  onHand, held, rows,  \* the Inventory Service (StockLedger)
  charges,   \* successful charges of the payment gateway, by order
  order,     \* table orders: the status
  saga,      \* table saga_states, by order
  job,       \* the Bull job of each order
  ord,       \* the order each run works on
  pc,        \* what each run does next
  saving,    \* whether the step's result is in memory and not yet saved
  tries,     \* executeStep's retryCount
  line,      \* the line reserveInventory is at
  mem,       \* each run's copy of its saga row
  late,      \* reservation requests the client gave up on, not yet served
  dbErrors,  \* failed queries so far
  lost       \* lost or late answers so far

ledger == <<onHand, held, rows>>
run == <<ord, pc, saving, tries, line, mem>>
faults == <<late, dbErrors, lost>>
vars == <<onHand, held, rows, charges, order, saga, job, ord, pc, saving,
          tries, line, mem, late, dbErrors, lost>>

Inventory == INSTANCE StockLedger

-----------------------------------------------------------------------------
OrderStatus == {"PENDING", "CONFIRMED", "CANCELLED"}
SagaStatus == {"STARTED", "RUNNING", "COMPLETED", "FAILED", "COMPENSATED"}
SagaStep == {"STARTED", "STOCK_VERIFIED", "STOCK_RESERVED",
             "PAYMENT_PROCESSING", "PAYMENT_COMPLETED", "NOTIFICATION_SENT",
             "CONFIRMED"}

\* reserved: stateData.reservationId is set; paid: stateData.paymentId is.
SagaRow == [status : SagaStatus, step : SagaStep, reserved : BOOLEAN,
            paid : BOOLEAN]
NewSaga == [status |-> "STARTED", step |-> "STARTED", reserved |-> FALSE,
            paid |-> FALSE]

\* What executeStep wraps; the other places of executeSaga; no run.
Steps == {"verify", "reserve", "pay", "notify", "confirm"}
PCs == Steps \cup {"idle", "start", "mark_paid", "complete", "release",
                   "cancel", "fail"}

\* A Bull job: its state, the run that holds its lock, and how often it was
\* found stalled and ran out of time.
JobState == {"waiting", "active", "done", "failed"}
JobRow == [state : JobState, lock : Runs \cup {None},
           stalls : 0 .. MaxStalled, timeouts : Nat]
Job(state, lock, stalls, timeouts) ==
  [state |-> state, lock |-> lock, stalls |-> stalls, timeouts |-> timeouts]
DeliveredOnce(j) == j.stalls = 0 /\ j.timeouts = 0

Line(r) == Lines[ord[r]][line[r]]

TypeOK ==
  /\ onHand \in [Items -> Int] /\ held \in [Items -> Int]
  /\ rows \in [Orders -> {Inventory!NoRow} \cup
                          [status : {"pending", "released", "expired"},
                           item : Items, qty : Quantities]]
  /\ charges \in [Orders -> Nat]
  /\ order \in [Orders -> OrderStatus]
  /\ saga \in [Orders -> SagaRow]
  /\ job \in [Orders -> JobRow]
  /\ ord \in [Runs -> Orders \cup {None}]
  /\ pc \in [Runs -> PCs]
  /\ saving \in [Runs -> BOOLEAN]
  /\ tries \in [Runs -> 0 .. MaxRetries]
  /\ line \in [Runs -> Nat]
  /\ \A r \in Runs : line[r] \in 1 .. (IF ord[r] = None THEN 1
                                       ELSE Len(Lines[ord[r]]))
  /\ mem \in [Runs -> SagaRow]
  /\ \A request \in late :
       \E o \in Orders : \E k \in 1 .. Len(Lines[o]) : request = <<o, k>>
  /\ dbErrors \in 0 .. MaxDbErrors
  /\ lost \in 0 .. MaxLost

\* OrdersService.createOrder has committed the order and its saga and queued
\* the job.
Init ==
  /\ Inventory!Init
  /\ charges = [o \in Orders |-> 0]
  /\ order = [o \in Orders |-> "PENDING"]
  /\ saga = [o \in Orders |-> NewSaga]
  /\ job = [o \in Orders |-> Job("waiting", None, 0, 0)]
  /\ ord = [r \in Runs |-> None]
  /\ pc = [r \in Runs |-> "idle"]
  /\ saving = [r \in Runs |-> FALSE]
  /\ tries = [r \in Runs |-> 0]
  /\ line = [r \in Runs |-> 1]
  /\ mem = [r \in Runs |-> NewSaga]
  /\ late = {}
  /\ dbErrors = 0
  /\ lost = 0

-----------------------------------------------------------------------------
(* Control of a run.                                                       *)

\* Where executeSaga goes after a place that succeeded ...
Succeeded(at) ==
  CASE at = "start"     -> "verify"
    [] at = "verify"    -> "reserve"
    [] at = "reserve"   -> "pay"
    [] at = "pay"       -> "mark_paid"
    [] at = "mark_paid" -> "notify"
    [] at = "notify"    -> "confirm"
    [] at = "confirm"   -> "complete"
    [] at = "release"   -> "cancel"

\* Seeded faults: the reservation is not released, the order is confirmed, a
\* confirmation that could not be recorded is compensated.
GivenUp_noRelease(at) ==
  CASE at \in {"verify", "reserve", "pay"} -> "cancel"
    [] at = "notify" -> "confirm"
    [] at = "confirm" -> "complete"
GivenUp_paidAnyway(at) ==
  CASE at \in {"verify", "reserve"} -> "cancel"
    [] at = "pay" -> "mark_paid"
    [] at = "notify" -> "confirm"
    [] at = "confirm" -> "complete"
GivenUp_compensatesConfirm(at) ==
  CASE at \in {"verify", "reserve"} -> "cancel"
    [] at \in {"pay", "confirm"}    -> "release"
    [] at = "notify"                -> "confirm"

\* ... and after a step that failed for good: the results of the last two
\* steps are not looked at.
GivenUp(at) ==
  CASE at \in {"verify", "reserve"} -> "cancel"
    [] at = "pay"                   -> "release"
    [] at = "notify"                -> "confirm"
    [] at = "confirm"               -> "complete"

\* The step executeStep records.
Recorded(at) ==
  CASE at = "verify"  -> "STOCK_VERIFIED"
    [] at = "reserve" -> "STOCK_RESERVED"
    [] at = "pay"     -> "PAYMENT_PROCESSING"
    [] at = "notify"  -> "NOTIFICATION_SENT"
    [] at = "confirm" -> "CONFIRMED"

Enter(r, at) ==
  /\ pc' = [pc EXCEPT ![r] = at]
  /\ saving' = [saving EXCEPT ![r] = FALSE]
  /\ tries' = [tries EXCEPT ![r] = 0]
  /\ line' = [line EXCEPT ![r] = 1]
  /\ UNCHANGED ord

GiveUp(r) == Enter(r, GivenUp(pc[r])) /\ UNCHANGED mem

\* Seeded fault: the attempt is not counted.
Retry_forever(r) == Enter(r, pc[r]) /\ UNCHANGED mem

\* A failure that may be retried, or an exception out of the step.
Retry(r) ==
  IF tries[r] < MaxRetries
  THEN /\ tries' = [tries EXCEPT ![r] = @ + 1]
       /\ saving' = [saving EXCEPT ![r] = FALSE]
       /\ line' = [line EXCEPT ![r] = 1]
       /\ UNCHANGED <<ord, pc, mem>>
  ELSE GiveUp(r)

\* The step succeeded: its result goes into the copy, which is still to be
\* saved.
Result(r, row) ==
  /\ mem' = [mem EXCEPT ![r] = row]
  /\ saving' = [saving EXCEPT ![r] = TRUE]
  /\ UNCHANGED <<ord, pc, tries, line>>

\* executeSaga returns, and with it the processor: the job is done unless
\* the run's lock has gone to another.
End(r) ==
  /\ ord' = [ord EXCEPT ![r] = None]
  /\ pc' = [pc EXCEPT ![r] = "idle"]
  /\ saving' = [saving EXCEPT ![r] = FALSE]
  /\ tries' = [tries EXCEPT ![r] = 0]
  /\ line' = [line EXCEPT ![r] = 1]
  /\ mem' = [mem EXCEPT ![r] = NewSaga]
  /\ job' = IF job[ord[r]].lock = r
            THEN [job EXCEPT ![ord[r]] = Job("done", None, @.stalls, @.timeouts)]
            ELSE job

At(r, at) == pc[r] = at /\ ~saving[r]

\* The step goes on with the next line, or has been through all of them.
NextLine(r, row) ==
  IF line[r] < Len(Lines[ord[r]])
  THEN /\ line' = [line EXCEPT ![r] = @ + 1]
       /\ UNCHANGED <<ord, pc, saving, tries, mem>>
  ELSE Result(r, row)

-----------------------------------------------------------------------------
(* Bull and the processes that run its workers.                            *)

\* A worker takes the job, and executeSaga reads the saga: whatever status
\* and step it finds, it starts over.
Take(r, o) ==
  /\ pc[r] = "idle" /\ job[o].state = "waiting"
  /\ job' = [job EXCEPT ![o] = Job("active", r, @.stalls, @.timeouts)]
  /\ ord' = [ord EXCEPT ![r] = o]
  /\ pc' = [pc EXCEPT ![r] = "start"]
  /\ mem' = [mem EXCEPT ![r] = [saga[o] EXCEPT !.status = "RUNNING"]]
  /\ UNCHANGED <<ledger, charges, order, saga, saving, tries, line, faults>>

\* The worker dies.
Crash(r) ==
  /\ pc[r] # "idle"
  /\ ord' = [ord EXCEPT ![r] = None]
  /\ pc' = [pc EXCEPT ![r] = "idle"]
  /\ saving' = [saving EXCEPT ![r] = FALSE]
  /\ tries' = [tries EXCEPT ![r] = 0]
  /\ line' = [line EXCEPT ![r] = 1]
  /\ mem' = [mem EXCEPT ![r] = NewSaga]
  /\ UNCHANGED <<ledger, charges, order, saga, job, faults>>

\* No run works for the holder of the lock: it will not be renewed.
Abandoned(o) == \A r \in Runs : job[o].lock = r => ord[r] # o

\* The job's lock was not renewed in time.
Stall(o) ==
  /\ job[o].state = "active"
  /\ job' = [job EXCEPT ![o] =
       IF @.stalls < MaxStalled
       THEN Job("waiting", None, @.stalls + 1, @.timeouts)
       ELSE Job("failed", None, @.stalls, @.timeouts)]
  /\ UNCHANGED <<ledger, charges, order, saga, run, faults>>

\* The timeout of 60 s that every job has: the attempt has failed, and the
\* run that had it goes on without the lock.
TimeOut(o) ==
  /\ job[o].state = "active" /\ ~Abandoned(o)
  /\ job' = [job EXCEPT ![o] =
       Job(IF @.timeouts + 1 < Attempts THEN "waiting" ELSE "failed",
           None, @.stalls, @.timeouts + 1)]
  /\ UNCHANGED <<ledger, charges, order, saga, run, faults>>

-----------------------------------------------------------------------------
(* The saves of executeSaga.                                               *)

\* Status RUNNING, and currentStep PAYMENT_COMPLETED.
Save(r, at, row) ==
  /\ At(r, at)
  /\ mem' = [mem EXCEPT ![r] = row]
  /\ saga' = [saga EXCEPT ![ord[r]] = row]
  /\ pc' = [pc EXCEPT ![r] = Succeeded(at)]
  /\ UNCHANGED <<ledger, charges, order, job, ord, saving, tries, line, faults>>

SaveRunning(r) == Save(r, "start", mem[r])

MarkPaid(r) ==
  Save(r, "mark_paid", [mem[r] EXCEPT !.step = "PAYMENT_COMPLETED"])

\* executeStep saves the copy: the step is over.
SaveStep(r) ==
  /\ pc[r] \in Steps /\ saving[r]
  /\ saga' = [saga EXCEPT ![ord[r]] = mem[r]]
  /\ Enter(r, Succeeded(pc[r]))
  /\ UNCHANGED <<ledger, charges, order, job, mem, faults>>

\* Status COMPLETED, or FAILED in the catch of executeSaga.
SaveFinal(r, at, status) ==
  /\ At(r, at)
  /\ saga' = [saga EXCEPT ![ord[r]] = [mem[r] EXCEPT !.status = status]]
  /\ End(r)
  /\ UNCHANGED <<ledger, charges, order, faults>>

Complete(r) == SaveFinal(r, "complete", "COMPLETED")
Fail(r) == SaveFinal(r, "fail", "FAILED")

-----------------------------------------------------------------------------
(* The steps.                                                              *)

Done(r, at) == [mem[r] EXCEPT !.step = Recorded(at)]

\* A step's service is unavailable, its breaker is open, or the gateway
\* declined: whatever the exception, it is retried.
StepFails(r) ==
  /\ pc[r] \in {"verify", "reserve", "pay"} /\ ~saving[r]
  /\ Retry(r)
  /\ UNCHANGED <<ledger, charges, order, saga, job, faults>>

Enough(ln) == onHand[ln.item] - held[ln.item] >= ln.qty

\* checkStock on the next line; one that is short is not retried.
VerifyStock(r) ==
  /\ At(r, "verify")
  /\ IF Enough(Line(r)) THEN NextLine(r, Done(r, "verify"))
                        ELSE GiveUp(r)
  /\ UNCHANGED <<ledger, charges, order, saga, job, faults>>

\* Seeded fault: an order that already has its reservation passes.
Reserved_already(r) ==
  \/ Inventory!Reserve(ord[r], Line(r).item, Line(r).qty)
  \/ rows[ord[r]] # Inventory!NoRow /\ UNCHANGED ledger

Reserved(r) == Inventory!Reserve(ord[r], Line(r).item, Line(r).qty)

\* reserveStock on the next line; the first reservation id is kept.
ReserveInventory(r) ==
  /\ At(r, "reserve")
  /\ Reserved(r)
  /\ NextLine(r, [Done(r, "reserve") EXCEPT !.reserved = TRUE])
  /\ UNCHANGED <<charges, order, saga, job, faults>>

\* 409, too little stock: not retried.  (That the order has a reservation is
\* 500, one of StepFails.)
ReserveRefused(r) ==
  /\ At(r, "reserve")
  /\ rows[ord[r]] = Inventory!NoRow /\ ~Enough(Line(r))
  /\ GiveUp(r)
  /\ UNCHANGED <<ledger, charges, order, saga, job, faults>>

\* The reservation is made and its answer is lost, or the client gives up on
\* a request that is still to be served.
ReserveUnanswered(r) ==
  /\ lost < MaxLost
  /\ At(r, "reserve")
  /\ \/ Reserved(r) /\ UNCHANGED late
     \/ late' = late \cup {<<ord[r], line[r]>>} /\ UNCHANGED ledger
  /\ lost' = lost + 1
  /\ Retry(r)
  /\ UNCHANGED <<charges, order, saga, job, dbErrors>>

\* A request nobody waits for is served after all, or refused.
LateReserve(o, k) ==
  /\ <<o, k>> \in late
  /\ late' = late \ {<<o, k>>}
  /\ LET ln == Lines[o][k] IN
     IF rows[o] = Inventory!NoRow /\ Enough(ln)
     THEN Inventory!Reserve(o, ln.item, ln.qty)
     ELSE UNCHANGED ledger
  /\ UNCHANGED <<charges, order, saga, job, run, dbErrors, lost>>

\* The gateway charges; nothing identifies a charge already made.
ProcessPayment(r) ==
  /\ At(r, "pay")
  /\ charges' = [charges EXCEPT ![ord[r]] = @ + 1]
  /\ Result(r, [Done(r, "pay") EXCEPT !.paid = TRUE])
  /\ UNCHANGED <<ledger, order, saga, job, faults>>

\* Sent or not, the step succeeds.
SendNotification(r) ==
  /\ At(r, "notify")
  /\ Result(r, Done(r, "notify"))
  /\ UNCHANGED <<ledger, charges, order, saga, job, faults>>

ConfirmOrder(r) ==
  /\ At(r, "confirm")
  /\ order' = [order EXCEPT ![ord[r]] = "CONFIRMED"]
  /\ Result(r, Done(r, "confirm"))
  /\ UNCHANGED <<ledger, charges, saga, job, faults>>

-----------------------------------------------------------------------------
(* The compensations: errors are swallowed.                                *)

\* RELEASE_INVENTORY, if the copy has a reservation id: the reservation is
\* given back, or is pending no more, or the call fails and is forgotten.
ReleaseInventory(r) ==
  /\ At(r, "release")
  /\ \/ /\ mem[r].reserved
        /\ rows[ord[r]].status = "pending"
        /\ Inventory!Settle(ord[r], "released") /\ UNCHANGED onHand
     \/ /\ mem[r].reserved => rows[ord[r]].status # "pending"
        /\ UNCHANGED ledger
  /\ Result(r, [mem[r] EXCEPT !.status = "COMPENSATED"])
  /\ UNCHANGED <<charges, order, saga, job, faults>>

ReleaseFails(r) ==
  /\ lost < MaxLost
  /\ At(r, "release") /\ mem[r].reserved
  /\ Result(r, [mem[r] EXCEPT !.status = "COMPENSATED"])
  /\ lost' = lost + 1
  /\ UNCHANGED <<ledger, charges, order, saga, job, late, dbErrors>>

CancelOrder(r) ==
  /\ At(r, "cancel")
  /\ order' = [order EXCEPT ![ord[r]] = "CANCELLED"]
  /\ Result(r, [mem[r] EXCEPT !.status = "COMPENSATED"])
  /\ UNCHANGED <<ledger, charges, saga, job, faults>>

\* compensate saves the copy; after the last compensation executeSaga returns.
SaveCompensation(r) ==
  /\ pc[r] \in {"release", "cancel"} /\ saving[r]
  /\ saga' = [saga EXCEPT ![ord[r]] = mem[r]]
  /\ IF pc[r] = "release" THEN Enter(r, "cancel") /\ UNCHANGED <<mem, job>>
                          ELSE End(r)
  /\ UNCHANGED <<ledger, charges, order, faults>>

-----------------------------------------------------------------------------
(* A query of the Orders database fails.                                   *)

DbError(r) ==
  /\ dbErrors < MaxDbErrors
  /\ dbErrors' = dbErrors + 1
  /\ \* executeStep catches it and runs the whole step again
     \/ /\ (pc[r] \in Steps /\ saving[r]) \/ At(r, "confirm")
        /\ Retry(r) /\ UNCHANGED job
     \/ \* the catch of executeSaga
        /\ \E at \in {"start", "mark_paid", "complete"} : At(r, at)
        /\ Enter(r, "fail") /\ UNCHANGED <<mem, job>>
     \/ \* compensate swallows it
        /\ pc[r] = "release" /\ saving[r]
        /\ Enter(r, "cancel") /\ UNCHANGED <<mem, job>>
     \/ \* the last query of a run that returns
        /\ pc[r] \in {"cancel", "fail"}
        /\ End(r)
  /\ UNCHANGED <<ledger, charges, order, saga, late, lost>>

\* The processor reports a saga it could not read as a job that is done.
TakeFails(o) ==
  /\ dbErrors < MaxDbErrors
  /\ dbErrors' = dbErrors + 1
  /\ job[o].state = "waiting"
  /\ job' = [job EXCEPT ![o] = Job("done", None, @.stalls, @.timeouts)]
  /\ UNCHANGED <<ledger, charges, order, saga, run, late, lost>>

-----------------------------------------------------------------------------
(* The Inventory Service gives back a reservation that has expired.        *)
ExpireReservation(o) ==
  /\ Inventory!GiveBack(o)
  /\ UNCHANGED <<charges, order, saga, job, run, faults>>

Step(r) ==
  \/ SaveRunning(r) \/ MarkPaid(r) \/ SaveStep(r)
  \/ Complete(r) \/ Fail(r)
  \/ VerifyStock(r) \/ ReserveInventory(r) \/ ReserveRefused(r)
  \/ StepFails(r) \/ ReserveUnanswered(r)
  \/ ProcessPayment(r) \/ SendNotification(r) \/ ConfirmOrder(r)
  \/ ReleaseInventory(r) \/ ReleaseFails(r)
  \/ CancelOrder(r) \/ SaveCompensation(r)

Next ==
  \/ \E r \in Runs : Step(r) \/ DbError(r) \/ Crash(r)
  \/ \E r \in Runs, o \in Orders : Take(r, o)
  \/ \E o \in Orders : Stall(o) \/ TimeOut(o) \/ TakeFails(o) \/ ExpireReservation(o)
  \/ \E request \in late : LateReserve(request[1], request[2])

Spec == Init /\ [][Next]_vars

\* A run that is alive goes on; a waiting job is taken; an abandoned job is
\* found by the stalled check.
Fairness ==
  /\ \A r \in Runs : WF_vars(Step(r))
  /\ \A o \in Orders : /\ WF_vars(\E r \in Runs : Take(r, o))
                       /\ WF_vars(Abandoned(o) /\ Stall(o))

FairSpec == Spec /\ Fairness

-----------------------------------------------------------------------------
(* Properties.                                                             *)

\* A confirmed order has been charged, whatever crashed, was redelivered or
\* could not be saved on the way (executeSaga confirms only after a payment
\* of the same run).
ConfirmedWasPaid ==
  \A o \in Orders : order[o] = "CONFIRMED" => charges[o] > 0

\* An order is charged twice only if a query failed in between: redelivery
\* and runs going on at once never do it, although the charge carries no
\* idempotency key, because only one run gets the order's reservation.
AtMostOneCharge ==
  \A o \in Orders : charges[o] <= 1 + dbErrors

\* Bull delivered the job of this order once and it ended, and nothing was
\* lost on the way.
Undisturbed(o) ==
  /\ job[o].state = "done" /\ DeliveredOnce(job[o])
  /\ dbErrors = 0 /\ lost = 0

\* All or nothing, whatever orders compete for the stock: an undisturbed saga
\* has confirmed an order it charged once, or has cancelled it, charged
\* nothing and kept no unit.  (An order of several lines may keep its first:
\* executeSaga:154-157 does not release what it reserved before a line failed.)
AllOrNothing ==
  \A o \in Orders : Undisturbed(o) =>
    \/ /\ order[o] = "CONFIRMED" /\ charges[o] = 1
       /\ saga[o].status = "COMPLETED"
    \/ /\ order[o] = "CANCELLED" /\ charges[o] = 0
       /\ saga[o].status = "COMPENSATED"
       /\ Len(Lines[o]) = 1 => rows[o].status # "pending"

\* A customer who was told the outcome is not told another: an order that
\* left PENDING keeps its status unless its job was delivered again.
OutcomeStands ==
  [][\A o \in Orders :
       order[o] # "PENDING" /\ order'[o] # order[o] => ~DeliveredOnce(job[o])]_vars

\* Every order leaves PENDING ("Recovery después de crashes",
\* docs/ARCHITECTURE.md:297), unless its job has stalled or timed out too
\* often, or a query failed and the job ended: the processor turns every
\* exception into a result (order-processing.processor.ts:132-150), so that
\* Bull takes a saga it could not read, or could not save, for a job done.
OrderIsDecided ==
  \A o \in Orders :
    order[o] = "PENDING" ~>
      \/ order[o] # "PENDING"
      \/ job[o].state = "failed"
      \/ job[o].state = "done" /\ dbErrors > 0

\* docs/ARCHITECTURE.md:287, "Step 4: Confirm Reservation", and
\* saga-step.enum.ts:27, "Confirming stock reservation (making it
\* permanent)": the units of a confirmed order are not given back.
ConfirmedKeepsStock ==
  \A o \in Orders :
    order[o] = "CONFIRMED" => rows[o].status \in {"pending", "confirmed"}
==============================================================================
