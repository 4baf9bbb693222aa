------------------------ MODULE InventoryReservation ------------------------
(***************************************************************************)
(* The reservation use cases of the Inventory Service: ReserveStock,       *)
(* ConfirmReservation, ReleaseReservation, ReleaseExpiredReservations (the *)
(* scheduler's sweep, also an admin endpoint) and ExpireReservationsJob.   *)
(*                                                                         *)
(* Workers are the goroutines that run them.  Every repository call is one *)
(* SQL statement in a transaction of its own: nothing wraps the calls of a *)
(* use case, so each call is one action here and other workers may run     *)
(* between any two of them.  A reservation has a UUID, but a unique index  *)
(* gives an order at most one row, so a row is named by its order.         *)
(***************************************************************************)
EXTENDS InventoryItem, FiniteSets

CONSTANTS
  Items,         \* inventory items (one per product)
  Orders,        \* order ids; the name of an order's reservation row
  Workers,       \* goroutines that run use cases
  Quantities,    \* the quantities requests ask for
  InitialStock,  \* quantity every item starts with
  CanRun,        \* CanRun[w]: the use cases worker w runs
  MaxFailures,   \* bound on repository and publisher errors and crashes
  None           \* no order, no item

UseCases == {"reserve", "confirm", "release", "sweep", "expireJob"}

ASSUME QuantitiesAssumption == Quantities \subseteq Nat
ASSUME StockAssumption == InitialStock \in Nat
ASSUME CanRunAssumption == CanRun \in [Workers -> SUBSET UseCases]
ASSUME FailuresAssumption == MaxFailures \in Nat
ASSUME NoneAssumption == None \notin Items /\ None \notin Orders

VARIABLES
  items,     \* table inventory_items
  rows,      \* table reservations, by order
  expired,   \* orders whose row's expires_at has passed
  pc,        \* what each worker does next
  req,       \* the request each worker is serving
  snap,      \* the item each worker read
  batch,     \* expired reservations a worker has still to process
  events,    \* what was published to RabbitMQ
  failures   \* repository and publisher errors and crashes so far

vars == <<items, rows, expired, pc, req, snap, batch, events, failures>>

-----------------------------------------------------------------------------
Status == {"pending", "confirmed", "released", "expired"}
NoRow == [status |-> "none", item |-> None, qty |-> 0]
Row == [status : Status, item : Items, qty : Quantities]

PCs == {"idle", "next", "find_row", "find_item", "update_item", "write_row",
        "publish"}

NoReq == [op |-> "none", order |-> None, item |-> None, qty |-> 0]
Request == [op : UseCases \cup {"none"}, order : Orders \cup {None},
            item : Items \cup {None}, qty : Quantities \cup {0}]
NoSnap == [quantity |-> 0, reserved |-> 0, version |-> 0]

EventTypes == {"StockReserved", "StockConfirmed", "StockReleased",
               "StockDepleted"}

TypeOK ==
  /\ items \in [Items -> Item]
  /\ rows \in [Orders -> Row \cup {NoRow}]
  /\ expired \subseteq Orders
  /\ pc \in [Workers -> PCs]
  /\ req \in [Workers -> Request]
  /\ snap \in [Workers -> Item]
  /\ batch \in [Workers -> SUBSET Orders]
  /\ events \subseteq [type : EventTypes, order : Orders]
  /\ failures \in 0 .. MaxFailures

Init ==
  /\ items = [i \in Items |->
                [quantity |-> InitialStock, reserved |-> 0, version |-> 1]]
  /\ rows = [o \in Orders |-> NoRow]
  /\ expired = {}
  /\ pc = [w \in Workers |-> "idle"]
  /\ req = [w \in Workers |-> NoReq]
  /\ snap = [w \in Workers |-> NoSnap]
  /\ batch = [w \in Workers |-> {}]
  /\ events = {}
  /\ failures = 0

-----------------------------------------------------------------------------
(* The reservation entity (entity/reservation.go).                         *)

IsPending(o) == rows[o].status = "pending"

IsExpired(o) == o \in expired

CanBeConfirmed(o) == IsPending(o) /\ ~IsExpired(o)

\* Seeded fault: the status is not looked at.
CanBeReleased_anyStatus(o) == rows[o] # NoRow

\* Expired or not: an expired reservation may still be released.
CanBeReleased(o) == IsPending(o)

-----------------------------------------------------------------------------
(* What the five use cases do to the item and to the row.                  *)

Accepts(op, it, q) ==
  CASE op = "reserve" -> CanReserve(it, q)
    [] op = "confirm" -> CanConfirm(it, q)
    [] OTHER          -> CanRelease(it, q)

Apply(op, it, q) ==
  CASE op = "reserve" -> Reserve(it, q)
    [] op = "confirm" -> ConfirmReservation(it, q)
    [] OTHER          -> ReleaseReservation(it, q)

\* The status a use case leaves its reservation in.
Target(op) ==
  CASE op = "reserve"   -> "pending"
    [] op = "confirm"   -> "confirmed"
    [] op = "expireJob" -> "expired"
    [] OTHER            -> "released"

-----------------------------------------------------------------------------
(* Control of a worker.                                                    *)

Goto(w, from, to) == pc[w] = from /\ pc' = [pc EXCEPT ![w] = to]

\* The use case returns, or its batch goes on with the next reservation: a
\* reservation that fails does not stop the batch.
Finish(w) ==
  LET more == batch[w] # {} IN
  /\ pc' = [pc EXCEPT ![w] = IF more THEN "next" ELSE "idle"]
  /\ req' = [req EXCEPT ![w] = IF more THEN [NoReq EXCEPT !.op = req[w].op]
                                       ELSE NoReq]
  /\ snap' = [snap EXCEPT ![w] = NoSnap]
  /\ UNCHANGED batch

-----------------------------------------------------------------------------
(* The use cases' first repository call.                                   *)

\* ReserveStock: input validation and ExistsByOrderID.
ReserveStart(w, o, i, q) ==
  /\ "reserve" \in CanRun[w]
  /\ q > 0
  /\ rows[o] = NoRow
  /\ Goto(w, "idle", "find_item")
  /\ req' = [req EXCEPT ![w] =
               [op |-> "reserve", order |-> o, item |-> i, qty |-> q]]
  /\ UNCHANGED <<items, rows, expired, snap, batch, events, failures>>

Serve(op, o) ==
  [op |-> op, order |-> o, item |-> rows[o].item, qty |-> rows[o].qty]

\* ConfirmReservation: FindByID and CanBeConfirmed.
ConfirmStart(w, o) ==
  /\ "confirm" \in CanRun[w]
  /\ CanBeConfirmed(o)
  /\ Goto(w, "idle", "find_item")
  /\ req' = [req EXCEPT ![w] = Serve("confirm", o)]
  /\ UNCHANGED <<items, rows, expired, snap, batch, events, failures>>

\* ReleaseReservation: FindByID and CanBeReleased.
ReleaseStart(w, o) ==
  /\ "release" \in CanRun[w]
  /\ CanBeReleased(o)
  /\ Goto(w, "idle", "find_item")
  /\ req' = [req EXCEPT ![w] = Serve("release", o)]
  /\ UNCHANGED <<items, rows, expired, snap, batch, events, failures>>

\* Seeded fault: expires_at is compared the wrong way round.
FindExpired_flipped == {o \in Orders : IsPending(o) /\ ~IsExpired(o)}

FindExpired == {o \in Orders : IsPending(o) /\ IsExpired(o)}

\* ReleaseExpiredReservations and ExpireReservationsJob: FindExpired.
BatchStart(w, op) ==
  /\ op \in CanRun[w] \cap {"sweep", "expireJob"}
  /\ FindExpired # {}
  /\ Goto(w, "idle", "next")
  /\ batch' = [batch EXCEPT ![w] = FindExpired]
  /\ req' = [req EXCEPT ![w] = [NoReq EXCEPT !.op = op]]
  /\ UNCHANGED <<items, rows, expired, snap, events, failures>>

\* The loop takes its next reservation.  The sweep goes on with what
\* FindExpired returned; the job reads the row again.
TakeNext(w) ==
  /\ \E o \in batch[w] :
       /\ batch' = [batch EXCEPT ![w] = @ \ {o}]
       /\ req' = [req EXCEPT ![w] = Serve(req[w].op, o)]
  /\ Goto(w, "next",
          IF req[w].op = "sweep" THEN "find_item" ELSE "find_row")
  /\ UNCHANGED <<items, rows, expired, snap, events, failures>>

\* The job's FindByID and its check that the row is still to be expired.
FindRow(w) ==
  /\ pc[w] = "find_row"
  /\ IF IsPending(req[w].order) /\ IsExpired(req[w].order)
     THEN /\ pc' = [pc EXCEPT ![w] = "find_item"]
          /\ UNCHANGED <<req, snap, batch>>
     ELSE Finish(w)
  /\ UNCHANGED <<items, rows, expired, events, failures>>

-----------------------------------------------------------------------------
(* The calls the use cases share.                                          *)

\* FindByID / FindByProductID on the item, then the entity's method on the
\* copy in memory, then the reservation's: Confirm looks at the clock again.
FindItem(w) ==
  /\ pc[w] = "find_item"
  /\ LET it == items[req[w].item] IN
     IF /\ Accepts(req[w].op, it, req[w].qty)
        /\ req[w].op = "confirm" => ~IsExpired(req[w].order)
     THEN /\ pc' = [pc EXCEPT ![w] = "update_item"]
          /\ snap' = [snap EXCEPT ![w] = it]
          /\ UNCHANGED <<req, batch>>
     ELSE Finish(w)
  /\ UNCHANGED <<items, rows, expired, events, failures>>

\* Seeded fault: UPDATE ... WHERE id = ? alone.
VersionMatches_unchecked(w) == TRUE

VersionMatches(w) == items[req[w].item].version = snap[w].version

\* The columns come from the copy in memory, version + 1 from the row.
Write(w) ==
  Versioned(Apply(req[w].op, snap[w], req[w].qty),
            items[req[w].item].version + 1)

\* Seeded fault: ErrOptimisticLockFailure is dropped.
UpdateItem_ignoresConflict(w) ==
  /\ Goto(w, "update_item", "write_row")
  /\ items' = [items EXCEPT ![req[w].item] =
                 IF VersionMatches(w) THEN Write(w) ELSE @]
  /\ UNCHANGED <<rows, expired, req, snap, batch, events, failures>>

\* inventoryRepo.Update: UPDATE ... WHERE id = ? AND version = ?
UpdateItem(w) ==
  /\ pc[w] = "update_item"
  /\ IF VersionMatches(w)
     THEN /\ items' = [items EXCEPT ![req[w].item] = Write(w)]
          /\ pc' = [pc EXCEPT ![w] = "write_row"]
          /\ UNCHANGED <<req, snap, batch>>
     ELSE /\ Finish(w)
          /\ UNCHANGED items
  /\ UNCHANGED <<rows, expired, events, failures>>

\* reservationRepo.Save, refused by the unique index when the order has a
\* row, or reservationRepo.Update, which looks at no status.
WriteRow(w) ==
  LET r == req[w] IN
  /\ pc[w] = "write_row"
  /\ IF r.op = "reserve" /\ rows[r.order] # NoRow
     THEN /\ Finish(w)
          /\ UNCHANGED rows
     ELSE /\ rows' = [rows EXCEPT ![r.order] =
                        [status |-> Target(r.op), item |-> r.item,
                         qty |-> r.qty]]
          /\ pc' = [pc EXCEPT ![w] = "publish"]
          /\ UNCHANGED <<req, snap, batch>>
  /\ UNCHANGED <<items, expired, events, failures>>

\* The events a use case publishes after its writes.  StockDepleted looks at
\* the item in memory; the job publishes nothing.
ToPublish(w) ==
  LET r == req[w]
      left == Available(Apply(r.op, snap[w], r.qty))
  IN {[type |-> t, order |-> r.order] : t \in
        CASE r.op = "reserve" ->
               {"StockReserved"} \cup (IF left = 0 THEN {"StockDepleted"} ELSE {})
          [] r.op = "confirm" ->
               {"StockConfirmed"} \cup (IF left = 0 THEN {"StockDepleted"} ELSE {})
          [] r.op = "expireJob" -> {}
          [] OTHER -> {"StockReleased"}}

Publish(w) ==
  /\ pc[w] = "publish"
  /\ events' = events \cup ToPublish(w)
  /\ Finish(w)
  /\ UNCHANGED <<items, rows, expired, failures>>

\* A publication that fails is logged and forgotten.
PublishError(w) ==
  /\ failures < MaxFailures
  /\ pc[w] = "publish"
  /\ \E sent \in SUBSET ToPublish(w) :
       sent # ToPublish(w) /\ events' = events \cup sent
  /\ Finish(w)
  /\ failures' = failures + 1
  /\ UNCHANGED <<items, rows, expired>>

-----------------------------------------------------------------------------
(* The clock and the failures.                                             *)

\* now passes expires_at of a stored reservation.
Expire(o) ==
  /\ rows[o] # NoRow
  /\ o \notin expired
  /\ expired' = expired \cup {o}
  /\ UNCHANGED <<items, rows, pc, req, snap, batch, events, failures>>

\* A repository call returns an error (connection, context deadline): the
\* use case returns it, and nothing undoes the writes already made.
RepoError(w) ==
  /\ failures < MaxFailures
  /\ pc[w] \in {"find_row", "find_item", "update_item", "write_row"}
  /\ Finish(w)
  /\ failures' = failures + 1
  /\ UNCHANGED <<items, rows, expired, events>>

\* The process stops and starts again: only the database survives.
Crash ==
  /\ failures < MaxFailures
  /\ \E w \in Workers : pc[w] # "idle"
  /\ pc' = [w \in Workers |-> "idle"]
  /\ req' = [w \in Workers |-> NoReq]
  /\ snap' = [w \in Workers |-> NoSnap]
  /\ batch' = [w \in Workers |-> {}]
  /\ failures' = failures + 1
  /\ UNCHANGED <<items, rows, expired, events>>

-----------------------------------------------------------------------------
Start(w) ==
  \/ \E o \in Orders, i \in Items, q \in Quantities : ReserveStart(w, o, i, q)
  \/ \E o \in Orders : ConfirmStart(w, o)
  \/ \E o \in Orders : ReleaseStart(w, o)
  \/ \E op \in {"sweep", "expireJob"} : BatchStart(w, op)

Step(w) ==
  \/ TakeNext(w)
  \/ FindRow(w)
  \/ FindItem(w)
  \/ UpdateItem(w)
  \/ WriteRow(w)
  \/ Publish(w)

Next ==
  \/ \E w \in Workers : Start(w)
  \/ \E w \in Workers : Step(w)
  \/ \E o \in Orders : Expire(o)
  \/ \E w \in Workers : RepoError(w) \/ PublishError(w)
  \/ Crash

Spec == Init /\ [][Next]_vars

\* A goroutine that is running goes on, and the scheduler's ticker keeps
\* starting the sweep.  No client is obliged to call.
Fairness ==
  \A w \in Workers : WF_vars(Step(w)) /\ WF_vars(BatchStart(w, "sweep"))

FairSpec == Spec /\ Fairness

-----------------------------------------------------------------------------
(* Properties.                                                             *)

\* No interleaving of use cases, error or crash leaves a stock row with a
\* negative hold or with more held than there is: the CHECK constraints of
\* migration 001 are a second line of defence that never has to act.
StockSane == \A i \in Items : Sane(items[i])

\* Optimistic locking loses no update: whatever was read before and by
\* whomever, an UPDATE that takes effect is one legal entity operation
\* applied to the row it overwrites (repository Update, WHERE version = ?).
NoLostUpdate ==
  [][\A i \in Items : items'[i] # items[i] =>
       \E op \in UseCases, q \in Quantities :
         /\ Accepts(op, items[i], q)
         /\ items'[i] = Versioned(Apply(op, items[i], q),
                                 items[i].version + 1)]_vars

\* The sweep reaches every expired reservation: once expired it stops being
\* pending, or its item no longer holds enough to release it (the entity
\* refuses, which only earlier damage to the books can cause).
ExpiredIsSwept ==
  \A o \in Orders :
    (rows[o].status = "pending" /\ o \in expired) ~>
      \/ rows[o].status # "pending"
      \/ items[rows[o].item].reserved < rows[o].qty
==============================================================================
