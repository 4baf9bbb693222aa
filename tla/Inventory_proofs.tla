-------------------------- MODULE Inventory_proofs --------------------------
(***************************************************************************)
(* Proofs about the reservation use cases, for any number of items, orders *)
(* and workers, any requests and any number of failures.                   *)
(*                                                                         *)
(* First about InventoryReservation: type correctness, that a stock row    *)
(* stays sane, and that no update is lost.  None of the three is           *)
(* inductive.  What a worker writes was computed from what it read, so the *)
(* invariant has to say what a read is worth later: a version is never     *)
(* reused, hence as long as the version a worker read is still the row's,  *)
(* the row is the one it read (ReadsAreVersioned).                         *)
(*                                                                         *)
(* Then about the books (InventoryAudit): that no unit is sold twice       *)
(* whatever races, errors and crashes there are; and, for as long as no    *)
(* two workers met on one reservation and nothing failed between two       *)
(* writes, that the tables balance, that the events are true, and that     *)
(* every step is a step of the abstract ledger StockLedger.                *)
(***************************************************************************)
EXTENDS InventoryAudit, SumTheorems

Batches == {"sweep", "expireJob"}

\* A worker that is running has a complete request in hand.
RequestsComplete ==
  \A w \in Workers :
    /\ pc[w] = "next" \/ batch[w] # {} => req[w].op \in Batches
    /\ pc[w] \notin {"idle", "next"} =>
         /\ req[w].op \in UseCases
         /\ req[w].order \in Orders
         /\ req[w].item \in Items
         /\ req[w].qty \in Quantities

\* Rows are never deleted: what FindExpired returned is still there.
BatchesExist ==
  \A w \in Workers :
    /\ pc[w] = "idle" => batch[w] = {}
    /\ \A o \in batch[w] : rows[o] # NoRow

\* A read that was accepted describes the row for as long as its version is
\* the row's.
ReadIsVersioned(w) ==
  LET it == items[req[w].item] IN
  /\ Accepts(req[w].op, snap[w], req[w].qty)
  /\ snap[w].version <= it.version
  /\ snap[w].version = it.version => snap[w] = it

ReadsAreVersioned ==
  \A w \in Workers : pc[w] = "update_item" => ReadIsVersioned(w)

IInv ==
  TypeOK /\ StockSane /\ RequestsComplete /\ BatchesExist /\ ReadsAreVersioned

-----------------------------------------------------------------------------
(* The entity and the helpers.                                             *)

\* An accepted entity operation leaves a sane row: the guards of Reserve,
\* ReleaseReservation and ConfirmReservation are strong enough.
LEMMA EntityKeepsSane ==
  ASSUME NEW op \in UseCases, NEW it \in Item, NEW q \in Nat, NEW v \in Nat,
         Sane(it), Accepts(op, it, q)
  PROVE  /\ Versioned(Apply(op, it, q), v) \in Item
         /\ Sane(Versioned(Apply(op, it, q), v))
<1>1. CASE op = "reserve"
  <2>1. Apply(op, it, q) = Reserve(it, q) /\ CanReserve(it, q)
    BY <1>1 DEF Apply, Accepts
  <2>. QED
    BY <2>1 DEF Item, Sane, Versioned, CanReserve, Available, Reserve
<1>2. CASE op = "confirm"
  <2>1. Apply(op, it, q) = ConfirmReservation(it, q) /\ CanConfirm(it, q)
    BY <1>2 DEF Apply, Accepts
  <2>. QED
    BY <2>1 DEF Item, Sane, Versioned, CanConfirm, ConfirmReservation
<1>3. CASE op \notin {"reserve", "confirm"}
  <2>1. Apply(op, it, q) = ReleaseReservation(it, q) /\ CanRelease(it, q)
    BY <1>3 DEF Apply, Accepts
  <2>. QED
    BY <2>1 DEF Item, Sane, Versioned, CanRelease, ReleaseReservation
<1>. QED
  BY <1>1, <1>2, <1>3

\* Finish keeps the control variables typed.
LEMMA FinishTyped ==
  ASSUME TypeOK, NEW w \in Workers, Finish(w)
  PROVE  /\ pc' \in [Workers -> PCs]
         /\ req' \in [Workers -> Request]
         /\ snap' \in [Workers -> Item]
         /\ batch' \in [Workers -> SUBSET Orders]
BY DEF TypeOK, Finish, PCs, Request, NoReq, NoSnap, Item

\* What Serve puts in a request is complete when the row exists.
LEMMA ServeTyped ==
  ASSUME TypeOK, NEW o \in Orders, NEW op \in UseCases, rows[o] # NoRow
  PROVE  /\ Serve(op, o) \in Request
         /\ Serve(op, o).op = op
         /\ Serve(op, o).order = o
         /\ Serve(op, o).item \in Items
         /\ Serve(op, o).qty \in Quantities
BY DEF TypeOK, Serve, Request, Row

\* A pending row is a row.
LEMMA PendingIsRow ==
  ASSUME NEW o \in Orders, IsPending(o)
  PROVE  rows[o] # NoRow
BY DEF IsPending, NoRow

-----------------------------------------------------------------------------
(* The initial states.                                                     *)

\* The freshly migrated database satisfies the invariant.
LEMMA InitIInv == Init => IInv
<1>. SUFFICES ASSUME Init PROVE IInv
  OBVIOUS
<1>1. TypeOK
  BY StockAssumption, FailuresAssumption
     DEF Init, TypeOK, Item, PCs, Request, NoReq, NoSnap
<1>2. StockSane
  BY StockAssumption DEF Init, StockSane, Sane
<1>3. RequestsComplete /\ BatchesExist /\ ReadsAreVersioned
  BY DEF Init, RequestsComplete, BatchesExist, ReadsAreVersioned
<1>. QED
  BY <1>1, <1>2, <1>3 DEF IInv

-----------------------------------------------------------------------------
(* Preservation of the invariant, action by action.                        *)

\* A use case that returns, in a step that writes neither table.
LEMMA FinishKeeps ==
  ASSUME IInv, NEW w \in Workers, Finish(w), UNCHANGED <<items, rows>>
  PROVE  /\ StockSane'
         /\ RequestsComplete'
         /\ BatchesExist'
         /\ ReadsAreVersioned'
<1>. USE DEF IInv
<1>1. StockSane'
  BY DEF StockSane
<1>2. RequestsComplete'
  BY DEF RequestsComplete, Finish, TypeOK, NoReq
<1>3. BatchesExist'
  BY DEF BatchesExist, Finish, TypeOK
<1>4. ReadsAreVersioned'
  BY DEF ReadsAreVersioned, ReadIsVersioned, Finish, TypeOK
<1>. QED
  BY <1>1, <1>2, <1>3, <1>4

\* A request that reaches find_item from idle, complete.
LEMMA RequestAccepted ==
  ASSUME IInv, NEW w \in Workers, NEW r \in Request,
         r.op \in UseCases, r.order \in Orders,
         r.item \in Items, r.qty \in Quantities,
         Goto(w, "idle", "find_item"), req' = [req EXCEPT ![w] = r],
         UNCHANGED <<items, rows, expired, snap, batch, events, failures>>
  PROVE  IInv'
<1>. USE DEF IInv, Goto
<1>1. TypeOK'
  BY DEF TypeOK, PCs
<1>2. StockSane'
  BY DEF StockSane
<1>3. RequestsComplete'
  BY DEF RequestsComplete, BatchesExist, TypeOK
<1>4. BatchesExist'
  BY DEF BatchesExist, TypeOK
<1>5. ReadsAreVersioned'
  BY DEF ReadsAreVersioned, ReadIsVersioned, TypeOK
<1>. QED
  BY <1>1, <1>2, <1>3, <1>4, <1>5

\* Starting a use case: the request it builds is complete.
LEMMA StartKeeps ==
  ASSUME IInv, NEW w \in Workers, Start(w)
  PROVE  IInv'
<1>. USE DEF IInv
<1>1. ASSUME NEW o \in Orders, NEW i \in Items, NEW q \in Quantities,
             ReserveStart(w, o, i, q)
      PROVE  IInv'
  <2>. DEFINE r == [op |-> "reserve", order |-> o, item |-> i, qty |-> q]
  <2>1. r \in Request /\ r.op \in UseCases
    BY DEF Request, UseCases
  <2>2. /\ Goto(w, "idle", "find_item")
        /\ req' = [req EXCEPT ![w] = r]
        /\ UNCHANGED <<items, rows, expired, snap, batch, events, failures>>
    BY <1>1 DEF ReserveStart
  <2>. QED
    BY <2>1, <2>2, RequestAccepted
<1>2. ASSUME NEW o \in Orders, ConfirmStart(w, o)
      PROVE  IInv'
  <2>1. rows[o] # NoRow
    BY <1>2, PendingIsRow DEF ConfirmStart, CanBeConfirmed
  <2>2. /\ Goto(w, "idle", "find_item")
        /\ req' = [req EXCEPT ![w] = Serve("confirm", o)]
        /\ UNCHANGED <<items, rows, expired, snap, batch, events, failures>>
    BY <1>2 DEF ConfirmStart
  <2>. QED
    BY <2>1, <2>2, RequestAccepted, ServeTyped DEF UseCases
<1>3. ASSUME NEW o \in Orders, ReleaseStart(w, o)
      PROVE  IInv'
  <2>1. rows[o] # NoRow
    BY <1>3, PendingIsRow DEF ReleaseStart, CanBeReleased
  <2>2. /\ Goto(w, "idle", "find_item")
        /\ req' = [req EXCEPT ![w] = Serve("release", o)]
        /\ UNCHANGED <<items, rows, expired, snap, batch, events, failures>>
    BY <1>3 DEF ReleaseStart
  <2>. QED
    BY <2>1, <2>2, RequestAccepted, ServeTyped DEF UseCases
<1>4. ASSUME NEW op \in Batches, BatchStart(w, op)
      PROVE  IInv'
  <2>. USE <1>4 DEF BatchStart, Goto
  <2>0. FindExpired \subseteq {o \in Orders : rows[o] # NoRow}
    BY PendingIsRow DEF FindExpired
  <2>1. TypeOK'
    BY <2>0 DEF TypeOK, PCs, Request, NoReq, UseCases, Batches
  <2>2. StockSane'
    BY DEF StockSane
  <2>3. RequestsComplete'
    BY DEF RequestsComplete, TypeOK, NoReq
  <2>4. BatchesExist'
    BY <2>0 DEF BatchesExist, TypeOK
  <2>5. ReadsAreVersioned'
    BY DEF ReadsAreVersioned, ReadIsVersioned, TypeOK
  <2>. QED
    BY <2>1, <2>2, <2>3, <2>4, <2>5
<1>. QED
  BY <1>1, <1>2, <1>3, <1>4 DEF Start, Batches

\* The batch loop takes its next reservation.
LEMMA TakeNextKeeps ==
  ASSUME IInv, NEW w \in Workers, TakeNext(w)
  PROVE  IInv'
<1>. USE DEF IInv, Goto
<1>1. PICK o \in batch[w] :
        /\ batch' = [batch EXCEPT ![w] = @ \ {o}]
        /\ req' = [req EXCEPT ![w] = Serve(req[w].op, o)]
  BY DEF TakeNext
<1>2. /\ o \in Orders /\ rows[o] # NoRow
      /\ req[w].op \in Batches
  BY <1>1 DEF TypeOK, BatchesExist, RequestsComplete
<1>3. /\ Serve(req[w].op, o) \in Request
      /\ Serve(req[w].op, o).op = req[w].op
      /\ Serve(req[w].op, o).order \in Orders
      /\ Serve(req[w].op, o).item \in Items
      /\ Serve(req[w].op, o).qty \in Quantities
  BY <1>2, ServeTyped DEF Batches, UseCases
<1>4. pc[w] = "next" /\ pc' \in {[pc EXCEPT ![w] = "find_item"],
                                 [pc EXCEPT ![w] = "find_row"]}
  BY DEF TakeNext
<1>5. UNCHANGED <<items, rows, expired, snap, events, failures>>
  BY DEF TakeNext
<1>6. TypeOK'
  BY <1>1, <1>3, <1>4, <1>5 DEF TypeOK, PCs
<1>7. StockSane'
  BY <1>5 DEF StockSane
<1>8. RequestsComplete'
  BY <1>1, <1>2, <1>3, <1>4, <1>5 DEF RequestsComplete, TypeOK, Batches, UseCases
<1>9. BatchesExist'
  BY <1>1, <1>4, <1>5 DEF BatchesExist, TypeOK
<1>10. ReadsAreVersioned'
  BY <1>1, <1>4, <1>5 DEF ReadsAreVersioned, ReadIsVersioned, TypeOK
<1>. QED
  BY <1>6, <1>7, <1>8, <1>9, <1>10

\* A use case that returns in a step that writes neither table keeps it all.
LEMMA ReturnKeeps ==
  ASSUME IInv, NEW w \in Workers, Finish(w),
         UNCHANGED <<items, rows, expired>>,
         events' \subseteq [type : EventTypes, order : Orders],
         failures' \in 0 .. MaxFailures
  PROVE  IInv'
<1>1. TypeOK'
  BY FinishTyped DEF IInv, TypeOK
<1>. QED
  BY <1>1, FinishKeeps DEF IInv

\* The expiry job reads its row again.
LEMMA FindRowKeeps ==
  ASSUME IInv, NEW w \in Workers, FindRow(w)
  PROVE  IInv'
<1>1. CASE Finish(w)
  BY <1>1, ReturnKeeps DEF FindRow, IInv, TypeOK
<1>2. CASE /\ pc' = [pc EXCEPT ![w] = "find_item"]
           /\ UNCHANGED <<req, snap, batch>>
  <2>. USE <1>2 DEF IInv, FindRow
  <2>1. TypeOK'
    BY DEF TypeOK, PCs
  <2>2. StockSane'
    BY DEF StockSane
  <2>3. RequestsComplete' /\ BatchesExist'
    BY DEF RequestsComplete, BatchesExist, TypeOK
  <2>4. ReadsAreVersioned'
    BY DEF ReadsAreVersioned, ReadIsVersioned, TypeOK
  <2>. QED
    BY <2>1, <2>2, <2>3, <2>4
<1>. QED
  BY <1>1, <1>2 DEF FindRow

\* What a worker reads is, at that moment, the row.
LEMMA FindItemKeeps ==
  ASSUME IInv, NEW w \in Workers, FindItem(w)
  PROVE  IInv'
<1>1. CASE Finish(w)
  BY <1>1, ReturnKeeps DEF FindItem, IInv, TypeOK
<1>2. CASE /\ Accepts(req[w].op, items[req[w].item], req[w].qty)
           /\ pc' = [pc EXCEPT ![w] = "update_item"]
           /\ snap' = [snap EXCEPT ![w] = items[req[w].item]]
           /\ UNCHANGED <<req, batch>>
  <2>. USE <1>2 DEF IInv, FindItem
  <2>1. items[req[w].item] \in Item
    BY DEF RequestsComplete, TypeOK
  <2>2. TypeOK'
    BY <2>1 DEF TypeOK, PCs
  <2>3. StockSane'
    BY DEF StockSane
  <2>4. RequestsComplete' /\ BatchesExist'
    BY DEF RequestsComplete, BatchesExist, TypeOK
  <2>5. ASSUME NEW v \in Workers, pc'[v] = "update_item"
        PROVE  ReadIsVersioned(v)'
    <3>1. CASE v = w
      BY <2>1, <2>5, <3>1 DEF ReadIsVersioned, TypeOK, Item
    <3>2. CASE v # w
      BY <2>5, <3>2 DEF ReadsAreVersioned, ReadIsVersioned, TypeOK
    <3>. QED
      BY <3>1, <3>2
  <2>. QED
    BY <2>2, <2>3, <2>4, <2>5 DEF ReadsAreVersioned
<1>. QED
  BY <1>1, <1>2 DEF FindItem

\* The heart of the matter.  The version matches, so the row is the one that
\* was read: the write is a legal operation on it, the row stays sane, and
\* the new version outdates every other read of it.
LEMMA WriteIsLegal ==
  ASSUME IInv, NEW w \in Workers, pc[w] = "update_item", VersionMatches(w)
  PROVE  LET i == req[w].item IN
         /\ snap[w] = items[i]
         /\ Accepts(req[w].op, items[i], req[w].qty)
         /\ Write(w) = Versioned(Apply(req[w].op, items[i], req[w].qty),
                                 items[i].version + 1)
         /\ Write(w) \in Item
         /\ Sane(Write(w))
<1>. DEFINE i == req[w].item
<1>1. req[w].op \in UseCases /\ i \in Items /\ req[w].qty \in Nat
  BY QuantitiesAssumption DEF IInv, RequestsComplete
<1>2. items[i] \in Item /\ Sane(items[i]) /\ items[i].version + 1 \in Nat
  BY <1>1 DEF IInv, TypeOK, StockSane, Item
<1>3. snap[w] = items[i] /\ Accepts(req[w].op, items[i], req[w].qty)
  BY DEF IInv, ReadsAreVersioned, ReadIsVersioned, VersionMatches
<1>4. Write(w) = Versioned(Apply(req[w].op, items[i], req[w].qty),
                           items[i].version + 1)
  BY <1>3 DEF Write
<1>. QED
  BY <1>1, <1>2, <1>3, <1>4, EntityKeepsSane

\* The versioned UPDATE, applied or refused.
LEMMA UpdateItemKeeps ==
  ASSUME IInv, NEW w \in Workers, UpdateItem(w)
  PROVE  IInv'
<1>1. CASE ~VersionMatches(w)
  <2>1. Finish(w) /\ UNCHANGED items
    BY <1>1 DEF UpdateItem
  <2>. QED
    BY <2>1, ReturnKeeps DEF UpdateItem, IInv, TypeOK
<1>2. CASE VersionMatches(w)
  <2>. DEFINE i == req[w].item
  <2>1. /\ pc[w] = "update_item"
        /\ items' = [items EXCEPT ![i] = Write(w)]
        /\ pc' = [pc EXCEPT ![w] = "write_row"]
        /\ UNCHANGED <<req, snap, batch, rows, expired, events, failures>>
    BY <1>2 DEF UpdateItem
  <2>2. i \in Items /\ Write(w) \in Item /\ Sane(Write(w))
    BY <1>2, <2>1, WriteIsLegal DEF IInv, RequestsComplete
  <2>3. Write(w).version = items[i].version + 1
    BY DEF Write, Versioned
  <2>4. TypeOK'
    BY <2>1, <2>2 DEF IInv, TypeOK, PCs
  <2>5. StockSane'
    BY <2>1, <2>2 DEF IInv, TypeOK, StockSane
  <2>6. RequestsComplete' /\ BatchesExist'
    BY <2>1 DEF IInv, RequestsComplete, BatchesExist, TypeOK
  <2>7. ASSUME NEW v \in Workers, pc'[v] = "update_item"
        PROVE  ReadIsVersioned(v)'
    <3>1. v # w /\ pc[v] = "update_item" /\ req[v].item \in Items
      BY <2>1, <2>7 DEF IInv, TypeOK, RequestsComplete
    <3>2. ReadIsVersioned(v)
      BY <3>1 DEF IInv, ReadsAreVersioned
    <3>3. CASE req[v].item # i
      BY <2>1, <3>2, <3>3 DEF ReadIsVersioned, IInv, TypeOK
    <3>4. CASE req[v].item = i
      <4>1. items'[i].version = items[i].version + 1
        BY <2>1, <2>2, <2>3 DEF IInv, TypeOK
      <4>2. snap[v].version \in Nat /\ items[i].version \in Nat
        BY <2>2 DEF IInv, TypeOK, Item
      <4>3. /\ Accepts(req[v].op, snap[v], req[v].qty)
            /\ snap[v].version <= items[i].version
        BY <3>2, <3>4 DEF ReadIsVersioned
      <4>4. /\ snap[v].version <= items'[i].version
            /\ snap[v].version # items'[i].version
        BY <4>1, <4>2, <4>3
      <4>. QED
        BY <2>1, <3>4, <4>3, <4>4 DEF ReadIsVersioned
    <3>. QED
      BY <3>3, <3>4
  <2>. QED
    BY <2>4, <2>5, <2>6, <2>7 DEF IInv, ReadsAreVersioned
<1>. QED
  BY <1>1, <1>2

\* Writing the reservation row, or the unique index refusing it.
LEMMA WriteRowKeeps ==
  ASSUME IInv, NEW w \in Workers, WriteRow(w)
  PROVE  IInv'
<1>. DEFINE r == req[w]
            n == [status |-> Target(r.op), item |-> r.item, qty |-> r.qty]
<1>1. CASE Finish(w) /\ UNCHANGED rows
  BY <1>1, ReturnKeeps DEF WriteRow, IInv, TypeOK
<1>2. CASE /\ rows' = [rows EXCEPT ![r.order] = n]
           /\ pc' = [pc EXCEPT ![w] = "publish"]
           /\ UNCHANGED <<req, snap, batch>>
  <2>1. pc[w] = "write_row" /\ UNCHANGED <<items, expired, events, failures>>
    BY DEF WriteRow
  <2>2. /\ r.op \in UseCases /\ r.order \in Orders
        /\ r.item \in Items /\ r.qty \in Quantities
    BY <2>1 DEF IInv, RequestsComplete
  <2>3. n \in Row /\ n # NoRow
    BY <2>2 DEF Row, NoRow, Target, Status
  <2>. HIDE DEF n
  <2>4. TypeOK'
    BY <1>2, <2>1, <2>2, <2>3 DEF IInv, TypeOK, PCs
  <2>5. StockSane'
    BY <2>1 DEF IInv, StockSane
  <2>6. RequestsComplete'
    BY <1>2, <2>1 DEF IInv, RequestsComplete, TypeOK
  <2>7. BatchesExist'
    BY <1>2, <2>1, <2>2, <2>3 DEF IInv, BatchesExist, TypeOK
  <2>8. ReadsAreVersioned'
    BY <1>2, <2>1 DEF IInv, ReadsAreVersioned, ReadIsVersioned, TypeOK
  <2>. QED
    BY <2>4, <2>5, <2>6, <2>7, <2>8 DEF IInv
<1>. QED
  BY <1>1, <1>2 DEF WriteRow

\* What a use case publishes is typed, so is any part of it.
LEMMA ToPublishTyped ==
  ASSUME IInv, NEW w \in Workers, pc[w] = "publish"
  PROVE  ToPublish(w) \subseteq [type : EventTypes, order : Orders]
<1>1. req[w].order \in Orders
  BY DEF IInv, RequestsComplete
<1>. QED
  BY <1>1 DEF ToPublish, EventTypes

\* Publishing, whole or in part, and the return.
LEMMA PublishKeeps ==
  ASSUME IInv, NEW w \in Workers, Publish(w) \/ PublishError(w)
  PROVE  IInv'
<1>1. CASE Publish(w)
  <2>1. events' \subseteq [type : EventTypes, order : Orders]
    BY <1>1, ToPublishTyped DEF Publish, IInv, TypeOK
  <2>. QED
    BY <1>1, <2>1, ReturnKeeps DEF Publish, IInv, TypeOK
<1>2. CASE PublishError(w)
  <2>1. events' \subseteq [type : EventTypes, order : Orders]
    BY <1>2, ToPublishTyped DEF PublishError, IInv, TypeOK
  <2>2. failures' \in 0 .. MaxFailures
    BY <1>2, FailuresAssumption DEF PublishError, IInv, TypeOK
  <2>. QED
    BY <1>2, <2>1, <2>2, ReturnKeeps DEF PublishError
<1>. QED
  BY <1>1, <1>2

\* A repository call that fails.
LEMMA RepoErrorKeeps ==
  ASSUME IInv, NEW w \in Workers, RepoError(w)
  PROVE  IInv'
<1>1. failures' \in 0 .. MaxFailures
  BY FailuresAssumption DEF RepoError, IInv, TypeOK
<1>. QED
  BY <1>1, ReturnKeeps DEF RepoError, IInv, TypeOK

\* The clock passes a deadline.
LEMMA ExpireKeeps ==
  ASSUME IInv, NEW o \in Orders, Expire(o)
  PROVE  IInv'
BY DEF Expire, IInv, TypeOK, StockSane, RequestsComplete, BatchesExist,
       ReadsAreVersioned, ReadIsVersioned

\* A crash forgets every worker: nothing is left to be inconsistent.
LEMMA CrashKeeps ==
  ASSUME IInv, Crash
  PROVE  IInv'
<1>1. failures' \in 0 .. MaxFailures
  BY FailuresAssumption DEF Crash, IInv, TypeOK
<1>2. TypeOK'
  BY <1>1 DEF Crash, IInv, TypeOK, PCs, NoReq, NoSnap, Request, Item
<1>3. StockSane'
  BY DEF Crash, IInv, StockSane
<1>4. RequestsComplete' /\ BatchesExist' /\ ReadsAreVersioned'
  BY DEF Crash, RequestsComplete, BatchesExist, ReadsAreVersioned
<1>. QED
  BY <1>2, <1>3, <1>4 DEF IInv

\* Every step keeps the invariant.
LEMMA NextIInv == IInv /\ [Next]_vars => IInv'
<1>. SUFFICES ASSUME IInv, [Next]_vars PROVE IInv'
  OBVIOUS
<1>1. ASSUME NEW w \in Workers, Start(w) PROVE IInv'
  BY <1>1, StartKeeps
<1>2. ASSUME NEW w \in Workers, Step(w) PROVE IInv'
  BY <1>2, TakeNextKeeps, FindRowKeeps, FindItemKeeps, UpdateItemKeeps,
     WriteRowKeeps, PublishKeeps DEF Step
<1>3. ASSUME NEW o \in Orders, Expire(o) PROVE IInv'
  BY <1>3, ExpireKeeps
<1>4. ASSUME NEW w \in Workers, RepoError(w) \/ PublishError(w) PROVE IInv'
  BY <1>4, RepoErrorKeeps, PublishKeeps
<1>5. CASE Crash
  BY <1>5, CrashKeeps
<1>6. CASE UNCHANGED vars
  BY <1>6 DEF vars, IInv, TypeOK, StockSane, RequestsComplete, BatchesExist,
              ReadsAreVersioned, ReadIsVersioned
<1>. QED
  BY <1>1, <1>2, <1>3, <1>4, <1>5, <1>6 DEF Next

-----------------------------------------------------------------------------
(* The theorems.                                                           *)

\* The inductive invariant holds in every reachable state.
THEOREM Invariant == Spec => []IInv
BY InitIInv, NextIInv, PTL DEF Spec

\* Tables and workers hold what their types say, for every value of the
\* constants.
THEOREM TypeCorrect == Spec => []TypeOK
<1>1. IInv => TypeOK
  BY DEF IInv
<1>. QED
  BY <1>1, Invariant, PTL

\* No interleaving of use cases, error or crash drives a stock row negative
\* or holds more than there is, whatever the number of concurrent requests.
THEOREM StockStaysSane == Spec => []StockSane
<1>1. IInv => StockSane
  BY DEF IInv
<1>. QED
  BY <1>1, Invariant, PTL

\* Only an accepted versioned UPDATE writes the items table.
LEMMA OnlyUpdateWrites ==
  ASSUME IInv, [Next]_vars, NEW i \in Items, items'[i] # items[i]
  PROVE  \E w \in Workers :
           /\ UpdateItem(w) /\ VersionMatches(w)
           /\ req[w].item = i
           /\ items'[i] = Write(w)
<1>1. items' # items
  OBVIOUS
<1>2. PICK w \in Workers : UpdateItem(w) /\ VersionMatches(w)
  BY <1>1 DEF Next, vars, Start, Step, ReserveStart, ConfirmStart,
     ReleaseStart, BatchStart, TakeNext, FindRow, FindItem, UpdateItem,
     WriteRow, Publish, PublishError, RepoError, Crash, Expire
<1>3. items' = [items EXCEPT ![req[w].item] = Write(w)]
  BY <1>2 DEF UpdateItem
<1>. QED
  BY <1>2, <1>3 DEF IInv, TypeOK

\* Optimistic locking loses no update: every write of a stock row is one
\* legal entity operation on the very row it overwrites.
THEOREM NoUpdateIsLost == Spec => NoLostUpdate
<1>. DEFINE Legal ==
       \A i \in Items : items'[i] # items[i] =>
         \E op \in UseCases, q \in Quantities :
           /\ Accepts(op, items[i], q)
           /\ items'[i] = Versioned(Apply(op, items[i], q),
                                    items[i].version + 1)
<1>1. ASSUME IInv, [Next]_vars PROVE Legal
  <2>. SUFFICES ASSUME NEW i \in Items, items'[i] # items[i]
                PROVE  \E op \in UseCases, q \in Quantities :
                         /\ Accepts(op, items[i], q)
                         /\ items'[i] = Versioned(Apply(op, items[i], q),
                                                  items[i].version + 1)
    OBVIOUS
  <2>1. PICK w \in Workers : /\ UpdateItem(w) /\ VersionMatches(w)
                             /\ req[w].item = i
                             /\ items'[i] = Write(w)
    BY <1>1, OnlyUpdateWrites
  <2>2. pc[w] = "update_item"
    BY <2>1 DEF UpdateItem
  <2>3. req[w].op \in UseCases /\ req[w].qty \in Quantities
    BY <1>1, <2>2 DEF IInv, RequestsComplete
  <2>. QED
    BY <1>1, <2>1, <2>2, <2>3, WriteIsLegal
<1>2. IInv /\ [Next]_vars => [Legal]_vars
  BY <1>1
<1>. QED
  BY <1>2, Invariant, PTL DEF Spec, NoLostUpdate

-----------------------------------------------------------------------------
(* The inductive invariants.                                               *)

Stored == {o \in Orders : rows[o] # NoRow}

\* However many orders there may be, only finitely many have a row.
StoredIsFinite == IsFiniteSet(Stored)

Serving(w) == pc[w] \notin {"idle", "next"}

\* What a worker carries about a reservation is what its row says: a row's
\* item and quantity never change.
RequestsMatchRows ==
  \A w \in Workers :
    Serving(w) /\ req[w].op # "reserve" =>
      /\ req[w].order \in Stored
      /\ rows[req[w].order].item = req[w].item
      /\ rows[req[w].order].qty = req[w].qty

Confirming(o, i) ==
  \E w \in Workers : /\ pc[w] = "write_row" /\ req[w].op = "confirm"
                     /\ req[w].order = o /\ req[w].item = i

\* The reservations for which an item has been debited, as far as the tables
\* and the workers between their two writes can tell.
Sold(i) == {o \in Orders : o \in RowsOf(i, "confirmed") \/ Confirming(o, i)}

SoldIsGone ==
  \A i \in Items : QtySum(rows, Sold(i)) + items[i].quantity <= InitialStock

SaleInv == IInv /\ StoredIsFinite /\ RequestsMatchRows /\ SoldIsGone

\* Two workers have no reservation in common.
Apart ==
  \A v, w \in Workers : v # w => InHand(v) \cap InHand(w) = {}

\* Alone with its reservation, a worker finds it as it left it.
Careful(w) ==
  /\ pc[w] \in {"find_item", "update_item", "write_row"} =>
       rows[req[w].order].status =
         (IF req[w].op = "reserve" THEN "none" ELSE "pending")
  /\ pc[w] = "publish" =>
       rows[req[w].order].status = Target(req[w].op)
  /\ pc[w] = "find_row" => req[w].op = "expireJob"
  /\ req[w].op = "sweep" =>
       /\ \A o \in batch[w] : rows[o].status = "pending"
       /\ Serving(w) => req[w].order \notin batch[w]

HandsAreClean == \A w \in Workers : Careful(w)

EventsAreTrue ==
  \A e \in events :
    /\ e.type = "StockConfirmed" => rows[e.order].status = "confirmed"
    /\ e.type = "StockReleased" => rows[e.order].status = "released"

AloneInv == ~overlapped => Apart /\ failures = 0 /\ HandsAreClean /\ EventsAreTrue

\* Balanced books: what the abstract ledger promises, of the ledger the
\* tables and the workers between their two writes stand for.
Booked == {o \in Orders : ledgerRows[o] # NoRow}

Books ==
  \A i \in Items :
    /\ items[i].reserved = QtySum(ledgerRows, Column(Orders, ledgerRows, i, "pending"))
    /\ items[i].quantity
         + QtySum(ledgerRows, Column(Orders, ledgerRows, i, "confirmed")) = InitialStock

Balanced == ~overlapped => IsFiniteSet(Booked) /\ Books

BooksInv == SaleInv /\ AloneInv /\ Balanced

-----------------------------------------------------------------------------
(* What a step does to the tables.                                         *)

\* A use case's versioned UPDATE is accepted.
WritesItem(w) == UpdateItem(w) /\ VersionMatches(w)

\* A use case's row is saved or updated.
WritesRow(w) ==
  WriteRow(w) /\ ~(req[w].op = "reserve" /\ rows[req[w].order] # NoRow)

\* A step that writes no table.  A worker that serves a reservation after it
\* served it before, or has started on a row, or asks for a new one.
Quiet ==
  /\ UNCHANGED <<items, rows>>
  /\ \A w \in Workers :
       /\ pc'[w] = "write_row" => pc[w] = "write_row"
       /\ pc'[w] \notin {"idle", "next"} =>
            \/ Serving(w) /\ req'[w] = req[w]
            \/ /\ pc'[w] # "write_row"
               /\ \/ req'[w].op = "reserve"
                  \/ \E o \in Stored : req'[w] = Serve(req'[w].op, o)

\* A return changes the control of one worker only.
LEMMA FinishIsQuiet ==
  ASSUME IInv, NEW w \in Workers, Finish(w), UNCHANGED <<items, rows>>
  PROVE  Quiet
BY DEF Quiet, Finish, IInv, TypeOK, Serving

\* A request is built from a row, or asks for a new one.
LEMMA StartIsQuiet ==
  ASSUME IInv, NEW w \in Workers, Start(w)
  PROVE  Quiet
<1>1. ASSUME NEW o \in Orders, NEW i \in Items, NEW q \in Quantities,
             ReserveStart(w, o, i, q)
      PROVE  Quiet
  BY <1>1 DEF ReserveStart, Goto, Quiet, Serving, IInv, TypeOK
<1>2. ASSUME NEW o \in Orders, NEW op \in UseCases, IsPending(o),
             Goto(w, "idle", "find_item"), req' = [req EXCEPT ![w] = Serve(op, o)],
             UNCHANGED <<items, rows>>
      PROVE  Quiet
  <2>1. o \in Stored /\ Serve(op, o).op = op
    BY <1>2, PendingIsRow DEF Stored, Serve
  <2>. QED
    BY <1>2, <2>1 DEF Goto, Quiet, Serving, IInv, TypeOK
<1>3. ASSUME NEW op \in Batches, BatchStart(w, op)
      PROVE  Quiet
  BY <1>3 DEF BatchStart, Goto, Quiet, Serving, IInv, TypeOK
<1>4. ASSUME NEW o \in Orders, ConfirmStart(w, o) PROVE Quiet
  BY <1>2, <1>4 DEF ConfirmStart, CanBeConfirmed, UseCases
<1>5. ASSUME NEW o \in Orders, ReleaseStart(w, o) PROVE Quiet
  BY <1>2, <1>5 DEF ReleaseStart, CanBeReleased, UseCases
<1>. QED
  BY <1>1, <1>3, <1>4, <1>5 DEF Start, Batches

\* Every step writes an item, or a row, or nothing.
LEMMA StepKinds ==
  ASSUME IInv, [Next]_vars
  PROVE  \/ Quiet
         \/ \E w \in Workers : WritesItem(w) \/ WritesRow(w)
<1>1. ASSUME NEW w \in Workers, Start(w) PROVE Quiet
  BY <1>1, StartIsQuiet
<1>2. ASSUME NEW w \in Workers, TakeNext(w) PROVE Quiet
  <2>1. PICK o \in batch[w] : req' = [req EXCEPT ![w] = Serve(req[w].op, o)]
    BY <1>2 DEF TakeNext
  <2>2. o \in Stored /\ Serve(req[w].op, o).op = req[w].op
    BY <2>1 DEF IInv, TypeOK, BatchesExist, Stored, Serve
  <2>. QED
    BY <1>2, <2>1, <2>2 DEF TakeNext, Goto, Quiet, Serving, IInv, TypeOK
<1>3. ASSUME NEW w \in Workers, FindRow(w) \/ FindItem(w) PROVE Quiet
  <2>1. CASE Finish(w)
    BY <1>3, <2>1, FinishIsQuiet DEF FindRow, FindItem
  <2>2. CASE ~Finish(w)
    BY <1>3, <2>2 DEF FindRow, FindItem, Quiet, Serving, IInv, TypeOK
  <2>. QED
    BY <2>1, <2>2
<1>4. ASSUME NEW w \in Workers, UpdateItem(w) PROVE Quiet \/ WritesItem(w)
  BY <1>4, FinishIsQuiet DEF UpdateItem, WritesItem
<1>5. ASSUME NEW w \in Workers, WriteRow(w) PROVE Quiet \/ WritesRow(w)
  BY <1>5, FinishIsQuiet DEF WriteRow, WritesRow
<1>6. ASSUME NEW w \in Workers, Publish(w) \/ PublishError(w) \/ RepoError(w)
      PROVE  Quiet
  BY <1>6, FinishIsQuiet DEF Publish, PublishError, RepoError
<1>7. ASSUME NEW o \in Orders, Expire(o) PROVE Quiet
  BY <1>7 DEF Expire, Quiet, Serving
<1>8. CASE Crash
  BY <1>8 DEF Crash, Quiet
<1>9. CASE UNCHANGED vars
  BY <1>9 DEF vars, Quiet, Serving
<1>. QED
  BY <1>1, <1>2, <1>3, <1>4, <1>5, <1>6, <1>7, <1>8, <1>9 DEF Next, Step

-----------------------------------------------------------------------------
(* No unit is sold twice.                                                  *)

\* What a confirmed or a half confirmed reservation is: a row of the item.
LEMMA SoldIsStored ==
  ASSUME SaleInv, NEW i \in Items
  PROVE  /\ IsFiniteSet(Sold(i))
         /\ \A o \in Sold(i) : /\ o \in Stored
                               /\ rows[o].qty \in Nat
                               /\ rows[o].item = i
<1>1. ASSUME NEW o \in Sold(i)
      PROVE  o \in Stored /\ rows[o].item = i
  <2>1. CASE o \in RowsOf(i, "confirmed")
    BY <2>1 DEF RowsOf, Stored, NoRow
  <2>2. CASE Confirming(o, i)
    BY <2>2 DEF Confirming, SaleInv, RequestsMatchRows, Serving
  <2>. QED
    BY <2>1, <2>2 DEF Sold
<1>2. ASSUME NEW o \in Stored
      PROVE  rows[o].qty \in Nat
  BY <1>2, QuantitiesAssumption DEF Stored, SaleInv, IInv, TypeOK, Row
<1>3. Sold(i) \subseteq Stored
  BY <1>1
<1>. QED
  BY <1>1, <1>2, <1>3, FS_Subset DEF SaleInv, StoredIsFinite

\* Fewer reservations of the same sizes, and no more stock than before.
LEMMA NoMoreSold ==
  ASSUME SaleInv, NEW i \in Items,
         Sold(i)' \subseteq Sold(i),
         \A o \in Sold(i)' : rows'[o].qty = rows[o].qty,
         items'[i].quantity = items[i].quantity
  PROVE  QtySum(rows', Sold(i)') + items'[i].quantity <= InitialStock
<1>1. IsFiniteSet(Sold(i)) /\ \A o \in Sold(i) : rows[o].qty \in Nat
  BY SoldIsStored
<1>2. IsFiniteSet(Sold(i)')
  BY <1>1, FS_Subset
<1>3. QtySum(rows', Sold(i)') = QtySum(rows, Sold(i)')
  BY <1>2, SumsAgree
<1>4. QtySum(rows, Sold(i)') <= QtySum(rows, Sold(i))
  BY <1>1, SumOfFewer
<1>5. QtySum(rows, Sold(i)') \in Nat /\ QtySum(rows, Sold(i)) \in Nat
  BY <1>1, <1>2, SumIsNat
<1>6. items[i].quantity \in Nat
  BY DEF SaleInv, IInv, TypeOK, Item
<1>7. QtySum(rows, Sold(i)) + items[i].quantity <= InitialStock
  BY DEF SaleInv, SoldIsGone
<1>. QED
  BY <1>3, <1>4, <1>5, <1>6, <1>7, StockAssumption

\* A step that writes no table sells nothing.
LEMMA QuietKeepsSale ==
  ASSUME SaleInv, IInv', Quiet
  PROVE  SaleInv'
<1>1. Stored' = Stored
  BY DEF Quiet, Stored
<1>2. RequestsMatchRows'
  <2>. SUFFICES ASSUME NEW w \in Workers, Serving(w)', req'[w].op # "reserve"
                PROVE  /\ req'[w].order \in Stored
                       /\ rows[req'[w].order].item = req'[w].item
                       /\ rows[req'[w].order].qty = req'[w].qty
    BY <1>1 DEF RequestsMatchRows, Quiet
  <2>1. CASE Serving(w) /\ req'[w] = req[w]
    BY <2>1 DEF SaleInv, RequestsMatchRows
  <2>2. CASE \E o \in Stored : req'[w] = Serve(req'[w].op, o)
    <3>1. PICK o \in Stored : req'[w] = Serve(req'[w].op, o)
      BY <2>2
    <3>2. req'[w].order = o /\ req'[w].item = rows[o].item /\ req'[w].qty = rows[o].qty
      BY <3>1 DEF Serve
    <3>. QED
      BY <3>2
  <2>. QED
    BY <2>1, <2>2 DEF Quiet, Serving
<1>3. ASSUME NEW i \in Items
      PROVE  QtySum(rows', Sold(i)') + items'[i].quantity <= InitialStock
  <2>1. Sold(i)' \subseteq Sold(i)
    BY DEF Quiet, Sold, Confirming, RowsOf
  <2>. QED
    BY <2>1, NoMoreSold DEF Quiet
<1>. QED
  BY <1>1, <1>2, <1>3 DEF SaleInv, StoredIsFinite, SoldIsGone

\* The entity's methods in numbers.
LEMMA EntityInNumbers ==
  ASSUME NEW op \in UseCases, NEW it \in Item, NEW q \in Nat, NEW v \in Nat,
         Accepts(op, it, q)
  PROVE  LET n == Versioned(Apply(op, it, q), v) IN
         /\ q > 0 /\ n \in [quantity : Int, reserved : Int, version : Int]
         /\ op = "reserve" => /\ it.quantity - it.reserved >= q
                              /\ n.quantity = it.quantity
                              /\ n.reserved = it.reserved + q
         /\ op = "confirm" => /\ it.quantity >= q
                              /\ n.quantity = it.quantity - q
                              /\ n.reserved = it.reserved - q
         /\ op \notin {"reserve", "confirm"} =>
              /\ n.quantity = it.quantity
              /\ n.reserved = it.reserved - q
<1>. USE DEF Item, Versioned
<1>1. CASE op = "reserve"
  <2>1. Apply(op, it, q) = Reserve(it, q) /\ CanReserve(it, q)
    BY <1>1 DEF Apply, Accepts
  <2>. QED
    BY <1>1, <2>1 DEF CanReserve, Available, Reserve
<1>2. CASE op = "confirm"
  <2>1. Apply(op, it, q) = ConfirmReservation(it, q) /\ CanConfirm(it, q)
    BY <1>2 DEF Apply, Accepts
  <2>. QED
    BY <1>2, <2>1 DEF CanConfirm, ConfirmReservation
<1>3. CASE op \notin {"reserve", "confirm"}
  <2>1. Apply(op, it, q) = ReleaseReservation(it, q) /\ CanRelease(it, q)
    BY <1>3 DEF Apply, Accepts
  <2>. QED
    BY <1>3, <2>1 DEF CanRelease, ReleaseReservation
<1>. QED
  BY <1>1, <1>2, <1>3

\* The two writes, spelled out.
LEMMA WritesItemIs ==
  ASSUME IInv, NEW w \in Workers, WritesItem(w)
  PROVE  LET r == req[w] IN
         /\ pc[w] = "update_item" /\ pc' = [pc EXCEPT ![w] = "write_row"]
         /\ r.op \in UseCases /\ r.order \in Orders
         /\ r.item \in Items /\ r.qty \in Nat /\ r.qty \in Quantities
         /\ items[r.item] \in Item /\ items'[r.item] \in Item
         /\ Accepts(r.op, items[r.item], r.qty)
         /\ items'[r.item] = Versioned(Apply(r.op, items[r.item], r.qty),
                                       items[r.item].version + 1)
         /\ items[r.item].version + 1 \in Nat
         /\ \A i \in Items \ {r.item} : items'[i] = items[i]
         /\ UNCHANGED <<rows, expired, req, snap, batch, events, failures>>
<1>1. pc[w] = "update_item" /\ VersionMatches(w)
  BY DEF WritesItem, UpdateItem
<1>2. /\ req[w].op \in UseCases /\ req[w].order \in Orders
      /\ req[w].item \in Items /\ req[w].qty \in Quantities
  BY <1>1 DEF IInv, RequestsComplete
<1>3. /\ items' = [items EXCEPT ![req[w].item] = Write(w)]
      /\ pc' = [pc EXCEPT ![w] = "write_row"]
      /\ UNCHANGED <<rows, expired, req, snap, batch, events, failures>>
  BY DEF WritesItem, UpdateItem
<1>4. /\ \A i \in Items \ {req[w].item} : items'[i] = items[i]
      /\ items'[req[w].item] = Write(w)
      /\ items[req[w].item] \in Item /\ items[req[w].item].version + 1 \in Nat
  BY <1>2, <1>3 DEF IInv, TypeOK, Item
<1>. QED
  BY <1>1, <1>2, <1>3, <1>4, WriteIsLegal, QuantitiesAssumption

\* ... and the write of the row.
LEMMA WritesRowIs ==
  ASSUME IInv, NEW w \in Workers, WritesRow(w)
  PROVE  LET r == req[w] IN
         /\ pc[w] = "write_row" /\ pc' = [pc EXCEPT ![w] = "publish"]
         /\ r.op \in UseCases /\ r.order \in Orders
         /\ r.item \in Items /\ r.qty \in Quantities
         /\ r.op = "reserve" => rows[r.order] = NoRow
         /\ rows' = [rows EXCEPT ![r.order] =
                       [status |-> Target(r.op), item |-> r.item, qty |-> r.qty]]
         /\ \A o \in Orders \ {r.order} : rows'[o] = rows[o]
         /\ UNCHANGED <<items, expired, req, snap, batch, events, failures>>
<1>1. pc[w] = "write_row"
  BY DEF WritesRow, WriteRow
<1>2. /\ req[w].op \in UseCases /\ req[w].order \in Orders
      /\ req[w].item \in Items /\ req[w].qty \in Quantities
  BY <1>1 DEF IInv, RequestsComplete
<1>3. /\ rows' = [rows EXCEPT ![req[w].order] =
                    [status |-> Target(req[w].op), item |-> req[w].item,
                     qty |-> req[w].qty]]
      /\ pc' = [pc EXCEPT ![w] = "publish"]
      /\ req[w].op = "reserve" => rows[req[w].order] = NoRow
      /\ UNCHANGED <<items, expired, req, snap, batch, events, failures>>
  BY DEF WritesRow, WriteRow
<1>4. \A o \in Orders \ {req[w].order} : rows'[o] = rows[o]
  BY <1>3 DEF IInv, TypeOK
<1>. QED
  BY <1>1, <1>2, <1>3, <1>4

\* Debiting the item for a confirmation accounts for at most one reservation
\* more, and takes what that one holds off the shelf.
LEMMA ConfirmDebits ==
  ASSUME SaleInv, NEW w \in Workers, WritesItem(w),
         NEW i \in Items, req[w].op = "confirm", req[w].item = i
  PROVE  QtySum(rows', Sold(i)') + items'[i].quantity <= InitialStock
<1>. DEFINE o == req[w].order
            q == req[w].qty
<1>1. /\ i \in Items /\ o \in Orders /\ q \in Nat
      /\ items[i].quantity \in Nat /\ items[i].quantity >= q
      /\ items'[i].quantity = items[i].quantity - q
      /\ UNCHANGED <<rows, req>>
      /\ pc' = [pc EXCEPT ![w] = "write_row"]
  <2>1. IInv /\ items[i] \in Item
    BY WritesItemIs DEF SaleInv
  <2>. HIDE DEF o, q
  <2>2. items[i].quantity \in Nat
    BY <2>1 DEF Item
  <2>. QED
    BY <2>1, <2>2, WritesItemIs, EntityInNumbers DEF o, q
<1>2. /\ o \in Stored /\ rows[o].item = i /\ rows[o].qty = q
  BY WritesItemIs DEF SaleInv, RequestsMatchRows, Serving
<1>3. Sold(i)' \subseteq Sold(i) \cup {o}
  BY <1>1 DEF Sold, Confirming, RowsOf, SaleInv, IInv, TypeOK
<1>. DEFINE S == Sold(i)
            U == Sold(i) \cup {o}
<1>4. /\ IsFiniteSet(S) /\ IsFiniteSet(U)
      /\ \A x \in U : rows[x].qty \in Nat
  BY <1>1, <1>2, SoldIsStored, FS_AddElement
<1>5. QtySum(rows, U) <= QtySum(rows, S) + q
  <2>1. CASE o \in S
    <3>1. U = S
      BY <2>1
    <3>2. QtySum(rows, S) \in Nat
      BY <1>4, SumIsNat
    <3>. HIDE DEF S, U, q
    <3>. QED
      BY <1>1, <3>1, <3>2
  <2>2. CASE o \notin S
    <3>1. U \ {o} = S /\ o \in U
      BY <2>2
    <3>2. QtySum(rows, U) = q + QtySum(rows, S)
      BY <1>2, <1>4, <3>1, SumOfRest
    <3>3. QtySum(rows, S) \in Nat
      BY <1>4, SumIsNat
    <3>. QED
      BY <1>1, <3>2, <3>3
  <2>. QED
    BY <2>1, <2>2
<1>6. QtySum(rows, Sold(i)') <= QtySum(rows, U)
  BY <1>3, <1>4, SumOfFewer
<1>7. /\ QtySum(rows, S) \in Nat /\ QtySum(rows, U) \in Nat
      /\ QtySum(rows, Sold(i)') \in Nat
  <2>1. IsFiniteSet(Sold(i)')
    BY <1>3, <1>4, FS_Subset
  <2>. QED
    BY <1>3, <1>4, <2>1, SumIsNat
<1>8. QtySum(rows, S) + items[i].quantity <= InitialStock
  BY <1>1 DEF SaleInv, SoldIsGone
<1>9. QtySum(rows', Sold(i)') = QtySum(rows, Sold(i)')
  BY <1>1
<1>. HIDE DEF S, U, o, q
<1>10. QtySum(rows, Sold(i)') + items'[i].quantity <= InitialStock
  BY <1>1, <1>5, <1>6, <1>7, <1>8, StockAssumption
<1>. QED
  BY <1>9, <1>10

\* The other use cases leave the quantity alone.
LEMMA OthersDebitNothing ==
  ASSUME SaleInv, NEW w \in Workers, WritesItem(w), NEW i \in Items,
         req[w].op # "confirm" \/ req[w].item # i
  PROVE  QtySum(rows', Sold(i)') + items'[i].quantity <= InitialStock
<1>1. items'[i].quantity = items[i].quantity
  <2>1. CASE req[w].item # i
    BY <2>1, WritesItemIs DEF SaleInv
  <2>2. CASE req[w].item = i /\ req[w].op # "confirm"
    BY <2>2, WritesItemIs, EntityInNumbers DEF SaleInv
  <2>. QED
    BY <2>1, <2>2
<1>2. UNCHANGED <<rows, req>> /\ pc' = [pc EXCEPT ![w] = "write_row"]
  BY WritesItemIs DEF SaleInv
<1>3. Sold(i)' \subseteq Sold(i)
  BY <1>2 DEF Sold, Confirming, RowsOf, SaleInv, IInv, TypeOK
<1>. QED
  BY <1>1, <1>2, <1>3, NoMoreSold

\* Either way, what was sold is gone from the shelf.
LEMMA WritesItemKeepsSale ==
  ASSUME SaleInv, IInv', NEW w \in Workers, WritesItem(w)
  PROVE  SaleInv'
<1>1. UNCHANGED <<rows, req>> /\ pc' = [pc EXCEPT ![w] = "write_row"]
  BY WritesItemIs DEF SaleInv
<1>2. pc[w] = "update_item"
  BY WritesItemIs DEF SaleInv
<1>3. StoredIsFinite'
  BY <1>1 DEF SaleInv, StoredIsFinite, Stored
<1>4. RequestsMatchRows'
  BY <1>1, <1>2 DEF SaleInv, RequestsMatchRows, Stored, Serving, IInv, TypeOK
<1>5. SoldIsGone'
  <2>1. ASSUME NEW i \in Items
        PROVE  QtySum(rows', Sold(i)') + items'[i].quantity <= InitialStock
    <3>1. CASE req[w].op = "confirm" /\ req[w].item = i
      BY <3>1, ConfirmDebits
    <3>2. CASE req[w].op # "confirm" \/ req[w].item # i
      BY <3>2, OthersDebitNothing
    <3>. QED
      BY <3>1, <3>2
  <2>. QED
    BY <2>1 DEF SoldIsGone
<1>. QED
  BY <1>3, <1>4, <1>5 DEF SaleInv

\* Writing the row sells nothing more: a confirmed row was counted before,
\* and its units are those its worker confirmed.
LEMMA WritesRowKeepsSale ==
  ASSUME SaleInv, IInv', NEW w \in Workers, WritesRow(w)
  PROVE  SaleInv'
<1>. DEFINE r == req[w]
<1>0. IInv
  BY DEF SaleInv
<1>1. /\ pc[w] = "write_row" /\ pc' = [pc EXCEPT ![w] = "publish"]
      /\ r.op \in UseCases /\ r.order \in Orders
      /\ r.item \in Items /\ r.qty \in Quantities
      /\ r.op = "reserve" => rows[r.order] = NoRow
      /\ rows' = [rows EXCEPT ![r.order] =
                    [status |-> Target(r.op), item |-> r.item, qty |-> r.qty]]
      /\ \A o \in Orders \ {r.order} : rows'[o] = rows[o]
      /\ UNCHANGED <<items, req>>
  BY <1>0, WritesRowIs
<1>2. /\ rows'[r.order].status = Target(r.op)
      /\ rows'[r.order].item = r.item
      /\ rows'[r.order].qty = r.qty
      /\ rows'[r.order] # NoRow
  BY <1>0, <1>1 DEF IInv, TypeOK, NoRow, Target, UseCases
<1>3. Stored' = Stored \cup {r.order}
  BY <1>1, <1>2 DEF Stored
<1>4. StoredIsFinite'
  BY <1>3, FS_AddElement DEF SaleInv, StoredIsFinite
<1>5. \A o \in Stored : rows'[o].item = rows[o].item /\ rows'[o].qty = rows[o].qty
  <2>1. r.op # "reserve" => rows[r.order].item = r.item /\ rows[r.order].qty = r.qty
    BY <1>1 DEF SaleInv, RequestsMatchRows, Serving
  <2>. QED
    BY <1>1, <1>2, <2>1 DEF Stored
<1>6. RequestsMatchRows'
  <2>. SUFFICES ASSUME NEW v \in Workers, Serving(v)', req'[v].op # "reserve"
                PROVE  /\ req'[v].order \in Stored'
                       /\ rows'[req'[v].order].item = req'[v].item
                       /\ rows'[req'[v].order].qty = req'[v].qty
    BY DEF RequestsMatchRows
  <2>1. Serving(v) /\ req'[v] = req[v]
    BY <1>0, <1>1 DEF Serving, IInv, TypeOK
  <2>2. /\ req[v].order \in Stored
        /\ rows[req[v].order].item = req[v].item
        /\ rows[req[v].order].qty = req[v].qty
    BY <2>1 DEF SaleInv, RequestsMatchRows
  <2>. QED
    BY <1>3, <1>5, <2>1, <2>2
<1>7. ASSUME NEW i \in Items
      PROVE  QtySum(rows', Sold(i)') + items'[i].quantity <= InitialStock
  <2>1. ASSUME NEW o \in Sold(i)' PROVE o \in Sold(i)
    <3>1. CASE Confirming(o, i)'
      <4>1. Confirming(o, i)
        BY <1>0, <1>1, <3>1 DEF Confirming, IInv, TypeOK
      <4>. QED
        BY <2>1, <4>1 DEF Sold
    <3>2. CASE o \in RowsOf(i, "confirmed")' /\ o # r.order
      BY <1>1, <3>2 DEF Sold, RowsOf
    <3>3. CASE o \in RowsOf(i, "confirmed")' /\ o = r.order
      <4>1. r.op = "confirm" /\ r.item = i
        BY <1>1, <1>2, <3>3 DEF RowsOf, Target, UseCases
      <4>2. Confirming(o, i)
        BY <1>1, <3>3, <4>1 DEF Confirming
      <4>. QED
        BY <1>1, <3>3, <4>2 DEF Sold
    <3>. QED
      BY <2>1, <3>1, <3>2, <3>3 DEF Sold
  <2>2. \A o \in Sold(i)' : rows'[o].qty = rows[o].qty
    BY <1>5, <2>1, SoldIsStored
  <2>. QED
    BY <1>1, <2>1, <2>2, NoMoreSold
<1>. QED
  BY <1>4, <1>6, <1>7 DEF SaleInv, SoldIsGone

\* The freshly migrated database.
LEMMA InitSale == Init => SaleInv
<1>. SUFFICES ASSUME Init PROVE SaleInv
  OBVIOUS
<1>1. IInv
  BY InitIInv
<1>2. Stored = {}
  BY DEF Init, Stored
<1>3. StoredIsFinite
  BY <1>2, FS_EmptySet DEF StoredIsFinite
<1>4. RequestsMatchRows
  BY DEF Init, RequestsMatchRows, Serving
<1>5. ASSUME NEW i \in Items
      PROVE  QtySum(rows, Sold(i)) + items[i].quantity <= InitialStock
  <2>1. Sold(i) = {}
    BY DEF Init, Sold, RowsOf, Confirming, NoRow
  <2>2. items[i].quantity = InitialStock
    BY DEF Init
  <2>. QED
    BY <2>1, <2>2, SumOfNone, StockAssumption
<1>. QED
  BY <1>1, <1>3, <1>4, <1>5 DEF SaleInv, SoldIsGone

\* Every step keeps it.
LEMMA NextSale == SaleInv /\ [Next]_vars => SaleInv'
<1>. SUFFICES ASSUME SaleInv, [Next]_vars PROVE SaleInv'
  OBVIOUS
<1>1. IInv'
  BY NextIInv DEF SaleInv
<1>. QED
  BY <1>1, StepKinds, QuietKeepsSale, WritesItemKeepsSale, WritesRowKeepsSale
     DEF SaleInv

\* The units of confirmed rows are among the units sold.
LEMMA SaleMeansNoOversell == SaleInv => NoOversell
<1>. SUFFICES ASSUME SaleInv, NEW i \in Items
              PROVE  Total(RowsOf(i, "confirmed")) + items[i].quantity <= InitialStock
  BY DEF NoOversell
<1>1. IsFiniteSet(Sold(i)) /\ \A o \in Sold(i) : rows[o].qty \in Nat
  BY SoldIsStored
<1>2. RowsOf(i, "confirmed") \subseteq Sold(i)
  BY DEF Sold, RowsOf
<1>3. Total(RowsOf(i, "confirmed")) = QtySum(rows, RowsOf(i, "confirmed"))
  BY DEF Total, QtySum
<1>4. QtySum(rows, RowsOf(i, "confirmed")) <= QtySum(rows, Sold(i))
  BY <1>1, <1>2, SumOfFewer
<1>5. /\ QtySum(rows, Sold(i)) \in Nat
      /\ QtySum(rows, RowsOf(i, "confirmed")) \in Nat
  <2>1. IsFiniteSet(RowsOf(i, "confirmed"))
    BY <1>1, <1>2, FS_Subset
  <2>. QED
    BY <1>1, <1>2, <2>1, SumIsNat
<1>6. QtySum(rows, Sold(i)) + items[i].quantity <= InitialStock
  BY DEF SaleInv, SoldIsGone
<1>7. items[i].quantity \in Nat
  BY DEF SaleInv, IInv, TypeOK, Item
<1>. QED
  BY <1>3, <1>4, <1>5, <1>6, <1>7, StockAssumption

\* No unit is sold twice: whatever races, errors and crashes happen, what was
\* confirmed and what is left on the shelf never exceed what there was.
THEOREM NothingIsOversold == Spec => []NoOversell
<1>1. Spec => []SaleInv
  BY InitSale, NextSale, PTL DEF Spec
<1>. QED
  BY <1>1, SaleMeansNoOversell, PTL

-----------------------------------------------------------------------------
(* A worker alone with its reservation finds it as it left it.             *)

\* What a worker serves is in its hand.
LEMMA ServedIsInHand ==
  ASSUME IInv, NEW w \in Workers, Serving(w)
  PROVE  req[w].order \in Orders /\ req[w].order \in InHand(w)
<1>1. req[w].order \in Orders
  BY DEF IInv, RequestsComplete, Serving
<1>. QED
  BY <1>1, NoneAssumption DEF InHand

\* Nobody else serves it or has it in a sweep.
LEMMA OthersKeepOff ==
  ASSUME IInv, Apart, NEW w \in Workers, Serving(w),
         NEW v \in Workers, v # w
  PROVE  /\ Serving(v) => req[v].order # req[w].order
         /\ req[v].op = "sweep" => req[w].order \notin batch[v]
<1>1. req[w].order \in InHand(w)
  BY ServedIsInHand
<1>2. InHand(v) \cap InHand(w) = {}
  BY DEF Apart
<1>3. Serving(v) => req[v].order \in InHand(v)
  BY ServedIsInHand
<1>4. req[v].op = "sweep" => batch[v] \subseteq InHand(v)
  BY DEF InHand
<1>. QED
  BY <1>1, <1>2, <1>3, <1>4

\* A worker that returns has clean hands.
LEMMA FinishIsCareful ==
  ASSUME IInv, HandsAreClean, NEW w \in Workers, Finish(w), UNCHANGED rows
  PROVE  HandsAreClean'
<1>1. ASSUME NEW v \in Workers, v # w PROVE Careful(v)'
  BY <1>1 DEF HandsAreClean, Careful, Serving, Finish, IInv, TypeOK
<1>2. Careful(w)'
  <2>1. /\ pc'[w] \in {"idle", "next"} /\ batch'[w] = batch[w]
        /\ req'[w].op \in {req[w].op, "none"}
    BY DEF Finish, IInv, TypeOK, NoReq, Request
  <2>. QED
    BY <2>1 DEF HandsAreClean, Careful, Serving
<1>. QED
  BY <1>1, <1>2 DEF HandsAreClean, Careful

\* A request that asks for a new row where there is none, or for a change of
\* a pending one.
LEMMA RequestIsCareful ==
  ASSUME IInv, HandsAreClean, NEW w \in Workers, NEW r \in Request,
         r.op \in {"reserve", "confirm", "release"},
         rows[r.order].status =
           (IF r.op = "reserve" THEN "none" ELSE "pending"),
         Goto(w, "idle", "find_item"), req' = [req EXCEPT ![w] = r],
         UNCHANGED <<rows, batch>>
  PROVE  HandsAreClean'
<1>1. ASSUME NEW v \in Workers, v # w PROVE Careful(v)'
  BY <1>1 DEF HandsAreClean, Careful, Serving, Goto, IInv, TypeOK
<1>2. Careful(w)'
  BY DEF Careful, Serving, Goto, IInv, TypeOK
<1>. QED
  BY <1>1, <1>2 DEF HandsAreClean

\* Starting a use case looks at the row, and so does the sweep's query.
LEMMA StartIsCareful ==
  ASSUME IInv, HandsAreClean, NEW w \in Workers, Start(w)
  PROVE  HandsAreClean'
<1>2. ASSUME NEW o \in Orders, NEW i \in Items, NEW q \in Quantities,
             ReserveStart(w, o, i, q)
      PROVE  HandsAreClean'
  <2>. DEFINE r == [op |-> "reserve", order |-> o, item |-> i, qty |-> q]
  <2>1. /\ r \in Request /\ r.op = "reserve"
        /\ rows[r.order].status = "none"
    BY <1>2 DEF ReserveStart, NoRow, Request, UseCases
  <2>2. /\ Goto(w, "idle", "find_item") /\ req' = [req EXCEPT ![w] = r]
        /\ UNCHANGED <<rows, batch>>
    BY <1>2 DEF ReserveStart
  <2>. HIDE DEF r
  <2>. QED
    BY <2>1, <2>2, RequestIsCareful
<1>3. ASSUME NEW o \in Orders, NEW op \in {"confirm", "release"}, IsPending(o),
             Goto(w, "idle", "find_item"), req' = [req EXCEPT ![w] = Serve(op, o)],
             UNCHANGED <<rows, batch>>
      PROVE  HandsAreClean'
  <2>. DEFINE r == Serve(op, o)
  <2>1. r.op = op /\ r.order = o /\ r \in Request
    BY <1>3, PendingIsRow, ServeTyped DEF Serve, UseCases, IInv
  <2>2. req' = [req EXCEPT ![w] = r]
    BY <1>3
  <2>. HIDE DEF r
  <2>. QED
    BY <1>3, <2>1, <2>2, RequestIsCareful DEF IsPending
<1>4. ASSUME NEW op \in Batches, BatchStart(w, op)
      PROVE  HandsAreClean'
  <2>1. ASSUME NEW v \in Workers, v # w PROVE Careful(v)'
    BY <1>4, <2>1 DEF BatchStart, HandsAreClean, Careful, Serving, Goto, IInv, TypeOK
  <2>2. /\ pc'[w] = "next" /\ batch'[w] = FindExpired /\ UNCHANGED rows
    BY <1>4 DEF BatchStart, Goto, IInv, TypeOK
  <2>3. Careful(w)'
    BY <2>2 DEF Careful, Serving, FindExpired, IsPending
  <2>. QED
    BY <2>1, <2>3 DEF HandsAreClean, Careful
<1>5. ASSUME NEW o \in Orders, ConfirmStart(w, o) PROVE HandsAreClean'
  BY <1>3, <1>5 DEF ConfirmStart, CanBeConfirmed
<1>6. ASSUME NEW o \in Orders, ReleaseStart(w, o) PROVE HandsAreClean'
  BY <1>3, <1>6 DEF ReleaseStart, CanBeReleased
<1>. QED
  BY <1>2, <1>4, <1>5, <1>6 DEF Start, Batches

\* The steps between the start and the writes.
LEMMA StepIsCareful ==
  ASSUME IInv, HandsAreClean, NEW w \in Workers,
         \/ TakeNext(w) \/ FindRow(w) \/ FindItem(w) \/ Publish(w)
         \/ (UpdateItem(w) /\ ~VersionMatches(w))
         \/ (WriteRow(w) /\ ~WritesRow(w))
  PROVE  HandsAreClean'
<1>1. CASE TakeNext(w)
  <2>1. PICK o \in batch[w] :
          /\ batch' = [batch EXCEPT ![w] = @ \ {o}]
          /\ req' = [req EXCEPT ![w] = Serve(req[w].op, o)]
    BY <1>1 DEF TakeNext
  <2>2. /\ UNCHANGED rows /\ pc[w] = "next"
        /\ pc' = [pc EXCEPT ![w] = IF req[w].op = "sweep" THEN "find_item"
                                                        ELSE "find_row"]
    BY <1>1 DEF TakeNext, Goto
  <2>3. ASSUME NEW v \in Workers, v # w PROVE Careful(v)'
    BY <2>1, <2>2, <2>3 DEF HandsAreClean, Careful, Serving, IInv, TypeOK
  <2>4. /\ req'[w].op = req[w].op /\ req'[w].order = o
        /\ batch'[w] = batch[w] \ {o}
        /\ pc'[w] = IF req[w].op = "sweep" THEN "find_item" ELSE "find_row"
    BY <2>1, <2>2 DEF Serve, IInv, TypeOK
  <2>5. Careful(w)'
    BY <2>1, <2>2, <2>4 DEF HandsAreClean, Careful, Serving, IInv, RequestsComplete, Batches
  <2>. QED
    BY <2>3, <2>5 DEF HandsAreClean, Careful
<1>2. ASSUME NEW to \in {"find_item", "update_item"},
             pc' = [pc EXCEPT ![w] = to],
             to = "find_item" => /\ pc[w] = "find_row"
                                 /\ IsPending(req[w].order)
                                 /\ req[w].op # "reserve",
             to = "update_item" => pc[w] = "find_item",
             UNCHANGED <<rows, req, batch>>
      PROVE  HandsAreClean'
  BY <1>2 DEF HandsAreClean, Careful, Serving, IsPending, IInv, TypeOK
<1>3. CASE FindRow(w) /\ ~Finish(w)
  <2>1. req[w].op = "expireJob"
    BY <1>3 DEF FindRow, HandsAreClean, Careful
  <2>. QED
    BY <1>2, <1>3, <2>1 DEF FindRow
<1>4. CASE FindItem(w) /\ ~Finish(w)
  BY <1>2, <1>4 DEF FindItem
<1>5. CASE Finish(w) /\ UNCHANGED rows
  BY <1>5, FinishIsCareful
<1>. QED
  BY <1>1, <1>3, <1>4, <1>5
     DEF FindRow, FindItem, Publish, UpdateItem, WriteRow, WritesRow

\* The two writes.
LEMMA WritesItemIsCareful ==
  ASSUME IInv, HandsAreClean, NEW w \in Workers, WritesItem(w)
  PROVE  HandsAreClean'
<1>1. /\ pc[w] = "update_item" /\ pc' = [pc EXCEPT ![w] = "write_row"]
      /\ UNCHANGED <<rows, req, batch>>
  BY WritesItemIs
<1>. QED
  BY <1>1 DEF HandsAreClean, Careful, Serving, IInv, TypeOK

\* Writing a row disturbs nobody: no other worker has it in hand.
LEMMA WritesRowIsCareful ==
  ASSUME IInv, Apart, HandsAreClean, NEW w \in Workers, WritesRow(w)
  PROVE  HandsAreClean'
<1>. DEFINE o == req[w].order
<1>1. /\ pc[w] = "write_row" /\ pc' = [pc EXCEPT ![w] = "publish"]
      /\ o \in Orders
      /\ rows' = [rows EXCEPT ![o] =
                    [status |-> Target(req[w].op), item |-> req[w].item,
                     qty |-> req[w].qty]]
      /\ UNCHANGED <<req, batch>>
  BY WritesRowIs
<1>2. rows'[o].status = Target(req[w].op) /\ \A x \in Orders : x # o => rows'[x] = rows[x]
  BY <1>1 DEF IInv, TypeOK
<1>3. ASSUME NEW v \in Workers, v # w PROVE Careful(v)'
  <2>1. /\ Serving(v) => req[v].order # o /\ req[v].order \in Orders
        /\ req[v].op = "sweep" => o \notin batch[v]
    BY <1>1, <1>3, OthersKeepOff, ServedIsInHand DEF Serving, HandsAreClean
  <2>2. pc'[v] = pc[v] /\ req'[v] = req[v] /\ batch'[v] = batch[v] /\ batch[v] \subseteq Orders
    BY <1>1, <1>3 DEF IInv, TypeOK
  <2>3. Careful(v)
    BY DEF HandsAreClean
  <2>. HIDE DEF o
  <2>. QED
    BY <1>2, <2>1, <2>2, <2>3 DEF Careful, Serving
<1>4. Careful(w)'
  <2>1. pc'[w] = "publish" /\ req'[w] = req[w] /\ batch'[w] = batch[w] /\ batch[w] \subseteq Orders
    BY <1>1 DEF IInv, TypeOK
  <2>2. Careful(w) /\ Serving(w)
    BY <1>1 DEF HandsAreClean, Serving
  <2>. QED
    BY <1>2, <2>1, <2>2 DEF Careful, Serving
<1>. QED
  BY <1>3, <1>4 DEF HandsAreClean

\* A step without failure is one of the careful ones.
LEMMA NextIsCareful ==
  ASSUME IInv, Apart, HandsAreClean, failures = 0, [Next]_vars, failures' = 0
  PROVE  HandsAreClean'
<1>1. CASE UNCHANGED vars
  BY <1>1 DEF vars, HandsAreClean, Careful, Serving
<1>2. ASSUME NEW o \in Orders, Expire(o) PROVE HandsAreClean'
  BY <1>2 DEF Expire, HandsAreClean, Careful, Serving
<1>3. ASSUME NEW w \in Workers, Start(w) PROVE HandsAreClean'
  BY <1>3, StartIsCareful
<1>4. ASSUME NEW w \in Workers, Step(w) PROVE HandsAreClean'
  <2>1. CASE WritesItem(w) \/ WritesRow(w)
    BY <2>1, WritesItemIsCareful, WritesRowIsCareful
  <2>2. CASE ~WritesItem(w) /\ ~WritesRow(w)
    BY <1>4, <2>2, StepIsCareful DEF Step, WritesItem
  <2>. QED
    BY <2>1, <2>2
<1>5. ASSUME NEW w \in Workers, RepoError(w) \/ PublishError(w) PROVE FALSE
  BY <1>5 DEF RepoError, PublishError
<1>6. CASE Crash
  BY <1>6 DEF Crash
<1>. QED
  BY <1>1, <1>2, <1>3, <1>4, <1>5, <1>6 DEF Next

\* A row that is still to be written has announced nothing, and what is
\* announced is what was written.
LEMMA NextKeepsEventsTrue ==
  ASSUME IInv, HandsAreClean, EventsAreTrue, failures = 0, [Next]_vars,
         failures' = 0
  PROVE  EventsAreTrue'
<1>1. CASE UNCHANGED <<rows, events>>
  BY <1>1 DEF EventsAreTrue
<1>2. ASSUME NEW w \in Workers, WritesRow(w) PROVE EventsAreTrue'
  <2>. DEFINE o == req[w].order
  <2>1. /\ pc[w] = "write_row" /\ o \in Orders /\ UNCHANGED events
        /\ \A x \in Orders \ {o} : rows'[x] = rows[x]
    BY <1>2, WritesRowIs
  <2>2. rows[o].status \in {"none", "pending"}
    BY <2>1 DEF HandsAreClean, Careful
  <2>3. \A e \in events : e.order \in Orders
    BY DEF IInv, TypeOK
  <2>. HIDE DEF o
  <2>. QED
    BY <2>1, <2>2, <2>3 DEF EventsAreTrue
<1>3. ASSUME NEW w \in Workers, Publish(w) PROVE EventsAreTrue'
  <2>1. /\ UNCHANGED rows /\ events' = events \cup ToPublish(w)
        /\ pc[w] = "publish"
    BY <1>3 DEF Publish
  <2>2. rows[req[w].order].status = Target(req[w].op)
    BY <2>1 DEF HandsAreClean, Careful
  <2>3. ASSUME NEW e \in ToPublish(w)
        PROVE  /\ e.type = "StockConfirmed" => req[w].op = "confirm"
               /\ e.type = "StockReleased" =>
                    req[w].op \notin {"reserve", "confirm", "expireJob"}
               /\ e.order = req[w].order
    BY <2>3 DEF ToPublish
  <2>4. ASSUME NEW e \in ToPublish(w)
        PROVE  /\ e.type = "StockConfirmed" => rows[e.order].status = "confirmed"
               /\ e.type = "StockReleased" => rows[e.order].status = "released"
    BY <2>2, <2>3 DEF Target
  <2>. QED
    BY <2>1, <2>4 DEF EventsAreTrue
<1>4. ASSUME NEW w \in Workers, Start(w) PROVE UNCHANGED <<rows, events>>
  BY <1>4 DEF Start, ReserveStart, ConfirmStart, ReleaseStart, BatchStart
<1>5. ASSUME NEW w \in Workers, Step(w)
      PROVE  UNCHANGED <<rows, events>> \/ WritesRow(w) \/ Publish(w)
  BY <1>5 DEF Step, TakeNext, FindRow, FindItem, UpdateItem, WriteRow, WritesRow
<1>6. ASSUME NEW w \in Workers, RepoError(w) \/ PublishError(w) PROVE FALSE
  BY <1>6 DEF RepoError, PublishError
<1>7. CASE Crash
  BY <1>7 DEF Crash
<1>8. ASSUME NEW o \in Orders, Expire(o) PROVE UNCHANGED <<rows, events>>
  BY <1>8 DEF Expire
<1>. QED
  BY <1>1, <1>2, <1>3, <1>4, <1>5, <1>6, <1>7, <1>8 DEF Next, vars

\* A step after which there has still been no overlap comes from a state in
\* which everyone was alone, and failed nobody.
LEMMA StepAlone ==
  ASSUME IInv, IInv', AloneInv, [AuditNext]_auditVars, ~overlapped'
  PROVE  /\ ~overlapped /\ [Next]_vars
         /\ Apart /\ failures = 0 /\ HandsAreClean /\ EventsAreTrue
         /\ Apart' /\ failures' = 0
<1>1. ~overlapped /\ [Next]_vars
  <2>1. CASE AuditNext
    <3>1. ~overlapped
      BY <2>1 DEF AuditNext
    <3>. QED
      BY <2>1, <3>1 DEF AuditNext
  <2>2. CASE UNCHANGED auditVars
    BY <2>2 DEF auditVars
  <2>. QED
    BY <2>1, <2>2
<1>2. Apart /\ failures = 0 /\ HandsAreClean /\ EventsAreTrue
  BY <1>1 DEF AloneInv
<1>3. CASE UNCHANGED auditVars
  BY <1>2, <1>1, <1>3 DEF auditVars, vars, Apart, InHand
<1>4. CASE AuditNext
  <2>1. ~Overlap' /\ ~(failures' > 0)
    BY <1>4 DEF AuditNext
  <2>2. failures' = 0
    BY <2>1, FailuresAssumption DEF IInv, TypeOK
  <2>3. Apart'
    BY <2>1 DEF Overlap, Apart
  <2>. QED
    BY <1>1, <1>2, <2>2, <2>3
<1>. QED
  BY <1>3, <1>4

\* ... and stays that way until somebody meets or something fails.
LEMMA NextAlone ==
  ASSUME IInv, IInv', AloneInv, [AuditNext]_auditVars
  PROVE  AloneInv'
<1>. SUFFICES ASSUME ~overlapped'
              PROVE  (Apart /\ failures = 0 /\ HandsAreClean /\ EventsAreTrue)'
  BY DEF AloneInv
<1>. QED
  BY StepAlone, NextIsCareful, NextKeepsEventsTrue

\* Nobody has anything in hand when the service starts.
LEMMA InitAlone == AuditInit => AloneInv
<1>. SUFFICES ASSUME AuditInit PROVE AloneInv
  OBVIOUS
<1>1. Apart
  BY DEF AuditInit, Init, Apart, InHand, NoReq
<1>2. HandsAreClean /\ EventsAreTrue /\ failures = 0
  BY DEF AuditInit, Init, HandsAreClean, Careful, Serving, EventsAreTrue, NoReq
<1>. QED
  BY <1>1, <1>2 DEF AloneInv

\* The service's own history, with the auditor's note beside it.
LEMMA AuditIsNext ==
  /\ AuditInit => Init
  /\ [AuditNext]_auditVars => [Next]_vars
BY DEF AuditInit, AuditNext, auditVars, vars

\* As long as no two workers met on one reservation and nothing failed, each
\* announcement is what its row says, whatever the interleaving.
THEOREM EventsAreBelieved == AuditSpec => []EventsTellTheTruth
<1>1. AuditInit => IInv /\ AloneInv
  BY InitIInv, InitAlone, AuditIsNext
<1>2. (IInv /\ AloneInv) /\ [AuditNext]_auditVars => (IInv /\ AloneInv)'
  BY NextIInv, NextAlone, AuditIsNext
<1>3. IInv /\ AloneInv => EventsTellTheTruth
  BY DEF AloneInv, EventsAreTrue, EventsTellTheTruth
<1>. QED
  BY <1>1, <1>2, <1>3, PTL DEF AuditSpec

-----------------------------------------------------------------------------
(* The ledger.                                                             *)

\* A reservation between its two writes counts as written; any other is what
\* its row says.
LedgerIsRead ==
  /\ DOMAIN ledgerRows = Orders
  /\ ledgerRows = [o \in Orders |-> ledgerRows[o]]
  /\ \A o \in Orders :
       /\ Writer(o) = {} => ledgerRows[o] = rows[o]
       /\ \A w \in Writer(o) :
            ledgerRows[o] = [status |-> Target(req[w].op), item |-> req[w].item,
                             qty |-> req[w].qty]

\* Alone, a reservation has at most one worker between its writes.
LEMMA LedgerReads == IInv /\ Apart => LedgerIsRead
<1>. SUFFICES ASSUME IInv, Apart PROVE LedgerIsRead
  OBVIOUS
<1>1. ASSUME NEW o \in Orders, NEW v \in Writer(o), NEW w \in Writer(o)
      PROVE  v = w
  BY OthersKeepOff DEF Writer, Serving
<1>2. ASSUME NEW o \in Orders, NEW w \in Writer(o)
      PROVE  ledgerRows[o] = [status |-> Target(req[w].op), item |-> req[w].item,
                              qty |-> req[w].qty]
  <2>1. Writer(o) # {} /\ (CHOOSE v \in Writer(o) : TRUE) = w
    BY <1>1
  <2>. QED
    BY <2>1 DEF ledgerRows
<1>. QED
  BY <1>2 DEF LedgerIsRead, ledgerRows

\* The same of the next state.
LEMMA LedgerReadsNext == IInv' /\ Apart' => LedgerIsRead'
<1>1. (IInv /\ Apart => LedgerIsRead)'
  BY LedgerReads, PTL
<1>. QED
  BY <1>1

\* Nobody leaves the place between the two writes but by writing the row.
LEMMA WritersStay ==
  ASSUME IInv, HandsAreClean, failures = 0, failures' = 0, [Next]_vars,
         \A w \in Workers : ~WritesRow(w), NEW v \in Workers,
         pc[v] = "write_row"
  PROVE  pc'[v] = "write_row" /\ req'[v] = req[v]
<1>1. ASSUME NEW w \in Workers, Start(w) \/ TakeNext(w)
      PROVE  pc'[v] = "write_row" /\ req'[v] = req[v]
  BY <1>1 DEF Start, ReserveStart, ConfirmStart, ReleaseStart, BatchStart,
              TakeNext, Goto, IInv, TypeOK
<1>2. ASSUME NEW w \in Workers, Finish(w), pc[w] # "write_row"
      PROVE  pc'[v] = "write_row" /\ req'[v] = req[v]
  BY <1>2 DEF Finish, IInv, TypeOK
<1>3. ASSUME NEW w \in Workers, FindRow(w) \/ FindItem(w) \/ UpdateItem(w) \/ Publish(w)
      PROVE  pc'[v] = "write_row" /\ req'[v] = req[v]
  <2>1. pc[w] # "write_row"
    BY <1>3 DEF FindRow, FindItem, UpdateItem, Publish
  <2>2. CASE Finish(w)
    BY <1>2, <2>1, <2>2
  <2>3. CASE ~Finish(w)
    BY <1>3, <2>1, <2>3 DEF FindRow, FindItem, UpdateItem, Publish, Goto, IInv, TypeOK
  <2>. QED
    BY <2>2, <2>3
<1>4. ASSUME NEW w \in Workers, WriteRow(w) PROVE FALSE
  <2>1. pc[w] = "write_row" /\ req[w].op = "reserve" /\ rows[req[w].order] # NoRow
    BY <1>4 DEF WriteRow, WritesRow
  <2>2. rows[req[w].order].status = "none" /\ rows[req[w].order] \in Row
    BY <2>1 DEF HandsAreClean, Careful, IInv, TypeOK, RequestsComplete
  <2>. QED
    BY <2>2 DEF Row, Status
<1>5. ASSUME NEW w \in Workers, RepoError(w) \/ PublishError(w) PROVE FALSE
  BY <1>5 DEF RepoError, PublishError
<1>6. CASE Crash
  BY <1>6 DEF Crash
<1>7. ASSUME NEW o \in Orders, Expire(o)
      PROVE  pc'[v] = "write_row" /\ req'[v] = req[v]
  BY <1>7 DEF Expire
<1>8. CASE UNCHANGED vars
  BY <1>8 DEF vars
<1>. QED
  BY <1>1, <1>3, <1>4, <1>5, <1>6, <1>7, <1>8 DEF Next, Step

\* A step that writes no table does not show in the ledger.
LEMMA QuietIsStutter ==
  ASSUME IInv, IInv', Apart, Apart', HandsAreClean, failures = 0, failures' = 0,
         [Next]_vars, \A w \in Workers : ~WritesRow(w), Quiet
  PROVE  UNCHANGED <<items, ledgerRows>>
<1>1. LedgerIsRead /\ LedgerIsRead'
  BY LedgerReads, LedgerReadsNext
<1>2. ASSUME NEW v \in Workers
      PROVE  /\ pc'[v] = "write_row" <=> pc[v] = "write_row"
             /\ pc[v] = "write_row" => req'[v] = req[v]
  BY WritersStay DEF Quiet
<1>3. ASSUME NEW o \in Orders PROVE Writer(o)' = Writer(o)
  BY <1>2 DEF Writer
<1>4. ASSUME NEW o \in Orders PROVE ledgerRows'[o] = ledgerRows[o]
  <2>1. CASE Writer(o) = {}
    BY <1>1, <1>3, <2>1 DEF LedgerIsRead, Quiet
  <2>2. CASE Writer(o) # {}
    <3>1. PICK w \in Writer(o) : TRUE
      BY <2>2
    <3>2. w \in Workers /\ pc[w] = "write_row" /\ w \in Writer(o)'
      BY <1>3, <3>1 DEF Writer
    <3>3. req'[w] = req[w]
      BY <1>2, <3>2
    <3>. QED
      BY <1>1, <3>1, <3>2, <3>3 DEF LedgerIsRead
  <2>. QED
    BY <2>1, <2>2
<1>5. ledgerRows' = ledgerRows
  BY <1>1, <1>4 DEF LedgerIsRead
<1>. QED
  BY <1>5 DEF Quiet

\* Neither does the second write of a use case.
LEMMA WritesRowIsStutter ==
  ASSUME IInv, IInv', Apart, Apart', NEW w \in Workers, WritesRow(w)
  PROVE  UNCHANGED <<items, ledgerRows>>
<1>0. PICK o \in Orders : o = req[w].order
  BY WritesRowIs
<1>. DEFINE n == [status |-> Target(req[w].op), item |-> req[w].item,
                  qty |-> req[w].qty]
<1>1. LedgerIsRead /\ LedgerIsRead'
  BY LedgerReads, LedgerReadsNext
<1>2. /\ pc[w] = "write_row" /\ pc' = [pc EXCEPT ![w] = "publish"]
      /\ o \in Orders /\ rows' = [rows EXCEPT ![o] = n]
      /\ UNCHANGED <<items, req>>
  BY <1>0, WritesRowIs
<1>3. rows'[o] = n /\ \A x \in Orders : x # o => rows'[x] = rows[x]
  BY <1>2 DEF IInv, TypeOK
<1>4. w \in Writer(o) /\ Writer(o)' = {}
  <2>1. w \in Writer(o)
    BY <1>0, <1>2 DEF Writer
  <2>2. ASSUME NEW v \in Workers, pc'[v] = "write_row" PROVE req'[v].order # o
    <3>1. v # w /\ pc[v] = "write_row"
      BY <1>2, <2>2 DEF IInv, TypeOK
    <3>. QED
      BY <1>0, <1>2, <3>1, OthersKeepOff DEF Serving
  <2>. QED
    BY <2>1, <2>2 DEF Writer
<1>5. ASSUME NEW x \in Orders, x # o PROVE Writer(x)' = Writer(x)
  BY <1>0, <1>2, <1>5 DEF Writer, IInv, TypeOK
<1>6. ASSUME NEW x \in Orders PROVE ledgerRows'[x] = ledgerRows[x]
  <2>1. CASE x = o
    <3>1. ledgerRows[o] = n
      BY <1>1, <1>2, <1>4 DEF LedgerIsRead
    <3>2. ledgerRows'[o] = rows'[o]
      BY <1>1, <1>2, <1>4 DEF LedgerIsRead
    <3>. QED
      BY <1>3, <2>1, <3>1, <3>2
  <2>2. CASE x # o /\ Writer(x) = {}
    <3>1. ledgerRows[x] = rows[x]
      BY <1>1, <2>2 DEF LedgerIsRead
    <3>2. ledgerRows'[x] = rows'[x]
      BY <1>1, <1>5, <2>2 DEF LedgerIsRead
    <3>. QED
      BY <1>3, <2>2, <3>1, <3>2
  <2>3. CASE x # o /\ Writer(x) # {}
    <3>1. PICK v \in Writer(x) : TRUE
      BY <2>3
    <3>2. v \in Writer(x)' /\ req' = req
      BY <1>2, <1>5, <2>3, <3>1
    <3>. QED
      BY <1>1, <3>1, <3>2 DEF LedgerIsRead
  <2>. QED
    BY <2>1, <2>2, <2>3
<1>7. ledgerRows' = ledgerRows
  BY <1>1, <1>6 DEF LedgerIsRead
<1>. QED
  BY <1>2, <1>7

\* The first write enters the reservation in its new state, in the place of
\* what its row says.
LEMMA WritesItemIsEntry ==
  ASSUME IInv, IInv', Apart, Apart', NEW w \in Workers, WritesItem(w)
  PROVE  LET o == req[w].order
             n == [status |-> Target(req[w].op), item |-> req[w].item,
                   qty |-> req[w].qty]
         IN /\ ledgerRows[o] = rows[o]
            /\ ledgerRows' = [ledgerRows EXCEPT ![o] = n]
            /\ ledgerRows'[o] = n
            /\ \A x \in Orders : x # o => ledgerRows'[x] = ledgerRows[x]
<1>. DEFINE o == req[w].order
            n == [status |-> Target(req[w].op), item |-> req[w].item,
                  qty |-> req[w].qty]
<1>1. LedgerIsRead /\ LedgerIsRead'
  BY LedgerReads, LedgerReadsNext
<1>2. /\ pc[w] = "update_item" /\ pc' = [pc EXCEPT ![w] = "write_row"]
      /\ o \in Orders /\ UNCHANGED <<rows, req>>
  BY WritesItemIs
<1>3. Writer(o) = {}
  <2>1. ASSUME NEW v \in Workers, pc[v] = "write_row" PROVE req[v].order # o
    BY <1>2, <2>1, OthersKeepOff DEF Serving
  <2>. QED
    BY <2>1 DEF Writer
<1>4. w \in Writer(o)'
  BY <1>2 DEF Writer, IInv, TypeOK
<1>5. ASSUME NEW x \in Orders, x # o PROVE Writer(x)' = Writer(x)
  BY <1>2, <1>5 DEF Writer, IInv, TypeOK
<1>6. ledgerRows[o] = rows[o]
  BY <1>1, <1>2, <1>3 DEF LedgerIsRead
<1>7. ledgerRows'[o] = n
  BY <1>1, <1>2, <1>4 DEF LedgerIsRead
<1>8. ASSUME NEW x \in Orders, x # o PROVE ledgerRows'[x] = ledgerRows[x]
  <2>1. CASE Writer(x) = {}
    <3>1. ledgerRows[x] = rows[x]
      BY <1>1, <2>1 DEF LedgerIsRead
    <3>2. ledgerRows'[x] = rows'[x]
      BY <1>1, <1>5, <1>8, <2>1 DEF LedgerIsRead
    <3>. QED
      BY <1>2, <3>1, <3>2
  <2>2. CASE Writer(x) # {}
    <3>1. PICK v \in Writer(x) : TRUE
      BY <2>2
    <3>2. v \in Writer(x)' /\ req' = req
      BY <1>2, <1>5, <1>8, <3>1
    <3>. QED
      BY <1>1, <3>1, <3>2 DEF LedgerIsRead
  <2>. QED
    BY <2>1, <2>2
<1>. HIDE DEF n, o
<1>9. ledgerRows' = [ledgerRows EXCEPT ![o] = n]
  BY <1>1, <1>2, <1>7, <1>8 DEF LedgerIsRead
<1>. QED
  BY <1>6, <1>7, <1>8, <1>9 DEF n, o

-----------------------------------------------------------------------------
(* The books balance.                                                      *)

\* Every row of the ledger is a row, or none.
LEMMA LedgerTyped ==
  ASSUME IInv, Apart, NEW o \in Orders
  PROVE  ledgerRows[o] \in Row \cup {NoRow} /\ ledgerRows[o].qty \in Nat
<1>1. LedgerIsRead
  BY LedgerReads
<1>2. CASE Writer(o) = {}
  BY <1>1, <1>2, QuantitiesAssumption DEF LedgerIsRead, IInv, TypeOK, Row, NoRow
<1>3. CASE Writer(o) # {}
  <2>1. PICK w \in Writer(o) : TRUE
    BY <1>3
  <2>2. /\ req[w].op \in UseCases /\ req[w].item \in Items
        /\ req[w].qty \in Quantities
    BY <2>1 DEF Writer, IInv, RequestsComplete
  <2>3. Target(req[w].op) \in Status
    BY DEF Target, Status
  <2>. DEFINE n == [status |-> Target(req[w].op), item |-> req[w].item,
                    qty |-> req[w].qty]
  <2>4. ledgerRows[o] = n
    BY <1>1, <2>1 DEF LedgerIsRead
  <2>5. n \in Row /\ n.qty \in Nat
    BY <2>2, <2>3, QuantitiesAssumption DEF Row
  <2>. QED
    BY <2>4, <2>5
<1>. QED
  BY <1>2, <1>3

\* The first write is the ledger's step: the item changes by what the
\* reservation's entry does.
LEMMA WritesItemKeepsBooks ==
  ASSUME IInv, IInv', RequestsMatchRows, Apart, Apart', HandsAreClean,
         IsFiniteSet(Booked), Books, NEW w \in Workers, WritesItem(w)
  PROVE  IsFiniteSet(Booked') /\ Books'
<1>. DEFINE r == req[w]
            n == [status |-> Target(r.op), item |-> r.item, qty |-> r.qty]
<1>0. PICK o \in Orders : o = r.order
  BY WritesItemIs
<1>1. /\ pc[w] = "update_item"
      /\ r.op \in UseCases
      /\ r.item \in Items /\ r.qty \in Nat /\ r.qty > 0
      /\ \A j \in Items \ {r.item} : items'[j] = items[j]
      /\ items[r.item] \in Item /\ items'[r.item] \in Item
  BY WritesItemIs, EntityInNumbers
<1>2. /\ ledgerRows[o] = rows[o] /\ ledgerRows'[o] = n
      /\ \A x \in Orders : x # o => ledgerRows'[x] = ledgerRows[x]
  BY <1>0, WritesItemIsEntry
<1>3. IsFiniteSet(Booked')
  <2>1. Booked' \subseteq Booked \cup {o}
    BY <1>2 DEF Booked
  <2>2. IsFiniteSet(Booked \cup {o})
    BY FS_AddElement
  <2>. QED
    BY <2>1, <2>2, FS_Subset
<1>4. \A x \in Orders : ledgerRows[x].qty \in Nat
  BY LedgerTyped
<1>5. ASSUME NEW j \in Items, NEW st \in Status
      PROVE  LET before == QtySum(ledgerRows, Column(Orders, ledgerRows, j, st))
                 after == QtySum(ledgerRows', Column(Orders, ledgerRows', j, st))
             IN /\ before \in Nat /\ after \in Nat
                /\ after + Units(rows[o], j, st) = before + Units(n, j, st)
  <2>1. Column(Orders, ledgerRows, j, st) \subseteq Booked
    BY DEF Column, Booked, NoRow, Status
  <2>2. IsFiniteSet(Column(Orders, ledgerRows, j, st))
    BY <2>1, FS_Subset
  <2>3. ledgerRows'[o].qty \in Nat
    BY <1>1, <1>2
  <2>. HIDE DEF n
  <2>4. OneEntry(Orders, ledgerRows, ledgerRows', o)
    BY <1>2, <1>4, <2>3 DEF OneEntry
  <2>. QED
    BY <1>2, <2>2, <2>4, Posting
<1>6. /\ r.op = "reserve" => rows[o].status = "none"
      /\ r.op # "reserve" => /\ rows[o].status = "pending"
                             /\ rows[o].item = r.item /\ rows[o].qty = r.qty
  BY <1>0, <1>1 DEF HandsAreClean, Careful, RequestsMatchRows, Serving
<1>7. /\ items[r.item].quantity \in Nat /\ items[r.item].reserved \in Nat
      /\ items'[r.item].quantity \in Nat /\ items'[r.item].reserved \in Nat
  BY <1>1 DEF Item
<1>8. /\ r.op = "reserve" => /\ items'[r.item].quantity = items[r.item].quantity
                             /\ items'[r.item].reserved = items[r.item].reserved + r.qty
      /\ r.op = "confirm" => /\ items'[r.item].quantity = items[r.item].quantity - r.qty
                             /\ items'[r.item].reserved = items[r.item].reserved - r.qty
      /\ r.op \notin {"reserve", "confirm"} =>
           /\ items'[r.item].quantity = items[r.item].quantity
           /\ items'[r.item].reserved = items[r.item].reserved - r.qty
  BY WritesItemIs, EntityInNumbers
<1>9. ASSUME NEW j \in Items
      PROVE  /\ items'[j].reserved = QtySum(ledgerRows', Column(Orders, ledgerRows', j, "pending"))
             /\ items'[j].quantity + QtySum(ledgerRows', Column(Orders, ledgerRows', j, "confirmed"))
                  = InitialStock
  <2>. DEFINE P == QtySum(ledgerRows, Column(Orders, ledgerRows, j, "pending"))
              Q == QtySum(ledgerRows, Column(Orders, ledgerRows, j, "confirmed"))
              PP == QtySum(ledgerRows', Column(Orders, ledgerRows', j, "pending"))
              QQ == QtySum(ledgerRows', Column(Orders, ledgerRows', j, "confirmed"))
  <2>1. items[j].reserved = P /\ items[j].quantity + Q = InitialStock
    BY DEF Books
  <2>2. /\ P \in Nat /\ PP \in Nat
        /\ PP + Units(rows[o], j, "pending") = P + Units(n, j, "pending")
    BY <1>5 DEF Status
  <2>3. /\ Q \in Nat /\ QQ \in Nat
        /\ QQ + Units(rows[o], j, "confirmed") = Q + Units(n, j, "confirmed")
    BY <1>5 DEF Status
  <2>4. items[j].quantity \in Nat /\ items[j].reserved \in Nat
    BY DEF IInv, TypeOK, Item
  <2>. HIDE DEF P, Q, PP, QQ
  <2>5. CASE j # r.item
    <3>1. Units(n, j, "pending") = 0 /\ Units(n, j, "confirmed") = 0
      BY <2>5 DEF Units
    <3>2. Units(rows[o], j, "pending") = 0 /\ Units(rows[o], j, "confirmed") = 0
      BY <1>6, <2>5 DEF Units
    <3>3. PP = P /\ QQ = Q /\ items'[j] = items[j]
      BY <1>1, <2>2, <2>3, <2>5, <3>1, <3>2
    <3>. QED
      BY <2>1, <3>3 DEF PP, QQ
  <2>6. CASE j = r.item /\ r.op = "reserve"
    <3>1. Units(n, j, "pending") = r.qty /\ Units(n, j, "confirmed") = 0
      BY <2>6 DEF Units, Target
    <3>2. Units(rows[o], j, "pending") = 0 /\ Units(rows[o], j, "confirmed") = 0
      BY <1>6, <2>6 DEF Units
    <3>3. PP = P + r.qty /\ QQ = Q
      BY <1>1, <2>2, <2>3, <3>1, <3>2
    <3>. QED
      BY <1>1, <1>8, <2>1, <2>6, <3>3 DEF PP, QQ
  <2>7. CASE j = r.item /\ r.op = "confirm"
    <3>1. Units(n, j, "pending") = 0 /\ Units(n, j, "confirmed") = r.qty
      BY <2>7 DEF Units, Target
    <3>2. Units(rows[o], j, "pending") = r.qty /\ Units(rows[o], j, "confirmed") = 0
      BY <1>6, <2>7 DEF Units
    <3>3. PP = P - r.qty /\ QQ = Q + r.qty
      BY <1>1, <2>2, <2>3, <3>1, <3>2
    <3>4. /\ items'[j].reserved = items[j].reserved - r.qty
          /\ items'[j].quantity = items[j].quantity - r.qty
      BY <1>8, <2>7
    <3>5. items'[j].reserved = PP /\ items'[j].quantity + QQ = InitialStock
      BY <1>1, <2>1, <2>3, <2>4, <3>3, <3>4
    <3>. QED
      BY <3>5 DEF PP, QQ
  <2>8. CASE j = r.item /\ r.op \notin {"reserve", "confirm"}
    <3>1. Units(n, j, "pending") = 0 /\ Units(n, j, "confirmed") = 0
      BY <2>8 DEF Units, Target
    <3>2. Units(rows[o], j, "pending") = r.qty /\ Units(rows[o], j, "confirmed") = 0
      BY <1>6, <2>8 DEF Units
    <3>3. PP = P - r.qty /\ QQ = Q
      BY <1>1, <2>2, <2>3, <3>1, <3>2
    <3>4. /\ items'[j].reserved = items[j].reserved - r.qty
          /\ items'[j].quantity = items[j].quantity
      BY <1>8, <2>8
    <3>5. items'[j].reserved = PP /\ items'[j].quantity + QQ = InitialStock
      BY <1>1, <2>1, <2>3, <2>4, <3>3, <3>4
    <3>. QED
      BY <3>5 DEF PP, QQ
  <2>. QED
    BY <2>5, <2>6, <2>7, <2>8
<1>. QED
  BY <1>3, <1>9 DEF Books

\* The books balance after every step that leaves everybody alone.
LEMMA NextBalanced ==
  ASSUME BooksInv, IInv', [AuditNext]_auditVars
  PROVE  Balanced'
<1>. SUFFICES ASSUME ~overlapped' PROVE IsFiniteSet(Booked') /\ Books'
  BY DEF Balanced
<1>1. /\ IInv /\ RequestsMatchRows /\ [Next]_vars
      /\ Apart /\ failures = 0 /\ HandsAreClean /\ Apart' /\ failures' = 0
  BY StepAlone DEF BooksInv, SaleInv
<1>2. IsFiniteSet(Booked) /\ Books
  BY StepAlone DEF BooksInv, SaleInv, Balanced
<1>3. CASE UNCHANGED <<items, ledgerRows>>
  BY <1>2, <1>3 DEF Booked, Books
<1>4. ASSUME NEW w \in Workers, WritesItem(w)
      PROVE  IsFiniteSet(Booked') /\ Books'
  BY <1>1, <1>2, <1>4, WritesItemKeepsBooks
<1>5. ASSUME NEW w \in Workers, WritesRow(w)
      PROVE  UNCHANGED <<items, ledgerRows>>
  BY <1>1, <1>5, WritesRowIsStutter
<1>6. CASE Quiet /\ \A w \in Workers : ~WritesRow(w)
  BY <1>1, <1>3, <1>6, QuietIsStutter
<1>. QED
  BY <1>1, <1>3, <1>4, <1>5, <1>6, StepKinds

\* Nothing is held and nothing has been sold when the service starts.
LEMMA InitBalanced == AuditInit => Balanced
<1>. SUFFICES ASSUME AuditInit PROVE IsFiniteSet(Booked) /\ Books
  BY DEF Balanced
<1>1. \A o \in Orders : ledgerRows[o] = NoRow
  BY DEF AuditInit, Init, ledgerRows, Writer
<1>2. Booked = {}
  BY <1>1 DEF Booked
<1>3. ASSUME NEW i \in Items, NEW st \in Status
      PROVE  Column(Orders, ledgerRows, i, st) = {}
  BY <1>1 DEF Column, NoRow, Status
<1>4. \A i \in Items : items[i].quantity = InitialStock /\ items[i].reserved = 0
  BY DEF AuditInit, Init
<1>5. \A i \in Items, st \in Status : QtySum(ledgerRows, Column(Orders, ledgerRows, i, st)) = 0
  BY <1>3, SumOfNone
<1>6. "pending" \in Status /\ "confirmed" \in Status
  BY DEF Status
<1>7. Books
  BY <1>4, <1>5, <1>6, StockAssumption DEF Books
<1>. QED
  BY <1>2, <1>7, FS_EmptySet

\* The service starts with its books in order...
LEMMA InitBooks == AuditInit => BooksInv
<1>. SUFFICES ASSUME AuditInit PROVE BooksInv
  OBVIOUS
<1>1. SaleInv
  BY AuditIsNext, InitSale
<1>. QED
  BY <1>1, InitAlone, InitBalanced DEF BooksInv

\* ... and every step keeps them so.
LEMMA NextBooks == BooksInv /\ [AuditNext]_auditVars => BooksInv'
<1>. SUFFICES ASSUME BooksInv, [AuditNext]_auditVars PROVE BooksInv'
  OBVIOUS
<1>1. SaleInv' /\ IInv'
  BY NextSale, AuditIsNext DEF BooksInv, SaleInv
<1>2. AloneInv' /\ Balanced'
  BY <1>1, NextAlone, NextBalanced DEF BooksInv, SaleInv
<1>. QED
  BY <1>1, <1>2 DEF BooksInv

\* The columns are the ledger's own sums.
LEMMA BooksAreDoubleEntry == Books => Ledger!DoubleEntry
<1>1. ASSUME NEW i, NEW st
      PROVE  Ledger!Units(i, st) = QtySum(ledgerRows, Column(Orders, ledgerRows, i, st))
  BY DEF Ledger!Units, QtySum, Column, MapThenSumSet, MapThenFoldSet,
         Ledger!MapThenSumSet, Ledger!MapThenFoldSet
<1>2. ASSUME Books, NEW i \in Items
      PROVE  /\ [j \in Items |-> items[j].reserved][i] = Ledger!Units(i, "pending")
             /\ [j \in Items |-> items[j].quantity][i]
                  + Ledger!Units(i, "confirmed") = InitialStock
  BY <1>1, <1>2 DEF Books
<1>. QED
  BY <1>2 DEF Ledger!DoubleEntry

\* Reachable states keep the whole invariant of the books.
THEOREM BooksInvariant == AuditSpec => []BooksInv
BY InitBooks, NextBooks, PTL DEF AuditSpec

\* An item holds exactly what its pending reservations hold and has lost
\* exactly what was confirmed, for any number of workers, orders and items
\* and in every interleaving, as long as no two workers met on one
\* reservation and nothing failed between two writes.
THEOREM TheBooksBalance == AuditSpec => []BooksBalance
<1>1. BooksInv => BooksBalance
  BY BooksAreDoubleEntry DEF BooksInv, Balanced, BooksBalance
<1>. QED
  BY <1>1, BooksInvariant, PTL

-----------------------------------------------------------------------------
(* The refinement.                                                         *)

\* An accepted UPDATE of the item is the ledger's reservation, confirmation
\* or return.
LEMMA WritesItemIsLedgerStep ==
  ASSUME IInv, IInv', RequestsMatchRows, Apart, Apart', HandsAreClean,
         NEW w \in Workers, WritesItem(w)
  PROVE  Ledger!Next
<1>. DEFINE onHand == [j \in Items |-> items[j].quantity]
            held == [j \in Items |-> items[j].reserved]
            onHand2 == [j \in Items |-> items'[j].quantity]
            held2 == [j \in Items |-> items'[j].reserved]
<1>0. PICK o \in Orders, i \in Items, q \in Quantities, op \in UseCases :
        o = req[w].order /\ i = req[w].item /\ q = req[w].qty /\ op = req[w].op
  BY WritesItemIs
<1>. DEFINE n == [status |-> Target(op), item |-> i, qty |-> q]
<1>1. /\ pc[w] = "update_item" /\ q > 0
      /\ \A j \in Items \ {i} : items'[j] = items[j]
  BY <1>0, WritesItemIs, EntityInNumbers
<1>2. /\ op = "reserve" => /\ items'[i].quantity = items[i].quantity
                             /\ items[i].quantity - items[i].reserved >= q
                             /\ items'[i].reserved = items[i].reserved + q
      /\ op = "confirm" => /\ items'[i].quantity = items[i].quantity - q
                             /\ items'[i].reserved = items[i].reserved - q
      /\ op \notin {"reserve", "confirm"} =>
           /\ items'[i].quantity = items[i].quantity
           /\ items'[i].reserved = items[i].reserved - q
  BY <1>0, WritesItemIs, EntityInNumbers
<1>3. /\ ledgerRows[o] = rows[o]
      /\ ledgerRows' = [ledgerRows EXCEPT ![o] = n]
  BY <1>0, WritesItemIsEntry
<1>4. /\ op = "reserve" => rows[o].status = "none"
      /\ op # "reserve" => /\ rows[o].status = "pending"
                             /\ rows[o].item = i /\ rows[o].qty = q
      /\ rows[o] \in Row \cup {NoRow}
  BY <1>0, <1>1 DEF HandsAreClean, Careful, RequestsMatchRows, Serving, IInv, TypeOK
<1>. HIDE DEF n
<1>5. CASE op = "reserve"
  <2>1. rows[o] = NoRow
    BY <1>4, <1>5 DEF Row, Status
  <2>2. onHand2 = onHand
    BY <1>1, <1>2, <1>5
  <2>3. held2 = [held EXCEPT ![i] = @ + q]
    BY <1>1, <1>2, <1>5
  <2>4. onHand[i] - held[i] >= q
    BY <1>1, <1>2, <1>5
  <2>5. n = [status |-> "pending", item |-> i, qty |-> q]
    BY <1>5 DEF n, Target
  <2>6. Ledger!Reserve(o, i, q)
    BY <1>1, <1>3, <2>1, <2>2, <2>3, <2>4, <2>5 DEF Ledger!Reserve, Ledger!NoRow, NoRow
  <2>. QED
    BY <2>6 DEF Ledger!Next
<1>6. ASSUME op # "reserve", NEW st, Target(op) = st,
             \A j \in Items \ {i} : items'[j].reserved = items[j].reserved,
             items'[i].reserved = items[i].reserved - q
      PROVE  Ledger!Settle(o, st)
  <2>1. ledgerRows[o].status = "pending" /\ ledgerRows[o].item = i /\ ledgerRows[o].qty = q
    BY <1>3, <1>4, <1>6
  <2>2. held2 = [held EXCEPT ![i] = @ - q]
    BY <1>1, <1>6
  <2>3. n = [ledgerRows[o] EXCEPT !.status = st]
    BY <1>3, <1>4, <1>6 DEF n, Row, NoRow
  <2>4. ledgerRows' = [ledgerRows EXCEPT ![o].status = st]
    BY <1>3, <2>3
  <2>. QED
    BY <2>1, <2>2, <2>4 DEF Ledger!Settle
<1>7. CASE op = "confirm"
  <2>1. Ledger!Settle(o, "confirmed")
    BY <1>1, <1>2, <1>6, <1>7 DEF Target
  <2>2. onHand2 = [onHand EXCEPT ![i] = @ - q]
    BY <1>1, <1>2, <1>7
  <2>3. ledgerRows[o].item = i /\ ledgerRows[o].qty = q
    BY <1>3, <1>4, <1>7
  <2>4. Ledger!Confirm(o)
    BY <2>1, <2>2, <2>3 DEF Ledger!Confirm
  <2>. QED
    BY <2>4 DEF Ledger!Next
<1>8. CASE op \notin {"reserve", "confirm"}
  <2>1. PICK st \in {"released", "expired"} : Target(op) = st
    BY <1>8 DEF Target, UseCases
  <2>2. Ledger!Settle(o, st)
    BY <1>1, <1>2, <1>6, <1>8, <2>1
  <2>3. onHand2 = onHand
    BY <1>1, <1>2, <1>8
  <2>4. Ledger!GiveBack(o)
    BY <2>1, <2>2, <2>3 DEF Ledger!GiveBack
  <2>. QED
    BY <2>4 DEF Ledger!Next
<1>. QED
  BY <1>5, <1>7, <1>8

\* The ledger sees the items' columns and its own reading of the rows.
LEMMA LedgerStutters ==
  UNCHANGED <<items, ledgerRows>> => UNCHANGED Ledger!ledgerVars
BY DEF Ledger!ledgerVars

\* Every step of the service that leaves everybody alone is a step of the
\* ledger, or none.
LEMMA NextIsLedger ==
  ASSUME BooksInv, IInv', [AuditNext]_auditVars, ~overlapped'
  PROVE  [Ledger!Next]_(Ledger!ledgerVars)
<1>1. /\ IInv /\ RequestsMatchRows /\ [Next]_vars
      /\ Apart /\ failures = 0 /\ HandsAreClean /\ Apart' /\ failures' = 0
  BY StepAlone DEF BooksInv, SaleInv
<1>2. ASSUME NEW w \in Workers, WritesItem(w) PROVE Ledger!Next
  BY <1>1, <1>2, WritesItemIsLedgerStep
<1>3. ASSUME NEW w \in Workers, WritesRow(w)
      PROVE  UNCHANGED Ledger!ledgerVars
  BY <1>1, <1>3, WritesRowIsStutter, LedgerStutters
<1>4. CASE Quiet /\ \A w \in Workers : ~WritesRow(w)
  BY <1>1, <1>4, QuietIsStutter, LedgerStutters
<1>. QED
  BY <1>1, <1>2, <1>3, <1>4, StepKinds

\* The service implements the abstract ledger until two workers meet on one
\* reservation or a write is cut short: reserving, confirming and giving back
\* are single steps, taken when the item is written.
THEOREM TheLedgerIsImplemented == AuditSpec => LedgerUntilOverlap
<1>. DEFINE LedgerStep == ~overlapped' => [Ledger!Next]_(Ledger!ledgerVars)
<1>1. BooksInv /\ BooksInv' /\ [AuditNext]_auditVars => LedgerStep
  BY NextIsLedger DEF BooksInv, SaleInv
<1>2. BooksInv /\ BooksInv' /\ [AuditNext]_auditVars => [LedgerStep]_auditVars
  BY <1>1
<1>. HIDE DEF LedgerStep
<1>3. AuditSpec => [][LedgerStep]_auditVars
  BY <1>2, BooksInvariant, PTL DEF AuditSpec
<1>. QED
  BY <1>3 DEF LedgerStep, LedgerUntilOverlap

\* ... and it starts where the ledger starts.
THEOREM TheLedgerStartsAlike == AuditInit => Ledger!Init
BY DEF AuditInit, Init, ledgerRows, Writer, Ledger!Init, Ledger!NoRow, NoRow

-----------------------------------------------------------------------------
(* When the books are the ledger's.                                        *)

\* The backlog's claim holds where the overlap that breaks it has not
\* happened: once everybody is idle, the units of every pending reservation
\* are held.
THEOREM PendingIsHeldUntilOverlap == AuditSpec => [](~overlapped => PendingIsHeld)
<1>1. ASSUME BooksInv, ~overlapped, \A w \in Workers : pc[w] = "idle", NEW i \in Items
      PROVE  items[i].reserved >= Total(RowsOf(i, "pending"))
  <2>1. IsFiniteSet(Booked) /\ Books /\ Apart /\ IInv
    BY <1>1 DEF BooksInv, SaleInv, AloneInv, Balanced
  <2>2. \A o \in Orders : Writer(o) = {}
    BY <1>1 DEF Writer
  <2>3. ledgerRows = rows
    BY <2>1, <2>2 DEF ledgerRows, IInv, TypeOK
  <2>4. items[i].reserved = QtySum(rows, Column(Orders, rows, i, "pending"))
    BY <2>1, <2>3 DEF Books
  <2>5. Total(RowsOf(i, "pending")) = QtySum(rows, Column(Orders, rows, i, "pending"))
    BY DEF Total, RowsOf, QtySum, Column
  <2>6. items[i].reserved \in Nat
    BY <2>1 DEF IInv, TypeOK, Item
  <2>. QED
    BY <2>4, <2>5, <2>6
<1>2. BooksInv => (~overlapped => PendingIsHeld)
  BY <1>1 DEF PendingIsHeld
<1>. QED
  BY <1>2, BooksInvariant, PTL
==============================================================================
