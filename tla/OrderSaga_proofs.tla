------------------------- MODULE OrderSaga_proofs -------------------------
(***************************************************************************)
(* Proofs about OrderSaga, for any orders, lines, runs and bounds on what  *)
(* may fail: type correctness, that a confirmed order has been charged,    *)
(* that one order is charged twice only through a failed query, that an    *)
(* outcome changes only when a job was delivered again, that a saga that   *)
(* was not disturbed does all of its work or takes all of it back, that an *)
(* order whose job is over is decided unless a query failed, and that the  *)
(* sagas use the stock as the abstract ledger allows.                      *)
(*                                                                         *)
(* The charge carries no key and runs on one order may overlap, so nothing *)
(* in the gateway keeps an order from being charged by each of them.  What *)
(* does is the reservation: an order has one row, the run whose request    *)
(* made it is the only one that comes to pay (OneOwner), and it pays once  *)
(* per failed save (ChargesLeft).                                          *)
(***************************************************************************)
EXTENDS OrderSaga, SequenceTheorems, SumTheorems

\* A run works on an order exactly while it is somewhere in executeSaga.
Working == \A r \in Runs : pc[r] # "idle" <=> ord[r] # None

\* Places past the charge; past the reservation and not past the charge; the
\* latter with the charge still to be made.
PaidAt(at, s) == at \in {"mark_paid", "notify", "confirm", "complete"} \/ (at = "pay" /\ s)
OwnsAt(at, s) == at = "pay" \/ (at = "reserve" /\ s)
MayChargeAt(at, s) == (at = "pay" /\ ~s) \/ (at = "reserve" /\ s)

Paid(r) == PaidAt(pc[r], saving[r])
Owns(r) == OwnsAt(pc[r], saving[r])
MayCharge(r) == MayChargeAt(pc[r], saving[r])

PaidRuns == \A r \in Runs : Paid(r) => charges[ord[r]] > 0

OneOwner ==
  /\ \A r, q \in Runs : Owns(r) /\ Owns(q) /\ ord[r] = ord[q] => r = q
  /\ \A r \in Runs : Owns(r) => rows[ord[r]] # Inventory!NoRow

ChargesLeft ==
  /\ \A o \in Orders : rows[o] = Inventory!NoRow => charges[o] = 0
  /\ \A r \in Runs : MayCharge(r) => charges[ord[r]] <= dbErrors

\* A job delivered once has one run, and when that run has written an outcome
\* it has only to save it and to return.
Once ==
  \A o \in Orders : DeliveredOnce(job[o]) =>
    /\ \A r, q \in Runs : ord[r] = o /\ ord[q] = o => r = q
    /\ job[o].state = "waiting" => order[o] = "PENDING" /\ \A r \in Runs : ord[r] # o
    /\ \A r \in Runs : ord[r] = o =>
         /\ order[o] = "CONFIRMED" => pc[r] \in {"confirm", "complete", "fail"}
         /\ order[o] = "CANCELLED" => pc[r] = "cancel"

Safety ==
  /\ PaidRuns /\ ConfirmedWasPaid
  /\ OneOwner /\ ChargesLeft /\ AtMostOneCharge
  /\ Once

IInv == TypeOK /\ Working /\ Safety

-----------------------------------------------------------------------------
(* The runs: what the control of executeSaga does to their types, and where *)
(* it takes them.                                                           *)

RunsTypeOK ==
  /\ ord \in [Runs -> Orders \cup {None}]
  /\ pc \in [Runs -> PCs]
  /\ saving \in [Runs -> BOOLEAN]
  /\ tries \in [Runs -> 0 .. MaxRetries]
  /\ line \in [Runs -> Nat]
  /\ \A r \in Runs : line[r] \in 1 .. (IF ord[r] = None THEN 1
                                       ELSE Len(Lines[ord[r]]))
  /\ mem \in [Runs -> SagaRow]
  /\ Working

\* Run r goes to a place, with or without a result to save, and works on o
\* from now on; the other runs stay.
Moves(r, o, at, s) ==
  /\ \A d \in Runs \ {r} : ord'[d] = ord[d] /\ pc'[d] = pc[d] /\ saving'[d] = saving[d]
  /\ ord'[r] = o /\ pc'[r] = at /\ saving'[r] = s

\* An order has at least one line, and each line is an item and a quantity.
LEMMA LinesAreLines ==
  ASSUME NEW o \in Orders
  PROVE  /\ Lines[o] \in Seq([item : Items, qty : Quantities])
         /\ Len(Lines[o]) \in Nat /\ 1 <= Len(Lines[o])
         /\ \A k \in 1 .. Len(Lines[o]) : Lines[o][k] \in [item : Items, qty : Quantities]
<1>1. Lines[o] \in Seq([item : Items, qty : Quantities]) /\ Lines[o] # <<>>
  BY LinesAssumption
<1>2. \A k \in 1 .. Len(Lines[o]) : Lines[o][k] \in [item : Items, qty : Quantities]
  BY <1>1, ElementOfSeq
<1>. QED
  BY <1>1, <1>2, EmptySeq, LenProperties

\* A run that is not idle works on a line of an order.
LEMMA WorksOnAnOrder ==
  ASSUME RunsTypeOK, NEW r \in Runs, pc[r] # "idle"
  PROVE  /\ ord[r] \in Orders /\ ord[r] # None
         /\ line[r] \in 1 .. Len(Lines[ord[r]])
         /\ Line(r) \in [item : Items, qty : Quantities]
<1>1. ord[r] \in Orders /\ ord[r] # None
  BY NoneAssumption DEF RunsTypeOK, Working
<1>2. line[r] \in 1 .. Len(Lines[ord[r]])
  BY <1>1 DEF RunsTypeOK
<1>3. Lines[ord[r]][line[r]] \in [item : Items, qty : Quantities]
  BY <1>1, <1>2, LinesAreLines
<1>. QED
  BY <1>1, <1>2, <1>3 DEF Line

\* Entering a step moves the run and nothing of the ledger.
LEMMA EnterMoves ==
  ASSUME RunsTypeOK, NEW r \in Runs, pc[r] # "idle", NEW at \in PCs \ {"idle"},
         Enter(r, at), mem' \in [Runs -> SagaRow]
  PROVE  RunsTypeOK' /\ Moves(r, ord[r], at, FALSE)
<1>1. ord[r] \in Orders /\ ord[r] # None
  BY WorksOnAnOrder
<1>2. Moves(r, ord[r], at, FALSE) /\ ord' = ord
  BY DEF Enter, Moves, RunsTypeOK
<1>3. line' \in [Runs -> Nat] /\ \A d \in Runs : line'[d] = IF d = r THEN 1 ELSE line[d]
  BY DEF Enter, RunsTypeOK
<1>4. \A d \in Runs : line'[d] \in 1 .. (IF ord'[d] = None THEN 1 ELSE Len(Lines[ord'[d]]))
  <2>1. 1 \in 1 .. Len(Lines[ord[r]])
    BY <1>1, LinesAreLines
  <2>. QED
    BY <1>1, <1>2, <1>3, <2>1 DEF RunsTypeOK
<1>5. Working'
  BY <1>1, <1>2 DEF Moves, RunsTypeOK, Working
<1>6. pc' \in [Runs -> PCs] /\ saving' \in [Runs -> BOOLEAN] /\ tries' \in [Runs -> 0 .. MaxRetries]
  BY BoundsAssumption DEF Enter, RunsTypeOK
<1>. QED
  BY <1>2, <1>3, <1>4, <1>5, <1>6 DEF RunsTypeOK

\* Where a step leads that is given up.
LEMMA GivenUpAt ==
  /\ GivenUp("verify") = "cancel" /\ GivenUp("reserve") = "cancel"
  /\ GivenUp("pay") = "release"
  /\ GivenUp("notify") = "confirm" /\ GivenUp("confirm") = "complete"
BY DEF GivenUp

\* Where a step leads that succeeds.
LEMMA SucceededAt ==
  /\ Succeeded("start") = "verify" /\ Succeeded("verify") = "reserve"
  /\ Succeeded("reserve") = "pay" /\ Succeeded("pay") = "mark_paid"
  /\ Succeeded("mark_paid") = "notify" /\ Succeeded("notify") = "confirm"
  /\ Succeeded("confirm") = "complete"
BY DEF Succeeded

\* Giving a step up moves the run to its compensation, or on.
LEMMA GiveUpMoves ==
  ASSUME RunsTypeOK, NEW r \in Runs, pc[r] \in Steps, GiveUp(r)
  PROVE  RunsTypeOK' /\ Moves(r, ord[r], GivenUp(pc[r]), FALSE)
<1>1. GivenUp(pc[r]) \in PCs \ {"idle"} /\ pc[r] # "idle"
  BY GivenUpAt DEF Steps, PCs
<1>. QED
  BY <1>1, EnterMoves DEF GiveUp, RunsTypeOK

\* A failed attempt is repeated or the step given up.
LEMMA RetryMoves ==
  ASSUME RunsTypeOK, NEW r \in Runs, pc[r] \in Steps, Retry(r)
  PROVE  /\ RunsTypeOK'
         /\ \/ Moves(r, ord[r], pc[r], FALSE)
            \/ Moves(r, ord[r], GivenUp(pc[r]), FALSE)
<1>1. CASE tries[r] < MaxRetries
  <2>1. /\ ord' = ord /\ pc' = pc /\ mem' = mem
        /\ tries' = [tries EXCEPT ![r] = @ + 1]
        /\ saving' = [saving EXCEPT ![r] = FALSE]
        /\ line' = [line EXCEPT ![r] = 1]
    BY <1>1 DEF Retry
  <2>2. ord[r] \in Orders /\ ord[r] # None
    BY WorksOnAnOrder DEF Steps
  <2>3. tries' \in [Runs -> 0 .. MaxRetries] /\ saving' \in [Runs -> BOOLEAN]
    BY <1>1, <2>1, BoundsAssumption DEF RunsTypeOK
  <2>4. line' \in [Runs -> Nat] /\ \A d \in Runs : line'[d] = IF d = r THEN 1 ELSE line[d]
    BY <2>1 DEF RunsTypeOK
  <2>5. \A d \in Runs : line'[d] \in 1 .. (IF ord'[d] = None THEN 1 ELSE Len(Lines[ord'[d]]))
    BY <2>1, <2>2, <2>4, LinesAreLines DEF RunsTypeOK
  <2>6. RunsTypeOK'
    BY <2>1, <2>3, <2>4, <2>5 DEF RunsTypeOK, Working
  <2>. QED
    BY <2>1, <2>6 DEF Moves, RunsTypeOK
<1>2. CASE ~(tries[r] < MaxRetries)
  BY <1>2, GiveUpMoves DEF Retry
<1>. QED
  BY <1>1, <1>2

\* A step that succeeded has its row to save.
LEMMA ResultMoves ==
  ASSUME RunsTypeOK, NEW r \in Runs, NEW row \in SagaRow, Result(r, row)
  PROVE  RunsTypeOK' /\ Moves(r, ord[r], pc[r], TRUE)
<1>1. mem' \in [Runs -> SagaRow] /\ saving' \in [Runs -> BOOLEAN]
  BY DEF Result, RunsTypeOK
<1>2. ord' = ord /\ pc' = pc /\ tries' = tries /\ line' = line
  BY DEF Result
<1>. QED
  BY <1>1, <1>2 DEF RunsTypeOK, Working, Moves, Result

\* A line that is done leads to the next line or to the save.
LEMMA NextLineMoves ==
  ASSUME RunsTypeOK, NEW r \in Runs, pc[r] # "idle", NEW row \in SagaRow, NextLine(r, row)
  PROVE  /\ RunsTypeOK'
         /\ Moves(r, ord[r], pc[r], saving[r]) \/ Moves(r, ord[r], pc[r], TRUE)
<1>1. CASE line[r] < Len(Lines[ord[r]])
  <2>1. /\ ord' = ord /\ pc' = pc /\ saving' = saving /\ tries' = tries /\ mem' = mem
        /\ line' = [line EXCEPT ![r] = @ + 1]
    BY <1>1 DEF NextLine
  <2>2. ord[r] \in Orders /\ ord[r] # None /\ line[r] \in 1 .. Len(Lines[ord[r]])
    BY WorksOnAnOrder
  <2>3. /\ line' \in [Runs -> Nat]
        /\ \A d \in Runs : line'[d] = IF d = r THEN line[d] + 1 ELSE line[d]
    BY <2>1 DEF RunsTypeOK
  <2>4. \A d \in Runs : line'[d] \in 1 .. (IF ord'[d] = None THEN 1 ELSE Len(Lines[ord'[d]]))
    BY <1>1, <2>1, <2>2, <2>3, LinesAreLines DEF RunsTypeOK
  <2>. QED
    BY <2>1, <2>3, <2>4 DEF RunsTypeOK, Working, Moves
<1>2. CASE ~(line[r] < Len(Lines[ord[r]]))
  BY <1>2, ResultMoves DEF NextLine
<1>. QED
  BY <1>1, <1>2

\* The run is over: executeSaga returns or its process dies.
LEMMA RunIsOver ==
  ASSUME RunsTypeOK, NEW r \in Runs,
         ord' = [ord EXCEPT ![r] = None], pc' = [pc EXCEPT ![r] = "idle"],
         saving' = [saving EXCEPT ![r] = FALSE], tries' = [tries EXCEPT ![r] = 0],
         line' = [line EXCEPT ![r] = 1], mem' = [mem EXCEPT ![r] = NewSaga]
  PROVE  RunsTypeOK' /\ Moves(r, None, "idle", FALSE)
<1>1. Moves(r, None, "idle", FALSE)
  BY DEF RunsTypeOK, Moves
<1>2. NewSaga \in SagaRow
  BY DEF NewSaga, SagaRow, SagaStatus, SagaStep
<1>3. /\ ord' \in [Runs -> Orders \cup {None}] /\ pc' \in [Runs -> PCs]
      /\ saving' \in [Runs -> BOOLEAN] /\ tries' \in [Runs -> 0 .. MaxRetries]
      /\ line' \in [Runs -> Nat] /\ mem' \in [Runs -> SagaRow]
  BY <1>2, BoundsAssumption DEF RunsTypeOK, PCs
<1>4. \A d \in Runs : line'[d] = IF d = r THEN 1 ELSE line[d]
  BY DEF RunsTypeOK
<1>5. \A d \in Runs : line'[d] \in 1 .. (IF ord'[d] = None THEN 1 ELSE Len(Lines[ord'[d]]))
  BY <1>1, <1>4 DEF Moves, RunsTypeOK
<1>6. Working'
  BY <1>1 DEF Moves, RunsTypeOK, Working
<1>. QED
  BY <1>1, <1>3, <1>5, <1>6 DEF RunsTypeOK

-----------------------------------------------------------------------------
(* The tables.                                                              *)

LedgerTypeOK ==
  /\ onHand \in [Items -> Int] /\ held \in [Items -> Int]
  /\ rows \in [Orders -> {Inventory!NoRow} \cup
                         [status : {"pending", "released", "expired"},
                          item : Items, qty : Quantities]]

RestTypeOK ==
  /\ LedgerTypeOK
  /\ charges \in [Orders -> Nat]
  /\ order \in [Orders -> OrderStatus]
  /\ saga \in [Orders -> SagaRow]
  /\ job \in [Orders -> JobRow]
  /\ \A request \in late :
       \E o \in Orders : \E k \in 1 .. Len(Lines[o]) : request = <<o, k>>
  /\ dbErrors \in 0 .. MaxDbErrors
  /\ lost \in 0 .. MaxLost

\* Types of the runs and types of the rest: most steps touch one of them.
LEMMA TypesSplit == (TypeOK /\ Working) <=> (RunsTypeOK /\ RestTypeOK)
BY DEF TypeOK, RunsTypeOK, RestTypeOK, LedgerTypeOK

\* The same of the next state.
LEMMA TypesSplitNext == (TypeOK' /\ Working') <=> (RunsTypeOK' /\ RestTypeOK')
BY DEF TypeOK, RunsTypeOK, RestTypeOK, LedgerTypeOK

\* A reservation that was made stays on the record.
RowsStay == \A o \in Orders : rows'[o] = Inventory!NoRow => rows[o] = Inventory!NoRow

\* A reservation in the ledger gives its order the row it did not have.
LEMMA ReserveWrites ==
  ASSUME LedgerTypeOK, NEW o \in Orders, NEW ln \in [item : Items, qty : Quantities],
         Inventory!Reserve(o, ln.item, ln.qty)
  PROVE  LedgerTypeOK' /\ RowsStay /\ rows[o] = Inventory!NoRow /\ rows'[o] # Inventory!NoRow
<1>1. ln.item \in Items /\ ln.qty \in Quantities /\ ln.qty \in Int
  BY StockAssumption
<1>. DEFINE row == [status |-> "pending", item |-> ln.item, qty |-> ln.qty]
<1>2. /\ rows[o] = Inventory!NoRow /\ rows' = [rows EXCEPT ![o] = row]
      /\ held' = [held EXCEPT ![ln.item] = @ + ln.qty] /\ onHand' = onHand
  BY DEF Inventory!Reserve
<1>3. row \in [status : {"pending", "released", "expired"}, item : Items, qty : Quantities]
  BY <1>1
<1>4. row # Inventory!NoRow
  BY DEF Inventory!NoRow
<1>5. \A p \in Orders : rows'[p] = IF p = o THEN row ELSE rows[p]
  BY <1>2 DEF LedgerTypeOK
<1>6. LedgerTypeOK'
  BY <1>1, <1>2, <1>3 DEF LedgerTypeOK
<1>. QED
  BY <1>2, <1>4, <1>5, <1>6 DEF RowsStay

\* Releasing or expiring a reservation keeps every row in its place.
LEMMA SettleWrites ==
  ASSUME LedgerTypeOK, NEW o \in Orders, NEW status \in {"released", "expired"},
         Inventory!Settle(o, status), onHand' = onHand
  PROVE  LedgerTypeOK' /\ RowsStay
<1>1. /\ rows[o].status = "pending" /\ rows' = [rows EXCEPT ![o].status = status]
      /\ held' = [held EXCEPT ![rows[o].item] = @ - rows[o].qty]
  BY DEF Inventory!Settle
<1>2. rows[o] \in [status : {"pending", "released", "expired"}, item : Items, qty : Quantities]
  BY <1>1 DEF LedgerTypeOK, Inventory!NoRow
<1>3. rows[o].item \in Items /\ rows[o].qty \in Int
  BY <1>2, StockAssumption
<1>. DEFINE row == [rows[o] EXCEPT !.status = status]
<1>4. /\ row \in [status : {"pending", "released", "expired"}, item : Items, qty : Quantities]
      /\ row.status = status
  BY <1>2
<1>5. rows' = [rows EXCEPT ![o] = row]
  BY <1>1
<1>6. \A p \in Orders : rows'[p] = IF p = o THEN row ELSE rows[p]
  BY <1>5 DEF LedgerTypeOK
<1>7. row # Inventory!NoRow
  BY <1>4 DEF Inventory!NoRow
<1>8. LedgerTypeOK'
  BY <1>1, <1>3, <1>4, <1>5 DEF LedgerTypeOK
<1>. QED
  BY <1>6, <1>7, <1>8 DEF RowsStay

\* So does giving its stock back, whichever way.
LEMMA GiveBackWrites ==
  ASSUME LedgerTypeOK, NEW o \in Orders, Inventory!GiveBack(o)
  PROVE  LedgerTypeOK' /\ RowsStay
BY SettleWrites DEF Inventory!GiveBack

\* And so does whatever leaves the ledger alone.
LEMMA LedgerStays ==
  ASSUME LedgerTypeOK, UNCHANGED ledger
  PROVE  LedgerTypeOK' /\ RowsStay
BY DEF ledger, LedgerTypeOK, RowsStay

-----------------------------------------------------------------------------
(* Steps that neither charge, nor decide an order, nor take a job.          *)

\* A job is not queued by the step, and stalls are not taken back.
JobsGoOn ==
  \A o \in Orders : DeliveredOnce(job'[o]) =>
    DeliveredOnce(job[o]) /\ (job'[o].state = "waiting" => job[o].state = "waiting")

\* The step does not bring a run nearer to a charge or to an outcome.
Fits(r, at, s) ==
  /\ PaidAt(at, s) => Paid(r)
  /\ OwnsAt(at, s) => Owns(r)
  /\ MayChargeAt(at, s) => MayCharge(r) \/ dbErrors' = dbErrors + 1
  /\ pc[r] \in {"confirm", "complete", "fail"} => at \in {"confirm", "complete", "fail"}
  /\ pc[r] = "cancel" => at = "cancel"

\* A run that moves to a place it may be in, while orders and charges stay as
\* they are, keeps what is to be proved.
LEMMA QuietMove ==
  ASSUME IInv, TypeOK', NEW r \in Runs, pc[r] # "idle",
         NEW o, NEW at, NEW s, Moves(r, o, at, s),
         (o = ord[r] /\ Fits(r, at, s)) \/ (o = None /\ at = "idle"),
         order' = order, charges' = charges, RowsStay, JobsGoOn, dbErrors <= dbErrors'
  PROVE  Safety'
<1>. USE DEF IInv, Safety
<1>1. /\ ord[r] \in Orders /\ dbErrors \in Nat /\ dbErrors' \in Nat
      /\ \A d \in Runs : ord[d] # None => ord[d] \in Orders
      /\ \A p \in Orders : charges[p] \in Nat
  <2>1. RunsTypeOK
    BY TypesSplit
  <2>. QED
    BY <2>1, WorksOnAnOrder, BoundsAssumption DEF TypeOK
<1>2. at = "idle" => ~PaidAt(at, s) /\ ~OwnsAt(at, s) /\ ~MayChargeAt(at, s)
  BY DEF PaidAt, OwnsAt, MayChargeAt
<1>3. \A d \in Runs \ {r} : (Paid(d)' <=> Paid(d)) /\ (Owns(d)' <=> Owns(d))
                            /\ (MayCharge(d)' <=> MayCharge(d)) /\ ord'[d] = ord[d]
  BY DEF Moves, Paid, Owns, MayCharge
<1>4. /\ Paid(r)' <=> PaidAt(at, s)
      /\ Owns(r)' <=> OwnsAt(at, s)
      /\ MayCharge(r)' <=> MayChargeAt(at, s)
  BY DEF Moves, Paid, Owns, MayCharge
<1>5. ord'[r] = o
  BY DEF Moves
<1>6. PaidRuns'
  BY <1>2, <1>3, <1>4, <1>5 DEF PaidRuns, Fits
<1>7. ConfirmedWasPaid'
  BY DEF ConfirmedWasPaid
<1>8. OneOwner'
  <2>1. \A d \in Runs : Owns(d)' => Owns(d) /\ ord'[d] = ord[d] /\ ord[d] \in Orders
    <3>1. \A d \in Runs : Owns(d) => ord[d] \in Orders
      BY <1>1 DEF Owns, OwnsAt, Working
    <3>. QED
      BY <1>2, <1>3, <1>4, <1>5, <3>1 DEF Fits
  <2>. QED
    BY <2>1 DEF OneOwner, RowsStay
<1>9. ChargesLeft'
  <2>1. \A d \in Runs : MayCharge(d)' => charges[ord'[d]] <= dbErrors'
    <3>. SUFFICES ASSUME NEW d \in Runs, MayCharge(d)' PROVE charges[ord'[d]] <= dbErrors'
      OBVIOUS
    <3>1. CASE d # r
      <4>1. MayCharge(d) /\ ord'[d] = ord[d] /\ ord[d] \in Orders
        BY <1>1, <1>3, <3>1 DEF MayCharge, MayChargeAt, Working
      <4>2. charges[ord[d]] <= dbErrors
        BY <4>1 DEF ChargesLeft
      <4>. QED
        BY <1>1, <4>1, <4>2
    <3>2. CASE d = r
      <4>1. o = ord[r] /\ (MayCharge(r) \/ dbErrors' = dbErrors + 1)
        BY <1>2, <1>4, <3>2 DEF Fits
      <4>2. CASE MayCharge(r)
        BY <1>1, <1>5, <3>2, <4>1, <4>2 DEF ChargesLeft
      <4>3. CASE dbErrors' = dbErrors + 1
        BY <1>1, <1>5, <3>2, <4>1, <4>3 DEF AtMostOneCharge
      <4>. QED
        BY <4>1, <4>2, <4>3
    <3>. QED
      BY <3>1, <3>2
  <2>. QED
    BY <2>1 DEF ChargesLeft, RowsStay
<1>10. AtMostOneCharge'
  BY <1>1 DEF AtMostOneCharge
<1>11. Once'
  <2>. SUFFICES ASSUME NEW p \in Orders, DeliveredOnce(job'[p])
                PROVE  /\ \A d, q \in Runs : ord'[d] = p /\ ord'[q] = p => d = q
                       /\ job'[p].state = "waiting" =>
                            order[p] = "PENDING" /\ \A d \in Runs : ord'[d] # p
                       /\ \A d \in Runs : ord'[d] = p =>
                            /\ order[p] = "CONFIRMED" => pc'[d] \in {"confirm", "complete", "fail"}
                            /\ order[p] = "CANCELLED" => pc'[d] = "cancel"
    BY DEF Once
  <2>1. DeliveredOnce(job[p]) /\ (job'[p].state = "waiting" => job[p].state = "waiting")
    BY DEF JobsGoOn
  <2>2. \A d \in Runs : ord'[d] = p => ord[d] = p
    BY <1>3, <1>5, NoneAssumption
  <2>3. \A d \in Runs : ord'[d] = p =>
          /\ pc[d] \in {"confirm", "complete", "fail"} => pc'[d] \in {"confirm", "complete", "fail"}
          /\ pc[d] = "cancel" => pc'[d] = "cancel"
    BY <1>5, NoneAssumption DEF Moves, Fits
  <2>. QED
    BY <2>1, <2>2, <2>3 DEF Once
<1>. QED
  BY <1>6, <1>7, <1>8, <1>9, <1>10, <1>11

\* The same of a step that moves no run.
LEMMA NoMove ==
  ASSUME IInv, TypeOK', UNCHANGED <<ord, pc, saving>>,
         order' = order, charges' = charges, RowsStay, JobsGoOn, dbErrors <= dbErrors'
  PROVE  Safety'
<1>. USE DEF IInv, Safety
<1>1. /\ dbErrors \in Nat /\ dbErrors' \in Nat
      /\ \A d \in Runs : pc[d] # "idle" => ord[d] \in Orders
      /\ \A p \in Orders : charges[p] \in Nat
  BY BoundsAssumption, NoneAssumption DEF TypeOK, Working
<1>2. \A d \in Runs : (Paid(d)' <=> Paid(d)) /\ (Owns(d)' <=> Owns(d))
                      /\ (MayCharge(d)' <=> MayCharge(d))
  BY DEF Paid, Owns, MayCharge
<1>3. \A d \in Runs : Owns(d) \/ MayCharge(d) => ord[d] \in Orders
  BY <1>1 DEF Owns, OwnsAt, MayCharge, MayChargeAt
<1>4. PaidRuns' /\ ConfirmedWasPaid'
  BY <1>2 DEF PaidRuns, ConfirmedWasPaid
<1>5. OneOwner'
  BY <1>2, <1>3 DEF OneOwner, RowsStay
<1>6. ChargesLeft' /\ AtMostOneCharge'
  BY <1>1, <1>2, <1>3 DEF ChargesLeft, RowsStay, AtMostOneCharge
<1>7. Once'
  BY DEF Once, JobsGoOn
<1>. QED
  BY <1>4, <1>5, <1>6, <1>7

-----------------------------------------------------------------------------
(* The quiet steps of a run.                                                *)

Jobs == [Orders -> JobRow]

\* The parts of the invariant that say what is of which type.
LEMMA InvSplit == IInv => RunsTypeOK /\ RestTypeOK /\ LedgerTypeOK
BY TypesSplit DEF IInv, RestTypeOK

\* The same of the whole invariant, when the saga rows or the job may change.
LEMMA QuietStep ==
  ASSUME IInv, NEW r \in Runs, pc[r] # "idle", RunsTypeOK', LedgerTypeOK', RowsStay,
         NEW o, NEW at, NEW s, Moves(r, o, at, s),
         (o = ord[r] /\ Fits(r, at, s)) \/ (o = None /\ at = "idle"),
         UNCHANGED <<charges, order>>, saga' \in [Orders -> SagaRow], job' \in Jobs, JobsGoOn,
         \A request \in late' :
           \E p \in Orders : \E k \in 1 .. Len(Lines[p]) : request = <<p, k>>,
         dbErrors <= dbErrors', dbErrors' \in 0 .. MaxDbErrors, lost' \in 0 .. MaxLost
  PROVE  IInv'
<1>1. RestTypeOK'
  BY InvSplit DEF RestTypeOK, Jobs
<1>2. TypeOK' /\ Working'
  BY <1>1, TypesSplitNext
<1>. QED
  BY <1>2, QuietMove DEF IInv

\* The same when nothing but the run and its saga row changes.
LEMMA LocalStep ==
  ASSUME IInv, NEW r \in Runs, pc[r] # "idle", RunsTypeOK',
         NEW at, NEW s, Moves(r, ord[r], at, s), Fits(r, at, s),
         UNCHANGED <<ledger, charges, order, job, faults>>, saga' \in [Orders -> SagaRow]
  PROVE  IInv'
<1>1. RestTypeOK /\ LedgerTypeOK
  BY InvSplit
<1>2. job' = job /\ late' = late /\ dbErrors' = dbErrors /\ lost' = lost /\ dbErrors \in Nat
  BY <1>1, BoundsAssumption DEF faults, RestTypeOK
<1>4. job' \in Jobs /\ JobsGoOn
  BY <1>1, <1>2 DEF RestTypeOK, Jobs, JobsGoOn
<1>5. /\ \A request \in late' :
           \E p \in Orders : \E k \in 1 .. Len(Lines[p]) : request = <<p, k>>
      /\ dbErrors <= dbErrors' /\ dbErrors' \in 0 .. MaxDbErrors /\ lost' \in 0 .. MaxLost
  BY <1>1, <1>2 DEF RestTypeOK
<1>3. LedgerTypeOK' /\ RowsStay
  BY <1>1, LedgerStays
<1>. QED
  BY <1>3, <1>4, <1>5, QuietStep

\* One job's record is replaced by another ...
LEMMA OneJobChanges ==
  ASSUME job \in Jobs, NEW o \in Orders, NEW j \in JobRow, job' = [job EXCEPT ![o] = j]
  PROVE  job' \in Jobs /\ \A p \in Orders : job'[p] = IF p = o THEN j ELSE job[p]
BY DEF Jobs

\* ... that is not queued, and not delivered fewer times.
LEMMA OneJobGoesOn ==
  ASSUME job \in Jobs, NEW o \in Orders, NEW j \in JobRow, job' = [job EXCEPT ![o] = j],
         DeliveredOnce(j) => DeliveredOnce(job[o]) /\ j.state # "waiting"
  PROVE  job' \in Jobs /\ JobsGoOn
<1>1. job' \in Jobs /\ \A p \in Orders : job'[p] = IF p = o THEN j ELSE job[p]
  BY OneJobChanges
<1>. QED
  BY <1>1 DEF JobsGoOn

\* What a job may become.
LEMMA RowsOfJobs ==
  ASSUME NEW j \in JobRow, NEW state \in JobState, NEW lock \in Runs \cup {None}
  PROVE  /\ Job(state, lock, j.stalls, j.timeouts) \in JobRow
         /\ DeliveredOnce(Job(state, lock, j.stalls, j.timeouts)) <=> DeliveredOnce(j)
         /\ j.stalls < MaxStalled =>
              /\ Job(state, lock, j.stalls + 1, j.timeouts) \in JobRow
              /\ ~DeliveredOnce(Job(state, lock, j.stalls + 1, j.timeouts))
         /\ Job(state, lock, j.stalls, j.timeouts + 1) \in JobRow
         /\ ~DeliveredOnce(Job(state, lock, j.stalls, j.timeouts + 1))
<1>1. j.stalls \in 0 .. MaxStalled /\ j.timeouts \in Nat /\ MaxStalled \in Nat
  BY BoundsAssumption DEF JobRow
<1>2. j.stalls < MaxStalled => j.stalls + 1 \in 0 .. MaxStalled /\ j.stalls + 1 # 0
  BY <1>1
<1>3. j.timeouts + 1 \in Nat /\ j.timeouts + 1 # 0
  BY <1>1
<1>. QED
  BY <1>1, <1>2, <1>3 DEF Job, JobRow, DeliveredOnce

\* The end of a run leaves it idle and its job done, or in other hands.
LEMMA EndMoves ==
  ASSUME IInv, NEW r \in Runs, pc[r] # "idle", End(r)
  PROVE  RunsTypeOK' /\ Moves(r, None, "idle", FALSE) /\ job' \in Jobs /\ JobsGoOn
<1>1. RunsTypeOK /\ job \in Jobs
  BY InvSplit DEF RestTypeOK, Jobs
<1>2. ord[r] \in Orders
  BY <1>1, WorksOnAnOrder
<1>3. RunsTypeOK' /\ Moves(r, None, "idle", FALSE)
  BY <1>1, RunIsOver DEF End
<1>4. job' \in Jobs /\ JobsGoOn
  <2>1. CASE job' = job
    BY <1>1, <2>1 DEF JobsGoOn
  <2>2. CASE job' # job
    <3>. DEFINE done == Job("done", None, job[ord[r]].stalls, job[ord[r]].timeouts)
    <3>1. job' = [job EXCEPT ![ord[r]] = done]
      BY <2>2 DEF End
    <3>2. /\ done \in JobRow /\ done.state = "done"
          /\ DeliveredOnce(done) => DeliveredOnce(job[ord[r]])
      BY <1>1, <1>2, RowsOfJobs DEF Jobs, JobState, Job
    <3>. QED
      BY <1>1, <1>2, <3>1, <3>2, OneJobGoesOn
  <2>. QED
    BY <2>1, <2>2
<1>. QED
  BY <1>3, <1>4

\* So a run may end anywhere.
LEMMA LastStep ==
  ASSUME IInv, NEW r \in Runs, pc[r] # "idle", End(r),
         UNCHANGED <<ledger, charges, order, late, lost>>, saga' \in [Orders -> SagaRow],
         dbErrors <= dbErrors', dbErrors' \in 0 .. MaxDbErrors
  PROVE  IInv'
<1>1. RestTypeOK /\ LedgerTypeOK
  BY InvSplit
<1>2. RunsTypeOK' /\ Moves(r, None, "idle", FALSE) /\ job' \in Jobs /\ JobsGoOn
  BY EndMoves
<1>3. /\ \A request \in late' :
           \E p \in Orders : \E k \in 1 .. Len(Lines[p]) : request = <<p, k>>
      /\ lost' \in 0 .. MaxLost
  BY <1>1 DEF RestTypeOK
<1>4. LedgerTypeOK' /\ RowsStay
  BY <1>1, LedgerStays
<1>. QED
  BY <1>2, <1>3, <1>4, QuietStep

\* What a step is about to save is a saga row.
LEMMA DoneIsARow ==
  ASSUME RunsTypeOK, NEW r \in Runs, NEW at \in Steps
  PROVE  /\ Done(r, at) \in SagaRow
         /\ [Done(r, at) EXCEPT !.reserved = TRUE] \in SagaRow
         /\ [Done(r, at) EXCEPT !.paid = TRUE] \in SagaRow
<1>1. Recorded(at) \in SagaStep
  BY DEF Recorded, Steps, SagaStep
<1>2. mem[r] \in SagaRow
  BY DEF RunsTypeOK
<1>. QED
  BY <1>1, <1>2 DEF Done, SagaRow

\* Saving the row at a step that writes no order.
LEMMA SaveMoves ==
  ASSUME IInv, NEW r \in Runs, NEW at \in {"start", "mark_paid"}, NEW row \in SagaRow,
         Save(r, at, row)
  PROVE  IInv'
<1>1. RunsTypeOK /\ RestTypeOK /\ pc[r] = at /\ saving[r] = FALSE
  BY InvSplit DEF Save, At, RunsTypeOK
<1>2. ord[r] \in Orders
  BY <1>1, WorksOnAnOrder
<1>3. Succeeded(at) \in {"verify", "notify"}
  BY SucceededAt
<1>4. Moves(r, ord[r], Succeeded(at), FALSE)
  BY <1>1 DEF Save, Moves, RunsTypeOK
<1>5. RunsTypeOK'
  <2>1. ord' = ord /\ saving' = saving /\ tries' = tries /\ line' = line
    BY DEF Save
  <2>2. pc' \in [Runs -> PCs] /\ mem' \in [Runs -> SagaRow]
    BY <1>1, <1>3 DEF Save, RunsTypeOK, PCs, Steps
  <2>3. Working'
    BY <1>1, <1>3, <1>4, <2>1 DEF Moves, RunsTypeOK, Working
  <2>. QED
    BY <1>1, <2>1, <2>2, <2>3 DEF RunsTypeOK
<1>6. Fits(r, Succeeded(at), FALSE)
  BY <1>1, SucceededAt DEF Fits, PaidAt, OwnsAt, MayChargeAt, Paid
<1>7. saga' \in [Orders -> SagaRow]
  BY <1>1, <1>2 DEF Save, RestTypeOK
<1>. QED
  BY <1>1, <1>4, <1>5, <1>6, <1>7, LocalStep DEF Save

\* Every save of the saga row, with the outcome some of them write.
LEMMA SavesAreSafe ==
  ASSUME IInv, NEW r \in Runs,
         \/ SaveRunning(r) \/ MarkPaid(r) \/ SaveStep(r) \/ Complete(r) \/ Fail(r)
         \/ SaveCompensation(r)
  PROVE  IInv'
<1>1. RunsTypeOK /\ RestTypeOK /\ LedgerTypeOK
  BY InvSplit
<1>2. mem[r] \in SagaRow /\ [mem[r] EXCEPT !.step = "PAYMENT_COMPLETED"] \in SagaRow
  BY <1>1 DEF RunsTypeOK, SagaRow, SagaStep
<1>3. CASE SaveRunning(r)
  BY <1>2, <1>3, SaveMoves DEF SaveRunning
<1>4. CASE MarkPaid(r)
  BY <1>2, <1>4, SaveMoves DEF MarkPaid
<1>5. CASE SaveStep(r)
  <2>1. pc[r] \in Steps /\ saving[r] = TRUE /\ ord[r] \in Orders
    BY <1>1, <1>5, WorksOnAnOrder DEF SaveStep, RunsTypeOK, Steps
  <2>2. Succeeded(pc[r]) \in PCs \ {"idle"}
    BY <2>1, SucceededAt DEF Steps, PCs
  <2>3. RunsTypeOK' /\ Moves(r, ord[r], Succeeded(pc[r]), FALSE)
    BY <1>1, <1>5, <2>1, <2>2, EnterMoves DEF SaveStep, RunsTypeOK, Steps
  <2>4. Fits(r, Succeeded(pc[r]), FALSE)
    BY <2>1, SucceededAt DEF Fits, PaidAt, OwnsAt, MayChargeAt, Paid, Owns, MayCharge, Steps
  <2>5. saga' \in [Orders -> SagaRow]
    BY <1>1, <1>2, <1>5, <2>1 DEF SaveStep, RestTypeOK
  <2>6. pc[r] # "idle"
    BY <2>1 DEF Steps
  <2>. QED
    BY <1>5, <2>3, <2>4, <2>5, <2>6, LocalStep DEF SaveStep
<1>6. ASSUME NEW status \in SagaStatus, NEW at \in {"complete", "fail"}, SaveFinal(r, at, status)
      PROVE  IInv'
  <2>1. pc[r] # "idle" /\ ord[r] \in Orders
    BY <1>1, <1>6, WorksOnAnOrder DEF SaveFinal, At
  <2>2. saga' \in [Orders -> SagaRow]
    BY <1>1, <1>2, <1>6, <2>1 DEF SaveFinal, RestTypeOK, SagaRow
  <2>3. dbErrors <= dbErrors' /\ dbErrors' \in 0 .. MaxDbErrors
    BY <1>1, <1>6, BoundsAssumption DEF SaveFinal, RestTypeOK, faults
  <2>. QED
    BY <1>6, <2>1, <2>2, <2>3, LastStep DEF SaveFinal, faults
<1>7. CASE SaveCompensation(r)
  <2>1. pc[r] \in {"release", "cancel"} /\ ord[r] \in Orders
    BY <1>1, <1>7, WorksOnAnOrder DEF SaveCompensation
  <2>2. saga' \in [Orders -> SagaRow]
    BY <1>1, <1>2, <1>7, <2>1 DEF SaveCompensation, RestTypeOK
  <2>3. CASE pc[r] = "release"
    <3>1. RunsTypeOK' /\ Moves(r, ord[r], "cancel", FALSE)
      BY <1>1, <1>7, <2>3, EnterMoves DEF SaveCompensation, RunsTypeOK, PCs
    <3>2. Fits(r, "cancel", FALSE)
      BY <2>3 DEF Fits, PaidAt, OwnsAt, MayChargeAt
    <3>. QED
      BY <1>7, <2>2, <2>3, <3>1, <3>2, LocalStep DEF SaveCompensation
  <2>4. CASE pc[r] = "cancel"
    <3>1. dbErrors <= dbErrors' /\ dbErrors' \in 0 .. MaxDbErrors
      BY <1>1, <1>7, BoundsAssumption DEF SaveCompensation, RestTypeOK, faults
    <3>. QED
      BY <1>7, <2>2, <2>4, <3>1, LastStep DEF SaveCompensation, faults
  <2>. QED
    BY <2>1, <2>3, <2>4
<1>. QED
  BY <1>3, <1>4, <1>5, <1>6, <1>7 DEF Complete, Fail, SagaStatus

\* The attempts that change neither the ledger nor the charges.
LEMMA AttemptsAreSafe ==
  ASSUME IInv, NEW r \in Runs,
         VerifyStock(r) \/ StepFails(r) \/ ReserveRefused(r) \/ SendNotification(r)
  PROVE  IInv'
<1>1. RunsTypeOK /\ RestTypeOK /\ saga \in [Orders -> SagaRow]
  BY InvSplit DEF RestTypeOK
<1>2. CASE StepFails(r)
  <2>1. pc[r] \in {"verify", "reserve", "pay"} /\ saving[r] = FALSE /\ pc[r] # "idle"
    BY <1>1, <1>2 DEF StepFails, RunsTypeOK
  <2>2. PICK at \in {pc[r], GivenUp(pc[r])} : RunsTypeOK' /\ Moves(r, ord[r], at, FALSE)
    BY <1>1, <1>2, <2>1, RetryMoves DEF StepFails, Steps
  <2>3. Fits(r, at, FALSE)
    BY <2>1, GivenUpAt DEF Fits, PaidAt, OwnsAt, MayChargeAt, Paid, Owns, MayCharge
  <2>. QED
    BY <1>1, <1>2, <2>1, <2>2, <2>3, LocalStep DEF StepFails
<1>3. CASE VerifyStock(r)
  <2>1. pc[r] = "verify" /\ saving[r] = FALSE
    BY <1>1, <1>3 DEF VerifyStock, At, RunsTypeOK
  <2>2. CASE GiveUp(r)
    <3>1. RunsTypeOK' /\ Moves(r, ord[r], "cancel", FALSE)
      BY <1>1, <2>1, <2>2, GiveUpMoves, GivenUpAt DEF Steps
    <3>2. Fits(r, "cancel", FALSE)
      BY <2>1 DEF Fits, PaidAt, OwnsAt, MayChargeAt
    <3>. QED
      BY <1>1, <1>3, <2>1, <3>1, <3>2, LocalStep DEF VerifyStock
  <2>3. CASE NextLine(r, Done(r, "verify"))
    <3>1. PICK s \in BOOLEAN : RunsTypeOK' /\ Moves(r, ord[r], "verify", s)
      BY <1>1, <2>1, <2>3, NextLineMoves, DoneIsARow DEF Steps
    <3>2. Fits(r, "verify", s)
      BY <2>1 DEF Fits, PaidAt, OwnsAt, MayChargeAt
    <3>. QED
      BY <1>1, <1>3, <2>1, <3>1, <3>2, LocalStep DEF VerifyStock
  <2>. QED
    BY <1>3, <2>2, <2>3 DEF VerifyStock
<1>4. CASE ReserveRefused(r)
  <2>1. pc[r] = "reserve"
    BY <1>4 DEF ReserveRefused, At
  <2>2. RunsTypeOK' /\ Moves(r, ord[r], "cancel", FALSE)
    BY <1>1, <1>4, <2>1, GiveUpMoves, GivenUpAt DEF ReserveRefused, Steps
  <2>3. Fits(r, "cancel", FALSE)
    BY <2>1 DEF Fits, PaidAt, OwnsAt, MayChargeAt
  <2>. QED
    BY <1>1, <1>4, <2>1, <2>2, <2>3, LocalStep DEF ReserveRefused
<1>5. CASE SendNotification(r)
  <2>1. pc[r] = "notify"
    BY <1>5 DEF SendNotification, At
  <2>2. RunsTypeOK' /\ Moves(r, ord[r], "notify", TRUE)
    BY <1>1, <1>5, <2>1, ResultMoves, DoneIsARow DEF SendNotification, Steps
  <2>3. Fits(r, "notify", TRUE)
    BY <2>1 DEF Fits, PaidAt, OwnsAt, MayChargeAt, Paid
  <2>. QED
    BY <1>1, <1>5, <2>1, <2>2, <2>3, LocalStep DEF SendNotification
<1>. QED
  BY <1>2, <1>3, <1>4, <1>5

\* A reservation that was made although the client gave up.
LEMMA UnansweredIsSafe ==
  ASSUME IInv, NEW r \in Runs, ReserveUnanswered(r)
  PROVE  IInv'
<1>1. RunsTypeOK /\ RestTypeOK /\ LedgerTypeOK
  BY InvSplit
<1>2. pc[r] = "reserve" /\ saving[r] = FALSE
  BY <1>1 DEF ReserveUnanswered, At, RunsTypeOK
<1>3. ord[r] \in Orders /\ line[r] \in 1 .. Len(Lines[ord[r]])
      /\ Line(r) \in [item : Items, qty : Quantities]
  BY <1>1, <1>2, WorksOnAnOrder
<1>4. LedgerTypeOK' /\ RowsStay
  <2>1. CASE Reserved(r)
    BY <1>1, <1>3, <2>1, ReserveWrites DEF Reserved
  <2>2. CASE UNCHANGED ledger
    BY <1>1, <2>2, LedgerStays
  <2>. QED
    BY <2>1, <2>2 DEF ReserveUnanswered
<1>5. PICK at \in {"reserve", "cancel"} : RunsTypeOK' /\ Moves(r, ord[r], at, FALSE)
  BY <1>1, <1>2, RetryMoves, GivenUpAt DEF ReserveUnanswered, Steps
<1>6. Fits(r, at, FALSE)
  BY <1>2 DEF Fits, PaidAt, OwnsAt, MayChargeAt
<1>7. \A request \in late' :
        \E p \in Orders : \E k \in 1 .. Len(Lines[p]) : request = <<p, k>>
  BY <1>1, <1>3 DEF ReserveUnanswered, RestTypeOK
<1>8. /\ saga' \in [Orders -> SagaRow] /\ job' \in Jobs /\ JobsGoOn
      /\ dbErrors <= dbErrors' /\ dbErrors' \in 0 .. MaxDbErrors /\ lost' \in 0 .. MaxLost
      /\ UNCHANGED <<charges, order>>
  BY <1>1, BoundsAssumption DEF ReserveUnanswered, RestTypeOK, Jobs, JobsGoOn
<1>. QED
  BY <1>2, <1>4, <1>5, <1>6, <1>7, <1>8, QuietStep

\* Releasing what was reserved, and failing to.
LEMMA CompensationsAreSafe ==
  ASSUME IInv, NEW r \in Runs, ReleaseInventory(r) \/ ReleaseFails(r)
  PROVE  IInv'
<1>1. RunsTypeOK /\ RestTypeOK /\ LedgerTypeOK
  BY InvSplit
<1>2. pc[r] = "release"
  BY DEF ReleaseInventory, ReleaseFails, At
<1>3. ord[r] \in Orders
  BY <1>1, <1>2, WorksOnAnOrder
<1>4. [mem[r] EXCEPT !.status = "COMPENSATED"] \in SagaRow
  BY <1>1 DEF RunsTypeOK, SagaRow, SagaStatus
<1>5. RunsTypeOK' /\ Moves(r, ord[r], "release", TRUE)
  BY <1>1, <1>2, <1>4, ResultMoves DEF ReleaseInventory, ReleaseFails
<1>6. LedgerTypeOK' /\ RowsStay
  <2>1. CASE UNCHANGED ledger
    BY <1>1, <2>1, LedgerStays
  <2>2. CASE Inventory!Settle(ord[r], "released") /\ UNCHANGED onHand
    BY <1>1, <1>3, <2>2, SettleWrites
  <2>. QED
    BY <2>1, <2>2 DEF ReleaseInventory, ReleaseFails
<1>7. Fits(r, "release", TRUE)
  BY <1>2 DEF Fits, PaidAt, OwnsAt, MayChargeAt
<1>8. /\ saga' \in [Orders -> SagaRow] /\ job' \in Jobs /\ JobsGoOn
      /\ \A request \in late' :
           \E p \in Orders : \E k \in 1 .. Len(Lines[p]) : request = <<p, k>>
      /\ dbErrors <= dbErrors' /\ dbErrors' \in 0 .. MaxDbErrors /\ lost' \in 0 .. MaxLost
      /\ UNCHANGED <<charges, order>>
  BY <1>1, BoundsAssumption
     DEF ReleaseInventory, ReleaseFails, RestTypeOK, Jobs, JobsGoOn, faults
<1>. QED
  BY <1>2, <1>5, <1>6, <1>7, <1>8, QuietStep

\* A query fails: what was in memory is lost, and a charge that could not be
\* recorded is to be made again.
LEMMA DbErrorIsSafe ==
  ASSUME IInv, NEW r \in Runs, DbError(r)
  PROVE  IInv'
<1>1. RunsTypeOK /\ RestTypeOK /\ LedgerTypeOK
  BY InvSplit
<1>2. /\ dbErrors' = dbErrors + 1 /\ dbErrors <= dbErrors' /\ dbErrors' \in 0 .. MaxDbErrors
      /\ UNCHANGED <<ledger, charges, order, late, lost>>
      /\ saga' \in [Orders -> SagaRow] /\ lost' \in 0 .. MaxLost
      /\ \A request \in late' :
           \E p \in Orders : \E k \in 1 .. Len(Lines[p]) : request = <<p, k>>
  BY <1>1, BoundsAssumption DEF DbError, RestTypeOK
<1>3. ASSUME pc[r] # "idle", job' = job, RunsTypeOK',
             NEW at, NEW s, Moves(r, ord[r], at, s), Fits(r, at, s)
      PROVE  IInv'
  <2>1. LedgerTypeOK' /\ RowsStay
    BY <1>1, <1>2, LedgerStays
  <2>2. job' \in Jobs /\ JobsGoOn
    BY <1>1, <1>3 DEF RestTypeOK, Jobs, JobsGoOn
  <2>. QED
    BY <1>2, <1>3, <2>1, <2>2, QuietStep
<1>4. CASE /\ (pc[r] \in Steps /\ saving[r]) \/ At(r, "confirm")
           /\ Retry(r) /\ UNCHANGED job
  <2>1. pc[r] \in Steps /\ pc[r] # "idle"
    BY <1>4 DEF At, Steps
  <2>2. PICK at \in {pc[r], GivenUp(pc[r])} : RunsTypeOK' /\ Moves(r, ord[r], at, FALSE)
    BY <1>1, <1>4, <2>1, RetryMoves
  <2>3. Fits(r, at, FALSE)
    BY <1>2, <1>4, <2>1, GivenUpAt
       DEF Fits, PaidAt, OwnsAt, MayChargeAt, Paid, Owns, MayCharge, Steps, At
  <2>. QED
    BY <1>3, <1>4, <2>1, <2>2, <2>3
<1>5. CASE /\ \E at \in {"start", "mark_paid", "complete"} : At(r, at)
           /\ Enter(r, "fail") /\ UNCHANGED <<mem, job>>
  <2>1. pc[r] \in {"start", "mark_paid", "complete"}
    BY <1>5 DEF At
  <2>2. RunsTypeOK' /\ Moves(r, ord[r], "fail", FALSE)
    BY <1>1, <1>5, <2>1, EnterMoves DEF RunsTypeOK, PCs
  <2>3. Fits(r, "fail", FALSE)
    BY <2>1 DEF Fits, PaidAt, OwnsAt, MayChargeAt
  <2>. QED
    BY <1>3, <1>5, <2>1, <2>2, <2>3
<1>6. CASE /\ pc[r] = "release" /\ saving[r]
           /\ Enter(r, "cancel") /\ UNCHANGED <<mem, job>>
  <2>1. RunsTypeOK' /\ Moves(r, ord[r], "cancel", FALSE)
    BY <1>1, <1>6, EnterMoves DEF RunsTypeOK, PCs
  <2>2. Fits(r, "cancel", FALSE)
    BY <1>6 DEF Fits, PaidAt, OwnsAt, MayChargeAt
  <2>. QED
    BY <1>3, <1>6, <2>1, <2>2
<1>7. CASE pc[r] \in {"cancel", "fail"} /\ End(r)
  BY <1>2, <1>7, LastStep
<1>. QED
  BY <1>4, <1>5, <1>6, <1>7 DEF DbError

\* A worker that dies leaves the tables as they are.
LEMMA CrashIsSafe ==
  ASSUME IInv, NEW r \in Runs, Crash(r)
  PROVE  IInv'
<1>1. RunsTypeOK /\ RestTypeOK /\ LedgerTypeOK
  BY InvSplit
<1>2. RunsTypeOK' /\ Moves(r, None, "idle", FALSE)
  BY <1>1, RunIsOver DEF Crash
<1>3. LedgerTypeOK' /\ RowsStay
  BY <1>1, LedgerStays DEF Crash
<1>4. /\ saga' \in [Orders -> SagaRow] /\ job' \in Jobs /\ JobsGoOn
      /\ \A request \in late' :
           \E p \in Orders : \E k \in 1 .. Len(Lines[p]) : request = <<p, k>>
      /\ dbErrors <= dbErrors' /\ dbErrors' \in 0 .. MaxDbErrors /\ lost' \in 0 .. MaxLost
      /\ UNCHANGED <<charges, order>> /\ pc[r] # "idle"
  BY <1>1, BoundsAssumption DEF Crash, RestTypeOK, Jobs, JobsGoOn, faults
<1>. QED
  BY <1>2, <1>3, <1>4, QuietStep

-----------------------------------------------------------------------------
(* The steps that move no run.                                              *)

\* What happens beside the runs: the ledger, the jobs, late requests.
LEMMA StandStill ==
  ASSUME IInv, UNCHANGED <<run, charges, order, saga, dbErrors, lost>>,
         LedgerTypeOK', RowsStay, job' \in Jobs, JobsGoOn,
         \A request \in late' :
           \E p \in Orders : \E k \in 1 .. Len(Lines[p]) : request = <<p, k>>
  PROVE  IInv'
<1>1. RunsTypeOK /\ RestTypeOK
  BY InvSplit
<1>2. RunsTypeOK'
  BY <1>1 DEF run, RunsTypeOK, Working
<1>3. RestTypeOK' /\ dbErrors <= dbErrors'
  BY <1>1, BoundsAssumption DEF RestTypeOK, Jobs
<1>4. TypeOK' /\ Working'
  BY <1>2, <1>3, TypesSplitNext
<1>. QED
  BY <1>3, <1>4, NoMove DEF IInv, run

\* A request that is served after its caller has gone on.
LEMMA LateReserveIsSafe ==
  ASSUME IInv, NEW request \in late, LateReserve(request[1], request[2])
  PROVE  IInv'
<1>1. RestTypeOK /\ LedgerTypeOK
  BY InvSplit
<1>2. PICK o \in Orders : \E k \in 1 .. Len(Lines[o]) : request = <<o, k>>
  BY <1>1 DEF RestTypeOK
<1>3. PICK k \in 1 .. Len(Lines[o]) : request = <<o, k>>
  BY <1>2
<1>4. Lines[o][k] \in [item : Items, qty : Quantities] /\ LateReserve(o, k)
  BY <1>3, LinesAreLines
<1>5. LedgerTypeOK' /\ RowsStay
  <2>1. CASE Inventory!Reserve(o, Lines[o][k].item, Lines[o][k].qty)
    BY <1>1, <1>4, <2>1, ReserveWrites
  <2>2. CASE UNCHANGED ledger
    BY <1>1, <2>2, LedgerStays
  <2>. QED
    BY <1>4, <2>1, <2>2 DEF LateReserve
<1>6. /\ job' \in Jobs /\ JobsGoOn
      /\ \A late2 \in late' :
           \E p \in Orders : \E j \in 1 .. Len(Lines[p]) : late2 = <<p, j>>
  BY <1>1, <1>4 DEF LateReserve, RestTypeOK, Jobs, JobsGoOn
<1>. QED
  BY <1>4, <1>5, <1>6, StandStill DEF LateReserve

\* The sweep takes a reservation back.
LEMMA ExpiryIsSafe ==
  ASSUME IInv, NEW o \in Orders, ExpireReservation(o)
  PROVE  IInv'
<1>1. RestTypeOK /\ LedgerTypeOK
  BY InvSplit
<1>2. LedgerTypeOK' /\ RowsStay
  BY <1>1, GiveBackWrites DEF ExpireReservation
<1>3. /\ job' \in Jobs /\ JobsGoOn
      /\ \A late2 \in late' :
           \E p \in Orders : \E j \in 1 .. Len(Lines[p]) : late2 = <<p, j>>
  BY <1>1 DEF ExpireReservation, RestTypeOK, Jobs, JobsGoOn, faults
<1>. QED
  BY <1>2, <1>3, StandStill DEF ExpireReservation, faults

\* A job whose lock was lost waits again, or fails for good.
LEMMA StallIsSafe ==
  ASSUME IInv, NEW o \in Orders, Stall(o)
  PROVE  IInv'
<1>1. RestTypeOK /\ LedgerTypeOK /\ job \in Jobs
  BY InvSplit DEF RestTypeOK, Jobs
<1>2. LedgerTypeOK' /\ RowsStay
  BY <1>1, LedgerStays DEF Stall
<1>. DEFINE again == Job("waiting", None, job[o].stalls + 1, job[o].timeouts)
            over == Job("failed", None, job[o].stalls, job[o].timeouts)
<1>3. job[o] \in JobRow
  BY <1>1 DEF Jobs
<1>4. /\ job[o].stalls < MaxStalled => again \in JobRow /\ ~DeliveredOnce(again)
      /\ over \in JobRow /\ over.state = "failed"
      /\ DeliveredOnce(over) => DeliveredOnce(job[o])
  <2>1. "waiting" \in JobState /\ "failed" \in JobState /\ over.state = "failed"
    BY DEF JobState, Job
  <2>. QED
    BY <1>3, <2>1, RowsOfJobs
<1>5. \/ job[o].stalls < MaxStalled /\ job' = [job EXCEPT ![o] = again]
      \/ job' = [job EXCEPT ![o] = over]
  BY DEF Stall
<1>6. job' \in Jobs /\ JobsGoOn
  <2>. HIDE DEF again, over
  <2>. QED
    BY <1>1, <1>4, <1>5, OneJobGoesOn
<1>7. \A late2 \in late' :
        \E p \in Orders : \E k \in 1 .. Len(Lines[p]) : late2 = <<p, k>>
  BY <1>1 DEF Stall, RestTypeOK, faults
<1>. QED
  BY <1>2, <1>6, <1>7, StandStill DEF Stall, faults

\* A job that ran out of time waits again, or fails for good.
LEMMA TimeOutIsSafe ==
  ASSUME IInv, NEW o \in Orders, TimeOut(o)
  PROVE  IInv'
<1>1. RestTypeOK /\ LedgerTypeOK /\ job \in Jobs
  BY InvSplit DEF RestTypeOK, Jobs
<1>2. LedgerTypeOK' /\ RowsStay
  BY <1>1, LedgerStays DEF TimeOut
<1>. DEFINE state == IF job[o].timeouts + 1 < Attempts THEN "waiting" ELSE "failed"
            j == Job(state, None, job[o].stalls, job[o].timeouts + 1)
<1>3. job[o] \in JobRow /\ state \in JobState
  BY <1>1 DEF Jobs, JobState
<1>4. job' = [job EXCEPT ![o] = j]
  BY DEF TimeOut
<1>5. j \in JobRow /\ ~DeliveredOnce(j)
  <2>. HIDE DEF state
  <2>. QED
    BY <1>3, RowsOfJobs
<1>6. job' \in Jobs /\ JobsGoOn
  <2>. HIDE DEF j
  <2>. QED
    BY <1>1, <1>4, <1>5, OneJobGoesOn
<1>7. \A late2 \in late' :
        \E p \in Orders : \E k \in 1 .. Len(Lines[p]) : late2 = <<p, k>>
  BY <1>1 DEF TimeOut, RestTypeOK, faults
<1>. QED
  BY <1>2, <1>6, <1>7, StandStill DEF TimeOut, faults

\* A worker whose query for the saga of its job fails: the job counts as done.
LEMMA TakeFailsIsSafe ==
  ASSUME IInv, NEW o \in Orders, TakeFails(o)
  PROVE  IInv'
<1>1. RunsTypeOK /\ RestTypeOK /\ LedgerTypeOK /\ job \in Jobs
  BY InvSplit DEF RestTypeOK, Jobs
<1>2. LedgerTypeOK' /\ RowsStay
  BY <1>1, LedgerStays DEF TakeFails
<1>. DEFINE done == Job("done", None, job[o].stalls, job[o].timeouts)
<1>3. done \in JobRow /\ done.state = "done" /\ (DeliveredOnce(done) => DeliveredOnce(job[o]))
  BY <1>1, RowsOfJobs DEF Jobs, JobState, Job
<1>4. job' = [job EXCEPT ![o] = done]
  BY DEF TakeFails
<1>5. job' \in Jobs /\ JobsGoOn
  <2>. HIDE DEF done
  <2>. QED
    BY <1>1, <1>3, <1>4, OneJobGoesOn
<1>6. RunsTypeOK'
  BY <1>1 DEF TakeFails, run, RunsTypeOK, Working
<1>7. RestTypeOK' /\ dbErrors <= dbErrors'
  BY <1>1, <1>2, <1>5, BoundsAssumption DEF TakeFails, RestTypeOK, Jobs
<1>8. TypeOK' /\ Working'
  BY <1>6, <1>7, TypesSplitNext
<1>. QED
  BY <1>2, <1>5, <1>7, <1>8, NoMove DEF IInv, run, TakeFails

-----------------------------------------------------------------------------
(* The five steps that matter.                                              *)

\* The job is taken: the order is pending if it is for the first time.
LEMMA TakeIsSafe ==
  ASSUME IInv, NEW r \in Runs, NEW o \in Orders, Take(r, o)
  PROVE  IInv'
<1>1. RunsTypeOK /\ RestTypeOK /\ LedgerTypeOK /\ job \in Jobs
  BY InvSplit DEF RestTypeOK, Jobs
<1>. DEFINE taken == Job("active", r, job[o].stalls, job[o].timeouts)
<1>2. taken \in JobRow /\ taken.state = "active" /\ (DeliveredOnce(taken) => DeliveredOnce(job[o]))
  BY <1>1, RowsOfJobs DEF Jobs, JobState, Job
<1>. HIDE DEF taken
<1>3. job' \in Jobs /\ \A p \in Orders : job'[p] = IF p = o THEN taken ELSE job[p]
  BY <1>1, <1>2, OneJobChanges DEF Take, taken
<1>4. ord[r] = None /\ pc[r] = "idle" /\ o # None /\ job[o].state = "waiting"
  BY <1>1, NoneAssumption DEF Take, RunsTypeOK, Working
<1>5. /\ \A d \in Runs : ord'[d] = IF d = r THEN o ELSE ord[d]
      /\ \A d \in Runs : pc'[d] = IF d = r THEN "start" ELSE pc[d]
      /\ UNCHANGED <<saving, tries, line, ledger, charges, order, saga, faults>>
  BY <1>1 DEF Take, RunsTypeOK
<1>6. RunsTypeOK'
  <2>1. [saga[o] EXCEPT !.status = "RUNNING"] \in SagaRow
    BY <1>1 DEF RestTypeOK, SagaRow, SagaStatus
  <2>2. /\ ord' \in [Runs -> Orders \cup {None}] /\ pc' \in [Runs -> PCs]
        /\ mem' \in [Runs -> SagaRow]
    BY <1>1, <2>1 DEF Take, RunsTypeOK, PCs
  <2>3. \A d \in Runs : line'[d] \in 1 .. (IF ord'[d] = None THEN 1 ELSE Len(Lines[ord'[d]]))
    <3>1. line[r] \in 1 .. Len(Lines[o])
      BY <1>1, <1>4, LinesAreLines DEF RunsTypeOK
    <3>. QED
      BY <1>1, <1>4, <1>5, <3>1 DEF RunsTypeOK
  <2>4. Working'
    BY <1>1, <1>4, <1>5 DEF RunsTypeOK, Working
  <2>. QED
    BY <1>1, <1>5, <2>2, <2>3, <2>4 DEF RunsTypeOK
<1>7. RestTypeOK'
  BY <1>1, <1>3, <1>5, LedgerStays DEF RestTypeOK, Jobs, faults
<1>8. TypeOK' /\ Working'
  BY <1>6, <1>7, TypesSplitNext
<1>9. \A d \in Runs : /\ Paid(d)' => Paid(d) /\ d # r
                      /\ Owns(d)' => Owns(d) /\ d # r
                      /\ MayCharge(d)' => MayCharge(d) /\ d # r
  BY <1>5 DEF Paid, Owns, MayCharge, PaidAt, OwnsAt, MayChargeAt
<1>10. PaidRuns' /\ ConfirmedWasPaid' /\ OneOwner' /\ ChargesLeft' /\ AtMostOneCharge'
  <2>1. rows' = rows /\ charges' = charges /\ order' = order /\ dbErrors' = dbErrors
    BY <1>5 DEF ledger, faults
  <2>2. PaidRuns' /\ ConfirmedWasPaid'
    BY <1>5, <1>9, <2>1 DEF IInv, Safety, PaidRuns, ConfirmedWasPaid
  <2>3. OneOwner'
    BY <1>5, <1>9, <2>1 DEF IInv, Safety, OneOwner
  <2>4. ChargesLeft' /\ AtMostOneCharge'
    BY <1>5, <1>9, <2>1 DEF IInv, Safety, ChargesLeft, AtMostOneCharge
  <2>. QED
    BY <2>2, <2>3, <2>4
<1>11. Once'
  <2>. SUFFICES ASSUME NEW p \in Orders, DeliveredOnce(job'[p])
                PROVE  /\ \A d, q \in Runs : ord'[d] = p /\ ord'[q] = p => d = q
                       /\ job'[p].state = "waiting" =>
                            order'[p] = "PENDING" /\ \A d \in Runs : ord'[d] # p
                       /\ \A d \in Runs : ord'[d] = p =>
                            /\ order'[p] = "CONFIRMED" => pc'[d] \in {"confirm", "complete", "fail"}
                            /\ order'[p] = "CANCELLED" => pc'[d] = "cancel"
    BY DEF Once
  <2>1. CASE p = o
    <3>1. order'[p] = "PENDING" /\ \A d \in Runs : ord'[d] = p => d = r
      BY <1>2, <1>3, <1>4, <1>5, <2>1 DEF IInv, Safety, Once
    <3>. QED
      BY <1>2, <1>3, <2>1, <3>1
  <2>2. CASE p # o
    BY <1>3, <1>5, <2>2 DEF IInv, Safety, Once
  <2>. QED
    BY <2>1, <2>2
<1>. QED
  BY <1>8, <1>10, <1>11 DEF IInv, Safety

\* The order had no row, so it was not charged and no run owned it.
LEMMA ReserveIsSafe ==
  ASSUME IInv, NEW r \in Runs, ReserveInventory(r)
  PROVE  IInv'
<1>1. RunsTypeOK /\ RestTypeOK /\ LedgerTypeOK
  BY InvSplit
<1>2. pc[r] = "reserve" /\ saving[r] = FALSE
  BY <1>1 DEF ReserveInventory, At, RunsTypeOK
<1>3. ord[r] \in Orders /\ Line(r) \in [item : Items, qty : Quantities]
  BY <1>1, <1>2, WorksOnAnOrder
<1>4. /\ LedgerTypeOK' /\ RowsStay
      /\ rows[ord[r]] = Inventory!NoRow /\ rows'[ord[r]] # Inventory!NoRow
  BY <1>1, <1>3, ReserveWrites DEF ReserveInventory, Reserved
<1>5. PICK s \in BOOLEAN : RunsTypeOK' /\ Moves(r, ord[r], "reserve", s)
  BY <1>1, <1>2, NextLineMoves, DoneIsARow DEF ReserveInventory, Steps
<1>6. /\ job' \in Jobs /\ JobsGoOn /\ saga' \in [Orders -> SagaRow]
      /\ \A request \in late' :
           \E p \in Orders : \E k \in 1 .. Len(Lines[p]) : request = <<p, k>>
      /\ dbErrors' = dbErrors /\ dbErrors <= dbErrors'
      /\ dbErrors' \in 0 .. MaxDbErrors /\ lost' \in 0 .. MaxLost
      /\ UNCHANGED <<charges, order, job>>
  BY <1>1, BoundsAssumption DEF ReserveInventory, RestTypeOK, Jobs, JobsGoOn, faults
<1>7. CASE s = FALSE
  <2>1. Fits(r, "reserve", s)
    BY <1>2, <1>7 DEF Fits, PaidAt, OwnsAt, MayChargeAt
  <2>. QED
    BY <1>2, <1>4, <1>5, <1>6, <2>1, QuietStep
<1>8. CASE s = TRUE
  <2>1. TypeOK' /\ Working'
    <3>1. RestTypeOK'
      BY <1>1, <1>4, <1>6 DEF RestTypeOK, Jobs, ReserveInventory
    <3>. QED
      BY <1>5, <3>1, TypesSplitNext
  <2>2. \A d \in Runs : ord'[d] = ord[d]
    BY <1>5 DEF Moves
  <2>3. /\ \A d \in Runs : Paid(d)' => Paid(d)
        /\ \A d \in Runs : Owns(d)' => Owns(d) \/ d = r
        /\ \A d \in Runs : MayCharge(d)' => MayCharge(d) \/ d = r
    BY <1>5 DEF Moves, Paid, Owns, MayCharge, PaidAt
  <2>4. charges[ord[r]] = 0 /\ \A d \in Runs : ord[d] = ord[r] => ~Owns(d)
    BY <1>3, <1>4 DEF IInv, Safety, OneOwner, ChargesLeft
  <2>5. PaidRuns' /\ ConfirmedWasPaid' /\ AtMostOneCharge'
    BY <1>6, <2>2, <2>3 DEF IInv, Safety, PaidRuns, ConfirmedWasPaid, AtMostOneCharge
  <2>6. OneOwner'
    <3>1. \A d \in Runs : Owns(d) => ord[d] \in Orders
      BY <1>1, NoneAssumption DEF Owns, OwnsAt, RunsTypeOK, Working
    <3>2. \A d \in Runs : Owns(d)' => rows'[ord'[d]] # Inventory!NoRow
      BY <1>4, <2>2, <2>3, <3>1 DEF IInv, Safety, OneOwner, RowsStay
    <3>3. \A d, q \in Runs : Owns(d)' /\ Owns(q)' /\ ord'[d] = ord'[q] => d = q
      BY <2>2, <2>3, <2>4 DEF IInv, Safety, OneOwner
    <3>. QED
      BY <3>2, <3>3 DEF OneOwner
  <2>7. ChargesLeft'
    <3>1. \A d \in Runs : MayCharge(d)' => charges[ord[d]] <= dbErrors
      BY <1>1, <2>3, <2>4, BoundsAssumption DEF IInv, Safety, ChargesLeft, RestTypeOK
    <3>2. \A p \in Orders : rows'[p] = Inventory!NoRow => charges[p] = 0
      BY <1>4 DEF IInv, Safety, ChargesLeft, RowsStay
    <3>. QED
      BY <1>6, <2>2, <3>1, <3>2 DEF ChargesLeft
  <2>8. Once'
    <3>1. \A d \in Runs : pc'[d] = pc[d]
      BY <1>2, <1>5 DEF Moves
    <3>. QED
      BY <1>6, <2>2, <3>1 DEF IInv, Safety, Once
  <2>. QED
    BY <2>1, <2>5, <2>6, <2>7, <2>8 DEF IInv, Safety
<1>. QED
  BY <1>7, <1>8

\* The run that charges is the only one of its order that may.
LEMMA PaymentIsSafe ==
  ASSUME IInv, NEW r \in Runs, ProcessPayment(r)
  PROVE  IInv'
<1>1. RunsTypeOK /\ RestTypeOK /\ LedgerTypeOK
  BY InvSplit
<1>2. pc[r] = "pay" /\ saving[r] = FALSE
  BY <1>1 DEF ProcessPayment, At, RunsTypeOK
<1>3. ord[r] \in Orders
  BY <1>1, <1>2, WorksOnAnOrder
<1>4. RunsTypeOK' /\ Moves(r, ord[r], "pay", TRUE)
  BY <1>1, <1>2, ResultMoves, DoneIsARow DEF ProcessPayment, Steps
<1>5. /\ charges' \in [Orders -> Nat]
      /\ \A p \in Orders : charges'[p] = IF p = ord[r] THEN charges[p] + 1 ELSE charges[p]
      /\ charges \in [Orders -> Nat] /\ dbErrors \in Nat
  BY <1>1, <1>3, BoundsAssumption DEF ProcessPayment, RestTypeOK
<1>6. UNCHANGED <<rows, order, job, dbErrors>> /\ \A d \in Runs : ord'[d] = ord[d] /\ pc'[d] = pc[d]
  BY <1>2, <1>4 DEF ProcessPayment, Moves, ledger, faults
<1>7. TypeOK' /\ Working'
  <2>1. RestTypeOK'
    BY <1>1, <1>5, LedgerStays DEF ProcessPayment, RestTypeOK, faults
  <2>. QED
    BY <1>4, <2>1, TypesSplitNext
<1>8. /\ \A d \in Runs : Paid(d)' => Paid(d) \/ d = r
      /\ \A d \in Runs : Owns(d)' => Owns(d)
      /\ \A d \in Runs : MayCharge(d)' => MayCharge(d) /\ d # r
      /\ Owns(r) /\ MayCharge(r)
  BY <1>2, <1>4 DEF Moves, Paid, Owns, MayCharge, OwnsAt, MayChargeAt
<1>9. \A d \in Runs : Paid(d) \/ MayCharge(d) => ord[d] \in Orders
  BY <1>1, NoneAssumption DEF Paid, PaidAt, MayCharge, MayChargeAt, RunsTypeOK, Working
<1>10. PaidRuns' /\ ConfirmedWasPaid'
  BY <1>3, <1>5, <1>6, <1>8, <1>9 DEF IInv, Safety, PaidRuns, ConfirmedWasPaid
<1>11. OneOwner'
  BY <1>6, <1>8 DEF IInv, Safety, OneOwner
<1>12. charges[ord[r]] <= dbErrors /\ rows[ord[r]] # Inventory!NoRow
  BY <1>8 DEF IInv, Safety, ChargesLeft, OneOwner
<1>13. ChargesLeft'
  <2>1. \A d \in Runs : MayCharge(d)' => ord[d] # ord[r]
    BY <1>8 DEF IInv, Safety, OneOwner, MayCharge, MayChargeAt, Owns, OwnsAt
  <2>2. \A d \in Runs : MayCharge(d)' => charges'[ord'[d]] <= dbErrors'
    BY <1>5, <1>6, <1>8, <1>9, <2>1 DEF IInv, Safety, ChargesLeft
  <2>3. \A p \in Orders : rows'[p] = Inventory!NoRow => charges'[p] = 0
    BY <1>5, <1>6, <1>12 DEF IInv, Safety, ChargesLeft
  <2>. QED
    BY <2>2, <2>3 DEF ChargesLeft
<1>14. AtMostOneCharge'
  BY <1>5, <1>6, <1>12 DEF IInv, Safety, AtMostOneCharge
<1>15. Once'
  BY <1>6 DEF IInv, Safety, Once
<1>. QED
  BY <1>7, <1>10, <1>11, <1>13, <1>14, <1>15 DEF IInv, Safety

\* An outcome is written: confirmed after a charge, and no other outcome was
\* there unless the job was delivered again.
LEMMA OutcomeIsSafe ==
  ASSUME IInv, NEW r \in Runs, ConfirmOrder(r) \/ CancelOrder(r)
  PROVE  /\ IInv'
         /\ \A o \in Orders : order[o] # "PENDING" /\ order'[o] # order[o] => ~DeliveredOnce(job[o])
<1>1. RunsTypeOK /\ RestTypeOK /\ LedgerTypeOK
  BY InvSplit
<1>2. PICK at \in {"confirm", "cancel"}, status \in {"CONFIRMED", "CANCELLED"} :
        /\ at = "confirm" <=> status = "CONFIRMED"
        /\ pc[r] = at /\ saving[r] = FALSE
        /\ order' = [order EXCEPT ![ord[r]] = status]
        /\ RunsTypeOK' /\ Moves(r, ord[r], at, TRUE)
  <2>1. CASE ConfirmOrder(r)
    <3>1. pc[r] = "confirm" /\ saving[r] = FALSE
      BY <1>1, <2>1 DEF ConfirmOrder, At, RunsTypeOK
    <3>2. RunsTypeOK' /\ Moves(r, ord[r], "confirm", TRUE)
      BY <1>1, <2>1, <3>1, ResultMoves, DoneIsARow DEF ConfirmOrder, Steps
    <3>. QED
      BY <2>1, <3>1, <3>2 DEF ConfirmOrder
  <2>2. CASE CancelOrder(r)
    <3>1. pc[r] = "cancel" /\ saving[r] = FALSE
      BY <1>1, <2>2 DEF CancelOrder, At, RunsTypeOK
    <3>2. [mem[r] EXCEPT !.status = "COMPENSATED"] \in SagaRow
      BY <1>1 DEF RunsTypeOK, SagaRow, SagaStatus
    <3>3. RunsTypeOK' /\ Moves(r, ord[r], "cancel", TRUE)
      BY <1>1, <2>2, <3>1, <3>2, ResultMoves DEF CancelOrder
    <3>. QED
      BY <2>2, <3>1, <3>3 DEF CancelOrder
  <2>. QED
    BY <2>1, <2>2
<1>3. ord[r] \in Orders
  BY <1>1, <1>2, WorksOnAnOrder
<1>4. /\ order' \in [Orders -> OrderStatus]
      /\ \A p \in Orders : order'[p] = IF p = ord[r] THEN status ELSE order[p]
  BY <1>1, <1>2, <1>3 DEF RestTypeOK, OrderStatus
<1>5. /\ UNCHANGED <<ledger, charges, job, saga, faults>>
      /\ \A d \in Runs : ord'[d] = ord[d] /\ pc'[d] = pc[d]
  BY <1>2 DEF ConfirmOrder, CancelOrder, Moves
<1>6. TypeOK' /\ Working'
  <2>1. RestTypeOK'
    BY <1>1, <1>4, <1>5, LedgerStays DEF RestTypeOK, faults
  <2>. QED
    BY <1>2, <2>1, TypesSplitNext
<1>7. \A d \in Runs : /\ Paid(d)' <=> Paid(d)
                      /\ Owns(d)' <=> Owns(d)
                      /\ MayCharge(d)' <=> MayCharge(d)
  BY <1>2 DEF Moves, Paid, Owns, MayCharge, PaidAt, OwnsAt, MayChargeAt
<1>8. PaidRuns' /\ OneOwner' /\ ChargesLeft' /\ AtMostOneCharge'
  <2>1. rows' = rows /\ charges' = charges /\ dbErrors' = dbErrors
    BY <1>5 DEF ledger, faults
  <2>2. PaidRuns' /\ OneOwner'
    BY <1>5, <1>7, <2>1 DEF IInv, Safety, PaidRuns, OneOwner
  <2>3. ChargesLeft' /\ AtMostOneCharge'
    BY <1>5, <1>7, <2>1 DEF IInv, Safety, ChargesLeft, AtMostOneCharge
  <2>. QED
    BY <2>2, <2>3
<1>9. ConfirmedWasPaid'
  <2>1. status = "CONFIRMED" => charges[ord[r]] > 0
    BY <1>2 DEF IInv, Safety, PaidRuns, Paid, PaidAt
  <2>. QED
    BY <1>4, <1>5, <2>1 DEF IInv, Safety, ConfirmedWasPaid
<1>10. DeliveredOnce(job[ord[r]]) =>
         /\ order[ord[r]] \in {"PENDING", status}
         /\ job[ord[r]].state # "waiting"
         /\ \A d \in Runs : ord[d] = ord[r] => d = r
  <2>. SUFFICES ASSUME DeliveredOnce(job[ord[r]])
                PROVE  /\ order[ord[r]] \in {"PENDING", status}
                       /\ job[ord[r]].state # "waiting"
                       /\ \A d \in Runs : ord[d] = ord[r] => d = r
    OBVIOUS
  <2>1. /\ \A d \in Runs : ord[d] = ord[r] => d = r
        /\ job[ord[r]].state = "waiting" => \A d \in Runs : ord[d] # ord[r]
        /\ order[ord[r]] = "CONFIRMED" => pc[r] \in {"confirm", "complete", "fail"}
        /\ order[ord[r]] = "CANCELLED" => pc[r] = "cancel"
    BY <1>3 DEF IInv, Safety, Once
  <2>2. order[ord[r]] \in {"PENDING", "CONFIRMED", "CANCELLED"}
    BY <1>1, <1>3 DEF RestTypeOK, OrderStatus
  <2>3. order[ord[r]] \in {"PENDING", status}
    BY <1>2, <2>1, <2>2
  <2>. QED
    BY <2>1, <2>3
<1>11. Once'
  <2>. SUFFICES ASSUME NEW p \in Orders, DeliveredOnce(job[p])
                PROVE  /\ \A d, q \in Runs : ord[d] = p /\ ord[q] = p => d = q
                       /\ job[p].state = "waiting" =>
                            order'[p] = "PENDING" /\ \A d \in Runs : ord[d] # p
                       /\ \A d \in Runs : ord[d] = p =>
                            /\ order'[p] = "CONFIRMED" => pc[d] \in {"confirm", "complete", "fail"}
                            /\ order'[p] = "CANCELLED" => pc[d] = "cancel"
    BY <1>5 DEF Once
  <2>1. CASE p = ord[r]
    BY <1>2, <1>4, <1>10, <2>1
  <2>2. CASE p # ord[r]
    BY <1>4, <2>2 DEF IInv, Safety, Once
  <2>. QED
    BY <2>1, <2>2
<1>12. \A o \in Orders : order[o] # "PENDING" /\ order'[o] # order[o] => ~DeliveredOnce(job[o])
  BY <1>4, <1>10
<1>. QED
  BY <1>6, <1>8, <1>9, <1>11, <1>12 DEF IInv, Safety

-----------------------------------------------------------------------------
\* The invariant holds to begin with.
LEMMA Initially == Init => IInv
<1>. SUFFICES ASSUME Init PROVE IInv
  OBVIOUS
<1>1. NewSaga \in SagaRow
  BY DEF NewSaga, SagaRow, SagaStatus, SagaStep
<1>2. TypeOK
  <2>1. LedgerTypeOK
    BY StockAssumption DEF Init, Inventory!Init, LedgerTypeOK
  <2>2. job \in Jobs
    BY BoundsAssumption DEF Init, Job, JobRow, Jobs, JobState
  <2>3. /\ charges \in [Orders -> Nat] /\ order \in [Orders -> OrderStatus]
        /\ saga \in [Orders -> SagaRow] /\ mem \in [Runs -> SagaRow]
        /\ ord \in [Runs -> Orders \cup {None}] /\ pc \in [Runs -> PCs]
        /\ saving \in [Runs -> BOOLEAN] /\ tries \in [Runs -> 0 .. MaxRetries]
        /\ line \in [Runs -> Nat]
        /\ dbErrors \in 0 .. MaxDbErrors /\ lost \in 0 .. MaxLost /\ late = {}
    BY <1>1, BoundsAssumption DEF Init, OrderStatus, PCs
  <2>4. \A r \in Runs : line[r] = 1 /\ ord[r] = None
    BY DEF Init
  <2>. QED
    BY <2>1, <2>2, <2>3, <2>4 DEF LedgerTypeOK, Jobs, TypeOK
<1>3. Working
  BY DEF Init, Working
<1>4. \A r \in Runs : ~Paid(r) /\ ~Owns(r) /\ ~MayCharge(r)
  BY DEF Init, Paid, PaidAt, Owns, OwnsAt, MayCharge, MayChargeAt
<1>5. PaidRuns /\ ConfirmedWasPaid /\ OneOwner
  BY <1>4 DEF Init, PaidRuns, ConfirmedWasPaid, OneOwner
<1>6. ChargesLeft /\ AtMostOneCharge
  BY <1>4 DEF Init, ChargesLeft, AtMostOneCharge
<1>7. Once
  BY NoneAssumption DEF Init, Once
<1>. QED
  BY <1>2, <1>3, <1>5, <1>6, <1>7 DEF IInv, Safety

\* Every step keeps the invariant, and changes an outcome only when the job
\* was delivered again.
LEMMA StepIsSafe ==
  ASSUME IInv, [Next]_vars
  PROVE  /\ IInv'
         /\ \A o \in Orders : order[o] # "PENDING" /\ order'[o] # order[o] => ~DeliveredOnce(job[o])
<1>1. CASE \E r \in Runs : Step(r)
  <2>1. PICK r \in Runs : Step(r)
    BY <1>1
  <2>2. CASE SaveRunning(r) \/ MarkPaid(r) \/ SaveStep(r) \/ Complete(r) \/ Fail(r)
             \/ SaveCompensation(r)
    <3>1. order' = order
      BY <2>2 DEF SaveRunning, MarkPaid, Save, SaveStep, Complete, Fail, SaveFinal,
                  SaveCompensation
    <3>. QED
      BY <2>2, <3>1, SavesAreSafe
  <2>3. CASE VerifyStock(r) \/ StepFails(r) \/ ReserveRefused(r) \/ SendNotification(r)
    <3>1. order' = order
      BY <2>3 DEF VerifyStock, StepFails, ReserveRefused, SendNotification
    <3>. QED
      BY <2>3, <3>1, AttemptsAreSafe
  <2>4. CASE ReserveUnanswered(r) \/ ReserveInventory(r) \/ ProcessPayment(r)
    <3>1. order' = order
      BY <2>4 DEF ReserveUnanswered, ReserveInventory, ProcessPayment
    <3>. QED
      BY <2>4, <3>1, UnansweredIsSafe, ReserveIsSafe, PaymentIsSafe
  <2>5. CASE ReleaseInventory(r) \/ ReleaseFails(r)
    <3>1. order' = order
      BY <2>5 DEF ReleaseInventory, ReleaseFails
    <3>. QED
      BY <2>5, <3>1, CompensationsAreSafe
  <2>6. CASE ConfirmOrder(r) \/ CancelOrder(r)
    BY <2>6, OutcomeIsSafe
  <2>. QED
    BY <2>1, <2>2, <2>3, <2>4, <2>5, <2>6 DEF Step
<1>2. CASE \E r \in Runs : DbError(r) \/ Crash(r)
  <2>1. order' = order
    BY <1>2 DEF DbError, Crash
  <2>. QED
    BY <1>2, <2>1, DbErrorIsSafe, CrashIsSafe
<1>3. CASE \E r \in Runs, o \in Orders : Take(r, o)
  <2>1. order' = order
    BY <1>3 DEF Take
  <2>. QED
    BY <1>3, <2>1, TakeIsSafe
<1>4. CASE \E o \in Orders : Stall(o) \/ TimeOut(o) \/ TakeFails(o) \/ ExpireReservation(o)
  <2>1. order' = order
    BY <1>4 DEF Stall, TimeOut, TakeFails, ExpireReservation
  <2>. QED
    BY <1>4, <2>1, StallIsSafe, TimeOutIsSafe, TakeFailsIsSafe, ExpiryIsSafe
<1>5. CASE \E request \in late : LateReserve(request[1], request[2])
  <2>1. order' = order
    BY <1>5 DEF LateReserve
  <2>. QED
    BY <1>5, <2>1, LateReserveIsSafe
<1>6. CASE UNCHANGED vars
  <2>1. order' = order /\ IInv'
    BY <1>6 DEF vars, IInv, TypeOK, Working, Safety, PaidRuns, ConfirmedWasPaid, OneOwner,
                ChargesLeft, AtMostOneCharge, Once, Paid, Owns, MayCharge
  <2>. QED
    BY <2>1
<1>. QED
  BY <1>1, <1>2, <1>3, <1>4, <1>5, <1>6 DEF Next

\* The invariant of the sagas, whatever crashes, stalls, fails or is late.
THEOREM InvariantHolds == Spec => []IInv
<1>1. IInv /\ [Next]_vars => IInv'
  BY StepIsSafe
<1>. QED
  BY <1>1, Initially, PTL DEF Spec

\* Every reachable state has the declared shape.
THEOREM TypeCorrect == Spec => []TypeOK
<1>1. IInv => TypeOK
  BY DEF IInv
<1>. QED
  BY <1>1, InvariantHolds, PTL

\* A confirmed order has been charged, however many runs worked on it and
\* wherever they died.
THEOREM ConfirmedOrdersArePaid == Spec => []ConfirmedWasPaid
<1>1. IInv => ConfirmedWasPaid
  BY DEF IInv, Safety
<1>. QED
  BY <1>1, InvariantHolds, PTL

\* However many runs an order has, it is charged once and once more for each
\* query that failed, because one of the runs at the most owns its
\* reservation.
THEOREM ChargesAreBounded == Spec => []AtMostOneCharge
<1>1. IInv => AtMostOneCharge
  BY DEF IInv, Safety
<1>. QED
  BY <1>1, InvariantHolds, PTL

\* An order that was confirmed or cancelled changes to the other only when its
\* job was delivered more than once.
THEOREM OutcomesStand == Spec => OutcomeStands
<1>1. IInv /\ [Next]_vars =>
        [\A o \in Orders :
           order[o] # "PENDING" /\ order'[o] # order[o] => ~DeliveredOnce(job[o])]_vars
  BY StepIsSafe
<1>. QED
  BY <1>1, InvariantHolds, PTL DEF Spec, OutcomeStands

-----------------------------------------------------------------------------
(* All or nothing.  While nothing was lost and no query failed, an order    *)
(* whose job was delivered once is worked on by the holder of its lock, and *)
(* where that run is tells what the two services and the two tables hold.   *)

Decided(o) ==
  \/ order[o] = "CONFIRMED" /\ charges[o] = 1 /\ saga[o].status = "COMPLETED"
  \/ /\ order[o] = "CANCELLED" /\ charges[o] = 0 /\ saga[o].status = "COMPENSATED"
     /\ Len(Lines[o]) = 1 => rows[o].status # "pending"

\* A run at a place, with or without a result to save, its copy of the saga,
\* and the charges, the outcome and the reservation of its order.
OnCourse(o, at, s, copy, charged, outcome, row) ==
  /\ at # "fail"
  /\ charged = IF PaidAt(at, s) THEN 1 ELSE 0
  /\ at \in {"start", "verify"} => row = Inventory!NoRow
  /\ at = "reserve" /\ ~s /\ Len(Lines[o]) = 1 => row = Inventory!NoRow
  /\ OwnsAt(at, s) \/ (at = "release" /\ ~s) => copy.reserved
  /\ (at = "release" /\ s) \/ at = "cancel" =>
       (Len(Lines[o]) = 1 => row.status # "pending")
  /\ (at = "confirm" /\ s) \/ at = "complete" => outcome = "CONFIRMED"
  /\ at = "cancel" /\ s => outcome = "CANCELLED" /\ copy.status = "COMPENSATED"

CalmOrder(o) ==
  /\ job[o].state = "waiting" => charges[o] = 0 /\ rows[o] = Inventory!NoRow
  /\ job[o].state = "done" => Decided(o) /\ \A r \in Runs : ord[r] # o
  /\ \A r \in Runs : ord[r] = o =>
       /\ job[o].state = "active" => job[o].lock = r
       /\ OnCourse(o, pc[r], saving[r], mem[r], charges[o], order[o], rows[o])

Calm ==
  dbErrors = 0 /\ lost = 0 =>
    /\ late = {}
    /\ \A o \in Orders : DeliveredOnce(job[o]) => CalmOrder(o)

\* A reservation is not made, and one that is settled is not opened again.
SettledStays(o) ==
  /\ rows[o] = Inventory!NoRow => rows'[o] = Inventory!NoRow
  /\ rows[o].status # "pending" => rows'[o].status # "pending"

\* A step of one order does not disturb another that was calm.
LEMMA OtherOrders ==
  ASSUME NEW o \in Orders, CalmOrder(o),
         charges'[o] = charges[o], order'[o] = order[o], saga'[o] = saga[o],
         job'[o] = job[o] \/ job'[o].state = "failed", SettledStays(o),
         \A d \in Runs : ord'[d] = o =>
           /\ ord[d] = o /\ pc'[d] = pc[d] /\ saving'[d] = saving[d] /\ mem'[d] = mem[d]
  PROVE  CalmOrder(o)'
<1>1. job'[o].state = "waiting" => charges'[o] = 0 /\ rows'[o] = Inventory!NoRow
  BY DEF CalmOrder, SettledStays
<1>2. job'[o].state = "done" => Decided(o)' /\ \A d \in Runs : ord'[d] # o
  BY DEF CalmOrder, SettledStays, Decided
<1>3. ASSUME NEW d \in Runs, ord'[d] = o
      PROVE  /\ job'[o].state = "active" => job'[o].lock = d
             /\ OnCourse(o, pc'[d], saving'[d], mem'[d], charges'[o], order'[o], rows'[o])
  <2>1. /\ job[o].state = "active" => job[o].lock = d
        /\ OnCourse(o, pc[d], saving[d], mem[d], charges[o], order[o], rows[o])
    BY <1>3 DEF CalmOrder
  <2>2. pc'[d] = pc[d] /\ saving'[d] = saving[d] /\ mem'[d] = mem[d]
    BY <1>3
  <2>. QED
    BY <2>1, <2>2 DEF OnCourse, SettledStays
<1>. QED
  BY <1>1, <1>2, <1>3 DEF CalmOrder

\* What a step of run r leaves alone.
Apart(r) ==
  /\ \A d \in Runs \ {r} : mem'[d] = mem[d]
  /\ \A p \in Orders \ {ord[r]} :
       /\ charges'[p] = charges[p] /\ order'[p] = order[p] /\ saga'[p] = saga[p]
       /\ rows'[p] = rows[p]

\* The order of a run, in a calm state, when its job was delivered once.
LEMMA HoldsTheOrder ==
  ASSUME IInv, Calm, dbErrors = 0, lost = 0, NEW r \in Runs, pc[r] # "idle",
         DeliveredOnce(job[ord[r]])
  PROVE  /\ ord[r] \in Orders
         /\ job[ord[r]].state \notin {"waiting", "done"}
         /\ job[ord[r]].state = "active" => job[ord[r]].lock = r
         /\ \A d \in Runs : ord[d] = ord[r] => d = r
         /\ OnCourse(ord[r], pc[r], saving[r], mem[r], charges[ord[r]], order[ord[r]],
                     rows[ord[r]])
<1>1. ord[r] \in Orders
  BY InvSplit, WorksOnAnOrder
<1>2. CalmOrder(ord[r])
  BY <1>1 DEF Calm
<1>3. /\ \A d, q \in Runs : ord[d] = ord[r] /\ ord[q] = ord[r] => d = q
      /\ job[ord[r]].state = "waiting" => \A d \in Runs : ord[d] # ord[r]
  BY <1>1 DEF IInv, Safety, Once
<1>. QED
  BY <1>1, <1>2, <1>3 DEF CalmOrder

\* A run that goes on along the course of its order keeps all of them calm.
LEMMA RunGoesOn ==
  ASSUME IInv, Calm, dbErrors = 0, lost = 0, late' = late, NEW r \in Runs, pc[r] # "idle",
         NEW at, NEW s, Moves(r, ord[r], at, s), job' = job, Apart(r),
         DeliveredOnce(job[ord[r]]) =>
           OnCourse(ord[r], at, s, mem'[r], charges'[ord[r]], order'[ord[r]], rows'[ord[r]])
  PROVE  Calm'
<1>1. late' = {}
  BY DEF Calm
<1>2. ASSUME NEW p \in Orders, DeliveredOnce(job'[p])
      PROVE  CalmOrder(p)'
  <2>1. CASE p = ord[r]
    <3>1. /\ job[p].state \notin {"waiting", "done"}
          /\ job[p].state = "active" => job[p].lock = r
          /\ \A d \in Runs : ord[d] = p => d = r
      BY <1>2, <2>1, HoldsTheOrder
    <3>2. \A d \in Runs : ord'[d] = p => d = r
      BY <2>1, <3>1 DEF Moves
    <3>3. pc'[r] = at /\ saving'[r] = s
      BY DEF Moves
    <3>4. OnCourse(p, pc'[r], saving'[r], mem'[r], charges'[p], order'[p], rows'[p])
      BY <1>2, <2>1, <3>3
    <3>. QED
      BY <3>1, <3>2, <3>4 DEF CalmOrder
  <2>2. CASE p # ord[r]
    <3>1. CalmOrder(p)
      BY <1>2 DEF Calm
    <3>2. SettledStays(p)
      BY <2>2 DEF Apart, SettledStays
    <3>. QED
      BY <2>2, <3>1, <3>2, OtherOrders DEF Apart, Moves
  <2>. QED
    BY <2>1, <2>2
<1>. QED
  BY <1>1, <1>2 DEF Calm

\* So does a run that returns.
LEMMA RunReturns ==
  ASSUME IInv, Calm, dbErrors = 0, lost = 0, late' = late, NEW r \in Runs, pc[r] # "idle",
         End(r), Apart(r), \A p \in Orders : p = ord[r] /\ DeliveredOnce(job[p]) => Decided(p)'
  PROVE  Calm'
<1>1. RunsTypeOK /\ RestTypeOK /\ late' = {}
  BY InvSplit DEF Calm
<1>2. ord[r] \in Orders /\ ord[r] # None
  BY <1>1, WorksOnAnOrder
<1>3. \A d \in Runs : ord'[d] = IF d = r THEN None ELSE ord[d]
  BY <1>1 DEF End, RunsTypeOK
<1>4. \A d \in Runs \ {r} : pc'[d] = pc[d] /\ saving'[d] = saving[d]
  BY <1>1 DEF End, RunsTypeOK
<1>5. \A p \in Orders :
        \/ job'[p] = job[p]
        \/ /\ p = ord[r] /\ job'[p].state = "done"
           /\ DeliveredOnce(job'[p]) => DeliveredOnce(job[p])
  BY <1>1 DEF End, Job, DeliveredOnce, RestTypeOK, JobRow
<1>6. job[ord[r]].lock = r => job'[ord[r]].state = "done"
  BY <1>1, <1>2 DEF End, Job, RestTypeOK, JobRow
<1>7. ASSUME NEW p \in Orders, DeliveredOnce(job'[p])
      PROVE  CalmOrder(p)'
  <2>1. CASE p = ord[r]
    <3>1. DeliveredOnce(job[p])
      BY <1>5, <1>7
    <3>2. /\ job[p].state \notin {"waiting", "done"}
          /\ job[p].state = "active" => job[p].lock = r
          /\ \A d \in Runs : ord[d] = p => d = r
      BY <2>1, <3>1, HoldsTheOrder
    <3>3. \A d \in Runs : ord'[d] # p
      BY <1>2, <1>3, <2>1, <3>2
    <3>4. job'[p].state # "waiting"
      BY <1>5, <3>2
    <3>5. Decided(p)'
      BY <2>1, <3>1
    <3>. QED
      BY <3>3, <3>4, <3>5 DEF CalmOrder
  <2>2. CASE p # ord[r]
    <3>1. job'[p] = job[p] /\ CalmOrder(p)
      BY <1>5, <1>7, <2>2 DEF Calm
    <3>2. SettledStays(p)
      BY <2>2 DEF Apart, SettledStays
    <3>3. \A d \in Runs : ord'[d] = p =>
            /\ ord[d] = p /\ pc'[d] = pc[d] /\ saving'[d] = saving[d] /\ mem'[d] = mem[d]
      BY <1>3, <1>4, NoneAssumption DEF Apart
    <3>. QED
      BY <2>2, <3>1, <3>2, <3>3, OtherOrders DEF Apart
  <2>. QED
    BY <2>1, <2>2
<1>. QED
  BY <1>1, <1>7 DEF Calm

\* The actions of a run, when neither a query fails nor an answer is lost.
LEMMA CalmStep ==
  ASSUME IInv, Calm, NEW r \in Runs, Step(r), dbErrors' = 0, lost' = 0
  PROVE  Calm'
<1>. DEFINE o == ord[r]
            On(at, s) == DeliveredOnce(job[o]) =>
              OnCourse(o, at, s, mem'[r], charges'[o], order'[o], rows'[o])
<1>1. RunsTypeOK /\ RestTypeOK /\ LedgerTypeOK
  BY InvSplit
<1>2. pc[r] # "idle"
  BY DEF Step, SaveRunning, MarkPaid, Save, SaveStep, Complete, Fail, SaveFinal, VerifyStock,
         ReserveInventory, ReserveRefused, StepFails, ReserveUnanswered, ProcessPayment,
         SendNotification, ConfirmOrder, ReleaseInventory, ReleaseFails, CancelOrder,
         SaveCompensation, At, Steps
<1>3. o \in Orders /\ line[r] \in 1 .. Len(Lines[o]) /\ saving[r] \in BOOLEAN
      /\ Line(r) \in [item : Items, qty : Quantities] /\ mem[r] \in SagaRow
  BY <1>1, <1>2, WorksOnAnOrder DEF RunsTypeOK
<1>4. dbErrors = 0 /\ lost = 0
  BY <1>1, BoundsAssumption
     DEF Step, SaveRunning, MarkPaid, Save, SaveStep, Complete, Fail, SaveFinal, VerifyStock,
         ReserveInventory, ReserveRefused, StepFails, ReserveUnanswered, ProcessPayment,
         SendNotification, ConfirmOrder, ReleaseInventory, ReleaseFails, CancelOrder,
         SaveCompensation, RestTypeOK, faults
<1>5. DeliveredOnce(job[o]) =>
        OnCourse(o, pc[r], saving[r], mem[r], charges[o], order[o], rows[o])
  BY <1>2, <1>4, HoldsTheOrder
<1>6. ASSUME late' = late, job' = job, NEW at, NEW s, Moves(r, o, at, s), Apart(r), On(at, s)
      PROVE  Calm'
  BY <1>2, <1>4, <1>6, RunGoesOn
<1>7. ASSUME UNCHANGED <<ledger, charges, order>>,
             \A p \in Orders \ {o} : saga'[p] = saga[p],
             \A d \in Runs \ {r} : mem'[d] = mem[d]
      PROVE  Apart(r)
  BY <1>7 DEF Apart, ledger
<1>8. CASE SaveRunning(r) \/ MarkPaid(r)
  <2>1. PICK at \in {"start", "mark_paid"}, row \in SagaRow : Save(r, at, row) /\ row.reserved = mem[r].reserved
    <3>1. mem[r] \in SagaRow /\ [mem[r] EXCEPT !.step = "PAYMENT_COMPLETED"] \in SagaRow
          /\ [mem[r] EXCEPT !.step = "PAYMENT_COMPLETED"].reserved = mem[r].reserved
      BY <1>3 DEF SagaRow, SagaStep
    <3>. QED
      BY <1>8, <3>1 DEF SaveRunning, MarkPaid
  <2>2. pc[r] = at /\ saving[r] = FALSE
    BY <1>3, <2>1 DEF Save, At
  <2>3. Moves(r, o, Succeeded(at), FALSE)
    BY <1>1, <2>1, <2>2 DEF Save, Moves, RunsTypeOK
  <2>4. Apart(r)
    <3>1. /\ \A p \in Orders \ {o} : saga'[p] = saga[p]
          /\ \A d \in Runs \ {r} : mem'[d] = mem[d]
      BY <1>1, <2>1 DEF Save, RestTypeOK, RunsTypeOK
    <3>. QED
      BY <1>7, <2>1, <3>1 DEF Save
  <2>5. On(Succeeded(at), FALSE)
    <3>1. charges' = charges /\ order' = order /\ rows' = rows
      BY <2>1 DEF Save, ledger
    <3>2. Succeeded(at) = IF at = "start" THEN "verify" ELSE "notify"
      BY SucceededAt
    <3>. QED
      BY <1>5, <2>2, <3>1, <3>2 DEF OnCourse, PaidAt, OwnsAt
  <2>6. late' = late /\ job' = job
    BY <2>1 DEF Save, faults
  <2>. QED
    BY <1>6, <2>3, <2>4, <2>5, <2>6
<1>9. CASE SaveStep(r)
  <2>1. pc[r] \in Steps /\ saving[r] = TRUE /\ mem' = mem /\ late' = late /\ job' = job
        /\ UNCHANGED <<ledger, charges, order>>
    BY <1>3, <1>9 DEF SaveStep, faults
  <2>2. Moves(r, o, Succeeded(pc[r]), FALSE)
    BY <1>1, <1>9 DEF SaveStep, Enter, Moves, RunsTypeOK
  <2>3. Apart(r)
    <3>1. \A p \in Orders \ {o} : saga'[p] = saga[p]
      BY <1>1, <1>9 DEF SaveStep, RestTypeOK
    <3>. QED
      BY <1>7, <2>1, <3>1
  <2>4. On(Succeeded(pc[r]), FALSE)
    <3>1. charges' = charges /\ order' = order /\ rows' = rows
      BY <2>1 DEF ledger
    <3>2. \/ pc[r] = "verify" /\ Succeeded(pc[r]) = "reserve"
          \/ pc[r] = "reserve" /\ Succeeded(pc[r]) = "pay"
          \/ pc[r] = "pay" /\ Succeeded(pc[r]) = "mark_paid"
          \/ pc[r] = "notify" /\ Succeeded(pc[r]) = "confirm"
          \/ pc[r] = "confirm" /\ Succeeded(pc[r]) = "complete"
      BY <2>1, SucceededAt DEF Steps
    <3>. QED
      BY <1>5, <2>1, <3>1, <3>2 DEF OnCourse, PaidAt, OwnsAt
  <2>. QED
    BY <1>6, <2>1, <2>2, <2>3, <2>4
<1>10. CASE Complete(r) \/ Fail(r)
  <2>1. PICK at \in {"complete", "fail"} :
          /\ pc[r] = at /\ End(r)
          /\ \E status \in SagaStatus : /\ at = "complete" => status = "COMPLETED"
                                        /\ saga' = [saga EXCEPT ![o] = [mem[r] EXCEPT !.status = status]]
          /\ UNCHANGED <<ledger, charges, order, faults>>
    BY <1>10 DEF Complete, Fail, SaveFinal, At, SagaStatus
  <2>2. /\ \A p \in Orders \ {o} : saga'[p] = saga[p]
        /\ at = "complete" => saga'[o].status = "COMPLETED"
    BY <1>1, <1>3, <2>1 DEF RestTypeOK, SagaRow
  <2>3. Apart(r)
    BY <1>1, <1>7, <2>1, <2>2 DEF End, RunsTypeOK
  <2>4. DeliveredOnce(job[o]) =>
          order'[o] = "CONFIRMED" /\ charges'[o] = 1 /\ saga'[o].status = "COMPLETED"
    BY <1>5, <2>1, <2>2 DEF OnCourse, PaidAt
  <2>5. \A p \in Orders : p = o /\ DeliveredOnce(job[p]) => Decided(p)'
    BY <2>4 DEF Decided
  <2>6. late' = late
    BY <2>1 DEF faults
  <2>. QED
    BY <1>2, <1>4, <2>1, <2>3, <2>5, <2>6, RunReturns
<1>11. CASE SaveCompensation(r)
  <2>1. /\ saving[r] = TRUE /\ late' = late /\ UNCHANGED <<ledger, charges, order>>
        /\ pc[r] \in {"release", "cancel"}
    BY <1>3, <1>11 DEF SaveCompensation, faults
  <2>2. /\ \A p \in Orders \ {o} : saga'[p] = saga[p]
        /\ saga'[o] = mem[r]
    BY <1>1, <1>3, <1>11 DEF SaveCompensation, RestTypeOK
  <2>3. CASE pc[r] = "release"
    <3>1. Enter(r, "cancel") /\ mem' = mem /\ job' = job
      BY <1>11, <2>3 DEF SaveCompensation
    <3>2. Moves(r, o, "cancel", FALSE)
      BY <1>1, <3>1 DEF Enter, Moves, RunsTypeOK
    <3>3. Apart(r)
      BY <1>7, <2>1, <2>2, <3>1
    <3>4. On("cancel", FALSE)
      BY <1>5, <2>1, <2>3 DEF OnCourse, PaidAt, OwnsAt, ledger
    <3>. QED
      BY <1>6, <2>1, <3>1, <3>2, <3>3, <3>4
  <2>4. CASE pc[r] = "cancel"
    <3>1. End(r)
      BY <1>11, <2>4 DEF SaveCompensation
    <3>2. Apart(r)
      BY <1>1, <1>7, <2>1, <2>2, <3>1 DEF End, RunsTypeOK
    <3>3. DeliveredOnce(job[o]) =>
            /\ order'[o] = "CANCELLED" /\ charges'[o] = 0 /\ saga'[o].status = "COMPENSATED"
            /\ Len(Lines[o]) = 1 => rows'[o].status # "pending"
      BY <1>5, <2>1, <2>2, <2>4 DEF OnCourse, PaidAt, ledger
    <3>4. \A p \in Orders : p = o /\ DeliveredOnce(job[p]) => Decided(p)'
      BY <3>3 DEF Decided
    <3>. QED
      BY <1>2, <1>4, <2>1, <3>1, <3>2, <3>4, RunReturns
  <2>. QED
    BY <2>1, <2>3, <2>4
<1>12. CASE StepFails(r) \/ ReserveRefused(r)
  <2>1. /\ pc[r] \in {"verify", "reserve", "pay"} /\ saving[r] = FALSE /\ pc[r] \in Steps
        /\ UNCHANGED <<ledger, charges, order, saga, job, faults>>
        /\ Retry(r) \/ GiveUp(r)
    BY <1>3, <1>12 DEF StepFails, ReserveRefused, At, Steps
  <2>2. PICK at \in {pc[r], GivenUp(pc[r])} : Moves(r, o, at, FALSE)
    BY <1>1, <2>1, RetryMoves, GiveUpMoves
  <2>3. mem' = mem
    BY <2>1 DEF Retry, GiveUp
  <2>4. Apart(r)
    BY <1>7, <2>1, <2>3
  <2>5. On(at, FALSE)
    <3>1. charges' = charges /\ order' = order /\ rows' = rows
      BY <2>1 DEF ledger
    <3>2. at = pc[r] \/ (pc[r] \in {"verify", "reserve"} /\ at = "cancel")
          \/ (pc[r] = "pay" /\ at = "release")
      BY <2>1, GivenUpAt
    <3>3. Inventory!NoRow.status # "pending"
      BY DEF Inventory!NoRow
    <3>. QED
      BY <1>5, <2>1, <2>3, <3>1, <3>2, <3>3 DEF OnCourse, PaidAt, OwnsAt
  <2>6. late' = late /\ job' = job
    BY <2>1 DEF faults
  <2>. QED
    BY <1>6, <2>2, <2>4, <2>5, <2>6
<1>13. CASE VerifyStock(r)
  <2>1. /\ pc[r] = "verify" /\ saving[r] = FALSE
        /\ UNCHANGED <<ledger, charges, order, saga, job, faults>>
        /\ NextLine(r, Done(r, "verify")) \/ GiveUp(r)
    BY <1>3, <1>13 DEF VerifyStock, At
  <2>2. PICK at \in {"verify", "cancel"}, s \in BOOLEAN : Moves(r, o, at, s) /\ (at = "cancel" => s = FALSE)
    BY <1>1, <2>1, NextLineMoves, GiveUpMoves, GivenUpAt, DoneIsARow DEF Steps
  <2>3. Apart(r)
    <3>1. \A d \in Runs \ {r} : mem'[d] = mem[d]
      BY <1>1, <2>1 DEF NextLine, Result, GiveUp, RunsTypeOK
    <3>. QED
      BY <1>7, <2>1, <3>1
  <2>4. On(at, s)
    <3>1. charges' = charges /\ order' = order /\ rows' = rows
      BY <2>1 DEF ledger
    <3>2. Inventory!NoRow.status # "pending"
      BY DEF Inventory!NoRow
    <3>. QED
      BY <1>5, <2>1, <2>2, <3>1, <3>2 DEF OnCourse, PaidAt, OwnsAt
  <2>5. late' = late /\ job' = job
    BY <2>1 DEF faults
  <2>. QED
    BY <1>6, <2>2, <2>3, <2>4, <2>5
<1>14. CASE ReserveInventory(r)
  <2>. DEFINE row == [Done(r, "reserve") EXCEPT !.reserved = TRUE]
  <2>1. /\ pc[r] = "reserve" /\ saving[r] = FALSE /\ pc[r] # "idle"
        /\ NextLine(r, row) /\ UNCHANGED <<charges, order, saga, job, faults>>
    BY <1>3, <1>14 DEF ReserveInventory, At
  <2>2. PICK s \in BOOLEAN : Moves(r, o, "reserve", s)
    BY <1>1, <2>1, NextLineMoves, DoneIsARow DEF Steps
  <2>3. \A p \in Orders \ {o} : rows'[p] = rows[p]
    BY <1>1, <1>14 DEF ReserveInventory, Reserved, Inventory!Reserve, LedgerTypeOK
  <2>4. row.reserved = TRUE
    BY <1>3 DEF Done, SagaRow
  <2>. HIDE DEF row
  <2>5. /\ \A d \in Runs \ {r} : mem'[d] = mem[d]
        /\ s => mem'[r] = row
        /\ Len(Lines[o]) = 1 => s
    <3>1. CASE line[r] < Len(Lines[o])
      <4>1. mem' = mem /\ saving' = saving /\ Len(Lines[o]) # 1
        BY <1>3, <2>1, <3>1, LinesAreLines DEF NextLine
      <4>2. s = FALSE
        BY <2>1, <2>2, <4>1 DEF Moves
      <4>. QED
        BY <4>1, <4>2
    <3>2. CASE ~(line[r] < Len(Lines[o]))
      <4>1. mem' = [mem EXCEPT ![r] = row] /\ saving' = [saving EXCEPT ![r] = TRUE]
        BY <2>1, <3>2 DEF NextLine, Result
      <4>2. s = TRUE
        BY <1>1, <2>2, <4>1 DEF Moves, RunsTypeOK
      <4>. QED
        BY <1>1, <4>1, <4>2 DEF RunsTypeOK
    <3>. QED
      BY <3>1, <3>2
  <2>6. Apart(r)
    BY <2>1, <2>3, <2>5 DEF Apart
  <2>7. On("reserve", s)
    BY <1>5, <2>1, <2>4, <2>5 DEF OnCourse, PaidAt, OwnsAt
  <2>8. late' = late /\ job' = job
    BY <2>1 DEF faults
  <2>. QED
    BY <1>6, <2>2, <2>6, <2>7, <2>8
<1>15. CASE ProcessPayment(r) \/ SendNotification(r) \/ ConfirmOrder(r) \/ CancelOrder(r)
            \/ ReleaseInventory(r)
  <2>1. PICK row \in SagaRow : /\ saving[r] = FALSE /\ Result(r, row)
                               /\ saga' = saga /\ job' = job /\ late' = late
                               /\ pc[r] \in {"pay", "notify", "confirm", "cancel", "release"}
                               /\ pc[r] = "pay" => row.reserved = mem[r].reserved
                               /\ pc[r] = "cancel" => row.status = "COMPENSATED"
    <3>1. [mem[r] EXCEPT !.status = "COMPENSATED"] \in SagaRow
          /\ [mem[r] EXCEPT !.status = "COMPENSATED"].status = "COMPENSATED"
      BY <1>3 DEF SagaRow, SagaStatus
    <3>2. /\ Done(r, "notify") \in SagaRow /\ Done(r, "confirm") \in SagaRow
          /\ [Done(r, "pay") EXCEPT !.paid = TRUE] \in SagaRow
      BY <1>1, DoneIsARow DEF Steps
    <3>3. [Done(r, "pay") EXCEPT !.paid = TRUE].reserved = mem[r].reserved
      BY <1>3 DEF Done, SagaRow
    <3>4. CASE ProcessPayment(r)
      BY <1>3, <3>2, <3>3, <3>4 DEF ProcessPayment, At, faults
    <3>5. CASE SendNotification(r)
      BY <1>3, <3>2, <3>5 DEF SendNotification, At, faults
    <3>6. CASE ConfirmOrder(r)
      BY <1>3, <3>2, <3>6 DEF ConfirmOrder, At, faults
    <3>7. CASE CancelOrder(r)
      BY <1>3, <3>1, <3>7 DEF CancelOrder, At, faults
    <3>8. CASE ReleaseInventory(r)
      BY <1>3, <3>1, <3>8 DEF ReleaseInventory, At, faults
    <3>. QED
      BY <1>15, <3>4, <3>5, <3>6, <3>7, <3>8
  <2>2. Moves(r, o, pc[r], TRUE)
    BY <1>1, <2>1, ResultMoves
  <2>3. mem'[r] = row /\ \A d \in Runs \ {r} : mem'[d] = mem[d]
    BY <1>1, <2>1 DEF Result, RunsTypeOK
  <2>4. /\ \A p \in Orders \ {o} :
             charges'[p] = charges[p] /\ order'[p] = order[p] /\ rows'[p] = rows[p]
        /\ charges'[o] = IF pc[r] = "pay" THEN charges[o] + 1 ELSE charges[o]
        /\ pc[r] = "confirm" => order'[o] = "CONFIRMED"
        /\ pc[r] = "cancel" => order'[o] = "CANCELLED"
        /\ pc[r] = "release" => (mem[r].reserved => rows'[o].status # "pending")
        /\ pc[r] = "cancel" => rows' = rows
    <3>1. CASE ProcessPayment(r)
      BY <1>1, <1>3, <3>1 DEF ProcessPayment, At, RestTypeOK, ledger
    <3>2. CASE SendNotification(r)
      BY <3>2 DEF SendNotification, At, ledger
    <3>3. CASE ConfirmOrder(r) \/ CancelOrder(r)
      BY <1>1, <1>3, <3>3 DEF ConfirmOrder, CancelOrder, At, RestTypeOK, ledger
    <3>4. CASE ReleaseInventory(r)
      <4>1. pc[r] = "release" /\ charges' = charges /\ order' = order
        BY <3>4 DEF ReleaseInventory, At
      <4>2. CASE Inventory!Settle(o, "released")
        <5>1. rows[o].status = "pending" /\ rows' = [rows EXCEPT ![o].status = "released"]
          BY <4>2 DEF Inventory!Settle
        <5>2. rows[o] \in [status : {"pending", "released", "expired"}, item : Items, qty : Quantities]
          BY <1>1, <1>3, <5>1 DEF LedgerTypeOK, Inventory!NoRow
        <5>3. [rows[o] EXCEPT !.status = "released"].status = "released"
          BY <5>2
        <5>4. \A p \in Orders : rows'[p] = IF p = o THEN [rows[o] EXCEPT !.status = "released"]
                                           ELSE rows[p]
          BY <1>1, <5>1 DEF LedgerTypeOK
        <5>. HIDE DEF o
        <5>5. rows'[o].status # "pending"
          BY <1>3, <5>3, <5>4
        <5>. QED
          BY <4>1, <5>4, <5>5
      <4>3. CASE (mem[r].reserved => rows[o].status # "pending") /\ UNCHANGED ledger
        BY <4>1, <4>3 DEF ledger
      <4>. QED
        BY <3>4, <4>2, <4>3 DEF ReleaseInventory
    <3>. QED
      BY <1>15, <3>1, <3>2, <3>3, <3>4
  <2>5. Apart(r)
    BY <2>1, <2>3, <2>4 DEF Apart
  <2>6. On(pc[r], TRUE)
    BY <1>5, <2>1, <2>3, <2>4 DEF OnCourse, PaidAt, OwnsAt
  <2>. QED
    BY <1>6, <2>1, <2>2, <2>5, <2>6
<1>16. ~ReserveUnanswered(r) /\ ~ReleaseFails(r)
  BY <1>4 DEF ReserveUnanswered, ReleaseFails
<1>. QED
  BY <1>8, <1>9, <1>10, <1>11, <1>12, <1>13, <1>14, <1>15, <1>16 DEF Step

\* A job that stalls or runs out of time and still counts as delivered once
\* has failed.
LEMMA LastDelivery ==
  ASSUME RestTypeOK, NEW o \in Orders, Stall(o) \/ TimeOut(o)
  PROVE  /\ \A p \in Orders \ {o} : job'[p] = job[p]
         /\ DeliveredOnce(job'[o]) => DeliveredOnce(job[o]) /\ job'[o].state = "failed"
<1>1. job \in [Orders -> JobRow] /\ job[o] \in JobRow
  BY DEF RestTypeOK
<1>2. CASE Stall(o)
  <2>1. CASE job[o].stalls < MaxStalled
    <3>1. job'[o].stalls = job[o].stalls + 1 /\ job[o].stalls \in Nat
      BY <1>1, <1>2, <2>1, BoundsAssumption DEF Stall, Job, JobRow
    <3>. QED
      BY <1>1, <1>2, <3>1 DEF Stall, Job, DeliveredOnce
  <2>2. CASE ~(job[o].stalls < MaxStalled)
    BY <1>1, <1>2, <2>2 DEF Stall, Job, DeliveredOnce, JobRow
  <2>. QED
    BY <2>1, <2>2
<1>3. CASE TimeOut(o)
  <2>1. job'[o].timeouts = job[o].timeouts + 1 /\ job[o].timeouts \in Nat
    BY <1>1, <1>3 DEF TimeOut, Job, JobRow
  <2>. QED
    BY <1>1, <1>3, <2>1 DEF TimeOut, Job, DeliveredOnce
<1>. QED
  BY <1>2, <1>3

\* Every step keeps an undisturbed order on course.
LEMMA CalmIsKept ==
  ASSUME IInv, Calm, [Next]_vars
  PROVE  Calm'
<1>1. RunsTypeOK /\ RestTypeOK /\ LedgerTypeOK
  BY InvSplit
<1>. SUFFICES ASSUME dbErrors' = 0, lost' = 0
              PROVE  Calm'
  BY DEF Calm
<1>2. dbErrors \in Nat /\ lost \in Nat
  BY <1>1, BoundsAssumption DEF RestTypeOK
<1>3. CASE \E r \in Runs : Step(r)
  BY <1>3, CalmStep
<1>4. CASE \E r \in Runs : DbError(r)
  BY <1>2, <1>4 DEF DbError
<1>5. CASE \E o \in Orders : TakeFails(o)
  BY <1>2, <1>5 DEF TakeFails
<1>6. ASSUME UNCHANGED <<dbErrors, lost>>
      PROVE  /\ dbErrors = 0 /\ lost = 0 /\ late = {}
             /\ \A o \in Orders : DeliveredOnce(job[o]) => CalmOrder(o)
  BY <1>6 DEF Calm
<1>7. CASE \E r \in Runs : Crash(r)
  <2>1. PICK r \in Runs : Crash(r)
    BY <1>7
  <2>2. UNCHANGED <<rows, charges, order, saga, job, late, dbErrors, lost>>
    BY <2>1 DEF Crash, ledger, faults
  <2>3. /\ \A d \in Runs \ {r} : /\ ord'[d] = ord[d] /\ pc'[d] = pc[d]
                                 /\ saving'[d] = saving[d] /\ mem'[d] = mem[d]
        /\ ord'[r] = None
    BY <1>1, <2>1 DEF Crash, RunsTypeOK
  <2>4. ASSUME NEW p \in Orders, DeliveredOnce(job'[p]) PROVE CalmOrder(p)'
    <3>1. CalmOrder(p) /\ SettledStays(p) /\ p # None
      BY <1>6, <2>2, <2>4, NoneAssumption DEF SettledStays
    <3>2. \A d \in Runs : ord'[d] = p =>
            /\ ord[d] = p /\ pc'[d] = pc[d] /\ saving'[d] = saving[d] /\ mem'[d] = mem[d]
      BY <2>3, <3>1
    <3>. QED
      BY <2>2, <3>1, <3>2, OtherOrders
  <2>. QED
    BY <1>6, <2>2, <2>4 DEF Calm
<1>8. CASE \E r \in Runs, o \in Orders : Take(r, o)
  <2>1. PICK r \in Runs, o \in Orders : Take(r, o)
    BY <1>8
  <2>2. UNCHANGED <<rows, charges, order, saga, saving, late, dbErrors, lost>>
    BY <2>1 DEF Take, ledger, faults
  <2>3. /\ \A p \in Orders \ {o} : job'[p] = job[p]
        /\ job'[o].state = "active" /\ job'[o].lock = r
        /\ DeliveredOnce(job'[o]) => DeliveredOnce(job[o])
        /\ job[o].state = "waiting"
    BY <1>1, <2>1 DEF Take, Job, DeliveredOnce, RestTypeOK, JobRow
  <2>4. /\ \A d \in Runs \ {r} : ord'[d] = ord[d] /\ pc'[d] = pc[d] /\ mem'[d] = mem[d]
        /\ ord'[r] = o /\ pc'[r] = "start"
    BY <1>1, <2>1 DEF Take, RunsTypeOK
  <2>5. ASSUME NEW p \in Orders, DeliveredOnce(job'[p]) PROVE CalmOrder(p)'
    <3>1. CASE p # o
      <4>1. CalmOrder(p) /\ SettledStays(p) /\ job'[p] = job[p]
        BY <1>6, <2>2, <2>3, <2>5, <3>1 DEF SettledStays
      <4>. QED
        BY <2>2, <2>4, <3>1, <4>1, OtherOrders
    <3>2. CASE p = o
      <4>1. charges[p] = 0 /\ rows[p] = Inventory!NoRow /\ \A d \in Runs : ord[d] # p
        BY <1>6, <2>2, <2>3, <2>5, <3>2 DEF CalmOrder, IInv, Safety, Once
      <4>2. \A d \in Runs : ord'[d] = p => d = r
        BY <2>4, <4>1
      <4>3. OnCourse(p, "start", saving'[r], mem'[r], charges'[p], order'[p], rows'[p])
        BY <2>2, <4>1 DEF OnCourse, PaidAt, OwnsAt
      <4>. QED
        BY <2>3, <2>4, <3>2, <4>2, <4>3 DEF CalmOrder
    <3>. QED
      BY <3>1, <3>2
  <2>. QED
    BY <1>6, <2>2, <2>5 DEF Calm
<1>9. CASE \E o \in Orders : Stall(o) \/ TimeOut(o)
  <2>1. PICK o \in Orders : Stall(o) \/ TimeOut(o)
    BY <1>9
  <2>2. UNCHANGED <<rows, charges, order, saga, ord, pc, saving, mem, late, dbErrors, lost>>
    BY <2>1 DEF Stall, TimeOut, ledger, faults, run
  <2>3. /\ \A p \in Orders \ {o} : job'[p] = job[p]
        /\ DeliveredOnce(job'[o]) => DeliveredOnce(job[o]) /\ job'[o].state = "failed"
    BY <1>1, <2>1, LastDelivery
  <2>4. ASSUME NEW p \in Orders, DeliveredOnce(job'[p]) PROVE CalmOrder(p)'
    <3>1. DeliveredOnce(job[p]) /\ (job'[p] = job[p] \/ job'[p].state = "failed")
      BY <2>3, <2>4
    <3>2. CalmOrder(p) /\ SettledStays(p)
      BY <1>6, <2>2, <3>1 DEF SettledStays
    <3>. QED
      BY <2>2, <3>1, <3>2, OtherOrders
  <2>. QED
    BY <1>6, <2>2, <2>4 DEF Calm
<1>10. CASE \E o \in Orders : ExpireReservation(o)
  <2>1. PICK o \in Orders : ExpireReservation(o)
    BY <1>10
  <2>2. UNCHANGED <<charges, order, saga, job, ord, pc, saving, mem, late, dbErrors, lost>>
    BY <2>1 DEF ExpireReservation, faults, run
  <2>3. PICK status \in {"released", "expired"} :
          rows[o].status = "pending" /\ rows' = [rows EXCEPT ![o].status = status]
    BY <2>1 DEF ExpireReservation, Inventory!GiveBack, Inventory!Settle
  <2>4. \A p \in Orders : SettledStays(p)
    <3>1. \A p \in Orders \ {o} : rows'[p] = rows[p]
      BY <1>1, <2>3 DEF LedgerTypeOK
    <3>2. rows[o].status = "pending" /\ rows[o] # Inventory!NoRow
      BY <2>3 DEF Inventory!NoRow
    <3>. QED
      BY <3>1, <3>2 DEF SettledStays
  <2>5. ASSUME NEW p \in Orders, DeliveredOnce(job'[p]) PROVE CalmOrder(p)'
    BY <1>6, <2>2, <2>4, <2>5, OtherOrders
  <2>. QED
    BY <1>6, <2>2, <2>5 DEF Calm
<1>11. CASE \E request \in late : LateReserve(request[1], request[2])
  BY <1>6, <1>11 DEF LateReserve
<1>12. CASE UNCHANGED vars
  <2>1. \A p \in Orders : SettledStays(p)
    BY <1>12 DEF vars, SettledStays
  <2>2. ASSUME NEW p \in Orders, DeliveredOnce(job'[p]) PROVE CalmOrder(p)'
    BY <1>6, <1>12, <2>1, <2>2, OtherOrders DEF vars
  <2>. QED
    BY <1>6, <1>12, <2>2 DEF vars, Calm
<1>. QED
  BY <1>3, <1>4, <1>5, <1>7, <1>8, <1>9, <1>10, <1>11, <1>12 DEF Next

\* All orders are calm to begin with.
LEMMA CalmInitially == Init => Calm
<1>. SUFFICES ASSUME Init PROVE Calm
  OBVIOUS
<1>1. \A o \in Orders : /\ job[o].state = "waiting" /\ charges[o] = 0
                        /\ rows[o] = Inventory!NoRow /\ o # None
  BY NoneAssumption DEF Init, Inventory!Init, Job
<1>2. late = {} /\ \A r \in Runs : ord[r] = None
  BY DEF Init
<1>. QED
  BY <1>1, <1>2 DEF Calm, CalmOrder

\* Whatever orders compete for the stock, whichever workers die and whenever a
\* reservation expires: a saga whose job was delivered once, with no query
\* failed and no answer lost, has confirmed its order and charged it once, or
\* cancelled it, charged nothing and (of one line) kept no unit.
THEOREM SagasAreAllOrNothing == Spec => []AllOrNothing
<1>1. IInv /\ Calm => AllOrNothing
  BY DEF Calm, CalmOrder, Decided, AllOrNothing, Undisturbed
<1>2. IInv /\ Calm /\ [Next]_vars => Calm'
  BY CalmIsKept
<1>. QED
  BY <1>1, <1>2, CalmInitially, InvariantHolds, PTL DEF Spec

-----------------------------------------------------------------------------
(* An outcome for every saga that ended.  While no query failed, a run that *)
(* only has to save its result and return has written an outcome.           *)

Says(at, s, outcome) ==
  /\ at # "fail"
  /\ at = "complete" \/ (at \in {"confirm", "cancel"} /\ s) => outcome # "PENDING"

OutcomeIsSaid ==
  dbErrors = 0 =>
    /\ \A r \in Runs : ord[r] # None => Says(pc[r], saving[r], order[ord[r]])
    /\ \A o \in Orders : job[o].state = "done" => order[o] # "PENDING"

\* An order that left PENDING does not come back, whatever its new status.
OutcomesStay == \A o \in Orders : order'[o] = "PENDING" => order[o] = "PENDING"

\* A step that moves one run to a place where it may say so.
LEMMA SaidByOne ==
  ASSUME IInv, OutcomeIsSaid, dbErrors = 0, NEW r \in Runs, pc[r] # "idle",
         NEW o, NEW at, NEW s, Moves(r, o, at, s), OutcomesStay,
         o = None \/ (o = ord[r] /\ Says(at, s, order'[o])),
         \A p \in Orders : job'[p].state = "done" => job[p].state = "done" \/ order'[p] # "PENDING"
  PROVE  OutcomeIsSaid'
<1>1. \A d \in Runs : ord[d] # None => ord[d] \in Orders
  BY InvSplit DEF RunsTypeOK
<1>2. ASSUME NEW d \in Runs, ord'[d] # None PROVE Says(pc'[d], saving'[d], order'[ord'[d]])
  <2>1. CASE d = r
    BY <1>2, <2>1 DEF Moves
  <2>2. CASE d # r
    <3>1. ord'[d] = ord[d] /\ pc'[d] = pc[d] /\ saving'[d] = saving[d] /\ ord[d] \in Orders
      BY <1>1, <1>2, <2>2 DEF Moves
    <3>2. Says(pc[d], saving[d], order[ord[d]])
      BY <1>2, <3>1 DEF OutcomeIsSaid
    <3>. QED
      BY <3>1, <3>2 DEF Says, OutcomesStay
  <2>. QED
    BY <2>1, <2>2
<1>3. \A p \in Orders : job'[p].state = "done" => order'[p] # "PENDING"
  BY DEF OutcomeIsSaid, OutcomesStay
<1>. QED
  BY <1>2, <1>3 DEF OutcomeIsSaid

\* The steps of a run.
LEMMA StepsSay ==
  ASSUME IInv, OutcomeIsSaid, dbErrors = 0, NEW r \in Runs, Step(r)
  PROVE  OutcomeIsSaid'
<1>. DEFINE o == ord[r]
<1>1. RunsTypeOK /\ RestTypeOK /\ LedgerTypeOK
  BY InvSplit
<1>2. pc[r] # "idle"
  BY DEF Step, SaveRunning, MarkPaid, Save, SaveStep, Complete, Fail, SaveFinal, VerifyStock,
         ReserveInventory, ReserveRefused, StepFails, ReserveUnanswered, ProcessPayment,
         SendNotification, ConfirmOrder, ReleaseInventory, ReleaseFails, CancelOrder,
         SaveCompensation, At, Steps
<1>3. o \in Orders /\ o # None /\ saving[r] \in BOOLEAN /\ mem[r] \in SagaRow
  BY <1>1, <1>2, WorksOnAnOrder DEF RunsTypeOK
<1>4. Says(pc[r], saving[r], order[o])
  BY <1>3 DEF OutcomeIsSaid
<1>5. ASSUME NEW at, NEW s, Moves(r, o, at, s), OutcomesStay, Says(at, s, order'[o]), job' = job
      PROVE  OutcomeIsSaid'
  BY <1>2, <1>5, SaidByOne
<1>6. ASSUME End(r), order' = order, order[o] # "PENDING"
      PROVE  OutcomeIsSaid'
  <2>1. Moves(r, None, "idle", FALSE)
    BY <1>1, <1>6 DEF End, Moves, RunsTypeOK
  <2>2. \A p \in Orders : job'[p].state = "done" => job[p].state = "done" \/ p = o
    BY <1>1, <1>6 DEF End, RestTypeOK
  <2>. QED
    BY <1>2, <1>6, <2>1, <2>2, SaidByOne DEF OutcomesStay
<1>7. order' = order => OutcomesStay
  BY DEF OutcomesStay
<1>8. CASE SaveRunning(r) \/ MarkPaid(r)
  <2>1. PICK at \in {"start", "mark_paid"}, row \in SagaRow : Save(r, at, row)
    <3>1. mem[r] \in SagaRow /\ [mem[r] EXCEPT !.step = "PAYMENT_COMPLETED"] \in SagaRow
      BY <1>3 DEF SagaRow, SagaStep
    <3>. QED
      BY <1>8, <3>1 DEF SaveRunning, MarkPaid
  <2>2. Moves(r, o, Succeeded(at), FALSE) /\ order' = order /\ job' = job
    BY <1>1, <1>3, <2>1 DEF Save, At, Moves, RunsTypeOK
  <2>3. Says(Succeeded(at), FALSE, order'[o])
    BY SucceededAt DEF Says
  <2>. QED
    BY <1>5, <1>7, <2>2, <2>3
<1>9. CASE SaveStep(r)
  <2>1. pc[r] \in Steps /\ saving[r] = TRUE /\ order' = order /\ job' = job
    BY <1>3, <1>9 DEF SaveStep
  <2>2. Moves(r, o, Succeeded(pc[r]), FALSE)
    BY <1>1, <1>9 DEF SaveStep, Enter, Moves, RunsTypeOK
  <2>3. Says(Succeeded(pc[r]), FALSE, order'[o])
    BY <1>4, <2>1, SucceededAt DEF Says, Steps
  <2>. QED
    BY <1>5, <1>7, <2>1, <2>2, <2>3
<1>10. CASE Complete(r) \/ Fail(r)
  <2>1. End(r) /\ order' = order /\ pc[r] \in {"complete", "fail"}
    BY <1>10 DEF Complete, Fail, SaveFinal, At
  <2>. QED
    BY <1>4, <1>6, <2>1 DEF Says
<1>11. CASE SaveCompensation(r)
  <2>1. saving[r] = TRUE /\ order' = order /\ pc[r] \in {"release", "cancel"}
    BY <1>3, <1>11 DEF SaveCompensation
  <2>2. CASE pc[r] = "release"
    <3>1. Enter(r, "cancel") /\ job' = job
      BY <1>11, <2>2 DEF SaveCompensation
    <3>2. Moves(r, o, "cancel", FALSE)
      BY <1>1, <3>1 DEF Enter, Moves, RunsTypeOK
    <3>3. Says("cancel", FALSE, order'[o])
      BY DEF Says
    <3>. QED
      BY <1>5, <1>7, <2>1, <3>1, <3>2, <3>3
  <2>3. CASE pc[r] = "cancel"
    <3>1. End(r)
      BY <1>11, <2>3 DEF SaveCompensation
    <3>. QED
      BY <1>4, <1>6, <2>1, <2>3, <3>1 DEF Says
  <2>. QED
    BY <2>1, <2>2, <2>3
<1>12. CASE StepFails(r) \/ ReserveRefused(r) \/ ReserveUnanswered(r)
  <2>1. /\ pc[r] \in {"verify", "reserve", "pay"} /\ pc[r] \in Steps
        /\ order' = order /\ job' = job /\ (Retry(r) \/ GiveUp(r))
    BY <1>12 DEF StepFails, ReserveRefused, ReserveUnanswered, At, Steps
  <2>2. PICK at \in {pc[r], GivenUp(pc[r])} : Moves(r, o, at, FALSE)
    BY <1>1, <2>1, RetryMoves, GiveUpMoves
  <2>3. Says(at, FALSE, order'[o])
    BY <2>1, GivenUpAt DEF Says
  <2>. QED
    BY <1>5, <1>7, <2>1, <2>2, <2>3
<1>13. CASE VerifyStock(r)
  <2>1. /\ pc[r] = "verify" /\ saving[r] = FALSE /\ order' = order /\ job' = job
        /\ NextLine(r, Done(r, "verify")) \/ GiveUp(r)
    BY <1>3, <1>13 DEF VerifyStock, At
  <2>2. PICK at \in {"verify", "cancel"}, s \in BOOLEAN :
          Moves(r, o, at, s) /\ (at = "cancel" => s = FALSE)
    BY <1>1, <2>1, NextLineMoves, GiveUpMoves, GivenUpAt, DoneIsARow DEF Steps
  <2>3. Says(at, s, order'[o])
    BY <2>2 DEF Says
  <2>. QED
    BY <1>5, <1>7, <2>1, <2>2, <2>3
<1>14. CASE ReserveInventory(r)
  <2>1. /\ pc[r] = "reserve" /\ saving[r] = FALSE /\ pc[r] # "idle"
        /\ NextLine(r, [Done(r, "reserve") EXCEPT !.reserved = TRUE])
        /\ order' = order /\ job' = job
    BY <1>3, <1>14 DEF ReserveInventory, At
  <2>2. PICK s \in BOOLEAN : Moves(r, o, "reserve", s)
    BY <1>1, <2>1, NextLineMoves, DoneIsARow DEF Steps
  <2>3. Says("reserve", s, order'[o])
    BY DEF Says
  <2>. QED
    BY <1>5, <1>7, <2>1, <2>2, <2>3
<1>15. CASE ProcessPayment(r) \/ SendNotification(r) \/ ReleaseInventory(r) \/ ReleaseFails(r)
  <2>1. /\ \E row : Result(r, row)
        /\ order' = order /\ job' = job /\ pc[r] \in {"pay", "notify", "release"}
    BY <1>15 DEF ProcessPayment, SendNotification, ReleaseInventory, ReleaseFails, At
  <2>2. Moves(r, o, pc[r], TRUE)
    BY <1>1, <2>1 DEF Result, Moves, RunsTypeOK
  <2>3. Says(pc[r], TRUE, order'[o])
    BY <2>1 DEF Says
  <2>. QED
    BY <1>5, <1>7, <2>1, <2>2, <2>3
<1>16. CASE ConfirmOrder(r) \/ CancelOrder(r)
  <2>1. PICK status \in {"CONFIRMED", "CANCELLED"} :
          /\ order' = [order EXCEPT ![o] = status] /\ job' = job
          /\ \E row : Result(r, row)
          /\ pc[r] \in {"confirm", "cancel"}
    BY <1>16 DEF ConfirmOrder, CancelOrder, At
  <2>2. Moves(r, o, pc[r], TRUE)
    BY <1>1, <2>1 DEF Result, Moves, RunsTypeOK
  <2>3. OutcomesStay /\ order'[o] # "PENDING"
    BY <1>1, <1>3, <2>1 DEF OutcomesStay, RestTypeOK
  <2>4. Says(pc[r], TRUE, order'[o])
    BY <2>1, <2>3 DEF Says
  <2>. QED
    BY <1>5, <2>1, <2>2, <2>3, <2>4
<1>. QED
  BY <1>8, <1>9, <1>10, <1>11, <1>12, <1>13, <1>14, <1>15, <1>16 DEF Step

\* Crashes, stalls, redeliveries and expiries decide nothing and end nothing.
LEMMA OutcomeIsStillSaid ==
  ASSUME IInv, OutcomeIsSaid, [Next]_vars
  PROVE  OutcomeIsSaid'
<1>1. RunsTypeOK /\ RestTypeOK
  BY InvSplit
<1>. SUFFICES ASSUME dbErrors' = 0
              PROVE  OutcomeIsSaid'
  BY DEF OutcomeIsSaid
<1>2. dbErrors \in Nat
  BY <1>1, BoundsAssumption DEF RestTypeOK
<1>3. ASSUME dbErrors' = dbErrors + 1 PROVE FALSE
  BY <1>2, <1>3
<1>4. CASE \E r \in Runs : Step(r)
  <2>1. PICK r \in Runs : Step(r)
    BY <1>4
  <2>2. dbErrors' = dbErrors
    BY <2>1
       DEF Step, SaveRunning, MarkPaid, Save, SaveStep, Complete, Fail, SaveFinal, VerifyStock,
           ReserveInventory, ReserveRefused, StepFails, ReserveUnanswered, ProcessPayment,
           SendNotification, ConfirmOrder, ReleaseInventory, ReleaseFails, CancelOrder,
           SaveCompensation, faults
  <2>. QED
    BY <2>1, <2>2, StepsSay
<1>5. CASE \E r \in Runs : DbError(r)
  BY <1>3, <1>5 DEF DbError
<1>6. CASE \E o \in Orders : TakeFails(o)
  BY <1>3, <1>6 DEF TakeFails
<1>7. CASE \E r \in Runs : Crash(r)
  <2>1. PICK r \in Runs : Crash(r)
    BY <1>7
  <2>2. UNCHANGED <<order, job, dbErrors>> /\ pc[r] # "idle"
    BY <2>1 DEF Crash, faults
  <2>3. Moves(r, None, "idle", FALSE)
    BY <1>1, <2>1 DEF Crash, Moves, RunsTypeOK
  <2>. QED
    BY <2>2, <2>3, SaidByOne DEF OutcomesStay
<1>8. CASE \E r \in Runs, o \in Orders : Take(r, o)
  <2>1. PICK r \in Runs, o \in Orders : Take(r, o)
    BY <1>8
  <2>2. /\ UNCHANGED <<order, dbErrors>>
        /\ \A p \in Orders : job'[p].state = "done" => job[p].state = "done"
    BY <1>1, <2>1 DEF Take, Job, faults, RestTypeOK, JobRow
  <2>3. /\ \A d \in Runs \ {r} : ord'[d] = ord[d] /\ pc'[d] = pc[d] /\ saving'[d] = saving[d]
        /\ pc'[r] = "start"
    BY <1>1, <2>1 DEF Take, RunsTypeOK
  <2>4. \A d \in Runs : ord'[d] # None => Says(pc'[d], saving'[d], order'[ord'[d]])
    BY <2>2, <2>3 DEF OutcomeIsSaid, Says
  <2>. QED
    BY <2>2, <2>4 DEF OutcomeIsSaid
<1>9. ASSUME UNCHANGED <<order, ord, pc, saving, dbErrors>>,
             \A p \in Orders : job'[p].state = "done" => job[p].state = "done"
      PROVE  OutcomeIsSaid'
  BY <1>9 DEF OutcomeIsSaid
<1>10. CASE \E o \in Orders : Stall(o) \/ TimeOut(o)
  <2>1. ASSUME NEW o \in Orders, Stall(o) \/ TimeOut(o), NEW p \in Orders
        PROVE  job'[p].state = "done" => job[p].state = "done"
    <3>1. job \in [Orders -> JobRow] /\ job[o].state = "active"
      BY <1>1, <2>1 DEF Stall, TimeOut, RestTypeOK
    <3>2. \A q \in Orders \ {o} : job'[q] = job[q]
      BY <2>1, <3>1 DEF Stall, TimeOut
    <3>3. job'[o].state \in {"waiting", "failed"}
      BY <2>1, <3>1 DEF Stall, TimeOut, Job, JobRow
    <3>. QED
      BY <3>2, <3>3
  <2>. QED
    BY <1>9, <1>10, <2>1 DEF Stall, TimeOut, run, faults
<1>11. CASE \/ \E o \in Orders : ExpireReservation(o)
            \/ \E request \in late : LateReserve(request[1], request[2])
            \/ UNCHANGED vars
  <2>1. UNCHANGED <<order, job, ord, pc, saving, dbErrors>>
    BY <1>11 DEF ExpireReservation, LateReserve, vars, run, faults
  <2>. QED
    BY <1>9, <2>1
<1>. QED
  BY <1>4, <1>5, <1>6, <1>7, <1>8, <1>10, <1>11 DEF Next

\* However often workers die, jobs stall, answers are lost and orders compete
\* for the stock: a saga whose job Bull reports as done has confirmed or
\* cancelled its order, unless a query of the Orders database failed.  (After
\* a failed query the processor may report a saga it could not read, or could
\* not cancel, as done.)
THEOREM DoneIsDecided ==
  Spec => [](\A o \in Orders : job[o].state = "done" /\ order[o] = "PENDING" => dbErrors > 0)
<1>1. Init => OutcomeIsSaid
  BY DEF Init, Job, OutcomeIsSaid
<1>2. IInv /\ OutcomeIsSaid =>
        \A o \in Orders : job[o].state = "done" /\ order[o] = "PENDING" => dbErrors > 0
  <2>1. IInv => dbErrors \in Nat
    BY InvSplit, BoundsAssumption DEF RestTypeOK
  <2>. QED
    BY <2>1 DEF OutcomeIsSaid
<1>3. IInv /\ OutcomeIsSaid /\ [Next]_vars => OutcomeIsSaid'
  BY OutcomeIsStillSaid
<1>. QED
  BY <1>1, <1>2, <1>3, InvariantHolds, PTL DEF Spec

-----------------------------------------------------------------------------
(* The stock under the sagas.                                               *)

LedgerRow == [status : {"pending", "confirmed", "released", "expired"},
              item : Items, qty : {q \in Quantities : q > 0}]

LedgerShape ==
  /\ onHand \in [Items -> Int] /\ held \in [Items -> Int]
  /\ rows \in [Orders -> {Inventory!NoRow} \cup LedgerRow]

\* However many orders there may be, only finitely many have a reservation.
Booked == {o \in Orders : rows[o] # Inventory!NoRow}

Books ==
  \A i \in Items :
    /\ held[i] = QtySum(rows, Column(Orders, rows, i, "pending"))
    /\ onHand[i] + QtySum(rows, Column(Orders, rows, i, "confirmed")) = InitialStock

\* Nothing is held beyond the stock.
HeldIsInStock ==
  \A i \in Items : held[i] >= 0 /\ (held[i] > 0 => held[i] <= onHand[i])

LedgerInv == LedgerShape /\ IsFiniteSet(Booked) /\ Books /\ HeldIsInStock

\* One entry changes the two columns of its items by what it moves.
LEMMA EntryPosted ==
  ASSUME LedgerInv, LedgerShape', NEW o \in Orders,
         \A x \in Orders \ {o} : rows'[x] = rows[x],
         NEW i \in Items, NEW st \in {"pending", "confirmed"}
  PROVE  LET before == QtySum(rows, Column(Orders, rows, i, st))
             after == QtySum(rows', Column(Orders, rows', i, st))
         IN /\ before \in Nat /\ after \in Nat
            /\ after + Units(rows[o], i, st) = before + Units(rows'[o], i, st)
<1>1. Column(Orders, rows, i, st) \subseteq Booked
  BY DEF Column, Booked, Inventory!NoRow
<1>2. IsFiniteSet(Column(Orders, rows, i, st))
  BY <1>1, FS_Subset DEF LedgerInv
<1>3. \A row \in {Inventory!NoRow} \cup LedgerRow : row.qty \in Nat
  <2>1. Inventory!NoRow.qty = 0
    BY DEF Inventory!NoRow
  <2>2. ASSUME NEW row \in LedgerRow PROVE row.qty \in Nat
    <3>1. PICK q \in {n \in Quantities : n > 0} : row.qty = q
      BY DEF LedgerRow
    <3>2. q \in Int /\ q > 0
      BY <3>1, StockAssumption
    <3>. QED
      BY <3>1, <3>2
  <2>. QED
    BY <2>1, <2>2
<1>4. \A x \in Orders : rows[x].qty \in Nat /\ rows'[x].qty \in Nat
  BY <1>3 DEF LedgerInv, LedgerShape
<1>5. OneEntry(Orders, rows, rows', o)
  BY <1>4 DEF OneEntry
<1>. QED
  BY <1>2, <1>5, Posting

\* ... and books at most one reservation more.
LEMMA StaysFinite ==
  ASSUME IsFiniteSet(Booked), NEW o \in Orders,
         \A x \in Orders \ {o} : rows'[x] = rows[x]
  PROVE  IsFiniteSet(Booked')
<1>1. IsFiniteSet(Booked \cup {o})
  BY FS_AddElement
<1>2. Booked' \subseteq Booked \cup {o}
  BY DEF Booked
<1>. QED
  BY <1>1, <1>2, FS_Subset

\* A reservation is entered where there was none.
LEMMA ReserveBalances ==
  ASSUME LedgerInv, NEW o \in Orders, NEW i \in Items, NEW q \in Quantities,
         Inventory!Reserve(o, i, q)
  PROVE  LedgerInv'
<1>. DEFINE n == [status |-> "pending", item |-> i, qty |-> q]
<1>1. /\ rows[o] = Inventory!NoRow /\ q \in Int /\ q > 0 /\ onHand[i] - held[i] >= q
      /\ held' = [held EXCEPT ![i] = @ + q] /\ rows' = [rows EXCEPT ![o] = n]
      /\ onHand' = onHand
  BY StockAssumption DEF Inventory!Reserve
<1>2. n \in LedgerRow
  BY <1>1 DEF LedgerRow
<1>3. LedgerShape'
  BY <1>1, <1>2 DEF LedgerInv, LedgerShape
<1>4. /\ rows'[o] = n /\ \A x \in Orders \ {o} : rows'[x] = rows[x]
      /\ \A j \in Items : held'[j] = IF j = i THEN held[j] + q ELSE held[j]
      /\ \A j \in Items : held[j] \in Int /\ onHand[j] \in Int
  BY <1>1 DEF LedgerInv, LedgerShape
<1>5. Books'
  <2>1. ASSUME NEW j \in Items
        PROVE  /\ held'[j] = QtySum(rows', Column(Orders, rows', j, "pending"))
               /\ onHand'[j] + QtySum(rows', Column(Orders, rows', j, "confirmed")) = InitialStock
    <3>. DEFINE P == QtySum(rows, Column(Orders, rows, j, "pending"))
                Q == QtySum(rows, Column(Orders, rows, j, "confirmed"))
                PP == QtySum(rows', Column(Orders, rows', j, "pending"))
                QQ == QtySum(rows', Column(Orders, rows', j, "confirmed"))
    <3>1. /\ P \in Nat /\ PP \in Nat
          /\ PP + Units(rows[o], j, "pending") = P + Units(n, j, "pending")
      BY <1>3, <1>4, EntryPosted
    <3>2. /\ Q \in Nat /\ QQ \in Nat
          /\ QQ + Units(rows[o], j, "confirmed") = Q + Units(n, j, "confirmed")
      BY <1>3, <1>4, EntryPosted
    <3>3. /\ Units(rows[o], j, "pending") = 0 /\ Units(rows[o], j, "confirmed") = 0
          /\ Units(n, j, "confirmed") = 0
          /\ Units(n, j, "pending") = IF j = i THEN q ELSE 0
      BY <1>1 DEF Units, Inventory!NoRow
    <3>4. held[j] = P /\ onHand[j] + Q = InitialStock
      BY DEF LedgerInv, Books
    <3>. HIDE DEF P, Q, PP, QQ, n
    <3>5. held'[j] = PP /\ onHand'[j] + QQ = InitialStock
      BY <1>1, <1>4, <3>1, <3>2, <3>3, <3>4
    <3>. QED
      BY <3>5 DEF PP, QQ
  <2>. QED
    BY <2>1 DEF Books
<1>6. HeldIsInStock'
  BY <1>1, <1>4 DEF LedgerInv, HeldIsInStock
<1>7. IsFiniteSet(Booked')
  BY <1>4, StaysFinite DEF LedgerInv
<1>. QED
  BY <1>3, <1>5, <1>6, <1>7 DEF LedgerInv

\* A pending reservation is settled: confirmed, with its units, or given back.
LEMMA SettleBalances ==
  ASSUME LedgerInv, NEW o \in Orders,
         NEW status \in {"confirmed", "released", "expired"},
         Inventory!Settle(o, status),
         onHand' = IF status = "confirmed"
                   THEN [onHand EXCEPT ![rows[o].item] = @ - rows[o].qty] ELSE onHand
  PROVE  LedgerInv'
<1>. DEFINE i == rows[o].item
            q == rows[o].qty
            n == [rows[o] EXCEPT !.status = status]
<1>1. /\ rows[o].status = "pending" /\ rows' = [rows EXCEPT ![o] = n]
      /\ held' = [held EXCEPT ![i] = @ - q]
  BY DEF Inventory!Settle
<1>2. rows[o] \in LedgerRow
  BY <1>1 DEF LedgerInv, LedgerShape, Inventory!NoRow
<1>3. i \in Items /\ q \in Quantities /\ q \in Int /\ q > 0
  BY <1>2, StockAssumption DEF LedgerRow
<1>4. n \in LedgerRow /\ n.status = status /\ n.item = i /\ n.qty = q
  BY <1>2 DEF LedgerRow
<1>5. LedgerShape'
  BY <1>1, <1>3, <1>4 DEF LedgerInv, LedgerShape
<1>. HIDE DEF n
<1>6. /\ rows'[o] = n /\ \A x \in Orders \ {o} : rows'[x] = rows[x]
      /\ \A j \in Items : held'[j] = IF j = i THEN held[j] - q ELSE held[j]
      /\ \A j \in Items : onHand'[j] = IF j = i /\ status = "confirmed"
                                       THEN onHand[j] - q ELSE onHand[j]
      /\ \A j \in Items : held[j] \in Int /\ onHand[j] \in Int
  BY <1>1 DEF LedgerInv, LedgerShape
<1>7. Books' /\ HeldIsInStock'
  <2>1. ASSUME NEW j \in Items
        PROVE  /\ held'[j] = QtySum(rows', Column(Orders, rows', j, "pending"))
               /\ onHand'[j] + QtySum(rows', Column(Orders, rows', j, "confirmed")) = InitialStock
               /\ held'[j] >= 0 /\ (held'[j] > 0 => held'[j] <= onHand'[j])
    <3>. DEFINE P == QtySum(rows, Column(Orders, rows, j, "pending"))
                Q == QtySum(rows, Column(Orders, rows, j, "confirmed"))
                PP == QtySum(rows', Column(Orders, rows', j, "pending"))
                QQ == QtySum(rows', Column(Orders, rows', j, "confirmed"))
    <3>1. /\ P \in Nat /\ PP \in Nat
          /\ PP + Units(rows[o], j, "pending") = P + Units(n, j, "pending")
      BY <1>5, <1>6, EntryPosted
    <3>2. /\ Q \in Nat /\ QQ \in Nat
          /\ QQ + Units(rows[o], j, "confirmed") = Q + Units(n, j, "confirmed")
      BY <1>5, <1>6, EntryPosted
    <3>3. /\ Units(rows[o], j, "pending") = (IF j = i THEN q ELSE 0)
          /\ Units(rows[o], j, "confirmed") = 0
          /\ Units(n, j, "pending") = 0
          /\ Units(n, j, "confirmed") = IF j = i /\ status = "confirmed" THEN q ELSE 0
      BY <1>1, <1>4 DEF Units
    <3>4. held[j] = P /\ onHand[j] + Q = InitialStock
      BY DEF LedgerInv, Books
    <3>5. held[j] >= 0 /\ (held[j] > 0 => held[j] <= onHand[j])
      BY DEF LedgerInv, HeldIsInStock
    <3>. HIDE DEF P, Q, PP, QQ, i, q
    <3>6. held'[j] = PP /\ onHand'[j] + QQ = InitialStock
      BY <1>3, <1>6, <3>1, <3>2, <3>3, <3>4
    <3>7. held'[j] >= 0 /\ (held'[j] > 0 => held'[j] <= onHand'[j])
      BY <1>3, <1>6, <3>1, <3>5, <3>6
    <3>. QED
      BY <3>6, <3>7 DEF PP, QQ
  <2>. QED
    BY <2>1 DEF Books, HeldIsInStock
<1>8. IsFiniteSet(Booked')
  BY <1>6, StaysFinite DEF LedgerInv
<1>. QED
  BY <1>5, <1>7, <1>8 DEF LedgerInv

\* Every step of the ledger keeps its books.
LEMMA LedgerStepBalances ==
  ASSUME LedgerInv, [Inventory!Next]_(Inventory!ledgerVars)
  PROVE  LedgerInv'
<1>1. ASSUME NEW o \in Orders, NEW i \in Items, NEW q \in Quantities,
             Inventory!Reserve(o, i, q)
      PROVE  LedgerInv'
  BY <1>1, ReserveBalances
<1>2. ASSUME NEW o \in Orders, Inventory!Confirm(o)
      PROVE  LedgerInv'
  BY <1>2, SettleBalances DEF Inventory!Confirm
<1>3. ASSUME NEW o \in Orders, Inventory!GiveBack(o)
      PROVE  LedgerInv'
  <2>1. PICK status \in {"released", "expired"} : Inventory!Settle(o, status)
    BY <1>3 DEF Inventory!GiveBack
  <2>2. onHand' = onHand /\ status # "confirmed"
    BY <1>3 DEF Inventory!GiveBack
  <2>. QED
    BY <2>1, <2>2, SettleBalances
<1>4. CASE UNCHANGED Inventory!ledgerVars
  BY <1>4 DEF Inventory!ledgerVars, LedgerInv, LedgerShape, Booked, Books, HeldIsInStock
<1>. QED
  BY <1>1, <1>2, <1>3, <1>4 DEF Inventory!Next

\* Nothing is held and nothing has been sold at first.
LEMMA LedgerStartsBalanced == Inventory!Init => LedgerInv
<1>. SUFFICES ASSUME Inventory!Init PROVE LedgerInv
  OBVIOUS
<1>1. /\ \A o \in Orders : rows[o] = Inventory!NoRow
      /\ \A i \in Items : onHand[i] = InitialStock /\ held[i] = 0
  BY DEF Inventory!Init
<1>2. Booked = {}
  BY <1>1 DEF Booked
<1>3. \A i \in Items : /\ Column(Orders, rows, i, "pending") = {}
                       /\ Column(Orders, rows, i, "confirmed") = {}
  BY <1>1 DEF Column, Inventory!NoRow
<1>4. Books
  BY <1>1, <1>3, SumOfNone, StockAssumption DEF Books
<1>5. LedgerShape
  BY StockAssumption DEF Inventory!Init, LedgerShape
<1>6. HeldIsInStock
  BY <1>1 DEF HeldIsInStock
<1>. QED
  BY <1>2, <1>4, <1>5, <1>6, FS_EmptySet DEF LedgerInv

\* The columns are the ledger's own sums.
LEMMA BooksAreDoubleEntry == Books => Inventory!DoubleEntry
<1>1. ASSUME NEW i, NEW st
      PROVE  Inventory!Units(i, st) = QtySum(rows, Column(Orders, rows, i, st))
  BY DEF Inventory!Units, QtySum, Column, MapThenSumSet, MapThenFoldSet,
         Inventory!MapThenSumSet, Inventory!MapThenFoldSet
<1>. QED
  BY <1>1 DEF Books, Inventory!DoubleEntry

\* The abstract ledger keeps its promise for any number of items and orders:
\* every unit held belongs to a pending reservation, every unit that left to a
\* confirmed one, and nothing is held that is not in stock.
THEOREM LedgerBalances == Inventory!Spec => [](Inventory!DoubleEntry /\ HeldIsInStock)
<1>1. LedgerInv => Inventory!DoubleEntry /\ HeldIsInStock
  BY BooksAreDoubleEntry DEF LedgerInv
<1>2. LedgerInv /\ [Inventory!Next]_(Inventory!ledgerVars) => LedgerInv'
  BY LedgerStepBalances
<1>. QED
  BY <1>1, <1>2, LedgerStartsBalanced, PTL DEF Inventory!Spec
==============================================================================
