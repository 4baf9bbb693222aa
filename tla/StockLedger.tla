----------------------------- MODULE StockLedger -----------------------------
(***************************************************************************)
(* What the reservation use cases promise: a ledger in which reserving,    *)
(* confirming and giving back are single steps.  Stock on hand leaves only *)
(* by confirmation, and what is held is held by a pending reservation.     *)
(* The clock is left out: whether a reservation could still be confirmed   *)
(* is decided by the service, the ledger only requires it to be pending.   *)
(***************************************************************************)
EXTENDS Integers, FiniteSetsExt

CONSTANTS Items, Orders, Quantities, InitialStock, None

VARIABLES
  onHand,   \* units in stock, by item
  held,     \* units held by pending reservations, by item
  rows      \* the reservation of each order

ledgerVars == <<onHand, held, rows>>

NoRow == [status |-> "none", item |-> None, qty |-> 0]

Init ==
  /\ onHand = [i \in Items |-> InitialStock]
  /\ held = [i \in Items |-> 0]
  /\ rows = [o \in Orders |-> NoRow]

Reserve(o, i, q) ==
  /\ rows[o] = NoRow
  /\ q > 0 /\ onHand[i] - held[i] >= q
  /\ held' = [held EXCEPT ![i] = @ + q]
  /\ rows' = [rows EXCEPT ![o] = [status |-> "pending", item |-> i, qty |-> q]]
  /\ UNCHANGED onHand

Settle(o, status) ==
  /\ rows[o].status = "pending"
  /\ rows' = [rows EXCEPT ![o].status = status]
  /\ held' = [held EXCEPT ![rows[o].item] = @ - rows[o].qty]

Confirm(o) ==
  /\ Settle(o, "confirmed")
  /\ onHand' = [onHand EXCEPT ![rows[o].item] = @ - rows[o].qty]

GiveBack(o) ==
  /\ \E status \in {"released", "expired"} : Settle(o, status)
  /\ UNCHANGED onHand

Next ==
  \E o \in Orders :
    \/ \E i \in Items, q \in Quantities : Reserve(o, i, q)
    \/ Confirm(o)
    \/ GiveBack(o)

Spec == Init /\ [][Next]_ledgerVars

-----------------------------------------------------------------------------
Units(i, status) ==
  MapThenSumSet(LAMBDA o : rows[o].qty,
                {o \in Orders : rows[o].item = i /\ rows[o].status = status})

\* Double entry: every held unit belongs to a pending reservation and every
\* unit that left belongs to a confirmed one (the promise behind the comments
\* "this operation should be atomic" of the confirm and release use cases).
DoubleEntry ==
  \A i \in Items :
    /\ held[i] = Units(i, "pending")
    /\ onHand[i] + Units(i, "confirmed") = InitialStock
==============================================================================
