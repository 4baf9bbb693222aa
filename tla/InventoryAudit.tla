--------------------------- MODULE InventoryAudit ---------------------------
(***************************************************************************)
(* The books of the reservation use cases, over the whole history.  A      *)
(* history variable notes whether two workers have ever had the same       *)
(* reservation in hand at once (or a write of a use case has been cut      *)
(* short): the optimistic lock is on the item, so two workers on different *)
(* reservations of one item are serialised by it, and two workers on one   *)
(* reservation are not.                                                    *)
(***************************************************************************)
EXTENDS InventoryReservation, FiniteSetsExt

VARIABLE overlapped

auditVars == <<vars, overlapped>>

\* The reservations a worker has read and not finished with.  The sweep acts
\* on what FindExpired returned, the job reads each row again.
InHand(w) ==
  (IF req[w].order # None THEN {req[w].order} ELSE {})
    \cup (IF req[w].op = "sweep" THEN batch[w] ELSE {})

Overlap ==
  \E w1, w2 \in Workers : w1 # w2 /\ InHand(w1) \cap InHand(w2) # {}

AuditInit == Init /\ overlapped = FALSE

AuditNext ==
  /\ Next
  /\ overlapped' = (overlapped \/ Overlap' \/ failures' > 0)

AuditSpec == AuditInit /\ [][AuditNext]_auditVars

-----------------------------------------------------------------------------
Total(S) == MapThenSumSet(LAMBDA o : rows[o].qty, S)

RowsOf(i, status) == {o \in Orders : rows[o].item = i /\ rows[o].status = status}

-----------------------------------------------------------------------------
(* The abstract ledger.  A use case takes effect when it writes the item;   *)
(* a row whose use case is between its two writes counts as written.       *)

Writer(o) == {w \in Workers : pc[w] = "write_row" /\ req[w].order = o}

ledgerRows ==
  [o \in Orders |->
     IF Writer(o) = {} THEN rows[o]
     ELSE LET r == req[CHOOSE w \in Writer(o) : TRUE]
          IN [status |-> Target(r.op), item |-> r.item, qty |-> r.qty]]

Ledger == INSTANCE StockLedger WITH
            onHand <- [i \in Items |-> items[i].quantity],
            held <- [i \in Items |-> items[i].reserved],
            rows <- ledgerRows

-----------------------------------------------------------------------------
(* Properties.                                                             *)

\* Any number of workers: every step is a step of the ledger for as long as
\* no two of them have met on one reservation and nothing has failed.
LedgerUntilOverlap ==
  [][~overlapped' => [Ledger!Next]_(Ledger!ledgerVars)]_auditVars

\* As long as no two workers met on one reservation and nothing failed, the
\* tables balance like the ledger, however the workers interleave: an item
\* holds exactly what its pending reservations hold, and has lost exactly
\* what was confirmed.
BooksBalance == ~overlapped => Ledger!DoubleEntry

\* "Código sin race conditions verificado (optimistic locking + atomic
\* operations)", docs/PROJECT_BACKLOG.md:859: a pending reservation that
\* nobody is working on has its units held.
PendingIsHeld ==
  (\A w \in Workers : pc[w] = "idle") =>
    \A i \in Items : items[i].reserved >= Total(RowsOf(i, "pending"))

\* Whatever races, errors and crashes happen, what was confirmed and what is
\* left on the shelf never exceed what there was: no unit is sold twice
\* (ConfirmReservation writes the item before the row).
NoOversell ==
  \A i \in Items :
    Total(RowsOf(i, "confirmed")) + items[i].quantity <= InitialStock

\* Without overlap or failure, the events tell one story per order: stock
\* that was announced confirmed was not also announced released, and each
\* announcement is what the row says.
EventsTellTheTruth ==
  ~overlapped =>
    \A e \in events :
      /\ e.type = "StockConfirmed" => rows[e.order].status = "confirmed"
      /\ e.type = "StockReleased" => rows[e.order].status = "released"
==============================================================================
