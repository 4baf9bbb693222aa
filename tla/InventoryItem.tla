---------------------------- MODULE InventoryItem ----------------------------
(***************************************************************************)
(* The domain entity of the Inventory Service                              *)
(* (internal/domain/entity/inventory_item.go): a stock row and the         *)
(* arithmetic its methods perform.  An item is a record                    *)
(*   [quantity, reserved, version];                                        *)
(* the version is written by the repository, never by the entity.  Each    *)
(* method is a guard (the conditions under which it returns no error) and  *)
(* the item it leaves.                                                     *)
(***************************************************************************)
EXTENDS Integers

Item == [quantity : Nat, reserved : Nat, version : Nat]

\* Stock that no reservation holds.
Available(it) == it.quantity - it.reserved

\* Seeded fault: availability is not checked.
CanReserve_unchecked(it, q) == q > 0

CanReserve(it, q) == q > 0 /\ Available(it) >= q

\* ReleaseReservation refuses to give back more than is reserved.
CanRelease(it, q) == q > 0 /\ it.reserved >= q

CanConfirm(it, q) == q > 0 /\ it.reserved >= q /\ it.quantity >= q

Reserve(it, q) == [it EXCEPT !.reserved = @ + q]

ReleaseReservation(it, q) == [it EXCEPT !.reserved = @ - q]

\* Seeded fault: the sale leaves the hold in place.
ConfirmReservation_keepsHold(it, q) == [it EXCEPT !.quantity = @ - q]

\* Confirming turns the hold into a permanent deduction.
ConfirmReservation(it, q) ==
  [quantity |-> it.quantity - q, reserved |-> it.reserved - q,
   version |-> it.version]

\* The row with the columns of an item in memory and a version of its own.
Versioned(it, v) ==
  [quantity |-> it.quantity, reserved |-> it.reserved, version |-> v]

\* What the domain and the table's CHECK constraints require of a row.
Sane(it) == 0 <= it.reserved /\ it.reserved <= it.quantity
==============================================================================
