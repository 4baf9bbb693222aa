---- MODULE PaymentLedger ----
(***************************************************************************)
(* What a payment gateway promises: a key is charged in one step and once, *)
(* and a refund is checked and booked in one step.                         *)
(***************************************************************************)
EXTENDS Naturals

CONSTANTS Keys, NoKey, Amounts, Ids

VARIABLES
    paid,    \* what was charged, per payment, and under which key
    back     \* what was given back, per payment

ledgerVars == <<paid, back>>

Empty == [x \in {} |-> 0]

Book(f, x, v) == [y \in DOMAIN f \cup {x} |-> IF y = x THEN v ELSE f[y]]

UsedKeys == {paid[p].key : p \in DOMAIN paid} \ {NoKey}

Init == paid = Empty /\ back = Empty

Charge(p, a, k) ==
    /\ p \notin DOMAIN paid /\ k \notin UsedKeys
    /\ paid' = Book(paid, p, [amount |-> a, key |-> k])
    /\ back' = Book(back, p, 0)

Refund(p, a) ==
    /\ back[p] + a <= paid[p].amount
    /\ back' = [back EXCEPT ![p] = @ + a]
    /\ UNCHANGED paid

Next ==
    \/ \E p \in Ids, a \in Amounts, k \in Keys \cup {NoKey} : Charge(p, a, k)
    \/ \E p \in DOMAIN paid, a \in Amounts : Refund(p, a)

Spec == Init /\ [][Next]_ledgerVars
====
