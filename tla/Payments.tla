---- MODULE Payments ----
(***************************************************************************)
(* The simulated payment gateway: PaymentsService, which the saga calls,   *)
(* and MockPaymentProvider, its successor.  Both keep payments, refunds    *)
(* and idempotency keys in the memory of one process.  A call makes its    *)
(* checks, waits for a simulated delay and then writes, so the calls of    *)
(* other clients come between its checks and its writes.                   *)
(***************************************************************************)
EXTENDS Naturals

CONSTANTS
    Payers,          \* clients, one call at a time each
    PaymentIds,      \* the random ids
    PayKeys, NoKey,  \* idempotency keys; a call may carry none
    Customers,       \* whose attempts the provider counts
    Amounts,         \* what calls ask to pay or to give back
    FraudLimit,      \* 10000 in the code
    AttemptsPerMinute  \* 10 in the code

ASSUME PaymentsAssumption ==
    /\ Amounts \subseteq Nat \ {0}
    /\ FraudLimit \in Nat
    /\ AttemptsPerMinute \in Nat \ {0}
    /\ NoKey \notin PayKeys

VARIABLES
    gateway,    \* which of the two classes serves the calls
    payments,   \* the payments stored, a function on their ids
    keyOf,      \* idempotencyKeys: the payment that used a key
    refunded,   \* the sum of the refunds stored for each payment
    attempts,   \* rateLimitMap: attempts counted in each customer's window
    paying,     \* the call each client has in flight
    met         \* history: keys and payments that two calls had in hand at once

payVars == <<gateway, payments, keyOf, refunded, attempts, paying, met>>

PaymentStatus == {"SUCCEEDED", "FAILED", "REFUNDED", "PARTIALLY_REFUNDED"}
Payment == [amount: Amounts, status: PaymentStatus, key: PayKeys \cup {NoKey}]

NoCall == [doing |-> "nothing"]
Charging(amount, key) == [doing |-> "charge", amount |-> amount, key |-> key]
Refunding(p, amount, seen) ==
    [doing |-> "refund", payment |-> p, amount |-> amount, seen |-> seen]

IsCharging(c) == paying[c].doing = "charge"
IsRefunding(c) == paying[c].doing = "refund"

Stored == DOMAIN payments
Charged(p) == payments[p].status # "FAILED"
WithKey(k) == {c \in Payers : IsCharging(c) /\ paying[c].key = k}
RefundsOf(p) == {c \in Payers : IsRefunding(c) /\ paying[c].payment = p}

Keep(c, call) == paying' = [paying EXCEPT ![c] = call]

\* The random id of a payment; the instance has as many as PaymentIds.
IdLeft == PaymentIds \ Stored # {}
FreshId == CHOOSE p \in PaymentIds : p \notin Stored

-----------------------------------------------------------------------------
\* processPayment, up to the delay.

\* checkRateLimit: only the provider counts, and calls it turns away do not.
MayTry(customer) == gateway = "PaymentsService" \/ attempts[customer] < AttemptsPerMinute
Count(customer) ==
    IF gateway = "PaymentsService" THEN attempts ELSE [attempts EXCEPT ![customer] = @ + 1]

KnownKey(k) == k \in DOMAIN keyOf

ProcessPayment(c, customer, amount, k) ==
    /\ paying[c] = NoCall
    /\ MayTry(customer) /\ ~KnownKey(k)
    /\ attempts' = Count(customer)
    /\ Keep(c, Charging(amount, k))
    /\ met' = IF k # NoKey /\ WithKey(k) # {} THEN met \cup {k} ELSE met
    /\ UNCHANGED <<gateway, payments, keyOf, refunded>>

\* The stored payment is the answer; the attempt counts all the same.
ReturnExisting(customer, k) ==
    /\ MayTry(customer) /\ KnownKey(k)
    /\ attempts' = Count(customer)
    /\ UNCHANGED <<gateway, payments, keyOf, refunded, paying, met>>

\* validatePaymentMethod: only the provider looks, after it has counted.
MethodRefused(customer) ==
    /\ gateway = "MockPaymentProvider" /\ MayTry(customer)
    /\ attempts' = Count(customer)
    /\ UNCHANGED <<gateway, payments, keyOf, refunded, paying, met>>

StorePayment(p, c, status) ==
    /\ payments' = [q \in Stored \cup {p} |->
          IF q = p THEN [amount |-> paying[c].amount, status |-> status, key |-> paying[c].key]
          ELSE payments[q]]
    /\ refunded' = [q \in Stored \cup {p} |-> IF q = p THEN 0 ELSE refunded[q]]

PaymentSucceeds_forgetsKey(c) ==
    /\ IsCharging(c) /\ IdLeft /\ paying[c].amount <= FraudLimit
    /\ StorePayment(FreshId, c, "SUCCEEDED")
    /\ Keep(c, NoCall)
    /\ UNCHANGED <<gateway, keyOf, attempts, met>>

\* processPayment, after the delay: a success is stored with its key.
PaymentSucceeds(c) ==
    LET k == paying[c].key IN
    /\ IsCharging(c) /\ IdLeft /\ paying[c].amount <= FraudLimit
    /\ StorePayment(FreshId, c, "SUCCEEDED")
    /\ keyOf' = IF k = NoKey THEN keyOf
                ELSE [j \in DOMAIN keyOf \cup {k} |-> IF j = k THEN FreshId ELSE keyOf[j]]
    /\ Keep(c, NoCall)
    /\ UNCHANGED <<gateway, attempts, met>>

\* A failure, for now or for good: the provider stores it, without the key.
PaymentFails(c) ==
    /\ IsCharging(c)
    /\ IF gateway = "PaymentsService" \/ paying[c].amount > FraudLimit
       THEN UNCHANGED <<payments, refunded>>
       ELSE IdLeft /\ StorePayment(FreshId, c, "FAILED")
    /\ Keep(c, NoCall)
    /\ UNCHANGED <<gateway, keyOf, attempts, met>>

-----------------------------------------------------------------------------
\* refundPayment.  The service compares with the whole amount and refunds a
\* payment once; the provider adds up the refunds stored so far.
Refundable(p) ==
    \/ payments[p].status = "SUCCEEDED"
    \/ gateway = "MockPaymentProvider" /\ payments[p].status = "PARTIALLY_REFUNDED"
LeftToRefund_whole(p) == payments[p].amount
LeftToRefund(p) ==
    IF gateway = "PaymentsService" THEN payments[p].amount
    ELSE payments[p].amount - refunded[p]

RefundPayment(c, p, amount) ==
    /\ paying[c] = NoCall
    /\ Refundable(p) /\ amount <= LeftToRefund(p)
    /\ Keep(c, Refunding(p, amount, IF gateway = "PaymentsService" THEN 0 ELSE refunded[p]))
    /\ met' = IF RefundsOf(p) # {} THEN met \cup {p} ELSE met
    /\ UNCHANGED <<gateway, payments, keyOf, refunded, attempts>>

\* After the delay.  The new status follows from the sum read before it.
RefundStored(c) ==
    LET p == paying[c].payment
        amount == paying[c].amount
    IN  /\ IsRefunding(c)
        /\ refunded' = [refunded EXCEPT ![p] = @ + amount]
        /\ payments' = [payments EXCEPT ![p].status =
              IF paying[c].seen + amount = payments[p].amount
              THEN "REFUNDED" ELSE "PARTIALLY_REFUNDED"]
        /\ Keep(c, NoCall)
        /\ UNCHANGED <<gateway, keyOf, attempts, met>>

-----------------------------------------------------------------------------
\* The minute of a customer's window is over.
WindowEnds(customer) ==
    /\ attempts[customer] > 0
    /\ attempts' = [attempts EXCEPT ![customer] = 0]
    /\ UNCHANGED <<gateway, payments, keyOf, refunded, paying, met>>

PaymentsInit ==
    /\ gateway \in {"PaymentsService", "MockPaymentProvider"}
    /\ payments = [p \in {} |-> 0] /\ keyOf = [k \in {} |-> 0] /\ refunded = [p \in {} |-> 0]
    /\ attempts = [u \in Customers |-> 0]
    /\ paying = [c \in Payers |-> NoCall]
    /\ met = {}

PaymentsNext ==
    \/ \E c \in Payers, u \in Customers, a \in Amounts, k \in PayKeys \cup {NoKey} :
          ProcessPayment(c, u, a, k)
    \/ \E u \in Customers, k \in PayKeys : ReturnExisting(u, k)
    \/ \E u \in Customers : MethodRefused(u)
    \/ \E c \in Payers : PaymentSucceeds(c)
    \/ \E c \in Payers : PaymentFails(c)
    \/ \E c \in Payers, p \in Stored, a \in Amounts : RefundPayment(c, p, a)
    \/ \E c \in Payers : RefundStored(c)
    \/ \E u \in Customers : WindowEnds(u)

PaymentsSpec == PaymentsInit /\ [][PaymentsNext]_payVars

-----------------------------------------------------------------------------
\* What is stored is a payment with the sum of its refunds, and a call in
\* flight is a charge or a refund of a stored payment.
PaymentsTypeOK ==
    /\ gateway \in {"PaymentsService", "MockPaymentProvider"}
    /\ Stored \subseteq PaymentIds
    /\ payments \in [Stored -> Payment]
    /\ refunded \in [Stored -> Nat]
    /\ DOMAIN keyOf \subseteq PayKeys
    /\ keyOf \in [DOMAIN keyOf -> Stored]
    /\ attempts \in [Customers -> 0..AttemptsPerMinute]
    /\ paying \in [Payers ->
          {NoCall} \cup [doing: {"charge"}, amount: Amounts, key: PayKeys \cup {NoKey}]
                   \cup [doing: {"refund"}, payment: Stored, amount: Amounts, seen: Nat]]

\* A key charges once, unless two calls with it were in flight together: then
\* both looked for the key before either had stored it.
OneChargePerKey ==
    \A k \in PayKeys \ met :
       \A p, q \in Stored : (/\ Charged(p) /\ payments[p].key = k
                             /\ Charged(q) /\ payments[q].key = k) => p = q

\* No more is given back than was paid, and the status tells how much was,
\* unless two refunds of the payment were in flight together: then both
\* compared with the same sum.
RefundsWithinPayment ==
    \A p \in Stored \ met :
       /\ refunded[p] <= payments[p].amount
       /\ payments[p].status \in {"SUCCEEDED", "FAILED"} <=> refunded[p] = 0
       /\ payments[p].status = "REFUNDED" <=> refunded[p] = payments[p].amount

\* What the gateway's clients may rely on: as long as no two calls had one key
\* or one payment in hand at once, the charges and refunds are those of the
\* ledger, each checked and booked in one step, although the code awaits
\* between the check and the write.
ChargedIds == {p \in Stored : Charged(p)}

Ledger == INSTANCE PaymentLedger
    WITH Keys <- PayKeys, Ids <- PaymentIds,
         paid <- [p \in ChargedIds |-> [amount |-> payments[p].amount, key |-> payments[p].key]],
         back <- [p \in ChargedIds |-> refunded[p]]

LedgerUntilMet == [][met' = {} => (Ledger!Next \/ UNCHANGED Ledger!ledgerVars)]_payVars
====
