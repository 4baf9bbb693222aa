-------------------------- MODULE Storefront_proofs --------------------------
(***************************************************************************)
(* Proofs about the six parts that answer requests and share no state: the *)
(* payment gateway, accounts, the stock cache, the request limiters, the   *)
(* retries around a reservation and the circuit breaker.  Each holds for   *)
(* any callers, keys, limits and options.                                  *)
(***************************************************************************)
EXTENDS Payments, Accounts, StockCache, RateLimits, Retries, CircuitBreaker,
        FiniteSetTheorems, WellFoundedInduction, TLAPS


-----------------------------------------------------------------------------
(* The payment gateway: its promises hold for every key and every payment  *)
(* that no two calls had in hand at once, and as long as there was none    *)
(* such, it implements the ledger.                                         *)
(* A call acts on what it saw before its delay, so the invariant says what *)
(* that is still worth afterwards: a key that one call at most has in hand *)
(* is as unused as that call found it, and the sum a refund has seen is    *)
(* the sum that is stored.                                                 *)

\* One call at most has the key in hand, and then no payment has used it.
KeyInHandIsFree ==
    \A c \in Payers : IsCharging(c) /\ paying[c].key \in PayKeys \ met =>
        /\ paying[c].key \notin DOMAIN keyOf
        /\ \A d \in Payers : IsCharging(d) /\ paying[d].key = paying[c].key => d = c

\* keyOf names the payment that was charged under the key.
KeyOfTells ==
    \A k \in PayKeys \ met, p \in Stored :
       Charged(p) /\ payments[p].key = k => k \in DOMAIN keyOf /\ keyOf[k] = p

\* A refund in flight is of a charged payment; it is the only one, and what
\* it saw is what is stored.
RefundInHandIsFresh ==
    \A c \in Payers : IsRefunding(c) =>
        /\ Charged(paying[c].payment)
        /\ paying[c].payment \notin met =>
             /\ paying[c].seen = refunded[paying[c].payment]
             /\ paying[c].seen + paying[c].amount <= payments[paying[c].payment].amount
             /\ \A d \in Payers :
                  IsRefunding(d) /\ paying[d].payment = paying[c].payment => d = c

PInv ==
    /\ PaymentsTypeOK /\ KeyInHandIsFree /\ KeyOfTells /\ RefundInHandIsFresh
    /\ RefundsWithinPayment

PayCalls == {NoCall} \cup [doing: {"charge"}, amount: Amounts, key: PayKeys \cup {NoKey}]
                     \cup [doing: {"refund"}, payment: Stored, amount: Amounts, seen: Nat]

-----------------------------------------------------------------------------
\* What the type invariant says of a call, by its kind.
LEMMA CallShapes ==
    ASSUME PaymentsTypeOK, NEW c \in Payers
    PROVE  /\ paying[c] \in PayCalls
           /\ IsCharging(c) => /\ paying[c].amount \in Amounts
                               /\ paying[c].key \in PayKeys \cup {NoKey}
                               /\ ~IsRefunding(c)
           /\ IsRefunding(c) => /\ paying[c].payment \in Stored
                                /\ paying[c].amount \in Amounts
                                /\ paying[c].seen \in Nat
                                /\ paying[c] \in [doing: {"refund"}, payment: Stored,
                                                  amount: Amounts, seen: Nat]
  BY DEF PaymentsTypeOK, PayCalls, IsCharging, IsRefunding, NoCall

\* What a payment stored holds.
LEMMA PaymentShapes ==
    ASSUME PaymentsTypeOK, NEW p \in Stored
    PROVE  /\ p \in PaymentIds
           /\ payments[p] \in Payment
           /\ payments[p].amount \in Nat \ {0}
           /\ payments[p].status \in PaymentStatus
           /\ refunded[p] \in Nat
  BY PaymentsAssumption DEF PaymentsTypeOK, Payment

\* The id of a new payment is not in use.
LEMMA FreshIdIsFree ==
    ASSUME IdLeft
    PROVE  FreshId \in PaymentIds /\ FreshId \notin Stored
  BY DEF IdLeft, FreshId, Stored

\* StorePayment adds one payment and leaves the others.
LEMMA StoringAdds ==
    ASSUME NEW p, p \notin Stored, NEW c, NEW status, StorePayment(p, c, status)
    PROVE  /\ Stored' = Stored \cup {p}
           /\ payments' = [q \in Stored \cup {p} |-> payments'[q]]
           /\ refunded' = [q \in Stored \cup {p} |-> refunded'[q]]
           /\ payments'[p] = [amount |-> paying[c].amount, status |-> status,
                              key |-> paying[c].key]
           /\ refunded'[p] = 0
           /\ \A q \in Stored : payments'[q] = payments[q] /\ refunded'[q] = refunded[q]
  BY DEF StorePayment, Stored

\* The invariant holds of gateways without payments.
LEMMA PaymentsInitially == PaymentsInit => PInv
  BY PaymentsAssumption
  DEF PaymentsInit, PInv, PaymentsTypeOK, KeyInHandIsFree, KeyOfTells, RefundInHandIsFresh,
      RefundsWithinPayment, Stored, NoCall, IsCharging, IsRefunding

-----------------------------------------------------------------------------
(* One lemma per action.                                                   *)

\* Counting an attempt leaves everything else as it is.
LEMMA AttemptsOnly ==
    ASSUME PInv, attempts' \in [Customers -> 0..AttemptsPerMinute],
           UNCHANGED <<gateway, payments, keyOf, refunded, paying, met>>
    PROVE  PInv'
<1>1. Stored' = Stored
  BY DEF Stored
<1>2. PaymentsTypeOK'
  BY <1>1 DEF PInv, PaymentsTypeOK, Payment, NoCall
<1>3. KeyInHandIsFree'
  BY DEF PInv, KeyInHandIsFree, IsCharging
<1>4. KeyOfTells'
  BY <1>1 DEF PInv, KeyOfTells, Charged
<1>5. RefundInHandIsFresh'
  BY <1>1 DEF PInv, RefundInHandIsFresh, IsRefunding, Charged
<1>6. RefundsWithinPayment'
  BY <1>1 DEF PInv, RefundsWithinPayment
<1>. QED
  BY <1>2, <1>3, <1>4, <1>5, <1>6 DEF PInv

\* An attempt that may be made is counted within the limit.
LEMMA CountIsTyped ==
    ASSUME PaymentsTypeOK, NEW u \in Customers, MayTry(u)
    PROVE  Count(u) \in [Customers -> 0..AttemptsPerMinute]
  BY PaymentsAssumption DEF PaymentsTypeOK, MayTry, Count

\* A charge begins: its key is unused, and if another call has it in hand
\* already the key is in met from now on.
LEMMA ProcessPaymentKeeps ==
    ASSUME PInv, NEW c \in Payers, NEW u \in Customers, NEW a \in Amounts,
           NEW k \in PayKeys \cup {NoKey}, ProcessPayment(c, u, a, k)
    PROVE  PInv'
<1>. DEFINE begun == Charging(a, k)
<1>1. /\ paying' = [paying EXCEPT ![c] = begun]
      /\ UNCHANGED <<gateway, payments, keyOf, refunded>>
      /\ k \notin DOMAIN keyOf
      /\ met' = IF k # NoKey /\ WithKey(k) # {} THEN met \cup {k} ELSE met
  BY DEF ProcessPayment, Keep, KnownKey
<1>2. Stored' = Stored
  BY <1>1 DEF Stored
<1>3. paying \in [Payers -> PayCalls]
  BY DEF PInv, PaymentsTypeOK, PayCalls
<1>4. /\ begun \in [doing: {"charge"}, amount: Amounts, key: PayKeys \cup {NoKey}]
      /\ begun.doing = "charge" /\ begun.key = k
  BY DEF Charging
<1>5. /\ paying'[c] = begun
      /\ \A d \in Payers \ {c} : paying'[d] = paying[d]
  BY <1>1, <1>3
<1>6. PaymentsTypeOK'
  <2>1. paying' \in [Payers -> PayCalls]
    BY <1>1, <1>3, <1>4 DEF PayCalls
  <2>2. attempts' \in [Customers -> 0..AttemptsPerMinute]
    BY CountIsTyped DEF ProcessPayment, PInv
  <2>. QED
    BY <1>1, <1>2, <2>1, <2>2 DEF PInv, PaymentsTypeOK, PayCalls, Payment, NoCall
<1>7. KeyInHandIsFree'
  <2>. SUFFICES ASSUME NEW d \in Payers, IsCharging(d)', paying'[d].key \in PayKeys \ met'
       PROVE  /\ paying'[d].key \notin DOMAIN keyOf
              /\ \A e \in Payers : IsCharging(e)' /\ paying'[e].key = paying'[d].key => e = d
    BY <1>1 DEF KeyInHandIsFree
  <2>1. met \subseteq met'
    BY <1>1
  <2>2. \A e \in Payers \ {c} : IsCharging(e)' <=> IsCharging(e)
    BY <1>5 DEF IsCharging
  <2>3. paying'[d].key = k \/ d # c
    BY <1>4, <1>5
  <2>4. CASE paying'[d].key = k
    <3>1. k # NoKey /\ WithKey(k) = {}
      BY <2>4, <1>1, PaymentsAssumption
    <3>2. \A e \in Payers \ {c} : ~(IsCharging(e) /\ paying[e].key = k)
      BY <3>1 DEF WithKey
    <3>. QED
      BY <3>2, <2>2, <2>4, <1>1, <1>5
  <2>5. CASE paying'[d].key # k
    <3>1. d # c /\ IsCharging(d) /\ paying[d].key \in PayKeys \ met
      BY <2>5, <2>3, <2>2, <2>1, <1>5
    <3>2. \A e \in Payers : IsCharging(e) /\ paying[e].key = paying[d].key => e = d
      BY <3>1 DEF PInv, KeyInHandIsFree
    <3>. QED
      BY <3>1, <3>2, <2>2, <2>5, <1>4, <1>5 DEF PInv, KeyInHandIsFree
  <2>. QED
    BY <2>4, <2>5
<1>8. KeyOfTells'
  BY <1>1, <1>2 DEF PInv, KeyOfTells, Charged
<1>9. RefundInHandIsFresh'
  <2>1. \A d \in Payers : IsRefunding(d)' => d # c /\ IsRefunding(d) /\ paying'[d] = paying[d]
    BY <1>4, <1>5 DEF IsRefunding
  <2>2. met \subseteq met'
    BY <1>1
  <2>. QED
    BY <2>1, <2>2, <1>1 DEF PInv, RefundInHandIsFresh, Charged
<1>10. RefundsWithinPayment'
  BY <1>1, <1>2 DEF PInv, RefundsWithinPayment
<1>. QED
  BY <1>6, <1>7, <1>8, <1>9, <1>10 DEF PInv

\* A refund begins: it fits into what is left, and if another refund of the
\* payment is in flight already the payment is in met from now on.
LEMMA RefundPaymentKeeps ==
    ASSUME PInv, NEW c \in Payers, NEW p \in Stored, NEW a \in Amounts,
           RefundPayment(c, p, a)
    PROVE  PInv'
<1>. DEFINE seen == IF gateway = "PaymentsService" THEN 0 ELSE refunded[p]
            begun == Refunding(p, a, seen)
<1>1. /\ paying' = [paying EXCEPT ![c] = begun]
      /\ UNCHANGED <<gateway, payments, keyOf, refunded, attempts>>
      /\ met' = IF RefundsOf(p) # {} THEN met \cup {p} ELSE met
      /\ Refundable(p) /\ a <= LeftToRefund(p)
  BY DEF RefundPayment, Keep
<1>2. Stored' = Stored
  BY <1>1 DEF Stored
<1>3. paying \in [Payers -> PayCalls]
  BY DEF PInv, PaymentsTypeOK, PayCalls
<1>p. /\ payments[p].amount \in Nat /\ refunded[p] \in Nat /\ a \in Nat
      /\ gateway \in {"PaymentsService", "MockPaymentProvider"}
  BY PaymentShapes, PaymentsAssumption DEF PInv, PaymentsTypeOK
<1>4. /\ begun \in [doing: {"refund"}, payment: Stored, amount: Amounts, seen: Nat]
      /\ begun.doing = "refund" /\ begun.payment = p /\ begun.amount = a /\ begun.seen = seen
  BY <1>p DEF Refunding
<1>5. /\ paying'[c] = begun
      /\ \A d \in Payers \ {c} : paying'[d] = paying[d]
  BY <1>1, <1>3
<1>6. PaymentsTypeOK'
  <2>1. paying' \in [Payers -> PayCalls]
    BY <1>1, <1>3, <1>4 DEF PayCalls
  <2>. QED
    BY <1>1, <1>2, <2>1 DEF PInv, PaymentsTypeOK, PayCalls, Payment, NoCall
<1>7. KeyInHandIsFree'
  <2>1. \A d \in Payers : IsCharging(d)' => d # c /\ IsCharging(d) /\ paying'[d] = paying[d]
    BY <1>4, <1>5 DEF IsCharging
  <2>2. met \subseteq met'
    BY <1>1
  <2>. QED
    BY <2>1, <2>2, <1>1 DEF PInv, KeyInHandIsFree
<1>8. KeyOfTells'
  BY <1>1, <1>2 DEF PInv, KeyOfTells, Charged
<1>9. RefundInHandIsFresh'
  <2>. SUFFICES ASSUME NEW d \in Payers, IsRefunding(d)'
       PROVE  /\ Charged(paying'[d].payment)
              /\ paying'[d].payment \notin met' =>
                   /\ paying'[d].seen = refunded[paying'[d].payment]
                   /\ paying'[d].seen + paying'[d].amount <= payments[paying'[d].payment].amount
                   /\ \A e \in Payers :
                        IsRefunding(e)' /\ paying'[e].payment = paying'[d].payment => e = d
    BY <1>1 DEF RefundInHandIsFresh, Charged
  <2>1. met \subseteq met'
    BY <1>1
  <2>2. \A e \in Payers \ {c} : IsRefunding(e)' <=> IsRefunding(e)
    BY <1>5 DEF IsRefunding
  <2>3. RefundsOf(p) # {} => p \in met'
    BY <1>1
  <2>4. CASE d = c
    <3>1. Charged(p)
      BY <1>1 DEF Refundable, Charged
    <3>2. ASSUME p \notin met'
          PROVE  /\ seen = refunded[p] /\ seen + a <= payments[p].amount
                 /\ \A e \in Payers : IsRefunding(e)' /\ paying'[e].payment = p => e = c
      <4>1. RefundsOf(p) = {} /\ p \in Stored \ met
        BY <3>2, <1>1
      <4>2. payments[p].status = "SUCCEEDED" => refunded[p] = 0
        BY <4>1 DEF PInv, RefundsWithinPayment
      <4>3. gateway = "PaymentsService" => payments[p].status = "SUCCEEDED"
        BY <1>1 DEF Refundable
      <4>4. seen = refunded[p]
        BY <4>2, <4>3
      <4>5. LeftToRefund(p) = payments[p].amount - seen
        BY <1>p DEF LeftToRefund
      <4>6. seen + a <= payments[p].amount
        BY <4>5, <1>1, <1>p
      <4>7. \A e \in Payers \ {c} : IsRefunding(e) => paying[e].payment # p
        BY <4>1 DEF RefundsOf
      <4>. QED
        BY <4>4, <4>6, <4>7, <2>2, <1>5
    <3>. HIDE DEF seen, begun
    <3>. QED
      BY <2>4, <3>1, <3>2, <1>4, <1>5
  <2>5. CASE d # c /\ paying[d].payment = p
    <3>1. IsRefunding(d) /\ paying'[d] = paying[d]
      BY <2>5, <2>2, <1>5
    <3>2. d \in RefundsOf(p)
      BY <3>1, <2>5 DEF RefundsOf
    <3>3. p \in met'
      BY <3>2, <2>3
    <3>. QED
      BY <3>1, <3>3, <2>5 DEF PInv, RefundInHandIsFresh
  <2>6. CASE d # c /\ paying[d].payment # p
    <3>1. IsRefunding(d) /\ paying'[d] = paying[d]
      BY <2>6, <2>2, <1>5
    <3>2. \A e \in Payers : IsRefunding(e)' /\ paying'[e].payment = paying[d].payment =>
             IsRefunding(e) /\ paying[e].payment = paying[d].payment
      BY <1>4, <1>5, <2>2, <2>6
    <3>. QED
      BY <3>1, <3>2, <2>1 DEF PInv, RefundInHandIsFresh
  <2>. QED
    BY <2>4, <2>5, <2>6
<1>10. RefundsWithinPayment'
  BY <1>1, <1>2 DEF PInv, RefundsWithinPayment
<1>. QED
  BY <1>6, <1>7, <1>8, <1>9, <1>10 DEF PInv

\* What remains when a call ends: the caller has none, the others have theirs.
LEMMA CallEnds ==
    ASSUME PaymentsTypeOK, NEW c \in Payers, Keep(c, NoCall)
    PROVE  /\ paying' = [paying EXCEPT ![c] = NoCall]
           /\ paying'[c] = NoCall
           /\ ~IsCharging(c)' /\ ~IsRefunding(c)'
           /\ \A d \in Payers \ {c} : paying'[d] = paying[d]
           /\ \A d \in Payers : IsCharging(d)' => d # c /\ IsCharging(d)
           /\ \A d \in Payers : IsRefunding(d)' => d # c /\ IsRefunding(d)
<1>1. paying \in [Payers -> PayCalls]
  BY DEF PaymentsTypeOK, PayCalls
<1>2. paying' = [paying EXCEPT ![c] = NoCall]
  BY DEF Keep
<1>3. paying'[c] = NoCall /\ \A d \in Payers \ {c} : paying'[d] = paying[d]
  BY <1>1, <1>2
<1>4. ~IsCharging(c)' /\ ~IsRefunding(c)'
  BY <1>3 DEF NoCall, IsCharging, IsRefunding
<1>5. \A d \in Payers \ {c} : /\ IsCharging(d)' <=> IsCharging(d)
                              /\ IsRefunding(d)' <=> IsRefunding(d)
  BY <1>3 DEF IsCharging, IsRefunding
<1>. QED
  BY <1>2, <1>3, <1>4, <1>5

\* A payment stored at the end of a charge, with or without success, leaves
\* the refunds and the sums as they are.
LEMMA StoredPaymentKeeps ==
    ASSUME PInv, NEW c \in Payers, IsCharging(c), NEW p \in PaymentIds, p \notin Stored,
           NEW status \in {"SUCCEEDED", "FAILED"}, StorePayment(p, c, status),
           Keep(c, NoCall), UNCHANGED <<gateway, attempts, met>>,
           keyOf' \in [DOMAIN keyOf' -> Stored'], DOMAIN keyOf' \subseteq PayKeys
    PROVE  PaymentsTypeOK' /\ RefundInHandIsFresh' /\ RefundsWithinPayment'
<1>1. /\ Stored' = Stored \cup {p}
      /\ payments' = [q \in Stored \cup {p} |-> payments'[q]]
      /\ refunded' = [q \in Stored \cup {p} |-> refunded'[q]]
      /\ payments'[p] = [amount |-> paying[c].amount, status |-> status, key |-> paying[c].key]
      /\ refunded'[p] = 0
      /\ \A q \in Stored : payments'[q] = payments[q] /\ refunded'[q] = refunded[q]
  BY StoringAdds
<1>2. /\ paying[c].amount \in Amounts
      /\ paying[c].key \in PayKeys \cup {NoKey}
  BY CallShapes DEF PInv
<1>3. /\ paying' = [paying EXCEPT ![c] = NoCall]
      /\ \A d \in Payers \ {c} : paying'[d] = paying[d]
      /\ \A d \in Payers : IsRefunding(d)' => d # c /\ IsRefunding(d)
  BY CallEnds DEF PInv
<1>4. PaymentsTypeOK'
  <2>1. payments'[p] \in Payment
    BY <1>1, <1>2 DEF Payment, PaymentStatus
  <2>2. \A q \in Stored : payments[q] \in Payment /\ refunded[q] \in Nat
    BY PaymentShapes DEF PInv
  <2>3. payments' \in [Stored' -> Payment] /\ refunded' \in [Stored' -> Nat]
    BY <1>1, <2>1, <2>2
  <2>4. Stored' \subseteq PaymentIds
    BY <1>1 DEF PInv, PaymentsTypeOK
  <2>5. \A d \in Payers : paying[d] \in PayCalls
    BY DEF PInv, PaymentsTypeOK, PayCalls
  <2>6. PayCalls \subseteq PayCalls' /\ NoCall \in PayCalls'
    BY <1>1 DEF PayCalls
  <2>7. paying' \in [Payers -> PayCalls']
    BY <1>3, <2>5, <2>6 DEF PInv, PaymentsTypeOK
  <2>8. Payment' = Payment /\ NoCall' = NoCall
    BY DEF Payment, NoCall
  <2>. QED
    BY <2>3, <2>4, <2>7, <2>8 DEF PInv, PaymentsTypeOK, PayCalls
<1>5. RefundInHandIsFresh'
  <2>1. \A d \in Payers : IsRefunding(d) => paying[d].payment \in Stored
    BY CallShapes DEF PInv
  <2>. QED
    BY <1>1, <1>3, <2>1 DEF PInv, RefundInHandIsFresh, Charged
<1>6. RefundsWithinPayment'
  <2>1. \A q \in Stored' \ met' : q \in Stored \ met \/ q = p
    BY <1>1
  <2>2. payments'[p].amount \in Nat \ {0} /\ payments'[p].status \in {"SUCCEEDED", "FAILED"}
    BY <1>1, <1>2, PaymentsAssumption
  <2>3. /\ refunded'[p] <= payments'[p].amount
        /\ payments'[p].status \in {"SUCCEEDED", "FAILED"} <=> refunded'[p] = 0
        /\ payments'[p].status = "REFUNDED" <=> refunded'[p] = payments'[p].amount
    BY <2>2, <1>1
  <2>. QED
    BY <1>1, <2>1, <2>3 DEF PInv, RefundsWithinPayment
<1>. QED
  BY <1>4, <1>5, <1>6

\* A charge succeeds: no other payment has used its key.
LEMMA PaymentSucceedsKeeps ==
    ASSUME PInv, NEW c \in Payers, PaymentSucceeds(c)
    PROVE  PInv'
<1>. DEFINE k == paying[c].key
            p == FreshId
<1>1. /\ IsCharging(c) /\ IdLeft /\ StorePayment(p, c, "SUCCEEDED") /\ Keep(c, NoCall)
      /\ UNCHANGED <<gateway, attempts, met>>
      /\ keyOf' = IF k = NoKey THEN keyOf
                  ELSE [j \in DOMAIN keyOf \cup {k} |-> IF j = k THEN p ELSE keyOf[j]]
  BY DEF PaymentSucceeds
<1>2. p \in PaymentIds /\ p \notin Stored
  BY <1>1, FreshIdIsFree
<1>3. /\ Stored' = Stored \cup {p}
      /\ payments'[p] = [amount |-> paying[c].amount, status |-> "SUCCEEDED", key |-> k]
      /\ \A q \in Stored : payments'[q] = payments[q]
  BY <1>1, <1>2, StoringAdds
<1>4. k \in PayKeys \cup {NoKey}
  BY <1>1, CallShapes DEF PInv
<1>5. keyOf \in [DOMAIN keyOf -> Stored] /\ DOMAIN keyOf \subseteq PayKeys
  BY DEF PInv, PaymentsTypeOK
<1>6. /\ keyOf' \in [DOMAIN keyOf' -> Stored'] /\ DOMAIN keyOf' \subseteq PayKeys
      /\ DOMAIN keyOf' = DOMAIN keyOf \cup ({k} \ {NoKey})
      /\ k # NoKey => keyOf'[k] = p
      /\ \A j \in DOMAIN keyOf \ {k} : keyOf'[j] = keyOf[j]
  <2>1. CASE k = NoKey
    BY <2>1, <1>1, <1>3, <1>5
  <2>2. CASE k # NoKey
    BY <2>2, <1>1, <1>3, <1>4, <1>5
  <2>. QED
    BY <2>1, <2>2
<1>. HIDE DEF p
<1>7. PaymentsTypeOK' /\ RefundInHandIsFresh' /\ RefundsWithinPayment'
  BY <1>1, <1>2, <1>6, StoredPaymentKeeps
<1>8. /\ \A d \in Payers \ {c} : paying'[d] = paying[d]
      /\ \A d \in Payers : IsCharging(d)' => d # c /\ IsCharging(d)
  BY <1>1, CallEnds DEF PInv
<1>9. KeyInHandIsFree'
  <2>. SUFFICES ASSUME NEW d \in Payers, IsCharging(d)', paying'[d].key \in PayKeys \ met'
       PROVE  /\ paying'[d].key \notin DOMAIN keyOf'
              /\ \A e \in Payers : IsCharging(e)' /\ paying'[e].key = paying'[d].key => e = d
    BY DEF KeyInHandIsFree
  <2>1. d # c /\ IsCharging(d) /\ paying'[d] = paying[d] /\ paying[d].key \in PayKeys \ met
    BY <1>1, <1>8
  <2>2. paying[d].key \notin DOMAIN keyOf /\ paying[d].key # k
    BY <2>1, <1>1 DEF PInv, KeyInHandIsFree
  <2>3. \A e \in Payers : IsCharging(e) /\ paying[e].key = paying[d].key => e = d
    BY <2>1 DEF PInv, KeyInHandIsFree
  <2>. QED
    BY <2>1, <2>2, <2>3, <1>6, <1>8
<1>10. KeyOfTells'
  <2>. SUFFICES ASSUME NEW j \in PayKeys \ met, NEW q \in Stored', Charged(q)', payments'[q].key = j
       PROVE  j \in DOMAIN keyOf' /\ keyOf'[j] = q
    BY <1>1 DEF KeyOfTells
  <2>1. CASE q = p
    BY <2>1, <1>3, <1>6, PaymentsAssumption
  <2>2. CASE q # p
    <3>1. q \in Stored /\ Charged(q) /\ payments[q].key = j
      BY <2>2, <1>3 DEF Charged
    <3>2. j \in DOMAIN keyOf /\ keyOf[j] = q
      BY <3>1 DEF PInv, KeyOfTells
    <3>3. j # k
      BY <3>2, <1>1 DEF PInv, KeyInHandIsFree
    <3>. QED
      BY <3>2, <3>3, <1>6
  <2>. QED
    BY <2>1, <2>2
<1>. QED
  BY <1>7, <1>9, <1>10 DEF PInv

\* A charge fails: its key stays unused.
LEMMA PaymentFailsKeeps ==
    ASSUME PInv, NEW c \in Payers, PaymentFails(c)
    PROVE  PInv'
<1>1. IsCharging(c) /\ Keep(c, NoCall) /\ UNCHANGED <<gateway, keyOf, attempts, met>>
  BY DEF PaymentFails
<1>2. /\ paying' = [paying EXCEPT ![c] = NoCall]
      /\ \A d \in Payers \ {c} : paying'[d] = paying[d]
      /\ \A d \in Payers : IsCharging(d)' => d # c /\ IsCharging(d)
      /\ \A d \in Payers : IsRefunding(d)' => d # c /\ IsRefunding(d)
  BY <1>1, CallEnds DEF PInv
<1>3. KeyInHandIsFree'
  BY <1>1, <1>2 DEF PInv, KeyInHandIsFree
<1>4. CASE UNCHANGED <<payments, refunded>>
  <2>1. Stored' = Stored
    BY <1>4 DEF Stored
  <2>2. paying' \in [Payers -> PayCalls]
    BY <1>2 DEF PInv, PaymentsTypeOK, PayCalls
  <2>3. PaymentsTypeOK'
    BY <1>1, <1>4, <2>1, <2>2 DEF PInv, PaymentsTypeOK, PayCalls, Payment, NoCall
  <2>4. KeyOfTells'
    BY <1>1, <1>4, <2>1 DEF PInv, KeyOfTells, Charged
  <2>5. RefundInHandIsFresh'
    BY <1>1, <1>2, <1>4 DEF PInv, RefundInHandIsFresh, Charged
  <2>6. RefundsWithinPayment'
    BY <1>1, <1>4, <2>1 DEF PInv, RefundsWithinPayment
  <2>. QED
    BY <1>3, <2>3, <2>4, <2>5, <2>6 DEF PInv
<1>5. CASE IdLeft /\ StorePayment(FreshId, c, "FAILED")
  <2>1. FreshId \in PaymentIds /\ FreshId \notin Stored
    BY <1>5, FreshIdIsFree
  <2>. DEFINE p == FreshId
  <2>. HIDE DEF p
  <2>2. /\ Stored' = Stored \cup {p}
        /\ payments'[p] = [amount |-> paying[c].amount, status |-> "FAILED",
                           key |-> paying[c].key]
        /\ \A q \in Stored : payments'[q] = payments[q]
    BY <1>5, <2>1, StoringAdds DEF p
  <2>3. keyOf' \in [DOMAIN keyOf' -> Stored'] /\ DOMAIN keyOf' \subseteq PayKeys
    BY <1>1, <2>2 DEF PInv, PaymentsTypeOK
  <2>4. PaymentsTypeOK' /\ RefundInHandIsFresh' /\ RefundsWithinPayment'
    BY <1>1, <1>5, <2>1, <2>3, StoredPaymentKeeps
  <2>5. KeyOfTells'
    BY <1>1, <2>2 DEF PInv, KeyOfTells, Charged
  <2>. QED
    BY <1>3, <2>4, <2>5 DEF PInv
<1>. QED
  BY <1>4, <1>5 DEF PaymentFails

\* A refund is stored: what the call saw is still the sum of the refunds,
\* unless two were in flight.
LEMMA RefundStoredKeeps ==
    ASSUME PInv, NEW c \in Payers, RefundStored(c)
    PROVE  PInv'
<1>. DEFINE p == paying[c].payment
            a == paying[c].amount
            seen == paying[c].seen
            status == IF seen + a = payments[p].amount THEN "REFUNDED" ELSE "PARTIALLY_REFUNDED"
<1>1. /\ IsRefunding(c) /\ Keep(c, NoCall)
      /\ refunded' = [refunded EXCEPT ![p] = @ + a]
      /\ payments' = [payments EXCEPT ![p].status = status]
      /\ UNCHANGED <<gateway, keyOf, attempts, met>>
  BY DEF RefundStored
<1>2. p \in Stored /\ a \in Nat \ {0} /\ seen \in Nat
  BY <1>1, CallShapes, PaymentsAssumption DEF PInv
<1>3. /\ payments[p] \in Payment /\ payments[p].amount \in Nat /\ refunded[p] \in Nat
  BY <1>2, PaymentShapes DEF PInv
<1>4. payments \in [Stored -> Payment] /\ refunded \in [Stored -> Nat]
  BY DEF PInv, PaymentsTypeOK
<1>5. Stored' = Stored
  BY <1>1, <1>4 DEF Stored
<1>6. /\ payments'[p] = [payments[p] EXCEPT !.status = status]
      /\ \A q \in Stored \ {p} : payments'[q] = payments[q] /\ refunded'[q] = refunded[q]
      /\ refunded'[p] = refunded[p] + a
  BY <1>1, <1>2, <1>4
<1>7. /\ payments'[p].status = status /\ payments'[p].amount = payments[p].amount
      /\ payments'[p].key = payments[p].key
      /\ payments'[p] \in Payment
  BY <1>3, <1>6 DEF Payment, PaymentStatus
<1>8. status \in {"REFUNDED", "PARTIALLY_REFUNDED"}
  OBVIOUS
<1>. HIDE DEF p, a, seen, status
<1>9. /\ paying' = [paying EXCEPT ![c] = NoCall]
      /\ \A d \in Payers \ {c} : paying'[d] = paying[d]
      /\ \A d \in Payers : IsCharging(d)' => d # c /\ IsCharging(d)
      /\ \A d \in Payers : IsRefunding(d)' => d # c /\ IsRefunding(d)
  BY <1>1, CallEnds DEF PInv
<1>10. PaymentsTypeOK'
  <2>1. payments' \in [Stored -> Payment]
    BY <1>1, <1>2, <1>4, <1>6, <1>7
  <2>2. refunded' \in [Stored -> Nat]
    BY <1>1, <1>2, <1>3, <1>4, <1>6
  <2>3. paying' \in [Payers -> PayCalls]
    BY <1>9 DEF PInv, PaymentsTypeOK, PayCalls
  <2>. QED
    BY <1>1, <1>5, <2>1, <2>2, <2>3 DEF PInv, PaymentsTypeOK, PayCalls, Payment, NoCall
<1>11. KeyInHandIsFree'
  BY <1>1, <1>9 DEF PInv, KeyInHandIsFree
<1>12. Charged(p) /\ \A q \in Stored : Charged(q)' <=> Charged(q)
  <2>1. Charged(p)
    BY <1>1 DEF PInv, RefundInHandIsFresh, p
  <2>2. payments'[p].status # "FAILED"
    BY <1>7, <1>8
  <2>. QED
    BY <2>1, <2>2, <1>6 DEF Charged
<1>13. KeyOfTells'
  BY <1>1, <1>5, <1>6, <1>7, <1>12 DEF PInv, KeyOfTells
<1>14. ASSUME p \notin met
       PROVE  /\ seen = refunded[p] /\ seen + a <= payments[p].amount
              /\ \A d \in Payers : IsRefunding(d) /\ paying[d].payment = p => d = c
  BY <1>14, <1>1 DEF PInv, RefundInHandIsFresh, p, seen, a
<1>15. RefundInHandIsFresh'
  <2>. SUFFICES ASSUME NEW d \in Payers, IsRefunding(d)'
       PROVE  /\ payments'[paying'[d].payment].status # "FAILED"
              /\ paying'[d].payment \notin met =>
                   /\ paying'[d].seen = refunded'[paying'[d].payment]
                   /\ paying'[d].seen + paying'[d].amount
                        <= payments'[paying'[d].payment].amount
                   /\ \A e \in Payers :
                        IsRefunding(e)' /\ paying'[e].payment = paying'[d].payment => e = d
    BY <1>1 DEF RefundInHandIsFresh, Charged
  <2>1. d # c /\ IsRefunding(d) /\ paying'[d] = paying[d] /\ paying[d].payment \in Stored
    BY <1>9, CallShapes DEF PInv
  <2>2. payments'[paying'[d].payment].status # "FAILED"
    BY <2>1, <1>12 DEF PInv, RefundInHandIsFresh, Charged
  <2>3. paying[d].payment \notin met => paying[d].payment # p
    BY <2>1, <1>14
  <2>4. paying[d].payment \notin met =>
           /\ paying[d].seen = refunded[paying[d].payment]
           /\ paying[d].seen + paying[d].amount <= payments[paying[d].payment].amount
           /\ \A e \in Payers :
                IsRefunding(e) /\ paying[e].payment = paying[d].payment => e = d
    BY <2>1 DEF PInv, RefundInHandIsFresh
  <2>. QED
    BY <2>1, <2>2, <2>3, <2>4, <1>6, <1>9
<1>16. RefundsWithinPayment'
  <2>1. ASSUME p \notin met
        PROVE  /\ refunded'[p] <= payments'[p].amount
               /\ refunded'[p] # 0
               /\ payments'[p].status = "REFUNDED" <=> refunded'[p] = payments'[p].amount
    <3>1. refunded'[p] = seen + a /\ seen + a <= payments[p].amount
      BY <2>1, <1>14, <1>6
    <3>. QED
      BY <3>1, <1>2, <1>7 DEF status
  <2>2. payments'[p].status \notin {"SUCCEEDED", "FAILED"}
    BY <1>7, <1>8
  <2>. QED
    BY <2>1, <2>2, <1>1, <1>5, <1>6 DEF PInv, RefundsWithinPayment
<1>. QED
  BY <1>10, <1>11, <1>13, <1>15, <1>16 DEF PInv

-----------------------------------------------------------------------------
\* Every step of either gateway keeps the invariant.
LEMMA PInvStep == PInv /\ [PaymentsNext]_payVars => PInv'
<1>. SUFFICES ASSUME PInv, [PaymentsNext]_payVars PROVE PInv'
  OBVIOUS
<1>1. ASSUME NEW c \in Payers, NEW u \in Customers, NEW a \in Amounts,
             NEW k \in PayKeys \cup {NoKey}, ProcessPayment(c, u, a, k)
      PROVE  PInv'
  BY <1>1, ProcessPaymentKeeps
<1>2. ASSUME NEW u \in Customers, NEW k \in PayKeys, ReturnExisting(u, k)
      PROVE  PInv'
  BY <1>2, CountIsTyped, AttemptsOnly DEF ReturnExisting, PInv
<1>3. ASSUME NEW u \in Customers, MethodRefused(u)
      PROVE  PInv'
  BY <1>3, CountIsTyped, AttemptsOnly DEF MethodRefused, PInv
<1>4. ASSUME NEW c \in Payers, PaymentSucceeds(c) \/ PaymentFails(c) \/ RefundStored(c)
      PROVE  PInv'
  BY <1>4, PaymentSucceedsKeeps, PaymentFailsKeeps, RefundStoredKeeps
<1>5. ASSUME NEW c \in Payers, NEW p \in Stored, NEW a \in Amounts, RefundPayment(c, p, a)
      PROVE  PInv'
  BY <1>5, RefundPaymentKeeps
<1>6. ASSUME NEW u \in Customers, WindowEnds(u)
      PROVE  PInv'
  <2>1. attempts' \in [Customers -> 0..AttemptsPerMinute]
    BY <1>6, PaymentsAssumption DEF WindowEnds, PInv, PaymentsTypeOK
  <2>. QED
    BY <2>1, <1>6, AttemptsOnly DEF WindowEnds
<1>7. CASE UNCHANGED payVars
  <2>1. attempts' \in [Customers -> 0..AttemptsPerMinute]
    BY <1>7 DEF payVars, PInv, PaymentsTypeOK
  <2>. QED
    BY <2>1, <1>7, AttemptsOnly DEF payVars
<1>. QED
  BY <1>1, <1>2, <1>3, <1>4, <1>5, <1>6, <1>7 DEF PaymentsNext

\* The invariant of the payments: what a call saw before its delay is worth
\* what the invariant says when it books its charge or refund.
THEOREM PInvHolds == PaymentsSpec => []PInv
  BY PaymentsInitially, PInvStep, PTL DEF PaymentsSpec

\* Every reachable state of the gateway has the declared shape.
THEOREM PaymentsTypeCorrect == PaymentsSpec => []PaymentsTypeOK
<1>1. PInv => PaymentsTypeOK
  BY DEF PInv
<1>. QED
  BY <1>1, PInvHolds, PTL

\* For any number of clients, a key that no two calls had in hand at once
\* charges once (the lookup and the store of idempotencyKeys).
THEOREM KeyChargesOnce == PaymentsSpec => []OneChargePerKey
<1>1. PInv => OneChargePerKey
  BY DEF PInv, KeyOfTells, OneChargePerKey
<1>. QED
  BY <1>1, PInvHolds, PTL

\* For any number of clients, no more is given back of a payment than was
\* paid, if no two refunds of it were in hand at once (refundPayment).
THEOREM RefundsStayWithin == PaymentsSpec => []RefundsWithinPayment
<1>1. PInv => RefundsWithinPayment
  BY DEF PInv
<1>. QED
  BY <1>1, PInvHolds, PTL

-----------------------------------------------------------------------------
(* The refinement: a charge is booked when it is stored, a refund when it  *)
(* is stored, and everything else leaves the ledger as it is.              *)

Books == [p \in ChargedIds |-> [amount |-> payments[p].amount, key |-> payments[p].key]]
Returns == [p \in ChargedIds |-> refunded[p]]

\* PayCalls that store nothing leave the ledger as it is.
LEMMA NothingStored ==
    ASSUME UNCHANGED <<payments, refunded>>
    PROVE  UNCHANGED Ledger!ledgerVars
  BY DEF Ledger!ledgerVars, ChargedIds, Charged, Stored

\* A payment that failed is not booked.
LEMMA FailureIsNotBooked ==
    ASSUME PInv, NEW c \in Payers, PaymentFails(c)
    PROVE  UNCHANGED Ledger!ledgerVars
<1>1. CASE UNCHANGED <<payments, refunded>>
  BY <1>1, NothingStored
<1>2. CASE IdLeft /\ StorePayment(FreshId, c, "FAILED")
  <2>. DEFINE p == FreshId
  <2>1. p \notin Stored
    BY <1>2, FreshIdIsFree
  <2>. HIDE DEF p
  <2>2. /\ Stored' = Stored \cup {p}
        /\ payments'[p] = [amount |-> paying[c].amount, status |-> "FAILED",
                           key |-> paying[c].key]
        /\ \A q \in Stored : payments'[q] = payments[q] /\ refunded'[q] = refunded[q]
    BY <1>2, <2>1, StoringAdds DEF p
  <2>3. ChargedIds' = ChargedIds
    BY <2>1, <2>2 DEF ChargedIds, Charged
  <2>4. ChargedIds \subseteq Stored
    BY DEF ChargedIds
  <2>. QED
    BY <2>2, <2>3, <2>4 DEF Ledger!ledgerVars
<1>. QED
  BY <1>1, <1>2 DEF PaymentFails

\* A charge that succeeds is a charge of the ledger: its key is unused there.
LEMMA ChargeIsBooked ==
    ASSUME PInv, NEW c \in Payers, PaymentSucceeds(c), met = {}
    PROVE  Ledger!Next
<1>. DEFINE p == FreshId
            a == paying[c].amount
            k == paying[c].key
<1>1. IsCharging(c) /\ IdLeft /\ StorePayment(p, c, "SUCCEEDED")
  BY DEF PaymentSucceeds
<1>2. p \in PaymentIds /\ p \notin Stored
  BY <1>1, FreshIdIsFree
<1>. HIDE DEF p
<1>3. /\ Stored' = Stored \cup {p}
      /\ payments'[p] = [amount |-> a, status |-> "SUCCEEDED", key |-> k]
      /\ refunded'[p] = 0
      /\ \A q \in Stored : payments'[q] = payments[q] /\ refunded'[q] = refunded[q]
  BY <1>1, <1>2, StoringAdds
<1>4. a \in Amounts /\ k \in PayKeys \cup {NoKey}
  BY <1>1, CallShapes DEF PInv
<1>5. ChargedIds' = ChargedIds \cup {p} /\ ChargedIds \subseteq Stored
  BY <1>2, <1>3 DEF ChargedIds, Charged
<1>6. \A q \in ChargedIds : payments[q].key # k \/ k = NoKey
  <2>. SUFFICES ASSUME NEW q \in ChargedIds, payments[q].key = k, k # NoKey PROVE FALSE
    OBVIOUS
  <2>1. k \in PayKeys \ met /\ q \in Stored /\ Charged(q)
    BY <1>4 DEF ChargedIds
  <2>2. k \in DOMAIN keyOf
    BY <2>1 DEF PInv, KeyOfTells
  <2>. QED
    BY <1>1, <2>1, <2>2 DEF PInv, KeyInHandIsFree
<1>. HIDE DEF a, k
<1>7. PICK r \in PaymentIds, b \in Amounts, j \in PayKeys \cup {NoKey} :
         r = p /\ b = a /\ j = k
  BY <1>2, <1>4
<1>8. Ledger!Charge(r, b, j)
  <2>1. DOMAIN Books = ChargedIds /\ DOMAIN Returns = ChargedIds
    BY DEF Books, Returns
  <2>2. k \notin {Books[q].key : q \in DOMAIN Books} \ {NoKey}
    BY <1>6, <2>1 DEF Books
  <2>3. Books' = [q \in DOMAIN Books \cup {p} |->
                    IF q = p THEN [amount |-> a, key |-> k] ELSE Books[q]]
    BY <1>2, <1>3, <1>5, <2>1 DEF Books
  <2>4. Returns' = [q \in DOMAIN Returns \cup {p} |-> IF q = p THEN 0 ELSE Returns[q]]
    BY <1>2, <1>3, <1>5, <2>1 DEF Returns
  <2>5. p \notin DOMAIN Books
    BY <1>2, <1>5, <2>1
  <2>. QED
    BY <1>7, <2>2, <2>3, <2>4, <2>5
    DEF Ledger!Charge, Ledger!Book, Ledger!UsedKeys, Books, Returns
<1>. QED
  BY <1>8 DEF Ledger!Next

\* A refund that is stored is a refund of the ledger: it fits.
LEMMA RefundIsBooked ==
    ASSUME PInv, NEW c \in Payers, RefundStored(c), met = {}
    PROVE  Ledger!Next
<1>. DEFINE p == paying[c].payment
            a == paying[c].amount
            status == IF paying[c].seen + a = payments[p].amount
                      THEN "REFUNDED" ELSE "PARTIALLY_REFUNDED"
<1>1. /\ IsRefunding(c)
      /\ refunded' = [refunded EXCEPT ![p] = @ + a]
      /\ payments' = [payments EXCEPT ![p].status = status]
  BY DEF RefundStored
<1>2. p \in Stored /\ a \in Amounts
  BY <1>1, CallShapes DEF PInv
<1>3. refunded[p] + a <= payments[p].amount /\ Charged(p)
  BY <1>1 DEF PInv, RefundInHandIsFresh
<1>4. payments \in [Stored -> Payment] /\ refunded \in [Stored -> Nat]
  BY DEF PInv, PaymentsTypeOK
<1>5. Stored' = Stored
  BY <1>1, <1>4 DEF Stored
<1>6. status # "FAILED"
  OBVIOUS
<1>. HIDE DEF p, a, status
<1>7. /\ payments'[p] = [payments[p] EXCEPT !.status = status]
      /\ \A q \in Stored \ {p} : payments'[q] = payments[q]
  BY <1>1, <1>2, <1>4
<1>8. /\ payments'[p].status = status /\ payments'[p].amount = payments[p].amount
      /\ payments'[p].key = payments[p].key
  BY <1>2, <1>4, <1>7 DEF Payment
<1>9. ChargedIds' = ChargedIds /\ p \in ChargedIds /\ ChargedIds \subseteq Stored
  BY <1>2, <1>3, <1>5, <1>6, <1>7, <1>8 DEF ChargedIds, Charged
<1>10. Books' = Books
  BY <1>7, <1>8, <1>9 DEF Books
<1>11. Returns' = [Returns EXCEPT ![p] = @ + a]
  BY <1>1, <1>4, <1>9 DEF Returns
<1>12. Returns[p] + a <= Books[p].amount
  BY <1>3, <1>9 DEF Returns, Books
<1>13. PICK q \in ChargedIds, b \in Amounts : q = p /\ b = a
  BY <1>2, <1>9
<1>14. Ledger!Refund(q, b)
  BY <1>10, <1>11, <1>12, <1>13 DEF Ledger!Refund, Books, Returns
<1>15. q \in DOMAIN Books
  BY DEF Books
<1>. QED
  BY <1>14, <1>15 DEF Ledger!Next, Books

\* For any number of clients: as long as no two calls had one key or one
\* payment in hand at once, every step of the gateway is a step of the ledger
\* or leaves it as it is, although the code awaits between check and write.
THEOREM LedgerIsImplemented == PaymentsSpec => LedgerUntilMet
<1>. DEFINE Booked == met' = {} => (Ledger!Next \/ UNCHANGED Ledger!ledgerVars)
<1>1. ASSUME PInv, [PaymentsNext]_payVars PROVE [Booked]_payVars
  <2>. SUFFICES ASSUME PaymentsNext, met' = {}
       PROVE  Ledger!Next \/ UNCHANGED Ledger!ledgerVars
    BY <1>1
  <2>1. CASE \E c \in Payers, u \in Customers, a \in Amounts, k \in PayKeys \cup {NoKey} :
                ProcessPayment(c, u, a, k)
    BY <2>1, NothingStored DEF ProcessPayment
  <2>2. CASE \E u \in Customers, k \in PayKeys : ReturnExisting(u, k)
    BY <2>2, NothingStored DEF ReturnExisting
  <2>3. CASE \E u \in Customers : MethodRefused(u) \/ WindowEnds(u)
    BY <2>3, NothingStored DEF MethodRefused, WindowEnds
  <2>4. CASE \E c \in Payers, p \in Stored, a \in Amounts : RefundPayment(c, p, a)
    BY <2>4, NothingStored DEF RefundPayment
  <2>5. CASE \E c \in Payers : PaymentFails(c)
    BY <2>5, <1>1, FailureIsNotBooked
  <2>6. CASE \E c \in Payers : PaymentSucceeds(c)
    <3>1. met = {}
      BY <2>6 DEF PaymentSucceeds
    <3>. QED
      BY <2>6, <3>1, <1>1, ChargeIsBooked
  <2>7. CASE \E c \in Payers : RefundStored(c)
    <3>1. met = {}
      BY <2>7 DEF RefundStored
    <3>. QED
      BY <2>7, <3>1, <1>1, RefundIsBooked
  <2>. QED
    BY <2>1, <2>2, <2>3, <2>4, <2>5, <2>6, <2>7 DEF PaymentsNext
<1>. QED
  BY <1>1, PInvHolds, PTL DEF PaymentsSpec, LedgerUntilMet

-----------------------------------------------------------------------------
(* Accounts: an address is welcomed once, and an account that was switched *)
(* off gets no more tokens than calls had read it before.                  *)
(* Neither depends on the order of look-ups and writes: the first rests on *)
(* the unique index alone, the second on the fact that a call begins to    *)
(* sign only for an account it has just seen in use, and that tokens given *)
(* meanwhile were in hand when the account was switched off.               *)

Row == [active: BOOLEAN, deleted: BOOLEAN]
Steps == {"create", "save", "sign", "post", "softDelete", "deactivate", "restore", "activate"}
AccountCalls == {NoOne} \cup [at: Steps, email: Emails]

AccountsTypeOK ==
    /\ Existing \subseteq Emails
    /\ accounts \in [Existing -> Row]
    /\ calls \in [Persons -> AccountCalls]
    /\ welcomed \in [Emails -> Nat]
    /\ leaked \in [Emails -> Nat]

\* The steps that act on a row they have read; rows are never removed.
OnARow == {"sign", "softDelete", "deactivate", "restore", "activate"}
CallsHaveRows ==
    \A c \in Persons : calls[c].at \in OnARow => calls[c].email \in Existing

AdminsStay ==
    /\ \A e \in SeedAdmins : e \in Existing /\ ~accounts[e].deleted
    /\ \A c \in Persons : At(c, "softDelete") => ~IsAdmin(calls[c].email)

\* An account in use, or not yet made, has leaked nothing; the tokens leaked
\* and those about to be are of different callers.
LeaksAreInHand ==
    \A e \in Emails :
       /\ Usable(e) \/ e \notin Existing => leaked[e] = 0
       /\ leaked[e] + Cardinality(Signing(e)) <= Cardinality(Persons)

AInv == AccountsTypeOK /\ CallsHaveRows /\ AdminsStay /\ LeaksAreInHand /\ OneAccountPerEmail

-----------------------------------------------------------------------------
\* A part of a finite set is finite and has no more elements.
LEMMA CardinalityMonotone ==
    ASSUME NEW S, NEW T, IsFiniteSet(T), S \subseteq T
    PROVE  IsFiniteSet(S) /\ Cardinality(S) \in Nat /\ Cardinality(S) <= Cardinality(T)
<1>1. IsFiniteSet(S) /\ Cardinality(S) <= Cardinality(T)
  BY FS_Subset
<1>. QED
  BY <1>1, FS_CardinalityType

\* The calls in hand for one account are counted, at most one per caller.
LEMMA SigningIsFinite ==
    ASSUME NEW e
    PROVE  /\ Signing(e) \subseteq Persons /\ IsFiniteSet(Signing(e))
           /\ Cardinality(Signing(e)) \in Nat /\ Cardinality(Persons) \in Nat
           /\ Cardinality(Signing(e)) <= Cardinality(Persons)
<1>1. Signing(e) \subseteq Persons
  BY DEF Signing
<1>2. Cardinality(Persons) \in Nat
  BY AccountsAssumption, FS_CardinalityType
<1>. QED
  BY <1>1, <1>2, AccountsAssumption, CardinalityMonotone

\* The same for the next state.
LEMMA SigningIsFiniteNext ==
    ASSUME NEW e
    PROVE  /\ Signing(e)' \subseteq Persons /\ IsFiniteSet(Signing(e)')
           /\ Cardinality(Signing(e)') \in Nat
           /\ Cardinality(Signing(e)') <= Cardinality(Persons)
<1>1. Signing(e)' \subseteq Persons
  BY DEF Signing
<1>. QED
  BY <1>1, AccountsAssumption, CardinalityMonotone

\* The invariant holds of the seeded accounts.
LEMMA AInvInitially == AccountsInit => AInv
<1>. SUFFICES ASSUME AccountsInit PROVE AInv
  OBVIOUS
<1>1. /\ Existing = SeedAdmins
      /\ \A c \in Persons : calls[c] = NoOne
      /\ \A e \in SeedAdmins : accounts[e] = [active |-> TRUE, deleted |-> FALSE]
  BY DEF AccountsInit, Existing
<1>2. \A c \in Persons : calls[c].at = "free"
  BY <1>1 DEF NoOne
<1>3. AccountsTypeOK
  BY <1>1, AccountsAssumption DEF AccountsInit, AccountsTypeOK, Row, AccountCalls
<1>4. CallsHaveRows
  BY <1>2 DEF CallsHaveRows, OnARow
<1>5. AdminsStay
  BY <1>1, <1>2 DEF AdminsStay, At
<1>6. LeaksAreInHand
  <2>1. \A e \in Emails : leaked[e] = 0
    BY DEF AccountsInit
  <2>. QED
    BY <2>1, SigningIsFinite DEF LeaksAreInHand
<1>7. OneAccountPerEmail
  BY DEF AccountsInit, OneAccountPerEmail
<1>. QED
  BY <1>3, <1>4, <1>5, <1>6, <1>7 DEF AInv

-----------------------------------------------------------------------------
\* What all steps but an insert and the giving of tokens have in common.
LEMMA StepKeeps ==
    ASSUME AInv, AccountsTypeOK', AdminsStay', Existing' = Existing, welcomed' = welcomed,
           \A d \in Persons : calls'[d].at \in OnARow => calls'[d].email \in Existing,
           \A e \in Emails : leaked'[e] = 0 \/ (leaked'[e] = leaked[e] /\ Signing(e)' \subseteq Signing(e)),
           \A e \in Emails : Usable(e)' \/ e \notin Existing => leaked'[e] = 0
    PROVE  AInv'
<1>1. CallsHaveRows'
  BY DEF CallsHaveRows
<1>2. LeaksAreInHand'
  <2>. SUFFICES ASSUME NEW e \in Emails
                PROVE  leaked'[e] + Cardinality(Signing(e)') <= Cardinality(Persons)
    BY DEF LeaksAreInHand
  <2>1. CASE leaked'[e] = 0
    BY <2>1, SigningIsFiniteNext, SigningIsFinite
  <2>2. CASE leaked'[e] = leaked[e] /\ Signing(e)' \subseteq Signing(e)
    <3>1. /\ Cardinality(Signing(e)') <= Cardinality(Signing(e))
          /\ Cardinality(Signing(e)') \in Nat /\ Cardinality(Signing(e)) \in Nat
      BY <2>2, SigningIsFinite, CardinalityMonotone
    <3>2. leaked[e] \in Nat /\ leaked[e] + Cardinality(Signing(e)) <= Cardinality(Persons)
      BY DEF AInv, AccountsTypeOK, LeaksAreInHand
    <3>3. Cardinality(Persons) \in Nat
      BY SigningIsFinite
    <3>. QED
      BY <2>2, <3>1, <3>2, <3>3
  <2>. QED
    BY <2>1, <2>2
<1>3. OneAccountPerEmail'
  BY DEF AInv, OneAccountPerEmail, IsAdmin
<1>. QED
  BY <1>1, <1>2, <1>3 DEF AInv

\* A step that only moves one call: it comes to sign for an account in use,
\* and to another row's step for an account that is there.
LEMMA MovingACall ==
    ASSUME AInv, NEW c \in Persons, NEW k \in AccountCalls,
           calls' = [calls EXCEPT ![c] = k],
           UNCHANGED <<accounts, welcomed, leaked>>,
           k.at \in OnARow => k.email \in Existing,
           k.at = "sign" => Usable(k.email),
           k.at = "softDelete" => ~IsAdmin(k.email)
    PROVE  AInv'
<1>1. AccountsTypeOK' /\ Existing' = Existing
  BY DEF AInv, AccountsTypeOK, Existing
<1>2. \A d \in Persons : calls'[d] = IF d = c THEN k ELSE calls[d]
  BY DEF AInv, AccountsTypeOK
<1>3. AdminsStay'
  BY <1>1, <1>2 DEF AInv, AdminsStay, At, IsAdmin
<1>4. \A d \in Persons : calls'[d].at \in OnARow => calls'[d].email \in Existing
  BY <1>2 DEF AInv, CallsHaveRows
<1>5. \A e \in Emails : Usable(e)' \/ e \notin Existing => leaked'[e] = 0
  BY <1>1 DEF AInv, LeaksAreInHand, Usable, Live, Existing
<1>6. \A e \in Emails : leaked'[e] = 0 \/ (leaked'[e] = leaked[e] /\ Signing(e)' \subseteq Signing(e))
  <2>. SUFFICES ASSUME NEW e \in Emails, ~Usable(e)
                PROVE  Signing(e)' \subseteq Signing(e)
    BY DEF AInv, LeaksAreInHand
  <2>. QED
    BY <1>2 DEF Signing, At
<1>. QED
  BY <1>1, <1>3, <1>4, <1>5, <1>6, StepKeeps

\* A call that ends without a write.
LEMMA FinishingACall ==
    ASSUME AInv, NEW c \in Persons, Finish(c), UNCHANGED <<accounts, welcomed, leaked>>
    PROVE  AInv'
<1>1. NoOne \in AccountCalls /\ NoOne.at = "free"
  BY DEF AccountCalls, NoOne
<1>. QED
  BY <1>1, MovingACall DEF Finish, OnARow

\* A call that goes on to its next query.
LEMMA SteppingACall ==
    ASSUME AInv, NEW c \in Persons, NEW step \in Steps, NEW e \in Emails, Step(c, step, e),
           UNCHANGED <<accounts, welcomed, leaked>>,
           step \in OnARow => e \in Existing,
           step = "sign" => Usable(e),
           step = "softDelete" => ~IsAdmin(e)
    PROVE  AInv'
<1>1. [at |-> step, email |-> e] \in AccountCalls
  BY DEF AccountCalls
<1>. QED
  BY <1>1, MovingACall DEF Step

-----------------------------------------------------------------------------
\* The steps that write no row.
LEMMA CallsMove ==
    ASSUME AInv, NEW c \in Persons, NEW e \in Emails,
           \/ Register(c, e) \/ Login(c, e) \/ RefreshToken(c, e)
           \/ PostUser(c, e) \/ DeleteUser(c, e) \/ PatchInactive(c, e) \/ PatchActivate(c, e)
    PROVE  AInv'
<1>. USE DEF OnARow, Steps
<1>1. CASE Register(c, e)
  BY <1>1, SteppingACall DEF Register
<1>2. CASE Login(c, e)
  BY <1>2, SteppingACall DEF Login, Usable, Live
<1>3. CASE RefreshToken(c, e)
  BY <1>3, SteppingACall DEF RefreshToken, Usable, Live
<1>4. CASE PostUser(c, e)
  BY <1>4, SteppingACall DEF PostUser, AdminCall
<1>5. CASE DeleteUser(c, e)
  BY <1>5, SteppingACall DEF DeleteUser, AdminCall, Live
<1>6. CASE PatchInactive(c, e)
  BY <1>6, SteppingACall DEF PatchInactive, AdminCall, Live
<1>7. CASE PatchActivate(c, e)
  <2>1. CASE Step(c, "restore", e)
    BY <1>7, <2>1, SteppingACall DEF PatchActivate, AdminCall
  <2>2. CASE Step(c, "activate", e)
    BY <1>7, <2>2, SteppingACall DEF PatchActivate, AdminCall
  <2>. QED
    BY <1>7, <2>1, <2>2 DEF PatchActivate, AdminCall
<1>. QED
  BY <1>1, <1>2, <1>3, <1>4, <1>5, <1>6, <1>7

\* Looking the address up, as registration and login do.
LEMMA EmailsAreFound ==
    ASSUME AInv, NEW c \in Persons, FindByEmail(c)
    PROVE  AInv'
<1>1. calls[c].at = "create" /\ calls[c] \in AccountCalls
  BY DEF FindByEmail, At, AInv, AccountsTypeOK
<1>2. calls[c].email \in Emails
  BY <1>1 DEF AccountCalls, NoOne
<1>3. CASE Finish(c)
  BY <1>3, FinishingACall DEF FindByEmail
<1>4. CASE Step(c, "save", calls[c].email)
  BY <1>2, <1>4, SteppingACall DEF FindByEmail, Steps, OnARow
<1>. QED
  BY <1>3, <1>4 DEF FindByEmail

\* Tokens given for an account out of use were in hand until now.
LEMMA TokensAreGiven ==
    ASSUME AInv, NEW c \in Persons, GiveTokens(c)
    PROVE  AInv'
<1>. DEFINE e == calls[c].email
<1>1. calls[c].at = "sign" /\ calls[c] \in AccountCalls /\ e \in Existing /\ e \in Emails
  BY DEF GiveTokens, At, AInv, AccountsTypeOK, CallsHaveRows, OnARow
<1>2. CASE Usable(e)
  BY <1>2, FinishingACall DEF GiveTokens
<1>3. CASE ~Usable(e)
  <2>1. \A d \in Persons : calls'[d] = IF d = c THEN NoOne ELSE calls[d]
    BY DEF GiveTokens, Finish, AInv, AccountsTypeOK
  <2>2. calls' \in [Persons -> AccountCalls] /\ NoOne.at = "free"
    BY DEF GiveTokens, Finish, AInv, AccountsTypeOK, AccountCalls, NoOne
  <2>3. leaked' = [leaked EXCEPT ![e] = @ + 1] /\ leaked \in [Emails -> Nat]
    BY <1>3 DEF GiveTokens, AInv, AccountsTypeOK
  <2>4. accounts' = accounts /\ welcomed' = welcomed /\ Existing' = Existing
    BY DEF GiveTokens, Existing
  <2>5. AccountsTypeOK'
    BY <1>1, <2>2, <2>3, <2>4 DEF AInv, AccountsTypeOK
  <2>6. CallsHaveRows'
    BY <2>1, <2>2, <2>4 DEF AInv, CallsHaveRows, OnARow
  <2>7. AdminsStay'
    BY <2>1, <2>2, <2>4 DEF AInv, AdminsStay, At, IsAdmin
  <2>8. OneAccountPerEmail'
    BY <2>4 DEF AInv, OneAccountPerEmail, IsAdmin
  <2>9. LeaksAreInHand'
    <3>. SUFFICES ASSUME NEW f \in Emails
                  PROVE  /\ Usable(f)' \/ f \notin Existing' => leaked'[f] = 0
                         /\ leaked'[f] + Cardinality(Signing(f)') <= Cardinality(Persons)
      BY DEF LeaksAreInHand
    <3>1. /\ Usable(f) \/ f \notin Existing => leaked[f] = 0
          /\ leaked[f] + Cardinality(Signing(f)) <= Cardinality(Persons)
          /\ leaked[f] \in Nat
      BY <2>3 DEF AInv, LeaksAreInHand
    <3>2. Usable(f)' = Usable(f)
      BY <2>4 DEF Usable, Live, Existing
    <3>3. CASE f = e
      <4>1. c \in Signing(f) /\ Signing(f)' = Signing(f) \ {c}
        BY <1>1, <2>1, <2>2, <3>3 DEF Signing, At
      <4>2. Cardinality(Signing(f)') = Cardinality(Signing(f)) - 1
        BY <4>1, SigningIsFinite, FS_RemoveElement
      <4>3. leaked'[f] = leaked[f] + 1
        BY <2>3, <3>3
      <4>. QED
        BY <1>1, <1>3, <2>4, <3>1, <3>2, <3>3, <4>2, <4>3, SigningIsFinite
    <3>4. CASE f # e
      <4>1. Signing(f)' = Signing(f)
        BY <1>1, <2>1, <2>2, <3>4 DEF Signing, At
      <4>. QED
        BY <2>3, <2>4, <3>1, <3>2, <3>4, <4>1
    <3>. QED
      BY <3>3, <3>4
  <2>. QED
    BY <2>5, <2>6, <2>7, <2>8, <2>9 DEF AInv
<1>. QED
  BY <1>2, <1>3

-----------------------------------------------------------------------------
\* An account is made: its address had none, so nothing was leaked of it and
\* nobody was welcomed at it.
LEMMA AnAccountIsMade ==
    ASSUME AInv, NEW c \in Persons, NEW e \in Emails, e \notin Existing,
           NEW active \in BOOLEAN, Created(c, e, active), leaked' = leaked,
           At(c, "save") => active
    PROVE  AInv'
<1>. DEFINE account == [active |-> active, deleted |-> FALSE]
<1>1. /\ Existing' = Existing \cup {e}
      /\ accounts'[e] = account
      /\ \A f \in Existing : accounts'[f] = accounts[f]
      /\ accounts' \in [Existing' -> Row]
  <2>1. accounts' = [f \in Existing \cup {e} |-> IF f = e THEN account ELSE accounts[f]]
    BY DEF Created
  <2>2. accounts \in [Existing -> Row] /\ account \in Row
    BY DEF AInv, AccountsTypeOK, Row
  <2>3. Existing' = Existing \cup {e}
    BY <2>1 DEF Existing
  <2>. QED
    BY <2>1, <2>2, <2>3
<1>2. PICK k \in AccountCalls : /\ calls' = [calls EXCEPT ![c] = k]
                                /\ k.at = "free" \/ (k.at = "sign" /\ k.email = e /\ active)
  <2>1. CASE At(c, "save")
    <3>1. [at |-> "sign", email |-> e] \in AccountCalls
      BY DEF AccountCalls, Steps
    <3>. QED
      BY <2>1, <3>1 DEF Created, Step
  <2>2. CASE ~At(c, "save")
    <3>1. NoOne \in AccountCalls /\ NoOne.at = "free"
      BY DEF AccountCalls, NoOne
    <3>. QED
      BY <2>2, <3>1 DEF Created, Finish
  <2>. QED
    BY <2>1, <2>2
<1>3. \A d \in Persons : calls'[d] = IF d = c THEN k ELSE calls[d]
  BY <1>2 DEF AInv, AccountsTypeOK
<1>4. /\ calls' \in [Persons -> AccountCalls] /\ Existing' \subseteq Emails
      /\ welcomed' = [welcomed EXCEPT ![e] = @ + 1] /\ welcomed \in [Emails -> Nat]
  BY <1>1, <1>2 DEF AInv, AccountsTypeOK, Created
<1>5. AccountsTypeOK'
  <2>1. welcomed' \in [Emails -> Nat]
    BY <1>4
  <2>. QED
    BY <1>1, <1>4, <2>1 DEF AInv, AccountsTypeOK
<1>6. CallsHaveRows'
  BY <1>1, <1>2, <1>3 DEF AInv, CallsHaveRows, OnARow
<1>7. AdminsStay'
  BY <1>1, <1>2, <1>3 DEF AInv, AdminsStay, At, IsAdmin
<1>8. OneAccountPerEmail'
  <2>1. ~IsAdmin(e) /\ welcomed[e] = 0
    BY <1>4 DEF AInv, AdminsStay, OneAccountPerEmail, IsAdmin
  <2>2. welcomed'[e] = 1 /\ \A f \in Emails \ {e} : welcomed'[f] = welcomed[f]
    BY <1>4, <2>1
  <2>. QED
    BY <1>1, <2>1, <2>2 DEF AInv, OneAccountPerEmail, IsAdmin
<1>9. LeaksAreInHand'
  <2>. SUFFICES ASSUME NEW f \in Emails
                PROVE  /\ Usable(f)' \/ f \notin Existing' => leaked[f] = 0
                       /\ leaked[f] + Cardinality(Signing(f)') <= Cardinality(Persons)
    BY DEF LeaksAreInHand
  <2>1. /\ Usable(f) \/ f \notin Existing => leaked[f] = 0
        /\ leaked[f] + Cardinality(Signing(f)) <= Cardinality(Persons)
        /\ leaked[f] \in Nat
    BY DEF AInv, AccountsTypeOK, LeaksAreInHand
  <2>2. CASE f = e
    BY <2>1, <2>2, SigningIsFinite, SigningIsFiniteNext
  <2>3. CASE f # e
    <3>1. Usable(f)' <=> Usable(f)
      BY <1>1, <2>3 DEF Usable, Live
    <3>2. Signing(f)' \subseteq Signing(f)
      BY <1>2, <1>3, <2>3 DEF Signing, At
    <3>3. Cardinality(Signing(f)') <= Cardinality(Signing(f))
      BY <3>2, SigningIsFinite, CardinalityMonotone
    <3>. QED
      BY <1>1, <2>1, <2>3, <3>1, <3>3, SigningIsFinite, SigningIsFiniteNext
  <2>. QED
    BY <2>2, <2>3
<1>. QED
  BY <1>5, <1>6, <1>7, <1>8, <1>9 DEF AInv

\* The insertion, which the unique index may refuse.
LEMMA UsersAreSaved ==
    ASSUME AInv, NEW c \in Persons, SaveUser(c)
    PROVE  AInv'
<1>1. calls[c].email \in Emails
  <2>1. calls[c] \in AccountCalls /\ calls[c].at # "free"
    BY DEF SaveUser, At, AInv, AccountsTypeOK
  <2>. QED
    BY <2>1 DEF AccountCalls, NoOne
<1>2. CASE calls[c].email \in Existing
  BY <1>2, FinishingACall DEF SaveUser
<1>3. CASE calls[c].email \notin Existing
  <2>1. PICK active \in BOOLEAN :
           (active \/ At(c, "post")) /\ Created(c, calls[c].email, active)
    BY <1>3 DEF SaveUser
  <2>2. At(c, "save") => active
    BY <2>1 DEF At
  <2>. QED
    BY <1>1, <1>3, <2>1, <2>2, AnAccountIsMade DEF SaveUser
<1>. QED
  BY <1>2, <1>3

-----------------------------------------------------------------------------
\* A row is written: no call comes to sign by it, and no administrator's row
\* is deleted by it.
LEMMA ARowIsWritten ==
    ASSUME AInv, NEW e \in Existing, NEW account \in Row, Write(e, account),
           IsAdmin(e) => ~account.deleted,
           calls' \in [Persons -> AccountCalls],
           \A d \in Persons : calls'[d] = calls[d] \/ calls'[d].at = "free"
                              \/ (calls'[d].at = "activate" /\ calls'[d].email = e)
    PROVE  AInv'
<1>1. /\ e \in Emails /\ accounts \in [Existing -> Row] /\ leaked \in [Emails -> Nat]
      /\ accounts' = [accounts EXCEPT ![e] = account]
  BY DEF AInv, AccountsTypeOK, Write
<1>2. /\ Existing' = Existing /\ accounts' \in [Existing -> Row]
      /\ accounts'[e] = account /\ \A f \in Existing \ {e} : accounts'[f] = accounts[f]
  BY <1>1 DEF Existing
<1>3. \A f \in Emails : leaked'[f] = IF f = e /\ account.active /\ ~account.deleted THEN 0 ELSE leaked[f]
  BY <1>1 DEF Write
<1>4. leaked' \in [Emails -> Nat] /\ welcomed' = welcomed
  BY <1>1 DEF Write
<1>5. AccountsTypeOK'
  BY <1>2, <1>4 DEF AInv, AccountsTypeOK
<1>6. AdminsStay'
  BY <1>2 DEF AInv, AdminsStay, At, IsAdmin
<1>7. \A d \in Persons : calls'[d].at \in OnARow => calls'[d].email \in Existing
  BY DEF AInv, CallsHaveRows, OnARow
<1>8. \A f \in Emails : Signing(f)' \subseteq Signing(f)
  BY DEF Signing, At
<1>9. \A f \in Emails : Usable(f)' \/ f \notin Existing => leaked'[f] = 0
  <2>. SUFFICES ASSUME NEW f \in Emails, Usable(f)' \/ f \notin Existing
                PROVE  leaked'[f] = 0
    OBVIOUS
  <2>1. CASE f = e
    BY <1>2, <1>3, <2>1 DEF Usable, Live
  <2>2. CASE f # e
    <3>1. Usable(f) \/ f \notin Existing
      BY <1>2, <2>2 DEF Usable, Live
    <3>. QED
      BY <1>3, <2>2, <3>1 DEF AInv, LeaksAreInHand
  <2>. QED
    BY <2>1, <2>2
<1>. QED
  BY <1>2, <1>3, <1>4, <1>5, <1>6, <1>7, <1>8, <1>9, StepKeeps

\* The writes of a row that was read before.
LEMMA RowsAreWritten ==
    ASSUME AInv, NEW c \in Persons,
           SoftDelete(c) \/ UpdateInactive(c) \/ RestoreUser(c) \/ ActivateUser(c)
    PROVE  AInv'
<1>. DEFINE e == calls[c].email
<1>1. e \in Existing /\ e \in Emails /\ calls \in [Persons -> AccountCalls]
  BY DEF SoftDelete, UpdateInactive, RestoreUser, ActivateUser, At, OnARow,
         AInv, AccountsTypeOK, CallsHaveRows
<1>2. /\ accounts[e] \in Row
      /\ [accounts[e] EXCEPT !.deleted = TRUE] \in Row
      /\ [accounts[e] EXCEPT !.deleted = FALSE] \in Row
      /\ [accounts[e] EXCEPT !.active = FALSE] \in Row
      /\ [accounts[e] EXCEPT !.active = TRUE] \in Row
  BY <1>1 DEF AInv, AccountsTypeOK, Row
<1>3. IsAdmin(e) => ~accounts[e].deleted
  BY DEF AInv, AdminsStay, IsAdmin
<1>4. NoOne \in AccountCalls /\ NoOne.at = "free" /\ [at |-> "activate", email |-> e] \in AccountCalls
  BY <1>1 DEF AccountCalls, NoOne, Steps
<1>5. CASE SoftDelete(c)
  <2>1. ~IsAdmin(e)
    BY <1>5 DEF SoftDelete, AInv, AdminsStay
  <2>2. calls' = [calls EXCEPT ![c] = NoOne] /\ Write(e, [accounts[e] EXCEPT !.deleted = TRUE])
    BY <1>5 DEF SoftDelete, Finish
  <2>. QED
    BY <1>1, <1>2, <1>4, <2>1, <2>2, ARowIsWritten
<1>6. CASE UpdateInactive(c)
  <2>1. calls' = [calls EXCEPT ![c] = NoOne] /\ Write(e, [accounts[e] EXCEPT !.active = FALSE])
    BY <1>6 DEF UpdateInactive, Finish
  <2>2. [accounts[e] EXCEPT !.active = FALSE].deleted = accounts[e].deleted
    BY <1>2 DEF Row
  <2>. QED
    BY <1>1, <1>2, <1>3, <1>4, <2>1, <2>2, ARowIsWritten
<1>7. CASE RestoreUser(c)
  <2>1. /\ calls' = [calls EXCEPT ![c] = [at |-> "activate", email |-> e]]
        /\ Write(e, [accounts[e] EXCEPT !.deleted = FALSE])
    BY <1>7 DEF RestoreUser, Step
  <2>2. ~[accounts[e] EXCEPT !.deleted = FALSE].deleted
    BY <1>2 DEF Row
  <2>. QED
    BY <1>1, <1>2, <1>4, <2>1, <2>2, ARowIsWritten
<1>8. CASE ActivateUser(c)
  <2>1. calls' = [calls EXCEPT ![c] = NoOne] /\ Write(e, [accounts[e] EXCEPT !.active = TRUE])
    BY <1>8 DEF ActivateUser, Finish
  <2>2. [accounts[e] EXCEPT !.active = TRUE].deleted = accounts[e].deleted
    BY <1>2 DEF Row
  <2>. QED
    BY <1>1, <1>2, <1>3, <1>4, <2>1, <2>2, ARowIsWritten
<1>. QED
  BY <1>5, <1>6, <1>7, <1>8

\* The seeder adds the administrator.
LEMMA AdminsAreSeeded ==
    ASSUME AInv, SeedUsers
    PROVE  AInv'
<1>1. PICK e \in SeedAdmins : Write(e, [accounts[e] EXCEPT !.active = TRUE]) /\ calls' = calls
  BY DEF SeedUsers
<1>2. e \in Existing /\ ~accounts[e].deleted /\ accounts[e] \in Row /\ calls \in [Persons -> AccountCalls]
  BY DEF AInv, AdminsStay, AccountsTypeOK
<1>3. /\ [accounts[e] EXCEPT !.active = TRUE] \in Row
      /\ ~[accounts[e] EXCEPT !.active = TRUE].deleted
  BY <1>2 DEF Row
<1>. QED
  BY <1>1, <1>2, <1>3, ARowIsWritten

-----------------------------------------------------------------------------
\* Every step of an account keeps the invariant.
LEMMA AInvIsKept == AInv /\ [AccountsNext]_accountVars => AInv'
<1>. SUFFICES ASSUME AInv, [AccountsNext]_accountVars PROVE AInv'
  OBVIOUS
<1>1. CASE AccountsNext
  <2>1. CASE \E c \in Persons, e \in Emails :
                \/ Register(c, e) \/ Login(c, e) \/ RefreshToken(c, e)
                \/ PostUser(c, e) \/ DeleteUser(c, e) \/ PatchInactive(c, e) \/ PatchActivate(c, e)
    BY <2>1, CallsMove
  <2>2. CASE \E c \in Persons : FindByEmail(c)
    BY <2>2, EmailsAreFound
  <2>3. CASE \E c \in Persons : GiveTokens(c) \/ SaveUser(c)
    BY <2>3, TokensAreGiven, UsersAreSaved
  <2>4. CASE \E c \in Persons :
                SoftDelete(c) \/ UpdateInactive(c) \/ RestoreUser(c) \/ ActivateUser(c)
    BY <2>4, RowsAreWritten
  <2>. QED
    BY <1>1, <2>1, <2>2, <2>3, <2>4, AdminsAreSeeded DEF AccountsNext
<1>2. CASE UNCHANGED accountVars
  BY <1>2 DEF accountVars, AInv, AccountsTypeOK, CallsHaveRows, AdminsStay, LeaksAreInHand,
              OneAccountPerEmail, Existing, Usable, Live, Signing, At
<1>. QED
  BY <1>1, <1>2

\* Whatever the callers do, in any order: the invariant of the accounts.
THEOREM AInvHolds == AccountsSpec => []AInv
<1>. QED
  BY AInvInitially, AInvIsKept, PTL DEF AccountsSpec

\* An address is welcomed at most once, and only when its account is there,
\* though register and create look for it and then insert without a lock.
THEOREM EmailsAreTakenOnce == AccountsSpec => []OneAccountPerEmail
<1>1. AInv => OneAccountPerEmail
  BY DEF AInv
<1>. QED
  BY <1>1, AInvHolds, PTL

\* An account out of use gets no more tokens than there are callers, however
\* often they log in or refresh, and no administrator is ever deleted.
THEOREM OutMeansOut == AccountsSpec => []SwitchedOffStaysOut
<1>1. AInv => SwitchedOffStaysOut
  BY DEF AInv, SwitchedOffStaysOut, LeaksAreInHand, AdminsStay, AccountsTypeOK, IsAdmin
<1>. QED
  BY <1>1, AInvHolds, PTL

-----------------------------------------------------------------------------
(* The stock cache: a copy is the row, or its way to be old is known.      *)

\* The calls a user may have in hand: one that deletes has all keys before it,
\* or the lists alone.
CacheCalls ==
    {NotUsing} \cup [call: {"has"}, version: 0..Gone] \cup [call: {"increment"}]
        \cup [call: {"fill"}, version: 0..Gone, keys: SUBSET CacheKeys]
        \cup [call: {"delete"}, keys: {CacheKeys, {"lowStock"}}]

CacheTypeOK ==
    /\ row \in 0..Gone
    /\ cache \in [CacheKeys -> 0..NoCopy]
    /\ using \in [CacheUsers -> CacheCalls]
    /\ spoilt \subseteq CacheKeys

\* Before the item is saved nothing is cached under its keys, nor about to be.
NothingBeforeSave ==
    row = 0 =>
        /\ \A k \in ItemKeys : ~Cached(k)
        /\ \A c \in CacheUsers : Does(c, "fill") => using[c].keys \cap ItemKeys = {}

SInv == CacheTypeOK /\ NothingBeforeSave /\ CacheTellsTheRow

\* The invariant holds of an empty cache.
LEMMA SInvInitially == CacheInit => SInv
<1>. SUFFICES ASSUME CacheInit PROVE SInv
  OBVIOUS
<1>1. CacheTypeOK
  BY CacheAssumption DEF CacheInit, CacheTypeOK, CacheCalls, Gone, NoCopy
<1>2. \A k \in CacheKeys : ~Cached(k)
  BY DEF CacheInit, Cached
<1>3. \A c \in CacheUsers : ~Does(c, "fill")
  BY DEF CacheInit, Does, NotUsing
<1>. QED
  BY <1>1, <1>2, <1>3 DEF SInv, NothingBeforeSave, CacheTellsTheRow, CacheKeys

\* A call in hand is of one of five kinds, and its name says which.
LEMMA CallsByName ==
    ASSUME CacheTypeOK, NEW c \in CacheUsers
    PROVE  /\ Does(c, "has") => using[c] \in [call: {"has"}, version: 0..Gone]
           /\ Does(c, "fill") =>
                using[c] \in [call: {"fill"}, version: 0..Gone, keys: SUBSET CacheKeys]
           /\ Does(c, "delete") => using[c] \in [call: {"delete"}, keys: {CacheKeys, {"lowStock"}}]
BY DEF CacheTypeOK, CacheCalls, Does, NotUsing

\* The user goes on to another next, the others stay where they are.
LEMMA UsersGoOn ==
    ASSUME CacheTypeOK, NEW c \in CacheUsers, NEW next \in CacheCalls, GoOn(c, next)
    PROVE  /\ using' \in [CacheUsers -> CacheCalls] /\ using'[c] = next
           /\ \A d \in CacheUsers \ {c} : using'[d] = using[d]
BY DEF CacheTypeOK, GoOn

\* A step that leaves the row alone keeps the copies true, if each key it
\* touches has no copy, a true one or a known old one.
LEMMA CopiesStayTrue ==
    ASSUME SInv, NEW c \in CacheUsers, NEW next \in CacheCalls, GoOn(c, next),
           row' = row, cache' \in [CacheKeys -> 0..NoCopy], spoilt' \subseteq CacheKeys,
           row = 0 => \A k \in ItemKeys : cache'[k] = cache[k],
           next.call = "fill" /\ row = 0 => next.keys \cap ItemKeys = {},
           \A k \in CacheKeys :
              \/ cache'[k] \in {NoCopy, row} \/ k \in spoilt'
              \/ next.call = "delete" /\ k \in next.keys
              \/ /\ cache'[k] = cache[k] /\ k \notin spoilt
                 /\ ~(Does(c, "delete") /\ k \in using[c].keys)
    PROVE  SInv'
<1>1. /\ using' \in [CacheUsers -> CacheCalls] /\ using'[c] = next
      /\ \A d \in CacheUsers \ {c} : using'[d] = using[d]
  BY UsersGoOn DEF SInv
<1>2. CacheTypeOK'
  BY <1>1 DEF SInv, CacheTypeOK
<1>3. NothingBeforeSave'
  BY <1>1 DEF SInv, NothingBeforeSave, Cached, Does, ItemKeys
<1>4. CacheTellsTheRow'
  <2>. SUFFICES ASSUME NEW k \in CacheKeys
                PROVE  \/ ~Cached(k)' \/ cache'[k] = row' \/ k \in spoilt'
                       \/ \E d \in CacheUsers : Does(d, "delete")' /\ k \in using'[d].keys
    BY DEF CacheTellsTheRow
  <2>1. CASE cache'[k] \in {NoCopy, row} \/ k \in spoilt'
    BY <2>1 DEF Cached
  <2>2. CASE next.call = "delete" /\ k \in next.keys
    BY <1>1, <2>2 DEF Does
  <2>3. CASE /\ cache'[k] = cache[k] /\ k \notin spoilt
             /\ ~(Does(c, "delete") /\ k \in using[c].keys)
    <3>1. \/ ~Cached(k) \/ cache[k] = row
          \/ \E d \in CacheUsers : Does(d, "delete") /\ k \in using[d].keys
      BY <2>3 DEF SInv, CacheTellsTheRow
    <3>2. CASE \E d \in CacheUsers : Does(d, "delete") /\ k \in using[d].keys
      <4>1. PICK d \in CacheUsers \ {c} : Does(d, "delete") /\ k \in using[d].keys
        BY <2>3, <3>2
      <4>. QED
        BY <1>1, <4>1 DEF Does
    <3>. QED
      BY <2>3, <3>1, <3>2 DEF Cached
  <2>. QED
    BY <2>1, <2>2, <2>3
<1>. QED
  BY <1>2, <1>3, <1>4 DEF SInv

\* Reads: hits, misses and fills, and a write that the version refuses.
LEMMA ReadsKeepCopies ==
    ASSUME SInv, NEW c \in CacheUsers,
           \/ \E k \in CacheKeys : FindHits(c, k) \/ FindMisses(c, k) \/ Fill(c, k)
           \/ FillEnds(c) \/ Forget(c) \/ UpdateConflicts(c)
    PROVE  SInv'
<1>. USE CacheAssumption
<1>1. CacheTypeOK /\ NotUsing \in CacheCalls /\ NotUsing.call = "none"
  BY DEF SInv, CacheCalls, NotUsing
<1>2. ASSUME UNCHANGED <<row, cache, spoilt>>, NEW next \in CacheCalls, GoOn(c, next),
             ~Does(c, "delete"), next.call = "fill" /\ row = 0 => next.keys \cap ItemKeys = {}
      PROVE  SInv'
  BY <1>1, <1>2, CopiesStayTrue DEF CacheTypeOK
<1>3. ASSUME NEW k \in CacheKeys, FindHits(c, k) PROVE SInv'
  <2>1. cache[k] \in 0..Gone
    BY <1>1, <1>3 DEF FindHits, Cached, CacheTypeOK, Gone, NoCopy
  <2>2. Has(cache[k]) \in CacheCalls /\ Has(cache[k]).call = "has"
    BY <2>1 DEF Has, CacheCalls
  <2>. QED
    BY <1>2, <1>3, <2>2 DEF FindHits, Free, NotUsing, Does
<1>4. ASSUME NEW k \in CacheKeys, FindMisses(c, k) PROVE SInv'
  <2>. DEFINE next == ToFill(row, IF k \in ItemKeys THEN ItemKeys ELSE {k})
  <2>1. next \in CacheCalls
    BY <1>1 DEF CacheTypeOK, ToFill, CacheCalls, CacheKeys
  <2>2. row = 0 => k \notin ItemKeys
    BY <1>4 DEF FindMisses, HasRow
  <2>3. next.call = "fill" /\ row = 0 => next.keys \cap ItemKeys = {}
    BY <2>2 DEF ToFill
  <2>. HIDE DEF next
  <2>4. GoOn(c, next) /\ UNCHANGED <<row, cache, spoilt>> /\ ~Does(c, "delete")
    BY <1>4 DEF FindMisses, Free, NotUsing, Does, next
  <2>. QED
    BY <1>2, <2>1, <2>3, <2>4
<1>5. ASSUME NEW k \in CacheKeys, Fill(c, k) PROVE SInv'
  <2>1. /\ using[c] \in [call: {"fill"}, version: 0..Gone, keys: SUBSET CacheKeys]
        /\ Does(c, "fill")
    BY <1>1, <1>5, CallsByName DEF Fill
  <2>. DEFINE next == [using[c] EXCEPT !.keys = @ \ {k}]
  <2>2. next \in CacheCalls /\ next.call = "fill" /\ next.keys = using[c].keys \ {k}
    BY <2>1 DEF CacheCalls
  <2>. HIDE DEF next
  <2>3. GoOn(c, next) /\ row' = row /\ cache' = [cache EXCEPT ![k] = using[c].version]
        /\ spoilt' = IF using[c].version = row THEN spoilt \ {k} ELSE spoilt \cup {k}
    BY <1>5 DEF Fill, next
  <2>4. cache' \in [CacheKeys -> 0..NoCopy] /\ spoilt' \subseteq CacheKeys
    BY <1>1, <2>1, <2>3 DEF CacheTypeOK, Gone, NoCopy
  <2>5. row = 0 => using[c].keys \cap ItemKeys = {} /\ k \notin ItemKeys
    BY <1>5, <2>1 DEF SInv, NothingBeforeSave, Fill
  <2>6. row = 0 => \A j \in ItemKeys : cache'[j] = cache[j]
    BY <1>1, <2>3, <2>5 DEF CacheTypeOK, CacheKeys
  <2>7. ~Does(c, "delete")
    BY <2>1 DEF Does
  <2>8. \A j \in CacheKeys :
           \/ cache'[j] \in {NoCopy, row} \/ j \in spoilt'
           \/ cache'[j] = cache[j] /\ j \notin spoilt
    BY <1>1, <2>3 DEF CacheTypeOK
  <2>. QED
    BY <2>2, <2>3, <2>4, <2>5, <2>6, <2>7, <2>8, CopiesStayTrue
<1>6. CASE FillEnds(c)
  <2>1. /\ using[c] \in [call: {"fill"}, version: 0..Gone, keys: SUBSET CacheKeys]
    BY <1>1, <1>6, CallsByName DEF FillEnds
  <2>2. Has(using[c].version) \in CacheCalls /\ Has(using[c].version).call = "has"
    BY <2>1 DEF Has, CacheCalls
  <2>. QED
    BY <1>2, <1>6, <2>1, <2>2 DEF FillEnds, Does
<1>7. CASE Forget(c) \/ UpdateConflicts(c)
  BY <1>1, <1>2, <1>7 DEF Forget, UpdateConflicts, Return, Does
<1>. QED
  BY <1>3, <1>4, <1>5, <1>6, <1>7

\* Writers of the row: every key is still to be deleted, or known to be old.
LEMMA WritesKeepCopies ==
    ASSUME SInv, NEW c \in CacheUsers,
           SaveItem(c) \/ UpdateItem(c) \/ DeleteItem(c) \/ IncrementVersion(c)
    PROVE  SInv'
<1>. USE CacheAssumption
<1>1. CacheTypeOK /\ NotUsing \in CacheCalls /\ NotUsing.call = "none"
  BY DEF SInv, CacheCalls, NotUsing
<1>2. row \in 0..Gone
  BY <1>1 DEF CacheTypeOK
<1>3. ASSUME cache' = cache, spoilt' \subseteq CacheKeys, row' \in 0..Gone \ {0},
             NEW next \in CacheCalls, GoOn(c, next),
             \A k \in CacheKeys : \/ ~Cached(k) \/ k \in spoilt'
                                  \/ next.call = "delete" /\ k \in next.keys
      PROVE  SInv'
  <2>1. /\ using' \in [CacheUsers -> CacheCalls] /\ using'[c] = next
    BY <1>1, <1>3, UsersGoOn
  <2>2. CacheTypeOK'
    BY <1>1, <1>3, <2>1 DEF CacheTypeOK
  <2>3. NothingBeforeSave'
    BY <1>3 DEF NothingBeforeSave
  <2>4. CacheTellsTheRow'
    BY <1>3, <2>1 DEF CacheTellsTheRow, Cached, Does
  <2>. QED
    BY <2>2, <2>3, <2>4 DEF SInv
<1>4. CASE UpdateItem(c) \/ DeleteItem(c)
  <2>1. ToDelete \in CacheCalls /\ ToDelete.call = "delete" /\ ToDelete.keys = CacheKeys
    BY DEF ToDelete, CacheCalls
  <2>2. row' \in 0..Gone \ {0}
    BY <1>2, <1>4 DEF UpdateItem, DeleteItem, Gone
  <2>. QED
    BY <1>1, <1>3, <1>4, <2>1, <2>2 DEF UpdateItem, DeleteItem, CacheTypeOK
<1>5. CASE SaveItem(c)
  <2>. DEFINE next == ToFill(1, ItemKeys)
  <2>1. next \in CacheCalls /\ next.call = "fill"
    BY DEF ToFill, CacheCalls, CacheKeys, Gone
  <2>2. row = 0 /\ row' = 1 /\ GoOn(c, next) /\ cache' = cache
    BY <1>5 DEF SaveItem
  <2>. HIDE DEF next
  <2>3. spoilt' \subseteq CacheKeys /\ (Cached("lowStock") => "lowStock" \in spoilt')
    BY <1>1, <1>5 DEF SaveItem, CacheTypeOK, CacheKeys
  <2>4. \A k \in CacheKeys : ~Cached(k) \/ k \in spoilt'
    BY <2>2, <2>3 DEF SInv, NothingBeforeSave, CacheKeys
  <2>5. row' \in 0..Gone \ {0}
    BY <2>2 DEF Gone
  <2>. QED
    BY <1>3, <2>1, <2>2, <2>3, <2>4, <2>5
<1>6. CASE IncrementVersion(c)
  <2>1. GoOn(c, NotUsing) /\ cache' = cache /\ ~Does(c, "delete")
    BY <1>6 DEF IncrementVersion, Return, Does
  <2>2. CASE HasRow
    <3>1. /\ row' \in 0..Gone \ {0}
          /\ spoilt' = spoilt \cup {k \in CacheKeys : Cached(k)}
      BY <1>2, <1>6, <2>2 DEF IncrementVersion, HasRow, Gone
    <3>2. spoilt' \subseteq CacheKeys /\ \A k \in CacheKeys : ~Cached(k) \/ k \in spoilt'
      BY <1>1, <3>1 DEF CacheTypeOK
    <3>. QED
      BY <1>1, <1>3, <2>1, <3>1, <3>2
  <2>3. CASE ~HasRow
    <3>1. row' = row /\ spoilt' = spoilt
      BY <1>6, <2>3 DEF IncrementVersion
    <3>. QED
      BY <1>1, <2>1, <3>1, CopiesStayTrue DEF CacheTypeOK
  <2>. QED
    BY <2>2, <2>3
<1>. QED
  BY <1>4, <1>5, <1>6

\* Writes drop the copies key by key, and may be cut off in between.
LEMMA DeletesKeepCopies ==
    ASSUME SInv, NEW c \in CacheUsers, DropKeys(c) \/ IncrementDrops(c) \/ CallCutOff(c)
    PROVE  SInv'
<1>. USE CacheAssumption
<1>1. CacheTypeOK /\ NotUsing \in CacheCalls /\ NotUsing.call = "none"
  BY DEF SInv, CacheCalls, NotUsing
<1>2. CASE DropKeys(c)
  <2>1. /\ using[c] \in [call: {"delete"}, keys: {CacheKeys, {"lowStock"}}]
    BY <1>1, <1>2, CallsByName DEF DropKeys
  <2>2. PICK dropped \in {ItemKeys, {"lowStock"}}, next \in CacheCalls :
          /\ GoOn(c, next) /\ row' = row
          /\ cache' = [k \in CacheKeys |-> IF k \in dropped THEN NoCopy ELSE cache[k]]
          /\ spoilt' = spoilt \ dropped
          /\ \A k \in using[c].keys \ dropped : next.call = "delete" /\ k \in next.keys
          /\ next.call # "fill"
    <3>1. CASE using[c].keys = CacheKeys
      <4>. DEFINE next == [using[c] EXCEPT !.keys = @ \ ItemKeys]
      <4>1. next.call = "delete" /\ next.keys = {"lowStock"} /\ next \in CacheCalls
        BY <2>1, <3>1 DEF CacheKeys, ItemKeys, CacheCalls
      <4>2. ItemKeys \subseteq using[c].keys
        BY <3>1 DEF CacheKeys
      <4>3. /\ GoOn(c, next) /\ row' = row
            /\ cache' = [k \in CacheKeys |-> IF k \in ItemKeys THEN NoCopy ELSE cache[k]]
            /\ spoilt' = spoilt \ ItemKeys
        BY <1>2, <4>2 DEF DropKeys
      <4>. HIDE DEF next
      <4>4. \A k \in using[c].keys \ ItemKeys : next.call = "delete" /\ k \in next.keys
        BY <3>1, <4>1 DEF CacheKeys
      <4>. QED
        BY <4>1, <4>3, <4>4
    <3>2. CASE using[c].keys = {"lowStock"}
      <4>1. ~(ItemKeys \subseteq using[c].keys) /\ ItemKeys # {"lowStock"}
        BY <3>2 DEF ItemKeys
      <4>2. /\ GoOn(c, NotUsing) /\ row' = row
            /\ cache' = [k \in CacheKeys |-> IF k \in {"lowStock"} THEN NoCopy ELSE cache[k]]
            /\ spoilt' = spoilt \ {"lowStock"}
        BY <1>2, <4>1 DEF DropKeys, Return
      <4>. QED
        BY <1>1, <3>2, <4>2
    <3>. QED
      BY <2>1, <3>1, <3>2
  <2>3. cache' \in [CacheKeys -> 0..NoCopy] /\ spoilt' \subseteq CacheKeys
    BY <1>1, <2>2 DEF CacheTypeOK, NoCopy
  <2>4. row = 0 => \A k \in ItemKeys : cache'[k] = cache[k]
    BY <2>2 DEF SInv, NothingBeforeSave, Cached, CacheKeys
  <2>5. \A k \in CacheKeys :
           \/ cache'[k] = NoCopy \/ k \in spoilt'
           \/ next.call = "delete" /\ k \in next.keys
           \/ cache'[k] = cache[k] /\ k \notin spoilt /\ k \notin using[c].keys
    BY <2>2
  <2>. QED
    BY <2>2, <2>3, <2>4, <2>5, CopiesStayTrue
<1>3. CASE IncrementDrops(c)
  <2>. DEFINE next == [call |-> "increment"]
  <2>1. next \in CacheCalls /\ next.call = "increment"
    BY DEF CacheCalls
  <2>2. /\ GoOn(c, next) /\ row' = row /\ HasRow /\ ~Does(c, "delete")
        /\ cache' = [k \in CacheKeys |-> IF k \in ItemKeys THEN NoCopy ELSE cache[k]]
        /\ spoilt' = spoilt \ ItemKeys
    BY <1>3 DEF IncrementDrops, Free, NotUsing, Does
  <2>. HIDE DEF next
  <2>3. cache' \in [CacheKeys -> 0..NoCopy] /\ spoilt' \subseteq CacheKeys /\ row # 0
    BY <1>1, <2>2 DEF CacheTypeOK, NoCopy, HasRow
  <2>4. \A k \in CacheKeys :
           \/ cache'[k] = NoCopy \/ k \in spoilt'
           \/ cache'[k] = cache[k] /\ k \notin spoilt
    BY <2>2
  <2>. QED
    BY <2>1, <2>2, <2>3, <2>4, CopiesStayTrue
<1>4. CASE CallCutOff(c)
  <2>1. GoOn(c, NotUsing) /\ UNCHANGED <<row, cache>>
    BY <1>4 DEF CallCutOff, Return
  <2>2. CASE Does(c, "delete")
    <3>1. using[c].keys \subseteq CacheKeys /\ spoilt' = spoilt \cup using[c].keys
      BY <1>1, <1>4, <2>2, CallsByName DEF CallCutOff, CacheKeys
    <3>2. \A k \in CacheKeys : k \in spoilt' \/ (k \notin spoilt /\ k \notin using[c].keys)
      BY <3>1
    <3>3. spoilt' \subseteq CacheKeys /\ cache' \in [CacheKeys -> 0..NoCopy]
      BY <1>1, <2>1, <3>1 DEF CacheTypeOK
    <3>. QED
      BY <1>1, <2>1, <3>2, <3>3, CopiesStayTrue
  <2>3. CASE ~Does(c, "delete")
    <3>1. spoilt' = spoilt
      BY <1>4, <2>3 DEF CallCutOff
    <3>. QED
      BY <1>1, <2>1, <2>3, <3>1, CopiesStayTrue DEF CacheTypeOK
  <2>. QED
    BY <2>2, <2>3
<1>. QED
  BY <1>2, <1>3, <1>4

\* A copy that expires tells nothing any more.
LEMMA ExpiryKeepsCopies ==
    ASSUME SInv, NEW k \in CacheKeys, EntryExpires(k)
    PROVE  SInv'
<1>1. /\ cache' = [cache EXCEPT ![k] = NoCopy] /\ spoilt' = spoilt \ {k}
      /\ UNCHANGED <<row, using>> /\ CacheTypeOK
  BY DEF EntryExpires, SInv
<1>2. CacheTypeOK'
  BY <1>1, CacheAssumption DEF CacheTypeOK, NoCopy
<1>3. NothingBeforeSave' /\ CacheTellsTheRow'
  BY <1>1 DEF SInv, NothingBeforeSave, CacheTellsTheRow, Cached, Does, CacheTypeOK, CacheKeys
<1>. QED
  BY <1>2, <1>3 DEF SInv

\* Every step of the cache keeps the invariant.
LEMMA SInvIsKept == SInv /\ [CacheNext]_cacheVars => SInv'
<1>. SUFFICES ASSUME SInv, [CacheNext]_cacheVars PROVE SInv'
  OBVIOUS
<1>1. CASE UNCHANGED cacheVars
  BY <1>1 DEF cacheVars, SInv, CacheTypeOK, NothingBeforeSave, CacheTellsTheRow, Cached, Does
<1>. QED
  BY <1>1, ReadsKeepCopies, WritesKeepCopies, DeletesKeepCopies, ExpiryKeepsCopies
     DEF CacheNext

\* Whoever reads and writes at once, whatever Redis loses and whoever dies: a
\* cached copy is the row, or one of the ways named in the model left it old.
THEOREM CopiesTellTheRow == CacheSpec => []CacheTellsTheRow
<1>1. SInv => CacheTellsTheRow
  BY DEF SInv
<1>. QED
  BY <1>1, SInvInitially, SInvIsKept, PTL DEF CacheSpec

-----------------------------------------------------------------------------
(* The request limiters.  What is admitted is tied to the counter, and the *)
(* counter to the life of its key: a key that no failure touched has an    *)
(* expiry, or the gateway is about to set one.                             *)

LimitsTypeOK ==
    /\ limiter \in {"service", "gateway"}
    /\ count \in Nat /\ ttl \in 0..Forever /\ expiring \in Nat
    /\ admitted \in Nat /\ quiet \in 0..Window /\ redisFailed \in BOOLEAN

\* What the code admitted, counted by its own counter.
AdmittedIsCounted ==
    ~redisFailed => admitted = IF count <= Limit THEN count ELSE Limit

\* A key in use expires, now or once the command in flight has set its expiry.
KeysExpire ==
    /\ count > 0 => ttl > 0
    /\ expiring > 0 => count > 0 /\ ttl = Forever
    /\ expiring <= 1
    /\ ~redisFailed /\ ttl = Forever => expiring > 0

\* At the service no key outlives a window without calls.
ServiceExpires ==
    limiter = "service" =>
        /\ expiring = 0
        /\ ~redisFailed /\ count > 0 => ttl + quiet <= Window

LInv == LimitsTypeOK /\ AdmittedIsCounted /\ KeysExpire /\ ServiceExpires

\* The invariant holds of a key nobody has called under.
LEMMA LInvInitially == LimitsInit => LInv
<1>. SUFFICES ASSUME LimitsInit PROVE LInv
  OBVIOUS
<1>. USE LimitsAssumption DEF LimitsInit, Forever
<1>1. LimitsTypeOK
  <2>1. quiet \in 0..Window /\ ttl \in 0..Forever
    OBVIOUS
  <2>2. redisFailed \in BOOLEAN
    OBVIOUS
  <2>. QED
    BY <2>1, <2>2 DEF LimitsTypeOK
<1>2. AdmittedIsCounted
  BY DEF AdmittedIsCounted
<1>3. KeysExpire
  BY DEF KeysExpire
<1>4. ServiceExpires
  BY DEF ServiceExpires
<1>. QED
  BY <1>1, <1>2, <1>3, <1>4 DEF LInv

\* Every step of either limiter keeps the invariant.
LEMMA LInvStep == LInv /\ [LimitsNext]_limitVars => LInv'
<1>. SUFFICES ASSUME LInv, [LimitsNext]_limitVars PROVE LInv'
  OBVIOUS
<1>. USE LimitsAssumption
     DEF LInv, LimitsTypeOK, AdmittedIsCounted, KeysExpire, ServiceExpires, Forever, LetThrough
<1>1. CASE Increment
  BY <1>1 DEF Increment
<1>2. CASE IncrementBreaks
  BY <1>2 DEF IncrementBreaks
<1>3. CASE Incr
  BY <1>3 DEF Incr
<1>4. CASE ExpireKey
  BY <1>4 DEF ExpireKey
<1>5. CASE ExpireLost
  BY <1>5 DEF ExpireLost
<1>6. CASE TtlFails
  BY <1>6 DEF TtlFails
<1>7. CASE TimePasses
  <2>1. /\ UNCHANGED <<limiter, expiring>>
        /\ quiet' \in 0..Window
        /\ quiet < Window => quiet' = quiet + 1
    BY <1>7 DEF TimePasses
  <2>2. CASE count > 0 /\ ttl = 1
    <3>1. expiring = 0
      BY <2>2
    <3>2. count' = 0 /\ ttl' = 0 /\ admitted' = 0 /\ redisFailed' = FALSE
      BY <2>2, <1>7 DEF TimePasses
    <3>3. LimitsTypeOK'
      <4>1. redisFailed' \in BOOLEAN
        BY <3>2
      <4>. QED
        BY <2>1, <3>1, <3>2, <4>1
    <3>4. AdmittedIsCounted' /\ KeysExpire'
      BY <2>1, <3>1, <3>2
    <3>5. ServiceExpires'
      BY <2>1, <3>1, <3>2
    <3>. QED
      BY <3>3, <3>4, <3>5
  <2>3. CASE ~(count > 0 /\ ttl = 1) /\ ttl \in {0, Forever}
    <3>1. UNCHANGED <<count, ttl, admitted, redisFailed>>
      BY <2>3, <1>7 DEF TimePasses
    <3>2. LimitsTypeOK'
      BY <2>1, <2>3, <3>1
    <3>3. AdmittedIsCounted'
      BY <3>1
    <3>4. KeysExpire'
      BY <2>1, <2>3, <3>1
    <3>5. ~(limiter = "service" /\ ~redisFailed /\ count > 0)
      BY <2>3
    <3>6. ServiceExpires'
      BY <2>1, <3>1, <3>5
    <3>. QED
      BY <3>2, <3>3, <3>4, <3>6
  <2>4. CASE ~(count > 0 /\ ttl = 1) /\ ttl \notin {0, Forever}
    <3>1. UNCHANGED <<count, admitted, redisFailed>> /\ ttl' = ttl - 1
      BY <2>4, <1>7 DEF TimePasses
    <3>2. LimitsTypeOK'
      BY <2>1, <2>4, <3>1
    <3>3. AdmittedIsCounted'
      BY <3>1
    <3>4. KeysExpire'
      BY <2>1, <2>4, <3>1
    <3>5. ASSUME limiter = "service", ~redisFailed, count > 0
          PROVE  ttl' + quiet' <= Window
      <4>1. ttl + quiet <= Window /\ ttl \in Nat \ {0} /\ quiet \in Nat
        BY <2>4, <3>5
      <4>2. quiet' = quiet + 1
        BY <2>1, <4>1
      <4>. QED
        BY <3>1, <4>1, <4>2
    <3>6. ServiceExpires'
      BY <2>1, <3>1, <3>5
    <3>. QED
      BY <3>2, <3>3, <3>4, <3>6
  <2>. QED
    BY <2>2, <2>3, <2>4
<1>8. CASE UNCHANGED limitVars
  BY <1>8 DEF limitVars
<1>. QED
  BY <1>1, <1>2, <1>3, <1>4, <1>5, <1>6, <1>7, <1>8 DEF LimitsNext

\* Whatever calls come at whatever time: as long as Redis has not failed in the
\* life of a key, it admits no more than the limit and it expires.
THEOREM LimitsAlwaysHold == LimitsSpec => []LimitsHold
<1>1. LInv => LimitsHold
  BY LimitsAssumption
  DEF LInv, LimitsTypeOK, AdmittedIsCounted, KeysExpire, ServiceExpires, LimitsHold
<1>. QED
  BY <1>1, LInvInitially, LInvStep, PTL DEF LimitsSpec

-----------------------------------------------------------------------------
(* Retries: what the caller knows of its reservation, and how long it      *)
(* waits.  The backoff is a recursive function; that there is one, and that *)
(* its values are numbers, follows from a least counterexample (LeastOf).  *)

\* A set of numbers has a least one.
LEMMA LeastOf ==
    ASSUME NEW N \in SUBSET Nat, N # {}
    PROVE  \E m \in N : \A n \in N : m <= n
<1>1. IsWellFoundedOn(OpToRel(<,Nat), Nat)
  BY NatLessThanWellFounded
<1>2. PICK m \in N : \A n \in N : ~ (<<n, m>> \in OpToRel(<,Nat))
  BY <1>1, WFMin
<1>3. \A n \in N : ~(n < m)
  BY <1>2 DEF OpToRel
<1>. QED
  BY <1>3

\* The backoff, up to an exponent: a function that grows by the rule of Powers.
Backoff(options, n, p) ==
    /\ p \in [0..n -> Nat]
    /\ p[0] = options.initialDelay
    /\ \A i \in 1..n : p[i] = (p[i - 1] * options.doubleMultiplier) \div 2

AnOption(options) == options.initialDelay \in Nat /\ options.doubleMultiplier \in Nat

\* A product of numbers, halved, is a number.
LEMMA HalfOfAProduct ==
    ASSUME NEW x \in Nat, NEW y \in Nat
    PROVE  (x * y) \div 2 \in Nat
<1>1. PICK z \in Nat : z = x * y
  OBVIOUS
<1>2. z \div 2 \in Nat
  OBVIOUS
<1>. QED
  BY <1>1, <1>2

\* There is such a function for each exponent: the least without one could be
\* given the value its rule computes.
LEMMA BackoffGrows ==
    ASSUME NEW options, AnOption(options), NEW n \in Nat
    PROVE  \E p : Backoff(options, n, p)
<1>. DEFINE Bad == {m \in Nat : ~ \E p : Backoff(options, m, p)}
<1>. SUFFICES ASSUME Bad # {} PROVE FALSE
  OBVIOUS
<1>1. PICK m \in Bad : \A k \in Bad : m <= k
  <2>1. Bad \in SUBSET Nat
    OBVIOUS
  <2>. HIDE DEF Bad
  <2>. QED
    BY <2>1, LeastOf
<1>2. CASE m = 0
  <2>. DEFINE q == [i \in 0..0 |-> options.initialDelay]
  <2>1. q \in [0..0 -> Nat] /\ q[0] = options.initialDelay
    BY DEF AnOption
  <2>2. Backoff(options, 0, q)
    BY <2>1 DEF Backoff
  <2>. QED
    BY <1>2, <2>2
<1>3. CASE m # 0
  <2>1. m - 1 \in Nat /\ m - 1 \notin Bad /\ m \in Nat
    BY <1>1, <1>3
  <2>2. PICK p : Backoff(options, m - 1, p)
    BY <2>1
  <2>. DEFINE last == (p[m - 1] * options.doubleMultiplier) \div 2
              q == [i \in 0..m |-> IF i = m THEN last ELSE p[i]]
  <2>3. last \in Nat
    <3>1. m - 1 \in 0..(m - 1)
      BY <2>1
    <3>2. p[m - 1] \in Nat
      BY <2>2, <3>1 DEF Backoff
    <3>3. options.doubleMultiplier \in Nat
      BY DEF AnOption
    <3>. QED
      BY <3>2, <3>3, HalfOfAProduct
  <2>. HIDE DEF last
  <2>4. q \in [0..m -> Nat]
    BY <2>1, <2>2, <2>3 DEF Backoff
  <2>5. q[0] = options.initialDelay
    BY <1>3, <2>1, <2>2 DEF Backoff
  <2>6. ASSUME NEW i \in 1..m
        PROVE  q[i] = (q[i - 1] * options.doubleMultiplier) \div 2
    <3>1. q[i - 1] = p[i - 1]
      BY <2>1
    <3>2. CASE i = m
      BY <2>1, <3>1, <3>2 DEF last
    <3>3. CASE i # m
      BY <2>1, <2>2, <3>1, <3>3 DEF Backoff
    <3>. QED
      BY <3>2, <3>3
  <2>7. Backoff(options, m, q)
    BY <2>4, <2>5, <2>6 DEF Backoff
  <2>. QED
    BY <2>7
<1>. QED
  BY <1>2, <1>3

\* calculateDelay never answers more than the maximum.
LEMMA DelayIsCapped ==
    ASSUME NEW options, AnOption(options), options.maxDelay \in Nat, NEW i \in 0..Exponents
    PROVE  CalculateDelay(options, i) \in 0..options.maxDelay
<1>. DEFINE Grows(p) == p = [k \in 0..Exponents |->
                IF k = 0 THEN options.initialDelay
                ELSE (p[k - 1] * options.doubleMultiplier) \div 2]
<1>1. PICK p : Backoff(options, Exponents, p)
  BY RetryAssumption, BackoffGrows
<1>2. Grows(p)
  <2>1. \A k \in 0..Exponents : p[k] = IF k = 0 THEN options.initialDelay
                ELSE (p[k - 1] * options.doubleMultiplier) \div 2
    BY <1>1 DEF Backoff
  <2>. QED
    BY <1>1, <2>1 DEF Backoff
<1>3. Powers(options) = (CHOOSE q : Grows(q))
  BY DEF Powers
<1>4. Grows(Powers(options))
  BY <1>2, <1>3
<1>5. \A k \in 0..Exponents : Powers(options)[k] \in Nat
  <2>. DEFINE Bad == {k \in 0..Exponents : Powers(options)[k] \notin Nat}
  <2>. SUFFICES ASSUME Bad # {} PROVE FALSE
    OBVIOUS
  <2>1. PICK m \in Bad : \A k \in Bad : m <= k
    <3>1. Bad \in SUBSET Nat
      BY RetryAssumption
    <3>. HIDE DEF Bad
    <3>. QED
      BY <3>1, LeastOf
  <2>. DEFINE q == Powers(options)
  <2>2. q = [k \in 0..Exponents |-> IF k = 0 THEN options.initialDelay
                                    ELSE (q[k - 1] * options.doubleMultiplier) \div 2]
    BY <1>4
  <2>. HIDE DEF q
  <2>3. q[m] = IF m = 0 THEN options.initialDelay
               ELSE (q[m - 1] * options.doubleMultiplier) \div 2
    BY <2>2
  <2>4. m # 0 => q[m - 1] \in Nat
    BY <2>1, RetryAssumption DEF q
  <2>5. q[m] \in Nat
    BY <2>3, <2>4, HalfOfAProduct DEF AnOption
  <2>. QED
    BY <2>5 DEF q
<1>. QED
  BY <1>5 DEF CalculateDelay, AtMost

-----------------------------------------------------------------------------
\* What a wait between two requests of the caller may last.
LongestWait == IF caller = Client THEN 4000 ELSE caller.maxDelay + caller.jitter

\* The client and every set of options make some attempts, and bounded waits.
LEMMA CallersAreConfigured ==
    ASSUME caller \in {Client} \cup RetryOptions
    PROVE  /\ Attempts \in Nat \ {0} /\ Attempts <= Exponents + 3
           /\ caller = Client => Attempts = 3
           /\ caller # Client =>
                /\ caller.maxDelay \in Nat /\ caller.jitter \in Nat
                /\ caller.isRetriable \in BOOLEAN
                /\ AnOption(caller) /\ Attempts <= Exponents + 2
BY RetryAssumption DEF Attempts, Client, AnOption

RetryTypeOK ==
    /\ caller \in {Client} \cup RetryOptions
    /\ requests \in 0..Attempts
    /\ call \in {"waiting", "sent", "ended"}
    /\ made \in {"none", "answered", "silent", "late"} /\ unserved \in Nat
    /\ waited \in Nat
    /\ call = "waiting" => requests < Attempts
    /\ call # "waiting" => requests > 0

\* The waits behind a call: one after each request but the last.
Waits == IF call = "waiting" THEN requests ELSE requests - 1

WaitsAreBounded ==
    IF caller = Client
    THEN waited <= (IF Waits = 0 THEN 0 ELSE IF Waits = 1 THEN 2000 ELSE 6000)
    ELSE waited <= Waits * (caller.maxDelay + caller.jitter)

\* A call that goes on has met nothing but errors it may repeat.
RepeatsWhatItMay ==
    call # "ended" => outcome = "none" \/ (outcome \in Errors /\ MayRepeat(outcome))

\* Success is the answer of the request that made the reservation, and a refusal
\* that of a service that had none.
HoldHasACause ==
    /\ outcome = "success" <=> made = "answered"
    /\ made = "answered" => call = "ended"
    /\ outcome \in RefusedOutcomes => made \in {"none", "late"}

RInv == RetryTypeOK /\ WaitsAreBounded /\ RepeatsWhatItMay /\ HoldHasACause

\* The invariant holds before the first attempt.
LEMMA RInvInitially == RetryInit => RInv
<1>. SUFFICES ASSUME RetryInit PROVE RInv
  OBVIOUS
<1>1. RetryTypeOK
  BY CallersAreConfigured DEF RetryInit, RetryTypeOK
<1>2. WaitsAreBounded
  BY CallersAreConfigured DEF RetryInit, WaitsAreBounded, Waits
<1>3. RepeatsWhatItMay /\ HoldHasACause
  BY DEF RetryInit, RepeatsWhatItMay, HoldHasACause, RefusedOutcomes, Refusals
<1>. QED
  BY <1>1, <1>2, <1>3 DEF RInv

\* No wait is longer than the caller's options allow.
LEMMA SleepsAreBounded ==
    ASSUME RetryTypeOK, requests \in 1..(Attempts - 1), NEW ms \in Sleeps
    PROVE  /\ ms \in Nat
           /\ caller = Client => ms = IF requests = 1 THEN 2000 ELSE 4000
           /\ caller # Client => ms <= caller.maxDelay + caller.jitter
<1>. USE DEF RetryTypeOK
<1>1. CASE caller = Client
  BY <1>1 DEF Sleeps, ClientDelay
<1>2. CASE caller # Client
  <2>1. /\ caller.maxDelay \in Nat /\ caller.jitter \in Nat /\ AnOption(caller)
        /\ requests - 1 \in 0..Exponents
    BY <1>2, CallersAreConfigured, RetryAssumption
  <2>2. PICK d \in 0..caller.maxDelay : d = CalculateDelay(caller, requests - 1)
    BY <2>1, DelayIsCapped
  <2>3. ms = d \/ ms = d + caller.jitter
    BY <1>2, <2>2 DEF Sleeps
  <2>. QED
    BY <1>2, <2>1, <2>2, <2>3
<1>. QED
  BY <1>1, <1>2

\* Sending the request, which the service serves or does not.
LEMMA RequestsKeepRInv ==
    ASSUME RInv, SendRequest
    PROVE  RInv'
<1>. USE DEF RInv, SendRequest
<1>1. RetryTypeOK'
  BY CallersAreConfigured DEF RetryTypeOK, Attempts
<1>2. WaitsAreBounded'
  BY CallersAreConfigured DEF RetryTypeOK, WaitsAreBounded, Waits
<1>3. RepeatsWhatItMay' /\ HoldHasACause'
  BY DEF RetryTypeOK, RepeatsWhatItMay, HoldHasACause, MayRepeat
<1>. QED
  BY <1>1, <1>2, <1>3

\* An attempt that is answered.
LEMMA AnswersKeepRInv ==
    ASSUME RInv, Answered
    PROVE  RInv'
<1>. USE DEF RInv, Answered
<1>1. RetryTypeOK'
  BY DEF RetryTypeOK, Attempts
<1>2. WaitsAreBounded'
  BY CallersAreConfigured DEF RetryTypeOK, WaitsAreBounded, Waits
<1>3. RepeatsWhatItMay' /\ HoldHasACause'
  BY DEF RetryTypeOK, RepeatsWhatItMay, HoldHasACause, RefusedOutcomes, Refusals
<1>. QED
  BY <1>1, <1>2, <1>3

\* An attempt that fails is repeated after a wait, or is the last.
LEMMA FailuresKeepRInv ==
    ASSUME RInv, NEW error \in Errors, AttemptFails(error)
    PROVE  RInv'
<1>1. /\ call = "sent" /\ caller' = caller /\ requests' = requests
      /\ requests \in 1..Attempts /\ Attempts \in Nat \ {0} /\ RetryTypeOK
  BY CallersAreConfigured DEF RInv, RetryTypeOK, AttemptFails
<1>2. /\ unserved' \in Nat /\ made' \in {"none", "silent", "late"} /\ made # "answered"
      /\ made' = made \/ (error \in Unanswered \cup Broken /\ made' = "silent")
  BY <1>1 DEF RInv, RetryTypeOK, HoldHasACause, AttemptFails
<1>3. HandleError(error) \in {"InventoryServiceTimeout", "InventoryServiceUnavailable",
                              "ReservationNotFound", "InsufficientStock", "400", "429"}
  BY DEF HandleError, Errors, NotReached, Unanswered, Limited, Refusals, Broken
<1>4. /\ error # "success" /\ HandleError(error) # "success"
      /\ {error, HandleError(error)} \cap RefusedOutcomes # {} =>
           error \in Refusals /\ error \notin Unanswered \cup Broken
  BY <1>3 DEF HandleError, Errors, NotReached, Unanswered, Limited, Refusals, Broken, RefusedOutcomes
<1>7. error \in Refusals => made = "none"
  BY DEF AttemptFails, ErrorsNow
<1>8. \A o \in {error, HandleError(error)} : o \in RefusedOutcomes => made' = "none"
  BY <1>2, <1>4, <1>7
<1>5. CASE requests < Attempts /\ MayRepeat(error)
  <2>1. call' = "waiting" /\ outcome' = error
    BY <1>5 DEF AttemptFails
  <2>2. PICK ms \in Sleeps : waited' = waited + ms
    BY <1>5 DEF AttemptFails
  <2>3. /\ ms \in Nat
        /\ caller = Client => ms = IF requests = 1 THEN 2000 ELSE 4000
        /\ caller # Client => ms <= caller.maxDelay + caller.jitter
    BY <1>1, <1>5, SleepsAreBounded
  <2>4. RetryTypeOK'
    BY <1>1, <1>2, <1>5, <2>1, <2>2, <2>3 DEF RetryTypeOK, Attempts
  <2>5. WaitsAreBounded'
    <3>1. CASE caller = Client
      <4>1. waited <= (IF requests - 1 = 0 THEN 0 ELSE IF requests - 1 = 1 THEN 2000 ELSE 6000)
            /\ requests < 3
        BY <1>1, <1>5, <3>1, CallersAreConfigured DEF RInv, RetryTypeOK, WaitsAreBounded, Waits
      <4>2. waited' <= (IF requests = 0 THEN 0 ELSE IF requests = 1 THEN 2000 ELSE 6000)
        BY <1>1, <2>2, <2>3, <3>1, <4>1 DEF RetryTypeOK
      <4>. QED
        BY <1>1, <2>1, <3>1, <4>2 DEF WaitsAreBounded, Waits
    <3>2. CASE caller # Client
      <4>1. PICK d \in Nat : d = caller.maxDelay + caller.jitter
        BY <1>1, <3>2, CallersAreConfigured DEF RetryTypeOK
      <4>2. waited <= (requests - 1) * d
        BY <1>1, <3>2, <4>1 DEF RInv, WaitsAreBounded, Waits
      <4>3. (requests - 1) * d + d = requests * d
        BY <1>1, <4>1
      <4>4. waited' <= requests * d
        BY <1>1, <2>2, <2>3, <3>2, <4>1, <4>2, <4>3 DEF RetryTypeOK
      <4>. QED
        BY <1>1, <2>1, <3>2, <4>1, <4>4 DEF WaitsAreBounded, Waits
    <3>. QED
      BY <3>1, <3>2
  <2>6. RepeatsWhatItMay'
    BY <1>1, <1>5, <2>1 DEF RepeatsWhatItMay, MayRepeat
  <2>7. HoldHasACause'
    BY <1>2, <1>4, <1>8, <2>1 DEF HoldHasACause
  <2>. QED
    BY <2>4, <2>5, <2>6, <2>7 DEF RInv
<1>6. CASE ~(requests < Attempts /\ MayRepeat(error))
  <2>1. /\ call' = "ended" /\ waited' = waited
        /\ outcome' = IF caller = Client THEN HandleError(error) ELSE error
    BY <1>6 DEF AttemptFails
  <2>2. RetryTypeOK' /\ RepeatsWhatItMay'
    BY <1>1, <1>2, <2>1 DEF RetryTypeOK, Attempts, RepeatsWhatItMay
  <2>3. WaitsAreBounded'
    BY <1>1, <2>1 DEF RInv, WaitsAreBounded, Waits
  <2>4. HoldHasACause'
    BY <1>2, <1>4, <1>8, <2>1 DEF HoldHasACause
  <2>. QED
    BY <2>2, <2>3, <2>4 DEF RInv
<1>. QED
  BY <1>5, <1>6

\* A request served late changes what is reserved, and no answer.
LEMMA LateServiceKeepsRInv ==
    ASSUME RInv, LateServed
    PROVE  RInv'
<1>. USE DEF RInv, LateServed
<1>1. RetryTypeOK'
  BY DEF RetryTypeOK, Attempts
<1>2. WaitsAreBounded'
  BY DEF WaitsAreBounded, Waits
<1>3. RepeatsWhatItMay' /\ HoldHasACause'
  BY DEF RetryTypeOK, RepeatsWhatItMay, HoldHasACause, MayRepeat
<1>. QED
  BY <1>1, <1>2, <1>3

\* Every step of a retried call keeps the invariant.
LEMMA RInvIsKept == RInv /\ [RetryNext]_retryVars => RInv'
<1>. SUFFICES ASSUME RInv, [RetryNext]_retryVars PROVE RInv'
  OBVIOUS
<1>1. CASE UNCHANGED retryVars
  BY <1>1 DEF retryVars, RInv, RetryTypeOK, Attempts, WaitsAreBounded, Waits, RepeatsWhatItMay,
              MayRepeat, HoldHasACause
<1>. QED
  BY <1>1, RequestsKeepRInv, AnswersKeepRInv, FailuresKeepRInv, LateServiceKeepsRInv DEF RetryNext

\* Whichever requests fail, go unanswered or are served late, with any options:
\* success means that the answered request made the reservation, a refusal that
\* no request the caller waited for did, and nobody sleeps longer than the delays
\* allow.
THEOREM TheHoldIsKnown == RetrySpec => []HoldIsKnown
<1>1. RInv => HoldIsKnown
  <2>. SUFFICES ASSUME RInv PROVE HoldIsKnown
    OBVIOUS
  <2>1. RetryTypeOK /\ Attempts \in Nat \ {0}
    BY CallersAreConfigured DEF RInv, RetryTypeOK
  <2>2. waited <= IF caller = Client THEN 6000
                  ELSE (Attempts - 1) * (caller.maxDelay + caller.jitter)
    <3>1. CASE caller = Client
      BY <2>1, <3>1 DEF RInv, RetryTypeOK, WaitsAreBounded, Waits
    <3>2. CASE caller # Client
      <4>1. PICK d \in Nat : d = caller.maxDelay + caller.jitter
        BY <2>1, <3>2, CallersAreConfigured DEF RetryTypeOK
      <4>2. Waits \in 0..(Attempts - 1)
        BY <2>1 DEF RetryTypeOK, Waits
      <4>3. PICK n \in Nat : Attempts - 1 = Waits + n
        BY <2>1, <4>2
      <4>4. (Waits + n) * d = Waits * d + n * d /\ n * d \in Nat
        BY <4>1, <4>2, <4>3
      <4>5. waited <= Waits * d /\ waited \in Nat /\ Waits * d \in Nat
        BY <2>1, <3>2, <4>1, <4>2 DEF RInv, RetryTypeOK, WaitsAreBounded
      <4>6. waited <= (Attempts - 1) * d
        BY <4>3, <4>4, <4>5
      <4>. QED
        BY <3>2, <4>1, <4>6
    <3>. QED
      BY <3>1, <3>2
  <2>3. Selective /\ outcome \in NotRepeated => call = "ended"
    <3>. SUFFICES ASSUME Selective, call # "ended", outcome \in Errors, MayRepeat(outcome)
                  PROVE  outcome \notin NotRepeated
      BY DEF RInv, RepeatsWhatItMay, NotRepeated, RefusedOutcomes, Refusals, Limited
    <3>1. CASE caller = Client
      BY <3>1 DEF MayRepeat, ShouldRetry, Broken, NotRepeated, RefusedOutcomes, Refusals, Limited
    <3>2. CASE caller # Client
      BY <3>2 DEF Selective, MayRepeat, IsDefaultRetriable, Broken, NotRepeated,
                  RefusedOutcomes, Refusals, Limited
    <3>. QED
      BY <3>1, <3>2
  <2>4. /\ outcome = "success" <=> made = "answered"
        /\ outcome \in RefusedOutcomes => made \in {"none", "late"}
    BY DEF RInv, HoldHasACause
  <2>. QED
    BY <2>2, <2>3, <2>4 DEF HoldIsKnown
<1>. QED
  BY <1>1, RInvInitially, RInvIsKept, PTL DEF RetrySpec

-----------------------------------------------------------------------------
(* The circuit breaker.  The invariant ties the history to the code's      *)
(* counter: in a half-open circuit the successes counted are the successes *)
(* in a row since it was half-opened, so reaching the threshold means      *)
(* having earned it.                                                       *)

CountIsEarned == state = "HALF_OPEN" => successCount = earned

BInv == BreakerTypeOK /\ CountersAgree /\ CountIsEarned

\* Counting keeps a counter between zero and its threshold, and counts.
LEMMA CountedInRange ==
  ASSUME NEW threshold \in Nat \ {0}, NEW n \in 0 .. threshold
  PROVE  /\ Counted(n, threshold) \in 0 .. threshold
         /\ n < threshold => Counted(n, threshold) = n + 1
BY DEF Counted

\* The invariant holds of a closed circuit.
LEMMA InitBInv == BreakerInit => BInv
<1>. SUFFICES ASSUME BreakerInit PROVE BInv
  OBVIOUS
<1>1. BreakerTypeOK
  <2>1. due \in BOOLEAN /\ healthy \in BOOLEAN
    BY Zenon DEF BreakerInit
  <2>. QED
    BY <2>1, ThresholdAssumption DEF BreakerInit, BreakerTypeOK, CircuitState
<1>2. CountersAgree
  <2>1. due
    BY Zenon DEF BreakerInit
  <2>. QED
    BY <2>1, ThresholdAssumption DEF BreakerInit, CountersAgree
<1>. QED
  BY <1>1, <1>2 DEF BInv, BreakerInit, CountIsEarned

\* An admission half-opens the circuit, if at all, with no success counted.
LEMMA AdmitBInv ==
  ASSUME BInv, NEW c \in Calls, Admit(c)
  PROVE  BInv'
BY ThresholdAssumption
   DEF BInv, BreakerTypeOK, CountersAgree, CountIsEarned, CircuitState, Admit, HalfOpen

\* A success counts once, in both counters or in none.
LEMMA SuccessBInv ==
  ASSUME BInv, NEW c \in Calls, Success(c)
  PROVE  /\ BInv'
         /\ state # "CLOSED" /\ state' = "CLOSED" => earned' = SuccessThreshold
<1>. USE ThresholdAssumption
         DEF BInv, BreakerTypeOK, CountersAgree, CountIsEarned, CircuitState
<1>1. earned < SuccessThreshold
        => Counted(earned, SuccessThreshold) = earned + 1
  BY CountedInRange
<1>2. Counted(earned, SuccessThreshold) \in 0 .. SuccessThreshold
  BY CountedInRange
<1>3. CASE state = "HALF_OPEN"
  <2>1. earned' = earned + 1 /\ earned = successCount
    BY <1>1, <1>3 DEF Success
  <2>2. CASE successCount + 1 >= SuccessThreshold
    <3>1. Reset /\ running' = running \ {c} /\ UNCHANGED healthy
      BY <1>3, <2>2 DEF Success, HalfOpenNow
    <3>. QED
      BY <1>3, <2>1, <2>2, <3>1 DEF Reset
  <2>3. CASE ~(successCount + 1 >= SuccessThreshold)
    <3>1. /\ successCount' = successCount + 1
          /\ UNCHANGED <<state, failureCount, due, healthy>>
          /\ running' = running \ {c}
      BY <1>3, <2>3 DEF Success, HalfOpenNow
    <3>. QED
      BY <1>3, <2>1, <2>3, <3>1
  <2>. QED
    BY <2>2, <2>3
<1>4. CASE state # "HALF_OPEN"
  BY <1>2, <1>4 DEF Success, HalfOpenNow
<1>. QED
  BY <1>3, <1>4

\* A failure that reaches the threshold opens the circuit, so a closed one
\* stays below it.
LEMMA FailureBInv ==
  ASSUME BInv, NEW c \in Calls, Failure(c)
  PROVE  BInv' /\ (state # "CLOSED" => state' # "CLOSED")
<1>. USE ThresholdAssumption
         DEF BInv, BreakerTypeOK, CountersAgree, CountIsEarned, CircuitState
<1>1. failureCount' \in 0 .. FailureThreshold
  BY CountedInRange DEF Failure
<1>2. earned' = 0 /\ UNCHANGED <<successCount, healthy>> /\ running' \subseteq Calls
  BY DEF Failure
<1>3. CASE state = "HALF_OPEN" \/ failureCount' >= FailureThreshold
  <2>1. state' = "OPEN" /\ due' \in BOOLEAN
    BY <1>3, Zenon DEF Failure, Open
  <2>. QED
    BY <1>1, <1>2, <2>1
<1>4. CASE ~(state = "HALF_OPEN" \/ failureCount' >= FailureThreshold)
  <2>1. UNCHANGED <<state, due>>
    BY <1>4 DEF Failure
  <2>. QED
    BY <1>1, <1>2, <1>4, <2>1
<1>. QED
  BY <1>3, <1>4

\* The clock, the operator and the service.
LEMMA OthersBInv ==
  ASSUME BInv, Due \/ ForceOpen \/ ForceClose \/ Recover
  PROVE  BInv' /\ running' = running
<1>. USE ThresholdAssumption
         DEF BInv, BreakerTypeOK, CountersAgree, CountIsEarned, CircuitState
<1>1. CASE Due
  <2>1. due' \in BOOLEAN /\ state = "OPEN"
    BY <1>1, Zenon DEF Due
  <2>. QED
    BY <1>1, <2>1 DEF Due
<1>2. CASE ForceOpen
  <2>1. due' \in BOOLEAN /\ state' = "OPEN"
    BY <1>2, Zenon DEF ForceOpen, Open
  <2>. QED
    BY <1>2, <2>1 DEF ForceOpen
<1>3. CASE ForceClose
  <2>1. due' /\ due' \in BOOLEAN
    BY <1>3, Zenon DEF ForceClose, Reset
  <2>. QED
    BY <1>3, <2>1 DEF ForceClose, Reset
<1>4. CASE Recover
  <2>1. healthy' \in BOOLEAN
    BY <1>4, Zenon DEF Recover
  <2>. QED
    BY <1>4, <2>1 DEF Recover
<1>. QED
  BY <1>1, <1>2, <1>3, <1>4

\* Every step of the breaker keeps the invariant.
LEMMA NextBInv == BInv /\ [BreakerNext]_breakerVars => BInv'
<1>. SUFFICES ASSUME BInv, [BreakerNext]_breakerVars PROVE BInv'
  OBVIOUS
<1>1. ASSUME NEW c \in Calls, Admit(c) PROVE BInv'
  BY <1>1, AdmitBInv
<1>2. ASSUME NEW c \in Calls, Success(c) PROVE BInv'
  BY <1>2, SuccessBInv
<1>3. ASSUME NEW c \in Calls, Failure(c) PROVE BInv'
  BY <1>3, FailureBInv
<1>4. CASE Due \/ ForceOpen \/ ForceClose \/ Recover
  BY <1>4, OthersBInv
<1>5. CASE UNCHANGED breakerVars
  BY <1>5 DEF breakerVars, BInv, BreakerTypeOK, CountersAgree, CountIsEarned
<1>. QED
  BY <1>1, <1>2, <1>3, <1>4, <1>5 DEF BreakerNext

\* The end of a call closes the circuit only when that is earned.
LEMMA NextEarned ==
  BInv /\ [BreakerNext]_breakerVars =>
    (state # "CLOSED" /\ state' = "CLOSED" /\ running' # running =>
       earned' = SuccessThreshold)
<1>. SUFFICES ASSUME BInv, [BreakerNext]_breakerVars,
                     state # "CLOSED", state' = "CLOSED", running' # running
              PROVE  earned' = SuccessThreshold
  OBVIOUS
<1>1. ASSUME NEW c \in Calls, Admit(c) PROVE FALSE
  BY <1>1 DEF Admit, HalfOpen
<1>2. ASSUME NEW c \in Calls, Success(c) PROVE earned' = SuccessThreshold
  BY <1>2, SuccessBInv
<1>3. ASSUME NEW c \in Calls, Failure(c) PROVE FALSE
  BY <1>3, FailureBInv
<1>4. CASE Due \/ ForceOpen \/ ForceClose \/ Recover
  BY <1>4, OthersBInv
<1>5. CASE UNCHANGED breakerVars
  BY <1>5 DEF breakerVars
<1>. QED
  BY <1>1, <1>2, <1>3, <1>4, <1>5 DEF BreakerNext

\* The inductive invariant holds in every reachable state.
THEOREM BreakerInvariant == BreakerSpec => []BInv
BY InitBInv, NextBInv, PTL DEF BreakerSpec

\* Every reachable state of the breaker is typed, its counters bounded by
\* their thresholds.
THEOREM BreakerTypeCorrect == BreakerSpec => []BreakerTypeOK
<1>1. BInv => BreakerTypeOK
  BY DEF BInv
<1>. QED
  BY BreakerInvariant, <1>1, PTL

\* However calls overlap, the counters agree with the state of the circuit
\* (onSuccess, onFailure, open and reset of circuit-breaker.util.ts).
THEOREM CountersAlwaysAgree == BreakerSpec => []CountersAgree
<1>1. BInv => CountersAgree
  BY DEF BInv
<1>. QED
  BY BreakerInvariant, <1>1, PTL

\* However calls overlap, the end of a call closes the circuit only after
\* successThreshold successes in a row of one half-open period (onSuccess).
THEOREM ClosingIsAlwaysEarned == BreakerSpec => ClosingIsEarned
BY BreakerInvariant, NextEarned, PTL DEF BreakerSpec, ClosingIsEarned

-----------------------------------------------------------------------------
(* The way back of the circuit, which Recovers follows to its end.         *)

\* How far the circuit is from open and waiting: due, half open with so many
\* successes, closed.
Level ==
    CASE state = "OPEN"      -> IF due THEN 1 ELSE 0
      [] state = "HALF_OPEN" -> 2 + successCount
      [] state = "CLOSED"    -> 2 + SuccessThreshold

\* Once the service is well it stays well, nothing throws the circuit back,
\* and what the schedule provides takes it on: the clock when it waits, an
\* admission when it is due, the end of a call when it is half open.
Uphill ==
    healthy =>
      /\ healthy' /\ Level' >= Level
      /\ state = "OPEN" /\ due' # due => Level' > Level
      /\ state = "OPEN" /\ due /\ (\E c \in Calls : c \in running' \ running) => Level' > Level
      /\ state = "HALF_OPEN" /\ (\E c \in Calls : c \in running \ running') => Level' > Level

\* Whatever calls were under way when the service recovered and however
\* often the circuit was opened before, no step of execute, of the clock or of
\* an administrator who closes it takes the circuit further from closed, and
\* each kind of step that Recovers is owed takes it nearer.
THEOREM RecoveryGoesUphill == BreakerSpec => [][Uphill]_breakerVars
<1>1. ASSUME BInv, BreakerNext PROVE Uphill
  <2>0. /\ SuccessThreshold \in Nat \ {0} /\ successCount \in Nat
        /\ successCount <= SuccessThreshold
        /\ state \in {"CLOSED", "OPEN", "HALF_OPEN"} /\ due \in BOOLEAN
        /\ state = "HALF_OPEN" => successCount < SuccessThreshold
    BY <1>1, ThresholdAssumption DEF BInv, BreakerTypeOK, CircuitState, CountersAgree
  <2>1. ASSUME NEW c \in Calls, Admit(c) PROVE Uphill
    BY <2>0, <2>1 DEF Admit, HalfOpen, Uphill, Level
  <2>2. ASSUME NEW c \in Calls, Success(c) PROVE Uphill
    <3>1. CASE state = "HALF_OPEN" /\ successCount + 1 >= SuccessThreshold
      <4>1. state' = "CLOSED" /\ healthy' = healthy /\ running' \subseteq running
        BY <2>2, <3>1 DEF Success, HalfOpenNow, Reset
      <4> QED
        BY <2>0, <3>1, <4>1 DEF Uphill, Level
    <3>2. CASE state = "HALF_OPEN" /\ ~(successCount + 1 >= SuccessThreshold)
      <4>1. /\ state' = state /\ healthy' = healthy /\ running' \subseteq running
            /\ successCount' = successCount + 1
        BY <2>2, <3>2 DEF Success, HalfOpenNow
      <4> QED
        BY <2>0, <3>2, <4>1 DEF Uphill, Level
    <3>3. CASE state # "HALF_OPEN"
      <4>1. /\ state' = state /\ healthy' = healthy /\ running' \subseteq running
            /\ due' = due /\ successCount' = successCount
        BY <2>2, <3>3 DEF Success, HalfOpenNow
      <4> QED
        BY <2>0, <3>3, <4>1 DEF Uphill, Level
    <3> QED
      BY <3>1, <3>2, <3>3
  <2>3. ASSUME NEW c \in Calls, Failure(c) PROVE Uphill
    BY <2>3 DEF Failure, Uphill
  <2>4. CASE Due
    BY <2>0, <2>4 DEF Due, Uphill, Level
  <2>5. CASE ForceOpen \/ Recover
    BY <2>5 DEF ForceOpen, Recover, Uphill
  <2>6. CASE ForceClose
    <3>1. state' = "CLOSED" /\ healthy' = healthy /\ running' = running
      BY <2>6 DEF ForceClose, Reset
    <3>2. Level' = 2 + SuccessThreshold
      BY <3>1 DEF Level
    <3> QED
      BY <2>0, <3>1, <3>2 DEF Uphill, Level
  <2> QED
    BY <1>1, <2>1, <2>2, <2>3, <2>4, <2>5, <2>6 DEF BreakerNext
<1>2. BInv /\ [BreakerNext]_breakerVars => [Uphill]_breakerVars
  BY <1>1
<1> QED
  BY <1>2, BreakerInvariant, PTL DEF BreakerSpec
==============================================================================
