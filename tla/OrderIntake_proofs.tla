-------------------------- MODULE OrderIntake_proofs --------------------------
(* The safety of the order intake, for any calls, keys, relays, pool size    *)
(* and number of failures; and that nothing but a pool whose connections all *)
(* are lost or wait for one more ever stops it.                              *)
EXTENDS OrderIntake, FiniteSetTheorems, TLAPS

\* Where a call is says what it has written: nothing before the commit, its
\* saga before the commit, the order after it, the job at the very end.
Written ==
  \A r \in Requests :
    /\ r \in orders => pc[r] \in {"enqueue", "done"}
    /\ pc[r] \in {"commit", "enqueue"} => r \in sagas
    /\ pc[r] = "enqueue" => r \in orders
    /\ jobs[r] > 0 => pc[r] = "done"

\* What the unique index keeps apart: an uncommitted order is the only one of
\* its key, and no committed order has that key.
KeysApart ==
  \A r \in Uncommitted :
    /\ \A s \in Uncommitted : SameKey(s, r) => s = r
    /\ \A o \in orders : ~SameKey(o, r)

\* What a relay has fetched is the event of a committed order.
FetchedIsCommitted == \A p \in Relays : batch[p] \subseteq orders

\* The inductive invariant.
IInv ==
  /\ TypeOK
  /\ Written
  /\ KeysApart
  /\ FetchedIsCommitted
  /\ orders \subseteq sagas
  /\ OneOrderPerKey
  /\ AnswersAgree
  /\ QueuedOnce
  /\ QueuedIsReady

-----------------------------------------------------------------------------
\* Before anything happens all of it holds.
LEMMA InitInv == Init => IInv
  BY PoolAssumption, ReplyAssumption
     DEF Init, IInv, TypeOK, Written, KeysApart, FetchedIsCommitted,
         OneOrderPerKey, AnswersAgree, QueuedOnce, QueuedIsReady, Uncommitted,
         PCs, Holding

\* A call that writes nothing keeps the invariant when it goes on to a place
\* that says no more than the last, or ends without the name of an order.
LEMMA QuietStep ==
  ASSUME IInv, NEW r \in Requests, pc[r] # "done",
         UNCHANGED <<orders, sagas, outbox, jobs, batch>>, unreleased' \in Nat,
         faults' \in 0 .. MaxFaults,
         \/ /\ pc[r] \in {"idle", "validate", "begin"}
            /\ \E at \in {"validate", "begin", "insert"} : Goto(r, at)
         \/ \E answer \in {NoReply, Refused, Failed} : Answer(r, answer)
  PROVE  IInv'
<1>1. /\ pc' \in [Requests -> PCs]
      /\ reply' \in [Requests -> Requests \cup {NoReply, Refused, Failed}]
      /\ \A s \in Requests \ {r} : pc'[s] = pc[s] /\ reply'[s] = reply[s]
      /\ pc'[r] \in {"validate", "begin", "insert", "done"}
      /\ r \in orders => pc'[r] = "done"
      /\ jobs[r] > 0 => pc'[r] = "done"
      /\ reply'[r] \in Requests => reply'[r] = reply[r]
  BY ReplyAssumption DEF IInv, TypeOK, Written, Goto, Answer, PCs, Holding
<1>2. TypeOK'
  BY <1>1 DEF IInv, TypeOK
<1>3. Written'
  BY <1>1 DEF IInv, Written, TypeOK
<1>4. Uncommitted' \subseteq Uncommitted
  BY <1>1 DEF Uncommitted
<1>5. KeysApart'
  BY <1>4 DEF IInv, KeysApart, SameKey
<1>6. (/\ OneOrderPerKey /\ QueuedOnce /\ FetchedIsCommitted
       /\ orders \subseteq sagas)'
  BY DEF IInv, OneOrderPerKey, QueuedOnce, FetchedIsCommitted, SameKey
<1>7. AnswersAgree' /\ QueuedIsReady'
  BY <1>1 DEF IInv, AnswersAgree, QueuedIsReady, SameKey
<1> QED
  BY <1>2, <1>3, <1>5, <1>6, <1>7 DEF IInv

\* The commit, acknowledged or not, makes the only order of its key.
LEMMA CommitStep ==
  ASSUME IInv, NEW r \in Requests, pc[r] = "commit",
         orders' = orders \cup {r}, PublishEvent(r),
         UNCHANGED <<sagas, jobs, batch, unreleased>>, faults' \in 0 .. MaxFaults,
         Goto(r, "enqueue") \/ Answer(r, Failed)
  PROVE  IInv'
<1>1. /\ pc' \in [Requests -> PCs]
      /\ reply' \in [Requests -> Requests \cup {NoReply, Refused, Failed}]
      /\ \A s \in Requests \ {r} : pc'[s] = pc[s] /\ reply'[s] = reply[s]
      /\ pc'[r] \in {"enqueue", "done"}
      /\ reply'[r] \in Requests => reply'[r] = reply[r]
  BY ReplyAssumption DEF IInv, TypeOK, Goto, Answer, PCs, Holding
<1>2. r \in Uncommitted /\ r \in sagas
  BY DEF Uncommitted, IInv, Written
<1>3. TypeOK'
  BY <1>1 DEF IInv, TypeOK, PublishEvent
<1>4. Written'
  BY <1>1, <1>2 DEF IInv, Written, TypeOK
<1>5. Uncommitted' \subseteq Uncommitted \ {r}
  BY <1>1 DEF Uncommitted
<1>6. KeysApart'
  BY <1>2, <1>5 DEF IInv, KeysApart, SameKey
<1>7. OneOrderPerKey'
  BY <1>2 DEF IInv, KeysApart, OneOrderPerKey, SameKey
<1>8. QueuedOnce' /\ FetchedIsCommitted' /\ (orders \subseteq sagas)'
  BY <1>2 DEF IInv, QueuedOnce, FetchedIsCommitted
<1>9. AnswersAgree' /\ QueuedIsReady'
  BY <1>1 DEF IInv, AnswersAgree, QueuedIsReady, SameKey
<1> QED
  BY <1>3, <1>4, <1>6, <1>7, <1>8, <1>9 DEF IInv

-----------------------------------------------------------------------------
(* The steps that need an argument of their own.                           *)

\* A call that finds the order of its key answers with it.
LEMMA FindExistingStep ==
  ASSUME IInv, NEW r \in Requests, FindExisting(r)
  PROVE  IInv'
<1>1. CASE \E o \in orders : SameKey(o, r) /\ Answer(r, o)
  <2>1. PICK o \in orders : SameKey(o, r) /\ Answer(r, o)
    BY <1>1
  <2>2. /\ pc' \in [Requests -> PCs]
        /\ reply' \in [Requests -> Requests \cup {NoReply, Refused, Failed}]
        /\ \A s \in Requests \ {r} : pc'[s] = pc[s] /\ reply'[s] = reply[s]
        /\ pc'[r] = "done" /\ reply'[r] = o
        /\ UNCHANGED <<orders, sagas, outbox, jobs, batch, unreleased, faults>>
        /\ o \in Requests /\ o # r
    BY <2>1 DEF IInv, TypeOK, Written, FindExisting, Answer, PCs, Holding
  <2>3. TypeOK' /\ Written'
    BY <2>2 DEF IInv, TypeOK, Written
  <2>4. Uncommitted' \subseteq Uncommitted
    BY <2>2 DEF Uncommitted
  <2>5. KeysApart'
    BY <2>2, <2>4 DEF IInv, KeysApart, SameKey
  <2>6. (/\ OneOrderPerKey /\ QueuedOnce /\ FetchedIsCommitted
         /\ orders \subseteq sagas)'
    BY <2>2 DEF IInv, OneOrderPerKey, QueuedOnce, FetchedIsCommitted, SameKey
  <2>7. AnswersAgree' /\ QueuedIsReady'
    BY <2>1, <2>2 DEF IInv, AnswersAgree, QueuedIsReady, SameKey
  <2> QED
    BY <2>3, <2>5, <2>6, <2>7 DEF IInv
<1>2. CASE Goto(r, "validate")
  BY <1>2, QuietStep DEF FindExisting, IInv, TypeOK
<1> QED
  BY <1>1, <1>2 DEF FindExisting

\* An inserted order is the only uncommitted one of its key, because the
\* unique index made it wait for the others and found no committed one.
LEMMA InsertOrderStep ==
  ASSUME IInv, NEW r \in Requests, InsertOrder(r)
  PROVE  IInv'
<1>1. CASE KeyIsFree(r)
  <2>1. /\ pc' \in [Requests -> PCs]
        /\ \A s \in Requests \ {r} : pc'[s] = pc[s]
        /\ pc'[r] = "saga" /\ r \notin orders /\ jobs[r] = 0
        /\ UNCHANGED <<reply, orders, sagas, outbox, jobs, batch, unreleased, faults>>
    BY <1>1 DEF IInv, TypeOK, Written, InsertOrder, Goto, PCs, Holding
  <2>2. TypeOK' /\ Written'
    BY <2>1 DEF IInv, TypeOK, Written
  <2>3. Uncommitted' = Uncommitted \cup {r}
    BY <2>1 DEF Uncommitted
  <2>4. \A s \in Uncommitted : ~SameKey(s, r) /\ ~SameKey(r, s)
    BY DEF InsertOrder, SameKey
  <2>5. KeysApart'
    BY <1>1, <2>1, <2>3, <2>4 DEF IInv, KeysApart, KeyIsFree, SameKey
  <2>6. (/\ OneOrderPerKey /\ QueuedOnce /\ FetchedIsCommitted
         /\ orders \subseteq sagas)'
    BY <2>1 DEF IInv, OneOrderPerKey, QueuedOnce, FetchedIsCommitted, SameKey
  <2>7. AnswersAgree' /\ QueuedIsReady'
    BY <2>1 DEF IInv, AnswersAgree, QueuedIsReady, SameKey
  <2> QED
    BY <2>2, <2>5, <2>6, <2>7 DEF IInv
<1>2. CASE ~KeyIsFree(r)
  BY <1>2, QuietStep DEF InsertOrder, IInv, TypeOK
<1> QED
  BY <1>1, <1>2

\* The saga row is there from now on.
LEMMA StartSagaStep ==
  ASSUME IInv, NEW r \in Requests, StartSaga(r)
  PROVE  IInv'
<1>1. /\ pc' \in [Requests -> PCs]
      /\ \A s \in Requests \ {r} : pc'[s] = pc[s]
      /\ pc[r] = "saga" /\ pc'[r] = "commit"
      /\ sagas' = sagas \cup {r}
      /\ UNCHANGED <<reply, orders, outbox, jobs, batch, unreleased, faults>>
  BY DEF IInv, TypeOK, StartSaga, Goto, PCs, Holding
<1>2. TypeOK' /\ Written'
  BY <1>1 DEF IInv, TypeOK, Written
<1>3. Uncommitted' = Uncommitted
  BY <1>1 DEF Uncommitted
<1>4. KeysApart'
  BY <1>1, <1>3 DEF IInv, KeysApart, SameKey
<1>5. (/\ OneOrderPerKey /\ QueuedOnce /\ FetchedIsCommitted
       /\ orders \subseteq sagas)'
  BY <1>1 DEF IInv, OneOrderPerKey, QueuedOnce, FetchedIsCommitted, SameKey
<1>6. AnswersAgree' /\ QueuedIsReady'
  BY <1>1 DEF IInv, AnswersAgree, QueuedIsReady, SameKey
<1> QED
  BY <1>2, <1>4, <1>5, <1>6 DEF IInv

\* The only job of the order is added by the call that ends with it.
LEMMA EnqueueStep ==
  ASSUME IInv, NEW r \in Requests, Enqueue(r)
  PROVE  IInv'
<1>1. /\ pc' \in [Requests -> PCs]
      /\ reply' \in [Requests -> Requests \cup {NoReply, Refused, Failed}]
      /\ jobs' \in [Requests -> Nat]
      /\ \A s \in Requests \ {r} :
           pc'[s] = pc[s] /\ reply'[s] = reply[s] /\ jobs'[s] = jobs[s]
      /\ pc'[r] = "done" /\ reply'[r] = r /\ jobs'[r] = 1
      /\ r \in orders /\ r \in sagas
      /\ UNCHANGED <<orders, sagas, outbox, batch, unreleased, faults>>
  BY DEF IInv, TypeOK, Written, Enqueue, Answer, PCs, Holding
<1>2. TypeOK' /\ Written'
  BY <1>1 DEF IInv, TypeOK, Written
<1>3. Uncommitted' \subseteq Uncommitted
  BY <1>1 DEF Uncommitted
<1>4. KeysApart'
  BY <1>1, <1>3 DEF IInv, KeysApart, SameKey
<1>5. (/\ OneOrderPerKey /\ QueuedOnce /\ FetchedIsCommitted
       /\ orders \subseteq sagas)'
  BY <1>1 DEF IInv, OneOrderPerKey, QueuedOnce, FetchedIsCommitted, SameKey
<1>6. AnswersAgree' /\ QueuedIsReady'
  BY <1>1 DEF IInv, AnswersAgree, QueuedIsReady, SameKey
<1> QED
  BY <1>2, <1>4, <1>5, <1>6 DEF IInv

\* A relay marks events; it changes no order, no saga and no job.
LEMMA RelayStep ==
  ASSUME IInv, NEW p \in Relays,
         FetchPending(p) \/ ProcessEvent(p) \/ RelayFails(p)
  PROVE  IInv'
<1>1. UNCHANGED <<pc, reply, orders, sagas, jobs, unreleased>>
  BY DEF FetchPending, ProcessEvent, RelayFails, Relayed
<1>2. TypeOK'
  <2>1. CASE FetchPending(p)
    BY <2>1 DEF IInv, TypeOK, FetchPending
  <2>2. CASE ProcessEvent(p)
    <3>1. PICK o \in batch[p] : /\ outbox' = [outbox EXCEPT ![o] = "processed"]
                               /\ batch' = [batch EXCEPT ![p] = @ \ {o}]
      BY <2>2 DEF ProcessEvent
    <3>2. o \in orders
      BY <3>1 DEF IInv, FetchedIsCommitted
    <3> QED
      BY <1>1, <2>2, <3>1, <3>2 DEF IInv, TypeOK, ProcessEvent
  <2>3. CASE RelayFails(p)
    BY <2>3, PoolAssumption DEF IInv, TypeOK, RelayFails, Fault
  <2> QED
    BY <2>1, <2>2, <2>3
<1>3. FetchedIsCommitted'
  <2>1. CASE FetchPending(p)
    BY <2>1 DEF IInv, TypeOK, FetchedIsCommitted, FetchPending
  <2>2. CASE ProcessEvent(p) \/ RelayFails(p)
    BY <2>2 DEF IInv, TypeOK, FetchedIsCommitted, ProcessEvent, RelayFails
  <2> QED
    BY <2>1, <2>2
<1>4. Written' /\ KeysApart' /\ (orders \subseteq sagas)'
  BY <1>1 DEF IInv, Written, KeysApart, Uncommitted, SameKey
<1>5. OneOrderPerKey' /\ AnswersAgree' /\ QueuedOnce' /\ QueuedIsReady'
  BY <1>1 DEF IInv, OneOrderPerKey, AnswersAgree, QueuedOnce, QueuedIsReady, SameKey
<1> QED
  BY <1>2, <1>3, <1>4, <1>5 DEF IInv

\* When the process dies its calls end where they are, and write nothing.
LEMMA CrashStep ==
  ASSUME IInv, Crash, faults' \in 0 .. MaxFaults
  PROVE  IInv'
<1>1. /\ pc' \in [Requests -> PCs]
      /\ \A r \in Requests : pc'[r] = (IF pc[r] = "idle" THEN "idle" ELSE "done")
      /\ unreleased' = 0
      /\ UNCHANGED <<reply, orders, sagas, outbox, jobs, batch>>
  BY DEF Crash, IInv, TypeOK, PCs
<1>2. TypeOK'
  BY <1>1 DEF IInv, TypeOK
<1>3. Written'
  BY <1>1 DEF IInv, Written
<1>4. Uncommitted' = {}
  BY <1>1 DEF Uncommitted
<1>5. KeysApart'
  BY <1>4 DEF KeysApart
<1>6. (/\ OneOrderPerKey /\ QueuedOnce /\ FetchedIsCommitted /\ AnswersAgree
       /\ QueuedIsReady /\ orders \subseteq sagas)'
  BY <1>1 DEF IInv, OneOrderPerKey, QueuedOnce, FetchedIsCommitted, AnswersAgree,
              QueuedIsReady, SameKey
<1> QED
  BY <1>2, <1>3, <1>5, <1>6 DEF IInv

-----------------------------------------------------------------------------
\* Every step keeps the invariant.
LEMMA NextInv == IInv /\ [Next]_vars => IInv'
<1> SUFFICES ASSUME IInv, [Next]_vars
             PROVE  IInv'
  OBVIOUS
<1>1. ASSUME NEW r \in Requests, Call(r)
      PROVE  IInv'
  <2>1. CASE FindExisting(r)
    BY <2>1, FindExistingStep
  <2>2. CASE ValidateProducts(r)
    BY <2>2, QuietStep DEF ValidateProducts, IInv, TypeOK
  <2>3. CASE StartTransaction(r)
    BY <2>3, QuietStep DEF StartTransaction, IInv, TypeOK
  <2>4. CASE InsertOrder(r)
    BY <2>4, InsertOrderStep
  <2>5. CASE StartSaga(r)
    BY <2>5, StartSagaStep
  <2>6. CASE Commit(r)
    BY <2>6, CommitStep DEF Commit, IInv, TypeOK
  <2>7. CASE Enqueue(r)
    BY <2>7, EnqueueStep
  <2> QED
    BY <1>1, <2>1, <2>2, <2>3, <2>4, <2>5, <2>6, <2>7 DEF Call
<1>2. ASSUME Fault PROVE faults' \in 0 .. MaxFaults
  BY <1>2, PoolAssumption DEF Fault, IInv, TypeOK
<1>3. ASSUME NEW r \in Requests, Fails(r)
      PROVE  IInv'
  BY <1>2, <1>3, QuietStep DEF Fails, IInv, TypeOK
<1>4. ASSUME NEW r \in Requests, CommitUnacknowledged(r)
      PROVE  IInv'
  BY <1>2, <1>4, CommitStep DEF CommitUnacknowledged
<1>8. ASSUME NEW r \in Requests, StartFails(r)
      PROVE  IInv'
  BY <1>2, <1>8, QuietStep DEF StartFails, IInv, TypeOK
<1>5. CASE Crash
  BY <1>2, <1>5, CrashStep DEF Crash
<1>6. ASSUME NEW p \in Relays, FetchPending(p) \/ ProcessEvent(p) \/ RelayFails(p)
      PROVE  IInv'
  BY <1>6, RelayStep
<1>7. CASE UNCHANGED vars
  BY <1>7 DEF vars, IInv, TypeOK, Written, KeysApart, FetchedIsCommitted,
     OneOrderPerKey, AnswersAgree, QueuedOnce, QueuedIsReady, Uncommitted, SameKey
<1> QED
  BY <1>1, <1>3, <1>4, <1>5, <1>6, <1>7, <1>8 DEF Next

\* The invariant holds of every reachable state.
THEOREM Invariant == Spec => []IInv
<1> QED
  BY InitInv, NextInv, PTL DEF Spec

\* Typed, and with an outbox event for every committed order and for no other.
THEOREM TypeCorrect == Spec => []TypeOK
<1>1. IInv => TypeOK
  BY DEF IInv
<1> QED
  BY <1>1, Invariant, PTL

\* However many calls overlap and fail, an idempotency key has one order.
THEOREM OneOrderPerKeyHolds == Spec => []OneOrderPerKey
<1>1. IInv => OneOrderPerKey
  BY DEF IInv
<1> QED
  BY <1>1, Invariant, PTL

\* Every caller told of an order is told of the committed order of its key.
THEOREM AnswersAlwaysAgree == Spec => []AnswersAgree
<1>1. IInv => AnswersAgree
  BY DEF IInv
<1> QED
  BY <1>1, Invariant, PTL

\* However many relays fetch its event and whatever dies meanwhile, an order
\* has one job at the most.
THEOREM QueuedAtMostOnce == Spec => []QueuedOnce
<1>1. IInv => QueuedOnce
  BY DEF IInv
<1> QED
  BY <1>1, Invariant, PTL

\* A job that is queued can be run, and a call that says it created an order
\* has added it.
THEOREM QueuedOrdersAreReady == Spec => []QueuedIsReady
<1>1. IInv => QueuedIsReady
  BY DEF IInv
<1> QED
  BY <1>1, Invariant, PTL

-----------------------------------------------------------------------------
(* The connection pool.  A call holds the connection of its transaction      *)
(* while it waits for another one, and a connection whose transaction could  *)
(* not be started is lost: both may leave the pool exhausted, and nothing    *)
(* else stops the service.                                                   *)

\* A call's next query can be made.
Ready(r) ==
  \/ pc[r] \in {"idle", "validate", "begin", "saga"} /\ Connection
  \/ pc[r] = "insert" /\ \A s \in Uncommitted : ~SameKey(s, r)
  \/ pc[r] \in {"commit", "enqueue"}

\* As long as a call has not ended, some call can go on, or the pool is
\* exhausted: for any size of the pool, neither the unique index nor a lost
\* connection nor the wait for the saga's connection stops the calls otherwise.
THEOREM StuckOnlyIfExhausted ==
  Spec => []((\A r \in Requests : pc[r] = "done") \/ (\E s \in Requests : Ready(s)) \/ Exhausted)
<1>1. ASSUME IInv, ~Exhausted, NEW r \in Requests, pc[r] # "done"
      PROVE  \E s \in Requests : Ready(s)
  <2>1. \A s \in Requests : pc[s] \in PCs
    BY <1>1 DEF IInv, TypeOK
  <2>2. CASE Connection
    <3>1. CASE pc[r] # "insert"
      BY <1>1, <2>1, <2>2, <3>1 DEF Ready, PCs, Holding
    <3>2. CASE pc[r] = "insert" /\ ~Ready(r)
      BY <2>2, <3>2 DEF Ready, Uncommitted
    <3>. QED
      BY <3>1, <3>2
  <2>3. CASE ~Connection
    <3>1. PICK h \in Holders : /\ pc[h] # "saga"
                               /\ pc[h] = "insert" =>
                                    ~\E s \in Requests : pc[s] = "saga" /\ SameKey(s, h)
      BY <1>1, <2>3 DEF Exhausted
    <3>2. h \in Requests /\ pc[h] \in {"insert", "commit", "enqueue"}
      BY <3>1 DEF Holders, Holding
    <3>3. CASE pc[h] # "insert"
      BY <3>2, <3>3 DEF Ready
    <3>4. CASE pc[h] = "insert" /\ ~Ready(h)
      <4>1. PICK s \in Uncommitted : SameKey(s, h)
        BY <3>4 DEF Ready
      <4>2. s \in Requests /\ pc[s] = "commit"
        BY <3>1, <3>4, <4>1 DEF Uncommitted
      <4>. QED
        BY <4>2 DEF Ready
    <3>. QED
      BY <3>2, <3>3, <3>4
  <2>. QED
    BY <2>2, <2>3
<1>2. IInv => (\A r \in Requests : pc[r] = "done") \/ (\E s \in Requests : Ready(s)) \/ Exhausted
  BY <1>1
<1>. QED
  BY <1>2, Invariant, PTL

\* The way of a call through createOrder.
Place(at) ==
  CASE at = "idle"     -> 0
    [] at = "validate" -> 1
    [] at = "begin"    -> 2
    [] at = "insert"   -> 3
    [] at = "saga"     -> 4
    [] at = "commit"   -> 5
    [] at = "enqueue"  -> 6
    [] at = "done"     -> 7

Advances(r) ==
  \/ pc'[r] = pc[r] /\ reply'[r] = reply[r]
  \/ Place(pc'[r]) > Place(pc[r])

\* No step takes a call back, and no answer is revised: a call is
\* answered after seven steps of its own at the most.
THEOREM CallsGoForward == Spec => [][\A r \in Requests : Advances(r)]_vars
<1>1. ASSUME IInv, Next, NEW r \in Requests PROVE Advances(r)
  <2>1. CASE UNCHANGED <<pc, reply>>
    BY <2>1 DEF Advances
  <2>2. ASSUME NEW s \in Requests, pc[s] # "done", \E answer : Answer(s, answer)
        PROVE  Advances(r)
    <3>1. pc[s] \in PCs \ {"done"}
      BY <1>1, <2>2 DEF IInv, TypeOK
    <3>2. /\ pc'[s] = "done"
          /\ \A q \in Requests \ {s} : pc'[q] = pc[q] /\ reply'[q] = reply[q]
      BY <1>1, <2>2 DEF Answer, IInv, TypeOK
    <3>. QED
      BY <3>1, <3>2 DEF Advances, Place, PCs, Holding
  <2>3. ASSUME NEW s \in Requests, NEW at \in PCs, Goto(s, at), Place(at) > Place(pc[s])
        PROVE  Advances(r)
    BY <1>1, <2>3 DEF Goto, Advances, IInv, TypeOK
  <2>4. ASSUME NEW s \in Requests, FindExisting(s) \/ ValidateProducts(s)
        PROVE  Advances(r)
    BY <2>2, <2>3, <2>4 DEF FindExisting, ValidateProducts, Place, PCs
  <2>5. ASSUME NEW s \in Requests, StartTransaction(s) \/ InsertOrder(s)
        PROVE  Advances(r)
    BY <2>2, <2>3, <2>5 DEF StartTransaction, InsertOrder, Place, PCs, Holding
  <2>6. ASSUME NEW s \in Requests, StartSaga(s) \/ Commit(s) \/ Enqueue(s)
        PROVE  Advances(r)
    BY <2>2, <2>3, <2>6 DEF StartSaga, Commit, Enqueue, Place, PCs, Holding
  <2>7. ASSUME NEW s \in Requests, Fails(s) \/ CommitUnacknowledged(s) \/ StartFails(s)
        PROVE  Advances(r)
    BY <2>2, <2>7 DEF Fails, CommitUnacknowledged, StartFails, PCs
  <2>9. CASE Crash
    <3>1. pc[r] \in PCs /\ pc'[r] = (IF pc[r] = "idle" THEN "idle" ELSE "done") /\ reply' = reply
      BY <1>1, <2>9 DEF Crash, IInv, TypeOK
    <3>. QED
      BY <3>1 DEF Advances, Place, PCs, Holding
  <2>8. ASSUME NEW p \in Relays, FetchPending(p) \/ ProcessEvent(p) \/ RelayFails(p)
        PROVE  UNCHANGED <<pc, reply>>
    BY <2>8 DEF FetchPending, ProcessEvent, RelayFails
  <2>. QED
    BY <1>1, <2>1, <2>4, <2>5, <2>6, <2>7, <2>8, <2>9 DEF Next, Call
<1>2. IInv /\ [Next]_vars => [\A r \in Requests : Advances(r)]_vars
  BY <1>1
<1>. QED
  BY <1>2, Invariant, PTL DEF Spec

\* Once the pool is exhausted nothing in the service moves again until
\* something fails.
THEOREM ExhaustedForGood ==
  Spec => [][Exhausted /\ faults' = faults => UNCHANGED vars]_vars
<1>1. ASSUME IInv, Next, Exhausted, faults' = faults PROVE FALSE
  <2>1. ~Fault
    BY <1>1 DEF Fault, IInv, TypeOK
  <2>2. ASSUME NEW r \in Requests, Call(r) PROVE FALSE
    <3>1. ~Connection
      BY <1>1 DEF Exhausted
    <3>2. pc[r] \in {"insert", "commit", "enqueue"} /\ r \in Holders
      BY <2>2, <3>1 DEF Call, FindExisting, ValidateProducts, StartTransaction, InsertOrder,
                        StartSaga, Commit, Enqueue, Holders, Holding
    <3>3. /\ pc[r] = "insert" /\ \E s \in Requests : pc[s] = "saga" /\ SameKey(s, r)
      BY <1>1, <3>2 DEF Exhausted
    <3>4. InsertOrder(r)
      BY <2>2, <3>1, <3>3 DEF Call, FindExisting, ValidateProducts, StartTransaction,
                              StartSaga, Commit, Enqueue
    <3>. QED
      BY <3>3, <3>4 DEF InsertOrder, Uncommitted
  <2>3. ASSUME NEW p \in Relays, FetchPending(p) \/ ProcessEvent(p) PROVE FALSE
    BY <1>1, <2>3 DEF FetchPending, ProcessEvent, Exhausted
  <2>. QED
    BY <1>1, <2>1, <2>2, <2>3 DEF Next, Fails, CommitUnacknowledged, StartFails, Crash, RelayFails
<1>2. IInv /\ [Next]_vars => [Exhausted /\ faults' = faults => UNCHANGED vars]_vars
  BY <1>1
<1>. QED
  BY <1>2, Invariant, PTL DEF Spec
==============================================================================
