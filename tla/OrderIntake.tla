----------------------------- MODULE OrderIntake -----------------------------
(***************************************************************************)
(* How an order gets in: OrdersService.createOrder, run by requests that   *)
(* overlap (a client repeats its request with the same idempotency key),   *)
(* the connection pool they share, the transaction that writes the order,  *)
(* its items and its outbox event, the saga row written on a connection of *)
(* its own, the Bull job added after the commit, and OutboxProcessor.      *)
(*                                                                         *)
(* An order is named by the request that created it.  A request holds one  *)
(* connection from startTransaction until it is answered, and needs a      *)
(* second one for the saga row; pg-pool hands a connection to whoever      *)
(* waits, and waits for ever (it has no option acquireTimeoutMillis).  A   *)
(* connection whose transaction could not be started is never released.    *)
(***************************************************************************)
EXTENDS Naturals, FiniteSets

CONSTANTS
  Requests,   \* calls of createOrder
  Keys,       \* idempotency keys
  KeyOf,      \* the key of each call
  Relays,     \* processes that run OutboxProcessor
  PoolSize,   \* DATABASE_MAX_CONNECTIONS of the process
  MaxFaults,  \* bound on failed calls and dead processes
  NoReply, Refused, Failed  \* no answer yet, 400, 500

ASSUME KeyAssumption == KeyOf \in [Requests -> Keys]
ASSUME PoolAssumption == PoolSize \in Nat \ {0} /\ MaxFaults \in Nat
ASSUME ReplyAssumption == {NoReply, Refused, Failed} \cap Requests = {}

VARIABLES
  pc,      \* what each call does next
  reply,   \* its answer: the order it names, or one of the three above
  orders,  \* committed orders, with their items
  sagas,   \* orders with a saga row
  outbox,  \* OrderCreated events: none, pending, processed
  jobs,    \* create-order jobs added to the queue, by order
  batch,   \* events each relay has fetched and not yet processed
  unreleased,  \* connections that are out of the pool and that nobody uses
  faults   \* failures so far

vars == <<pc, reply, orders, sagas, outbox, jobs, batch, unreleased, faults>>

\* The places of createOrder that hold the transaction's connection; the
\* first of them has only begun the transaction.
Holding == {"insert", "saga", "commit", "enqueue"}
PCs == {"idle", "validate", "begin", "done"} \cup Holding

\* The shape of the state, and no event without its committed order.
TypeOK ==
  /\ pc \in [Requests -> PCs]
  /\ reply \in [Requests -> Requests \cup {NoReply, Refused, Failed}]
  /\ orders \subseteq Requests
  /\ sagas \subseteq Requests
  /\ outbox \in [Requests -> {"none", "pending", "processed"}]
  /\ jobs \in [Requests -> Nat]
  /\ batch \in [Relays -> SUBSET Requests]
  /\ unreleased \in Nat
  /\ faults \in 0 .. MaxFaults
  /\ \A r \in Requests : outbox[r] # "none" <=> r \in orders

Init ==
  /\ pc = [r \in Requests |-> "idle"]
  /\ reply = [r \in Requests |-> NoReply]
  /\ orders = {}
  /\ sagas = {}
  /\ outbox = [r \in Requests |-> "none"]
  /\ jobs = [r \in Requests |-> 0]
  /\ batch = [p \in Relays |-> {}]
  /\ unreleased = 0
  /\ faults = 0

-----------------------------------------------------------------------------
\* Calls whose transaction has inserted the order and not ended.
Uncommitted == {r \in Requests : pc[r] \in {"saga", "commit"}}

SameKey(r, s) == KeyOf[r] = KeyOf[s]

\* A query needs a connection nobody holds.
Holders == {r \in Requests : pc[r] \in Holding}
Connection == Cardinality(Holders) + unreleased < PoolSize

Answer(r, answer) ==
  /\ pc' = [pc EXCEPT ![r] = "done"]
  /\ reply' = [reply EXCEPT ![r] = answer]

Goto(r, at) == pc' = [pc EXCEPT ![r] = at] /\ UNCHANGED reply

-----------------------------------------------------------------------------
(* createOrder.                                                            *)

\* The order that has the key already is the answer.
FindExisting(r) ==
  /\ pc[r] = "idle" /\ Connection
  /\ \/ \E o \in orders : SameKey(o, r) /\ Answer(r, o)
     \/ (\A o \in orders : ~SameKey(o, r)) /\ Goto(r, "validate")
  /\ UNCHANGED <<orders, sagas, outbox, jobs, batch, unreleased, faults>>

\* The products exist and are active, or not.
ValidateProducts(r) ==
  /\ pc[r] = "validate" /\ Connection
  /\ Goto(r, "begin") \/ Answer(r, Refused)
  /\ UNCHANGED <<orders, sagas, outbox, jobs, batch, unreleased, faults>>

StartTransaction(r) ==
  /\ pc[r] = "begin" /\ Connection
  /\ Goto(r, "insert")
  /\ UNCHANGED <<orders, sagas, outbox, jobs, batch, unreleased, faults>>

\* Seeded fault: there is no unique index on idempotency_key.
KeyIsFree_always(r) == TRUE

\* The unique index on idempotency_key.
KeyIsFree(r) == \A o \in orders : ~SameKey(o, r)

\* Seeded fault: an open transaction has locked its key from the start.
InsertOrder_lockedFirst(r) ==
  /\ pc[r] = "insert"
  /\ \A s \in Requests \ {r} : SameKey(s, r) => pc[s] \notin Holding
  /\ IF KeyIsFree(r) THEN Goto(r, "saga") ELSE Answer(r, Failed)
  /\ UNCHANGED <<orders, sagas, outbox, jobs, batch, unreleased, faults>>

\* The order, its items and its event are inserted.  The index makes the
\* insert wait for an uncommitted order with the same key, and fail if a
\* committed one has it.
InsertOrder(r) ==
  /\ pc[r] = "insert"
  /\ \A s \in Uncommitted : ~SameKey(s, r)
  /\ IF KeyIsFree(r) THEN Goto(r, "saga") ELSE Answer(r, Failed)
  /\ UNCHANGED <<orders, sagas, outbox, jobs, batch, unreleased, faults>>

\* Seeded fault: a saga that cannot be saved is left out.
StartSaga_ignored(r) ==
  /\ pc[r] = "saga" /\ Goto(r, "commit")
  /\ UNCHANGED <<orders, sagas, outbox, jobs, batch, unreleased, faults>>

\* startOrderProcessing saves the saga row on another connection, outside
\* the transaction.
StartSaga(r) ==
  /\ pc[r] = "saga" /\ Connection
  /\ sagas' = sagas \cup {r}
  /\ Goto(r, "commit")
  /\ UNCHANGED <<orders, outbox, jobs, batch, unreleased, faults>>

\* The event is there for the relays once it is committed.
PublishEvent(r) == outbox' = [outbox EXCEPT ![r] = "pending"]

Commit(r) ==
  /\ pc[r] = "commit"
  /\ orders' = orders \cup {r}
  /\ PublishEvent(r)
  /\ Goto(r, "enqueue")
  /\ UNCHANGED <<sagas, jobs, batch, unreleased, faults>>

Enqueue(r) ==
  /\ pc[r] = "enqueue"
  /\ jobs' = [jobs EXCEPT ![r] = @ + 1]
  /\ Answer(r, r)
  /\ UNCHANGED <<orders, sagas, outbox, batch, unreleased, faults>>

-----------------------------------------------------------------------------
(* Failures.                                                               *)

Fault == faults < MaxFaults /\ faults' = faults + 1

\* Seeded fault: the caller is not told that the job was not added.
Fails_quietly(r) ==
  /\ Fault
  /\ pc[r] \in PCs \ {"done"}
  /\ Answer(r, IF pc[r] = "enqueue" THEN r ELSE Failed)
  /\ UNCHANGED <<orders, sagas, outbox, jobs, batch, unreleased>>

\* A query or the queue fails: an open transaction is rolled back (after the
\* commit there is none left) and the caller gets an error.
Fails(r) ==
  /\ Fault
  /\ pc[r] \in PCs \ {"done"}
  /\ Answer(r, Failed)
  /\ UNCHANGED <<orders, sagas, outbox, jobs, batch, unreleased>>

\* The commit is made and its acknowledgement is lost.
CommitUnacknowledged(r) ==
  /\ Fault
  /\ pc[r] = "commit"
  /\ orders' = orders \cup {r}
  /\ PublishEvent(r)
  /\ Answer(r, Failed)
  /\ UNCHANGED <<sagas, jobs, batch, unreleased>>

\* connect has given the call a connection and startTransaction throws: both
\* stand before the try whose finally releases it.
StartFails(r) ==
  /\ Fault
  /\ pc[r] = "begin" /\ Connection
  /\ unreleased' = unreleased + 1
  /\ Answer(r, Failed)
  /\ UNCHANGED <<orders, sagas, outbox, jobs, batch>>

\* The process dies, and its pool with it: no call under way is answered, the
\* database rolls back.
Crash ==
  /\ Fault
  /\ \E r \in Requests : pc[r] \notin {"idle", "done"}
  /\ pc' = [r \in Requests |-> IF pc[r] = "idle" THEN "idle" ELSE "done"]
  /\ unreleased' = 0
  /\ UNCHANGED <<reply, orders, sagas, outbox, jobs, batch>>

-----------------------------------------------------------------------------
(* OutboxProcessor.                                                        *)

\* processPendingEvents, unless this process is at it already.
FetchPending(p) ==
  LET pending == {o \in Requests : outbox[o] = "pending"} IN
  /\ batch[p] = {} /\ pending # {} /\ Connection
  /\ batch' = [batch EXCEPT ![p] = pending]
  /\ UNCHANGED <<pc, reply, orders, sagas, outbox, jobs, unreleased, faults>>

\* Seeded fault: Order events go to the queue like all others.
Relayed_likeOthers(o) == jobs' = [jobs EXCEPT ![o] = @ + 1]

\* An Order event is skipped: createOrder adds its job.
Relayed(o) == UNCHANGED jobs

\* processEvent: the event is marked as processed, whoever else did so.
ProcessEvent(p) ==
  /\ Connection
  /\ \E o \in batch[p] :
       /\ Relayed(o)
       /\ outbox' = [outbox EXCEPT ![o] = "processed"]
       /\ batch' = [batch EXCEPT ![p] = @ \ {o}]
  /\ UNCHANGED <<pc, reply, orders, sagas, unreleased, faults>>

\* The process dies, or the event could not be marked: it stays pending.
RelayFails(p) ==
  /\ Fault
  /\ \E left \in SUBSET batch[p] :
       left # batch[p] /\ batch' = [batch EXCEPT ![p] = left]
  /\ UNCHANGED <<pc, reply, orders, sagas, outbox, jobs, unreleased>>

-----------------------------------------------------------------------------
Call(r) ==
  \/ FindExisting(r) \/ ValidateProducts(r) \/ StartTransaction(r)
  \/ InsertOrder(r) \/ StartSaga(r) \/ Commit(r) \/ Enqueue(r)

Next ==
  \/ \E r \in Requests :
       Call(r) \/ Fails(r) \/ CommitUnacknowledged(r) \/ StartFails(r)
  \/ Crash
  \/ \E p \in Relays : FetchPending(p) \/ ProcessEvent(p) \/ RelayFails(p)

Spec == Init /\ [][Next]_vars

\* A call goes on when it can; the cron job runs.
Fairness ==
  /\ \A r \in Requests : WF_vars(Call(r))
  /\ \A p \in Relays : WF_vars(FetchPending(p) \/ ProcessEvent(p))

FairSpec == Spec /\ Fairness

-----------------------------------------------------------------------------
(* Properties.                                                             *)

\* However calls with one idempotency key overlap, one of them creates an
\* order, although each looks for it before any has inserted it (createOrder
\* checks first, the unique index decides).
OneOrderPerKey ==
  \A o1, o2 \in orders : SameKey(o1, o2) => o1 = o2

\* Every call that is told of an order is told of the committed order of its
\* key, which has its saga: repeating a call never names another order.
AnswersAgree ==
  \A r \in Requests : reply[r] \in Requests =>
    /\ reply[r] \in orders \cap sagas
    /\ SameKey(reply[r], r)

\* An order is queued once at the most: by createOrder, never by the outbox
\* as well ("to avoid duplicate processing", outbox.processor.ts:180).
QueuedOnce == \A o \in Requests : jobs[o] <= 1

\* What is queued can be run: the job's order is committed and its saga is
\* there; and the call that created an order and says so has queued it.
QueuedIsReady ==
  /\ \A o \in Requests : jobs[o] > 0 => o \in orders \cap sagas
  /\ \A r \in Requests : reply[r] = r => jobs[r] > 0

\* Every connection of the pool is lost, or held by a call that waits for one
\* more or for the order of such a call.
Exhausted ==
  /\ ~Connection
  /\ \A r \in Holders :
       \/ pc[r] = "saga"
       \/ pc[r] = "insert" /\ \E s \in Requests : pc[s] = "saga" /\ SameKey(s, r)

\* A call under way is answered, or dies with its process, unless the calls have
\* taken every connection of the pool: createOrder asks for a second connection
\* while it holds one (:170), and nothing else keeps a call waiting, neither
\* the unique index nor a relay.
EveryCallEnds ==
  \A r \in Requests : pc[r] # "idle" ~> (pc[r] = "done" \/ Exhausted)

\* "Returns 202 Accepted immediately" (orders.service.ts:49): every call
\* under way ends, however many there are.
EveryCallIsAnswered == \A r \in Requests : pc[r] # "idle" ~> pc[r] = "done"
==============================================================================
