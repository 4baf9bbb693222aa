------------------------------ MODULE EventBus ------------------------------
(***************************************************************************)
(* The Orders Service's end of the inventory events: the RabbitMQ queue    *)
(* orders.inventory_events and the processes that consume it               *)
(* (modules/events/consumers/rabbitmq-consumer.service.ts).                *)
(*                                                                         *)
(* A message is a copy of an event: whoever publishes may send an event    *)
(* again.  A handler is an await, so one consumer has several messages in  *)
(* hand, and what it has processed is remembered in its memory only.  The  *)
(* broker (external) delivers a message to one channel at a time, at most  *)
(* Prefetch at once, and queues it again when the channel is lost.  Every  *)
(* type of event the schema admits has a handler.                          *)
(***************************************************************************)
EXTENDS Naturals, FiniteSets

CONSTANTS
  Events,     \* event ids
  Refused,    \* events the schema refuses: it wants the user's UUID, and
              \* the use cases of the Inventory Service publish ""
  Consumers,  \* processes of the Orders Service
  Prefetch,   \* messages in hand at once: channel.prefetch(10)
  Messages,   \* the copies of each event that may be published
  MaxRetries, \* MAX_RETRIES
  MaxFaults,  \* bound on failures of handlers, connections and processes
  MayFail     \* the kinds of failure that occur

Kinds == {"handler", "connection", "process", "memory"}

ASSUME EventsAssumption ==
  Refused \subseteq Events /\ Messages \subseteq Events \X Nat
ASSUME BoundsAssumption ==
  {Prefetch, MaxRetries} \subseteq Nat \ {0} /\ MaxFaults \in Nat
ASSUME MayFailAssumption == MayFail \subseteq Kinds

VARIABLES
  sent,      \* messages published
  ready,     \* messages in the queue and with no consumer
  link,      \* each consumer: consuming, its connection lost, or dead
  handling,  \* messages whose handler each consumer runs
  seen,      \* processedEvents of each consumer
  effects,   \* how often a handler of the event has ended well
  disturbed, \* history: events a second effect of which is excused
  faults     \* failures so far

vars == <<sent, ready, link, handling, seen, effects, disturbed, faults>>

EventOf(m) == m[1]
EventsOf(ms) == {EventOf(m) : m \in ms}

\* What the broker has given to a consumer and awaits an answer for.
Unacked(c) == IF link[c] = "up" THEN handling[c] ELSE {}

\* The shape of the state; a message is in one place, and a consumer has no
\* more of them than it asked for.
TypeOK ==
  /\ sent \subseteq Messages
  /\ ready \subseteq sent
  /\ link \in [Consumers -> {"up", "lost", "down"}]
  /\ handling \in [Consumers -> SUBSET sent]
  /\ seen \in [Consumers -> SUBSET Events]
  /\ effects \in [Events -> Nat]
  /\ disturbed \subseteq Events
  /\ faults \in 0 .. MaxFaults
  /\ \A c \in Consumers :
       /\ Cardinality(handling[c]) <= Prefetch
       /\ Unacked(c) \cap ready = {}
       /\ \A d \in Consumers \ {c} : Unacked(c) \cap Unacked(d) = {}

Init ==
  /\ sent = {}
  /\ ready = {}
  /\ link = [c \in Consumers |-> "up"]
  /\ handling = [c \in Consumers |-> {}]
  /\ seen = [c \in Consumers |-> {}]
  /\ effects = [e \in Events |-> 0]
  /\ disturbed = {}
  /\ faults = 0

-----------------------------------------------------------------------------
\* External: somebody publishes a copy of an event.
Publish(m) ==
  /\ m \notin sent
  /\ sent' = sent \cup {m}
  /\ ready' = ready \cup {m}
  /\ UNCHANGED <<link, handling, seen, effects, disturbed, faults>>

\* The broker gives c a message: c is consuming and has a slot.
Delivered(c, m) ==
  /\ link[c] = "up" /\ m \in ready
  /\ Cardinality(handling[c]) < Prefetch

\* What the schema refuses is rejected.
RejectInvalid(c, m) ==
  /\ Delivered(c, m) /\ EventOf(m) \in Refused
  /\ ready' = ready \ {m}
  /\ UNCHANGED <<sent, link, handling, seen, effects, disturbed, faults>>

\* Seeded fault: a duplicate goes back to the queue.
SkipDuplicate_requeues(c, m) ==
  /\ Delivered(c, m) /\ EventOf(m) \in seen[c] /\ UNCHANGED vars

\* What this consumer has processed is acknowledged and skipped.
SkipDuplicate(c, m) ==
  /\ Delivered(c, m) /\ EventOf(m) \in seen[c] \ Refused
  /\ ready' = ready \ {m}
  /\ UNCHANGED <<sent, link, handling, seen, effects, disturbed, faults>>

\* Another message is handled.  Its event is disturbed if somebody has a
\* copy in hand or another consumer has processed one.
StartHandling(c, m) ==
  LET e == EventOf(m) IN
  /\ Delivered(c, m) /\ e \notin seen[c] \cup Refused
  /\ ready' = ready \ {m}
  /\ handling' = [handling EXCEPT ![c] = @ \cup {m}]
  /\ disturbed' = IF \E d \in Consumers :
                       e \in EventsOf(handling[d]) \cup seen[d]
                    THEN disturbed \cup {e} ELSE disturbed
  /\ UNCHANGED <<sent, link, seen, effects, faults>>

\* Process c is gone; the broker queues again what it had not acknowledged.
Dies(c) ==
  /\ link' = [link EXCEPT ![c] = "down"]
  /\ handling' = [handling EXCEPT ![c] = {}]
  /\ seen' = [seen EXCEPT ![c] = {}]
  /\ disturbed' = disturbed \cup seen[c]

\* Seeded fault: the event is not remembered.
HandlerEnds_unmarked(c, m) ==
  /\ m \in handling[c] /\ link[c] = "up"
  /\ effects' = [effects EXCEPT ![EventOf(m)] = @ + 1]
  /\ handling' = [handling EXCEPT ![c] = @ \ {m}]
  /\ UNCHANGED <<sent, ready, link, seen, disturbed, faults>>

\* The handler ends well: the event is remembered and the message
\* acknowledged.  On a lost connection ack throws, nack throws twice in the
\* two catch blocks, and the rejection nobody handles ends the process.
HandlerEnds(c, m) ==
  /\ m \in handling[c]
  /\ effects' = [effects EXCEPT ![EventOf(m)] = @ + 1]
  /\ \/ /\ link[c] = "up"
        /\ handling' = [handling EXCEPT ![c] = @ \ {m}]
        /\ seen' = [seen EXCEPT ![c] = @ \cup {EventOf(m)}]
        /\ UNCHANGED <<link, disturbed>>
     \/ link[c] = "lost" /\ Dies(c)
  /\ UNCHANGED <<sent, ready, faults>>

\* External: nobody writes the header x-retry-count.
RetryCount(m) == 0

\* Seeded fault: a failed message is not queued again.
Requeued_never(m) == FALSE

\* A failed message is queued again until it has been MAX_RETRIES times.
Requeued(m) == RetryCount(m) < MaxRetries

Fault(kind) ==
  kind \in MayFail /\ faults < MaxFaults /\ faults' = faults + 1

\* The handler throws.
HandlerFails(c, m) ==
  /\ Fault("handler")
  /\ m \in handling[c]
  /\ \/ /\ link[c] = "up"
        /\ handling' = [handling EXCEPT ![c] = @ \ {m}]
        /\ ready' = IF Requeued(m) THEN ready \cup {m} ELSE ready
        /\ UNCHANGED <<link, seen, disturbed>>
     \/ link[c] = "lost" /\ Dies(c) /\ UNCHANGED ready
  /\ UNCHANGED <<sent, effects>>

\* cleanupProcessedEvents: the event was processed 24 hours ago.
Forget(c, e) ==
  /\ Fault("memory")
  /\ e \in seen[c]
  /\ seen' = [seen EXCEPT ![c] = @ \ {e}]
  /\ disturbed' = disturbed \cup {e}
  /\ UNCHANGED <<sent, ready, link, handling, effects>>

\* The connection is lost: the handlers run on, and nothing connects again.
Disconnect(c) ==
  /\ Fault("connection")
  /\ link[c] = "up"
  /\ link' = [link EXCEPT ![c] = "lost"]
  /\ ready' = ready \cup handling[c]
  /\ disturbed' = disturbed \cup EventsOf(handling[c])
  /\ UNCHANGED <<sent, handling, seen, effects>>

Crash(c) ==
  /\ Fault("process")
  /\ link[c] # "down"
  /\ Dies(c)
  /\ ready' = ready \cup Unacked(c)
  /\ UNCHANGED <<sent, effects>>

\* The process is started again, and onModuleInit connects and consumes.
Revive(c) ==
  /\ link[c] = "down"
  /\ link' = [link EXCEPT ![c] = "up"]
  /\ UNCHANGED <<sent, ready, handling, seen, effects, disturbed, faults>>

-----------------------------------------------------------------------------
Deliver(c, m) ==
  RejectInvalid(c, m) \/ SkipDuplicate(c, m) \/ StartHandling(c, m)

Next ==
  \/ \E m \in Messages : Publish(m)
  \/ \E c \in Consumers :
       \/ \E m \in Messages : Deliver(c, m) \/ HandlerEnds(c, m) \/ HandlerFails(c, m)
       \/ \E e \in Events : Forget(c, e)
       \/ Disconnect(c) \/ Crash(c) \/ Revive(c)

Spec == Init /\ [][Next]_vars

\* The broker delivers, handlers end, and a dead process is started again.
\* A connection that is lost is nobody's concern.
Fairness ==
  /\ \A c \in Consumers : WF_vars(Revive(c))
  /\ \A m \in Messages :
       /\ SF_vars(\E c \in Consumers : Deliver(c, m))
       /\ \A c \in Consumers : WF_vars(HandlerEnds(c, m))

FairSpec == Spec /\ Fairness

-----------------------------------------------------------------------------
(* Properties.                                                             *)

\* An admitted message is in the queue, in the hands of a consumer that can
\* still answer for it, or its event has been handled: no failure of a
\* handler, a connection or a process loses one (manual ack after the
\* handler, rabbitmq-consumer.service.ts:259-268).
NothingLost ==
  \A m \in sent :
    \/ m \in ready \cup UNION {Unacked(c) : c \in Consumers}
    \/ effects[EventOf(m)] > 0
    \/ EventOf(m) \in Refused

\* An event is handled twice only if two of its copies were in hand at once,
\* another process had handled it, a connection was lost with it in hand,
\* or its id was forgotten (isEventProcessed and markEventAsProcessed).
TwiceOnlyIfDisturbed ==
  \A e \in Events : effects[e] > 1 => e \in disturbed

Settled(m) ==
  m \in sent /\ m \notin ready \cup UNION {handling[c] : c \in Consumers}

\* Every message is settled in the end, whatever handlers threw and processes
\* died on the way, unless a process has lost its connection: nothing
\* connects it again (connect, rabbitmq-consumer.service.ts:114).
QueueDrains ==
  \A m \in Messages :
    m \in sent ~> (Settled(m) \/ \E c \in Consumers : link[c] = "lost")
=============================================================================
