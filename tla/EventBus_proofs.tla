--------------------------- MODULE EventBus_proofs ---------------------------
(* The safety of the event consumers, for any events, messages, processes,  *)
(* prefetch limit and failures.                                             *)
EXTENDS EventBus, FiniteSetTheorems, TLAPS

\* A dead process has nothing in hand, and hands are finite.
HandsOK ==
  \A c \in Consumers :
    /\ IsFiniteSet(handling[c])
    /\ link[c] = "down" => handling[c] = {}

\* What a process remembers has been handled.
SeenWasHandled == \A c \in Consumers : \A e \in seen[c] : effects[e] > 0

\* A second effect of what a lost connection left in hand is excused.
LostIsDisturbed ==
  \A c \in Consumers : link[c] = "lost" => EventsOf(handling[c]) \subseteq disturbed

\* No two copies of e are in hand.
OneInHand(e) ==
  \A c, d \in Consumers : \A m \in handling[c], n \in handling[d] :
    EventOf(m) = e /\ EventOf(n) = e => c = d /\ m = n

\* An event that nothing disturbed has had at most one effect, which somebody
\* remembers; until then at most one copy of it is in hand, afterwards none.
Orderly ==
  \A e \in Events \ disturbed :
    /\ effects[e] <= 1
    /\ effects[e] = 1 => \E c \in Consumers : e \in seen[c]
    /\ effects[e] = 1 => \A c \in Consumers : e \notin EventsOf(handling[c])
    /\ OneInHand(e)

\* The inductive invariant.
IInv ==
  /\ TypeOK
  /\ HandsOK
  /\ SeenWasHandled
  /\ LostIsDisturbed
  /\ Orderly
  /\ NothingLost

\* An event of a message is an event.
LEMMA EventOfMessage == \A m \in Messages : EventOf(m) \in Events
  BY EventsAssumption DEF EventOf

\* The retry limit is never reached.
LEMMA AlwaysRequeued == \A m : Requeued(m)
  BY BoundsAssumption DEF Requeued, RetryCount

-----------------------------------------------------------------------------
\* Before anything is published all of it holds.
LEMMA InitInv == Init => IInv
<1> SUFFICES ASSUME Init PROVE IInv
  OBVIOUS
<1>1. IsFiniteSet({}) /\ Cardinality({}) = 0
  BY FS_EmptySet
<1>2. TypeOK
  BY <1>1, BoundsAssumption DEF Init, TypeOK, Unacked
<1>3. HandsOK /\ SeenWasHandled /\ LostIsDisturbed /\ NothingLost
  BY <1>1 DEF Init, HandsOK, SeenWasHandled, LostIsDisturbed, NothingLost
<1>4. Orderly
  BY DEF Init, Orderly, OneInHand, EventsOf
<1> QED
  BY <1>2, <1>3, <1>4 DEF IInv

\* A message more in the queue.
LEMMA PublishStep ==
  ASSUME IInv, NEW m \in Messages, Publish(m)
  PROVE  IInv'
<1>1. \A c \in Consumers : Unacked(c)' = Unacked(c) /\ m \notin Unacked(c)
  BY DEF IInv, TypeOK, Unacked, Publish
<1>2. TypeOK'
  BY <1>1 DEF IInv, TypeOK, Publish
<1>3. HandsOK' /\ SeenWasHandled' /\ LostIsDisturbed' /\ Orderly'
  BY DEF IInv, HandsOK, SeenWasHandled, LostIsDisturbed, Orderly, OneInHand,
         EventsOf, Publish
<1>4. NothingLost'
  BY <1>1 DEF IInv, NothingLost, Publish
<1> QED
  BY <1>2, <1>3, <1>4 DEF IInv

\* A message leaves the queue unhandled only if the schema refuses it or its
\* event has been handled.
LEMMA SkipStep ==
  ASSUME IInv, NEW c \in Consumers, NEW m \in Messages,
         RejectInvalid(c, m) \/ SkipDuplicate(c, m)
  PROVE  IInv'
<1>1. /\ m \in ready /\ ready' = ready \ {m}
      /\ UNCHANGED <<sent, link, handling, seen, effects, disturbed, faults>>
      /\ EventOf(m) \in Refused \/ effects[EventOf(m)] > 0
  BY DEF RejectInvalid, SkipDuplicate, Delivered, IInv, SeenWasHandled
<1>2. \A d \in Consumers : Unacked(d)' = Unacked(d)
  BY <1>1 DEF Unacked
<1>3. TypeOK'
  BY <1>1, <1>2 DEF IInv, TypeOK
<1>4. HandsOK' /\ SeenWasHandled' /\ LostIsDisturbed' /\ Orderly'
  BY <1>1 DEF IInv, HandsOK, SeenWasHandled, LostIsDisturbed, Orderly, OneInHand,
         EventsOf
<1>5. NothingLost'
  BY <1>1, <1>2 DEF IInv, NothingLost
<1> QED
  BY <1>3, <1>4, <1>5 DEF IInv

\* A message goes from the queue into the hands of a consumer, which excuses
\* a second effect unless it is the only copy anybody has met.
LEMMA StartHandlingStep ==
  ASSUME IInv, NEW c \in Consumers, NEW m \in Messages, StartHandling(c, m)
  PROVE  IInv'
<1> DEFINE e == EventOf(m)
<1>1. /\ link[c] = "up" /\ m \in ready /\ m \notin handling[c]
      /\ Cardinality(handling[c]) < Prefetch
      /\ ready' = ready \ {m}
      /\ handling' = [handling EXCEPT ![c] = @ \cup {m}]
      /\ UNCHANGED <<sent, link, seen, effects, faults>>
      /\ e \in Events /\ disturbed \subseteq disturbed'
      /\ disturbed' \subseteq disturbed \cup {e}
  BY EventOfMessage DEF StartHandling, Delivered, IInv, TypeOK, Unacked
<1>2. /\ Unacked(c)' = Unacked(c) \cup {m}
      /\ \A d \in Consumers \ {c} : Unacked(d)' = Unacked(d)
  BY <1>1 DEF Unacked, IInv, TypeOK
<1>3. /\ IsFiniteSet(handling'[c])
      /\ Cardinality(handling'[c]) \in Nat
      /\ Cardinality(handling'[c]) = Cardinality(handling[c]) + 1
  <2>1. IsFiniteSet(handling[c]) /\ handling'[c] = handling[c] \cup {m}
    BY <1>1 DEF IInv, HandsOK, TypeOK
  <2>2. IsFiniteSet(handling[c] \cup {m})
    BY <2>1, FS_AddElement
  <2>3. Cardinality(handling[c] \cup {m}) = Cardinality(handling[c]) + 1
    BY <1>1, <2>1, FS_AddElement
  <2>4. Cardinality(handling[c] \cup {m}) \in Nat
    BY <2>2, FS_CardinalityType
  <2> QED
    BY <2>1, <2>2, <2>3, <2>4
<1>4. TypeOK'
  <2>1. \A d \in Consumers : Cardinality(handling'[d]) <= Prefetch
    <3>1. Cardinality(handling[c]) \in Nat /\ Prefetch \in Nat
      BY FS_CardinalityType, BoundsAssumption DEF IInv, HandsOK
    <3>2. Cardinality(handling'[c]) <= Prefetch
      BY <1>1, <1>3, <3>1
    <3>3. \A d \in Consumers \ {c} : handling'[d] = handling[d]
      BY <1>1 DEF IInv, TypeOK
    <3> QED
      BY <3>2, <3>3 DEF IInv, TypeOK
  <2>2. \A d \in Consumers :
          /\ Unacked(d)' \cap ready' = {}
          /\ \A f \in Consumers \ {d} : Unacked(d)' \cap Unacked(f)' = {}
    BY <1>1, <1>2 DEF IInv, TypeOK
  <2>3. handling' \in [Consumers -> SUBSET sent'] /\ ready' \subseteq sent'
    BY <1>1 DEF IInv, TypeOK
  <2>4. disturbed' \subseteq Events
    BY <1>1 DEF IInv, TypeOK
  <2> QED
    BY <1>1, <2>1, <2>2, <2>3, <2>4 DEF IInv, TypeOK
<1>5. HandsOK' /\ SeenWasHandled'
  BY <1>1, <1>3 DEF IInv, HandsOK, SeenWasHandled, TypeOK
<1>6. LostIsDisturbed'
  BY <1>1 DEF IInv, LostIsDisturbed, EventsOf, TypeOK
<1>7. Orderly'
  <2> SUFFICES ASSUME NEW f \in Events \ disturbed'
               PROVE  /\ effects[f] <= 1
                      /\ effects[f] = 1 => \E d \in Consumers : f \in seen[d]
                      /\ effects[f] = 1 =>
                           \A d \in Consumers : f \notin EventsOf(handling'[d])
                      /\ OneInHand(f)'
    BY <1>1 DEF Orderly, EventsOf
  <2>1. f \notin disturbed
    BY <1>1
  <2>2. CASE f # e
    <3>1. \A d \in Consumers : \A n \in handling'[d] :
            EventOf(n) = f => n \in handling[d]
      BY <1>1, <2>2 DEF IInv, TypeOK
    <3>2. OneInHand(f)'
      BY <2>1, <3>1 DEF IInv, Orderly, OneInHand
    <3>3. effects[f] = 1 =>
            \A d \in Consumers : f \notin EventsOf(handling'[d])
      BY <2>1, <3>1 DEF IInv, Orderly, EventsOf
    <3> QED
      BY <2>1, <3>2, <3>3 DEF IInv, Orderly
  <2>3. CASE f = e
    <3>1. \A d \in Consumers : e \notin EventsOf(handling[d]) /\ e \notin seen[d]
      BY <2>3 DEF StartHandling
    <3>2. effects[f] <= 1 /\ effects[f] # 1
      BY <2>1, <2>3, <3>1 DEF IInv, Orderly
    <3>3. OneInHand(f)'
      BY <1>1, <2>3, <3>1 DEF OneInHand, EventsOf, IInv, TypeOK
    <3> QED
      BY <3>2, <3>3
  <2> QED
    BY <2>2, <2>3
<1>8. NothingLost'
  BY <1>1, <1>2 DEF IInv, NothingLost
<1> QED
  BY <1>4, <1>5, <1>6, <1>7, <1>8 DEF IInv

\* A process dies: the broker queues what it had in hand, and whatever it
\* remembered may have a second effect.
LEMMA DiesStep ==
  ASSUME IInv, NEW c \in Consumers, Dies(c), UNCHANGED sent,
         ready' = ready \cup Unacked(c), faults' \in 0 .. MaxFaults,
         effects' \in [Events -> Nat],
         \A f \in Events : effects'[f] >= effects[f],
         \A f \in Events \ disturbed : effects'[f] = effects[f]
  PROVE  IInv'
<1>1. /\ link' = [link EXCEPT ![c] = "down"]
      /\ handling' = [handling EXCEPT ![c] = {}]
      /\ seen' = [seen EXCEPT ![c] = {}]
      /\ disturbed' = disturbed \cup seen[c]
  BY DEF Dies
<1>2. /\ Unacked(c)' = {} /\ Unacked(c) \subseteq sent
      /\ \A d \in Consumers \ {c} : Unacked(d)' = Unacked(d)
  BY <1>1 DEF Unacked, IInv, TypeOK
<1>3. IsFiniteSet({}) /\ Cardinality({}) = 0
  BY FS_EmptySet
<1>4. TypeOK'
  <2>1. /\ link' \in [Consumers -> {"up", "lost", "down"}]
        /\ handling' \in [Consumers -> SUBSET sent']
        /\ seen' \in [Consumers -> SUBSET Events]
        /\ ready' \subseteq sent' /\ disturbed' \subseteq Events
        /\ sent' \subseteq Messages
    BY <1>1, <1>2 DEF IInv, TypeOK
  <2>2. \A d \in Consumers : Cardinality(handling'[d]) <= Prefetch
    BY <1>1, <1>3, BoundsAssumption DEF IInv, TypeOK
  <2>3. \A d \in Consumers :
          /\ Unacked(d)' \cap ready' = {}
          /\ \A f \in Consumers \ {d} : Unacked(d)' \cap Unacked(f)' = {}
    BY <1>2 DEF IInv, TypeOK
  <2> QED
    BY <2>1, <2>2, <2>3 DEF TypeOK
<1>5. HandsOK' /\ SeenWasHandled'
  BY <1>1, <1>3 DEF IInv, HandsOK, SeenWasHandled, TypeOK
<1>6. LostIsDisturbed'
  BY <1>1 DEF IInv, LostIsDisturbed, EventsOf, TypeOK
<1>7. Orderly'
  <2> SUFFICES ASSUME NEW f \in Events \ disturbed'
               PROVE  /\ effects'[f] <= 1
                      /\ effects'[f] = 1 => \E d \in Consumers : f \in seen'[d]
                      /\ effects'[f] = 1 =>
                           \A d \in Consumers : f \notin EventsOf(handling'[d])
                      /\ OneInHand(f)'
    BY DEF Orderly
  <2>1. f \in Events \ disturbed /\ effects'[f] = effects[f] /\ f \notin seen[c]
    BY <1>1
  <2>2. \A d \in Consumers : /\ handling'[d] \subseteq handling[d]
                             /\ f \in seen[d] => f \in seen'[d]
    BY <1>1, <2>1 DEF IInv, TypeOK
  <2> QED
    BY <2>1, <2>2 DEF IInv, Orderly, OneInHand, EventsOf
<1>8. NothingLost'
  <2> SUFFICES ASSUME NEW n \in sent
               PROVE  \/ n \in ready' \cup UNION {Unacked(d)' : d \in Consumers}
                      \/ effects'[EventOf(n)] > 0
                      \/ EventOf(n) \in Refused
    BY DEF NothingLost
  <2>1. EventOf(n) \in Events
    BY EventOfMessage DEF IInv, TypeOK
  <2> QED
    BY <1>2, <2>1 DEF IInv, TypeOK, NothingLost
<1> QED
  BY <1>4, <1>5, <1>6, <1>7, <1>8 DEF IInv

\* A handler that has ended well.  On a connection that holds, its message is
\* acknowledged and its event remembered; on a lost one the process dies.
LEMMA HandlerEndsStep ==
  ASSUME IInv, NEW c \in Consumers, NEW m \in Messages, HandlerEnds(c, m)
  PROVE  IInv'
<1> DEFINE e == EventOf(m)
<1>1. /\ m \in handling[c] /\ e \in Events
      /\ effects' = [effects EXCEPT ![e] = @ + 1]
      /\ UNCHANGED <<sent, ready, faults>>
  BY EventOfMessage DEF HandlerEnds
<1>2. effects' \in [Events -> Nat] /\ \A f \in Events : effects'[f] >= effects[f]
  BY <1>1 DEF IInv, TypeOK
<1>3. CASE link[c] = "up"
  <2>1. /\ handling' = [handling EXCEPT ![c] = @ \ {m}]
        /\ seen' = [seen EXCEPT ![c] = @ \cup {e}]
        /\ UNCHANGED <<link, disturbed>>
    BY <1>3 DEF HandlerEnds
  <2>2. /\ Unacked(c)' = Unacked(c) \ {m}
        /\ \A d \in Consumers \ {c} : Unacked(d)' = Unacked(d)
    BY <1>3, <2>1 DEF Unacked, IInv, TypeOK
  <2>3. IsFiniteSet(handling'[c]) /\ Cardinality(handling'[c]) <= Prefetch
    BY <2>1, FS_Subset, FS_CardinalityType, BoundsAssumption DEF IInv, HandsOK, TypeOK
  <2>4. TypeOK'
    <3>1. /\ handling' \in [Consumers -> SUBSET sent']
          /\ seen' \in [Consumers -> SUBSET Events]
          /\ \A d \in Consumers : Cardinality(handling'[d]) <= Prefetch
      BY <1>1, <2>1, <2>3 DEF IInv, TypeOK
    <3>2. \A d \in Consumers :
            /\ Unacked(d)' \cap ready' = {}
            /\ \A f \in Consumers \ {d} : Unacked(d)' \cap Unacked(f)' = {}
      BY <1>1, <2>2 DEF IInv, TypeOK
    <3> QED
      BY <1>1, <1>2, <2>1, <3>1, <3>2 DEF IInv, TypeOK
  <2>5. HandsOK' /\ LostIsDisturbed'
    BY <1>3, <2>1, <2>3 DEF IInv, HandsOK, LostIsDisturbed, EventsOf, TypeOK
  <2>6. SeenWasHandled'
    BY <1>1, <2>1 DEF IInv, SeenWasHandled, TypeOK
  <2>7. Orderly'
    <3> SUFFICES ASSUME NEW f \in Events \ disturbed
                 PROVE  /\ effects'[f] <= 1
                        /\ effects'[f] = 1 => \E d \in Consumers : f \in seen'[d]
                        /\ effects'[f] = 1 =>
                             \A d \in Consumers : f \notin EventsOf(handling'[d])
                        /\ OneInHand(f)'
      BY <2>1 DEF Orderly
    <3>1. \A d \in Consumers : /\ handling'[d] \subseteq handling[d]
                               /\ seen[d] \subseteq seen'[d]
      BY <2>1 DEF IInv, TypeOK
    <3>2. OneInHand(f)'
      BY <3>1 DEF IInv, Orderly, OneInHand
    <3>3. CASE f # e
      <4>1. effects'[f] = effects[f]
        BY <1>1, <3>3 DEF IInv, TypeOK
      <4> QED
        BY <3>1, <3>2, <4>1 DEF IInv, Orderly, EventsOf
    <3>4. CASE f = e
      <4>1. effects[e] = 0
        BY <1>1, <3>4 DEF IInv, TypeOK, Orderly, EventsOf
      <4>2. effects'[f] = 1 /\ f \in seen'[c]
        BY <1>1, <2>1, <3>4, <4>1 DEF IInv, TypeOK
      <4>3. \A d \in Consumers : f \notin EventsOf(handling'[d])
        BY <1>1, <2>1, <3>4 DEF IInv, TypeOK, Orderly, OneInHand, EventsOf
      <4> QED
        BY <3>2, <4>2, <4>3
    <3> QED
      BY <3>3, <3>4
  <2>8. NothingLost'
    <3> SUFFICES ASSUME NEW n \in sent
                 PROVE  \/ n \in ready \cup UNION {Unacked(d)' : d \in Consumers}
                        \/ effects'[EventOf(n)] > 0
                        \/ EventOf(n) \in Refused
      BY <1>1 DEF NothingLost
    <3>1. CASE n = m
      BY <1>1, <3>1 DEF IInv, TypeOK
    <3>2. CASE n # m
      BY <1>2, <2>2, <3>2, EventOfMessage DEF IInv, TypeOK, NothingLost
    <3> QED
      BY <3>1, <3>2
  <2> QED
    BY <2>4, <2>5, <2>6, <2>7, <2>8 DEF IInv
<1>4. CASE link[c] = "lost"
  <2>1. Dies(c) /\ Unacked(c) = {} /\ e \in disturbed
    BY <1>1, <1>4 DEF HandlerEnds, Unacked, IInv, LostIsDisturbed, EventsOf
  <2>2. \A f \in Events \ disturbed : effects'[f] = effects[f]
    BY <1>1, <2>1 DEF IInv, TypeOK
  <2> QED
    BY <1>1, <1>2, <2>1, <2>2, DiesStep DEF IInv, TypeOK
<1> QED
  BY <1>3, <1>4 DEF HandlerEnds

\* A handler that throws puts its message back, since no retry is the last.
LEMMA HandlerFailsStep ==
  ASSUME IInv, NEW c \in Consumers, NEW m \in Messages, HandlerFails(c, m)
  PROVE  IInv'
<1>1. /\ m \in handling[c] /\ faults' \in 0 .. MaxFaults
      /\ UNCHANGED <<sent, effects>>
  BY BoundsAssumption DEF HandlerFails, Fault, IInv, TypeOK
<1>2. CASE link[c] = "up"
  <2>1. /\ handling' = [handling EXCEPT ![c] = @ \ {m}]
        /\ ready' = ready \cup {m}
        /\ UNCHANGED <<link, seen, disturbed>>
    BY <1>2, AlwaysRequeued DEF HandlerFails
  <2>2. /\ Unacked(c)' = Unacked(c) \ {m} /\ m \in Unacked(c)
        /\ \A d \in Consumers \ {c} : Unacked(d)' = Unacked(d)
    BY <1>1, <1>2, <2>1 DEF Unacked, IInv, TypeOK
  <2>3. IsFiniteSet(handling'[c]) /\ Cardinality(handling'[c]) <= Prefetch
    BY <2>1, FS_Subset, FS_CardinalityType, BoundsAssumption DEF IInv, HandsOK, TypeOK
  <2>4. TypeOK'
    <3>1. /\ handling' \in [Consumers -> SUBSET sent'] /\ ready' \subseteq sent'
          /\ \A d \in Consumers : Cardinality(handling'[d]) <= Prefetch
      BY <1>1, <2>1, <2>3 DEF IInv, TypeOK
    <3>2. \A d \in Consumers :
            /\ Unacked(d)' \cap ready' = {}
            /\ \A f \in Consumers \ {d} : Unacked(d)' \cap Unacked(f)' = {}
      BY <2>1, <2>2 DEF IInv, TypeOK
    <3> QED
      BY <1>1, <2>1, <3>1, <3>2 DEF IInv, TypeOK
  <2>5. HandsOK' /\ LostIsDisturbed' /\ SeenWasHandled'
    BY <1>1, <1>2, <2>1, <2>3
       DEF IInv, HandsOK, LostIsDisturbed, SeenWasHandled, EventsOf, TypeOK
  <2>6. Orderly'
    <3>1. \A d \in Consumers : handling'[d] \subseteq handling[d]
      BY <2>1 DEF IInv, TypeOK
    <3> QED
      BY <1>1, <2>1, <3>1 DEF IInv, Orderly, OneInHand, EventsOf
  <2>7. NothingLost'
    BY <1>1, <2>1, <2>2 DEF IInv, NothingLost
  <2> QED
    BY <2>4, <2>5, <2>6, <2>7 DEF IInv
<1>3. CASE link[c] = "lost"
  <2>1. Dies(c) /\ ready' = ready \cup Unacked(c)
    BY <1>3 DEF HandlerFails, Unacked
  <2>2. effects' \in [Events -> Nat] /\ \A f \in Events : effects'[f] >= effects[f]
    BY <1>1 DEF IInv, TypeOK
  <2> QED
    BY <1>1, <2>1, <2>2, DiesStep
<1> QED
  BY <1>2, <1>3 DEF HandlerFails

\* A process crashes.
LEMMA CrashStep ==
  ASSUME IInv, NEW c \in Consumers, Crash(c)
  PROVE  IInv'
<1>1. /\ Dies(c) /\ ready' = ready \cup Unacked(c) /\ faults' \in 0 .. MaxFaults
      /\ UNCHANGED <<sent, effects>>
  BY BoundsAssumption DEF Crash, Fault, IInv, TypeOK
<1>2. effects' \in [Events -> Nat] /\ \A f \in Events : effects'[f] >= effects[f]
  BY <1>1 DEF IInv, TypeOK
<1> QED
  BY <1>1, <1>2, DiesStep

\* An event is forgotten.
LEMMA ForgetStep ==
  ASSUME IInv, NEW c \in Consumers, NEW e \in Events, Forget(c, e)
  PROVE  IInv'
<1>1. /\ seen' = [seen EXCEPT ![c] = @ \ {e}] /\ disturbed' = disturbed \cup {e}
      /\ faults' \in 0 .. MaxFaults
      /\ UNCHANGED <<sent, ready, link, handling, effects>>
  BY BoundsAssumption DEF Forget, Fault, IInv, TypeOK
<1>2. \A d \in Consumers : Unacked(d)' = Unacked(d)
  BY <1>1 DEF Unacked
<1>3. TypeOK'
  BY <1>1, <1>2 DEF IInv, TypeOK
<1>4. HandsOK' /\ SeenWasHandled' /\ LostIsDisturbed'
  BY <1>1 DEF IInv, HandsOK, SeenWasHandled, LostIsDisturbed, EventsOf, TypeOK
<1>5. Orderly'
  BY <1>1 DEF IInv, Orderly, OneInHand, EventsOf, TypeOK
<1>6. NothingLost'
  BY <1>1, <1>2 DEF IInv, NothingLost
<1> QED
  BY <1>3, <1>4, <1>5, <1>6 DEF IInv

\* A connection is lost: what is in hand is queued again, and excused.
LEMMA DisconnectStep ==
  ASSUME IInv, NEW c \in Consumers, Disconnect(c)
  PROVE  IInv'
<1>1. /\ link[c] = "up" /\ link' = [link EXCEPT ![c] = "lost"]
      /\ ready' = ready \cup handling[c]
      /\ disturbed' = disturbed \cup EventsOf(handling[c])
      /\ faults' \in 0 .. MaxFaults
      /\ UNCHANGED <<sent, handling, seen, effects>>
  BY BoundsAssumption DEF Disconnect, Fault, IInv, TypeOK
<1>2. /\ Unacked(c)' = {} /\ Unacked(c) = handling[c]
      /\ \A d \in Consumers \ {c} : Unacked(d)' = Unacked(d)
  BY <1>1 DEF Unacked, IInv, TypeOK
<1>3. TypeOK'
  <2>1. EventsOf(handling[c]) \subseteq Events
    BY EventOfMessage DEF EventsOf, IInv, TypeOK
  <2>2. \A d \in Consumers :
          /\ Unacked(d)' \cap ready' = {}
          /\ \A f \in Consumers \ {d} : Unacked(d)' \cap Unacked(f)' = {}
    BY <1>1, <1>2 DEF IInv, TypeOK
  <2> QED
    BY <1>1, <2>1, <2>2 DEF IInv, TypeOK
<1>4. HandsOK' /\ SeenWasHandled' /\ LostIsDisturbed'
  BY <1>1 DEF IInv, HandsOK, SeenWasHandled, LostIsDisturbed, EventsOf, TypeOK
<1>5. Orderly'
  BY <1>1 DEF IInv, Orderly, OneInHand
<1>6. NothingLost'
  BY <1>1, <1>2 DEF IInv, NothingLost
<1> QED
  BY <1>3, <1>4, <1>5, <1>6 DEF IInv

\* A process starts with nothing in hand.
LEMMA RestartStep ==
  ASSUME IInv, NEW c \in Consumers, Revive(c)
  PROVE  IInv'
<1>1. /\ link[c] = "down" /\ link' = [link EXCEPT ![c] = "up"]
      /\ handling[c] = {}
      /\ UNCHANGED <<sent, ready, handling, seen, effects, disturbed, faults>>
  BY DEF Revive, IInv, HandsOK
<1>2. \A d \in Consumers : Unacked(d)' = Unacked(d)
  BY <1>1 DEF Unacked, IInv, TypeOK
<1>3. TypeOK'
  BY <1>1, <1>2 DEF IInv, TypeOK
<1>4. HandsOK' /\ SeenWasHandled' /\ LostIsDisturbed'
  BY <1>1 DEF IInv, HandsOK, SeenWasHandled, LostIsDisturbed, EventsOf, TypeOK
<1>5. Orderly' /\ NothingLost'
  BY <1>1, <1>2 DEF IInv, Orderly, OneInHand, EventsOf, NothingLost
<1> QED
  BY <1>3, <1>4, <1>5 DEF IInv

-----------------------------------------------------------------------------
\* Every step keeps the invariant.
LEMMA NextInv == IInv /\ [Next]_vars => IInv'
<1> SUFFICES ASSUME IInv, [Next]_vars
             PROVE  IInv'
  OBVIOUS
<1>1. ASSUME NEW m \in Messages, Publish(m)
      PROVE  IInv'
  BY <1>1, PublishStep
<1>2. ASSUME NEW c \in Consumers, NEW m \in Messages, Deliver(c, m)
      PROVE  IInv'
  BY <1>2, SkipStep, StartHandlingStep DEF Deliver
<1>3. ASSUME NEW c \in Consumers, NEW m \in Messages,
             HandlerEnds(c, m) \/ HandlerFails(c, m)
      PROVE  IInv'
  BY <1>3, HandlerEndsStep, HandlerFailsStep
<1>4. ASSUME NEW c \in Consumers, NEW e \in Events, Forget(c, e)
      PROVE  IInv'
  BY <1>4, ForgetStep
<1>5. ASSUME NEW c \in Consumers, Disconnect(c) \/ Crash(c) \/ Revive(c)
      PROVE  IInv'
  BY <1>5, DisconnectStep, CrashStep, RestartStep
<1>6. CASE UNCHANGED vars
  <2>1. \A c \in Consumers : Unacked(c)' = Unacked(c)
    BY <1>6 DEF vars, Unacked
  <2>2. TypeOK' /\ NothingLost'
    BY <1>6, <2>1 DEF vars, IInv, TypeOK, NothingLost
  <2>3. HandsOK' /\ SeenWasHandled' /\ LostIsDisturbed' /\ Orderly'
    BY <1>6 DEF vars, IInv, HandsOK, SeenWasHandled, LostIsDisturbed, Orderly,
                OneInHand, EventsOf
  <2> QED
    BY <2>2, <2>3 DEF IInv
<1> QED
  BY <1>1, <1>2, <1>3, <1>4, <1>5, <1>6 DEF Next

\* The invariant holds of every reachable state.
THEOREM Invariant == Spec => []IInv
<1> QED
  BY InitInv, NextInv, PTL DEF Spec

\* Typed; a message is in one place, and no process exceeds its prefetch.
THEOREM TypeCorrect == Spec => []TypeOK
<1>1. IInv => TypeOK
  BY DEF IInv
<1> QED
  BY <1>1, Invariant, PTL

\* No admitted message is lost, whatever fails and however often.
THEOREM NothingIsLost == Spec => []NothingLost
<1>1. IInv => NothingLost
  BY DEF IInv
<1> QED
  BY <1>1, Invariant, PTL

\* The four excuses are the only ways to a second effect.
THEOREM TwiceOnlyWhenDisturbed == Spec => []TwiceOnlyIfDisturbed
<1>1. IInv => TwiceOnlyIfDisturbed
  BY DEF IInv, TypeOK, Orderly, TwiceOnlyIfDisturbed
<1> QED
  BY <1>1, Invariant, PTL
=============================================================================
