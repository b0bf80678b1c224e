-------------------------- MODULE NotifyQueueProofs -------------------------
(* Theorems about NotifyQueue for every value of its constants, checked by *)
(* TLAPS.                                                                  *)
EXTENDS NotifyQueue, FiniteSetTheorems, WellFoundedInduction, TLAPS

-----------------------------------------------------------------------------
\* The inductive invariant.

QueueType == [batch : SUBSET Events, last : Nat, alerts : SUBSET AlertType, sequence : Nat]

\* A queue, of events up to p: each event is in one place.
Sound(q, p) ==
    /\ q \in QueueType /\ IsFiniteSet(q.alerts)
    /\ \A a \in q.alerts : a.id <= q.sequence
    /\ \A a, b \in q.alerts : a.id = b.id => a = b
    /\ q.batch \subseteq 1..p
    /\ \A a \in q.alerts : a.events \subseteq 1..p /\ a.events \cap q.batch = {}
    /\ \A a, b \in q.alerts : a # b => a.events \cap b.events = {}

\* The flush visits alerts that are there; who has answered was asked.
Visits ==
    /\ pc \in {"idle", "flush", "deliver", "done"} /\ snap \subseteq Ids(queue)
    /\ ~up => pc = "idle"
    /\ pc = "idle" => snap = {}
    /\ pc # "deliver" => results = NoResults
    /\ pc = "deliver" => /\ snap # {} /\ DOMAIN results \subseteq Targets
                         /\ \A c \in DOMAIN results : results[c] \in Outcomes

\* A queue asks for a delivery; a delivery has just been answered, which no queue knows yet.
Asks(q, d)  == d[1] \in q.batch \/ \E a \in q.alerts : d[1] \in a.events /\ d[2] \in a.pending
Answered(d) == pc = "deliver" /\ d[1] \in Item.events /\ d[2] \in DOMAIN results /\ results[d[2]].kind = "ok"

\* What is still asked for was received once for each fault at most.
Counts ==
    \A d \in Deliveries :
        /\ got[d] <= 1 + faults
        /\ got[d] > 0 => d[1] <= put
        /\ (Asks(queue, d) \/ Asks(disk, d)) /\ ~Answered(d) => got[d] <= faults

Scalars ==
    /\ clock \in Nat /\ up \in BOOLEAN /\ once \in BOOLEAN /\ enabled \in Setups
    /\ got \in [Deliveries -> Nat] /\ put \in 0..MaxEvents
    /\ kept \subseteq Events /\ given \subseteq Deliveries /\ faults \in Nat

Queues == Sound(queue, put) /\ Sound(disk, put) /\ QueueBounded

IInv == Scalars /\ Queues /\ Visits /\ Counts

-----------------------------------------------------------------------------
\* Numbers.

\* A set of numbers that is not empty has a least one.
LEMMA LeastIsMember ==
  ASSUME NEW S, S \subseteq Nat, S # {}
  PROVE  Least(S) \in S
<1> DEFINE R == OpToRel(<, Nat)
<1>1. IsWellFoundedOn(R, Nat)
  BY NatLessThanWellFounded
<1>2. \A a, b \in Nat : a < b => <<a, b>> \in R
  BY DEF OpToRel
<1> HIDE DEF R
<1>3. PICK x \in S : \A y \in S : ~ (<<y, x>> \in R)
  BY <1>1, WFMin
<1>4. \A y \in S : x <= y
  <2> SUFFICES ASSUME NEW y \in S PROVE x <= y
    OBVIOUS
  <2>1. x \in Nat /\ y \in Nat /\ ~ (y < x)
    BY <1>2, <1>3
  <2> QED BY <2>1
<1> QED BY <1>3, <1>4 DEF Least

LEMMA PowerOfTwo ==
  ASSUME NEW n \in 0..6 PROVE 2^n \in Nat
<1>1. n = 0 \/ n = 1 \/ n = 2 \/ n = 3 \/ n = 4 \/ n = 5 \/ n = 6
  OBVIOUS
<1>2. 2^0 = 1 /\ 2^1 = 2 /\ 2^2 = 4 /\ 2^3 = 8 /\ 2^4 = 16 /\ 2^5 = 32 /\ 2^6 = 64
  OBVIOUS
<1>3. 2^n \in {1, 2, 4, 8, 16, 32, 64}
  BY <1>1, <1>2, Zenon
<1> QED BY <1>3

\* A retry is scheduled at a time.
LEMMA DelayIsTime ==
  ASSUME NEW n \in Nat \ {0}, NEW asked \in Nat
  PROVE  Delay(n, asked) \in Nat
<1>1. Hour \in Nat /\ Lifetime \in Nat
  BY QueueAssumption
<1>2. Backoff(n) \in Nat
  <2>1. CASE n > 7
    BY <1>1, <2>1 DEF Backoff, Smaller
  <2>2. CASE ~(n > 7)
    <3>1. n - 1 \in 0..6
      BY <2>2
    <3>2. 2^(n - 1) \in Nat
      BY <3>1, PowerOfTwo
    <3> HIDE DEF Smaller
    <3>3. Backoff(n) = Smaller(2^(n - 1), Hour)
      BY <2>2 DEF Backoff
    <3>4. \A x \in Nat : Smaller(x, Hour) \in Nat
      BY <1>1 DEF Smaller
    <3> QED BY <3>2, <3>3, <3>4
  <2> QED BY <2>1, <2>2
<1> QED BY <1>1, <1>2 DEF Delay, Smaller, Larger

-----------------------------------------------------------------------------
\* What the operators on queues keep.

LEMMA Enabled ==
  ASSUME Scalars PROVE enabled \subseteq Channels /\ clock \in Nat
BY QueueAssumption DEF Scalars

LEMMA EnqueueFields ==
  ASSUME Scalars, NEW q \in QueueType, NEW E \in SUBSET Events
  PROVE  /\ Enqueue(q, E) \in QueueType
         /\ Enqueue(q, E).batch = q.batch /\ Enqueue(q, E).last = q.last
         /\ Enqueue(q, E).alerts = IF enabled = {} THEN q.alerts
                                   ELSE q.alerts \cup {NewAlert(q.sequence + 1, E)}
         /\ Enqueue(q, E).sequence = IF enabled = {} THEN q.sequence ELSE q.sequence + 1
<1>1. q.sequence + 1 \in Nat
  BY DEF QueueType
<1>2. NewAlert(q.sequence + 1, E) \in AlertType
  BY <1>1, Enabled DEF NewAlert, AlertType
<1> HIDE DEF NewAlert
<1> QED BY <1>1, <1>2 DEF Enqueue, QueueType

LEMMA NewAlertFields ==
  ASSUME NEW i, NEW E
  PROVE  NewAlert(i, E).id = i /\ NewAlert(i, E).events = E /\ NewAlert(i, E).pending = enabled
BY DEF NewAlert

\* One more alert, of events that are in no other; r is a queue with these fields.
LEMMA OneMore ==
  ASSUME Scalars, NEW p \in Nat, NEW q, Sound(q, p), NEW E \in SUBSET Events, E \subseteq 1..p,
         \A a \in q.alerts : a.events \cap E = {},
         NEW r \in QueueType, r.batch \subseteq q.batch, r.batch \cap E = {},
         r.alerts = Enqueue(q, E).alerts, r.sequence = Enqueue(q, E).sequence
  PROVE  /\ Sound(r, p) /\ q.alerts \subseteq r.alerts
         /\ Cardinality(r.alerts) <= Cardinality(q.alerts) + 1
         /\ \A d \in Deliveries : Asks(r, d) => Asks(q, d) \/ d[1] \in E
<1> DEFINE n == NewAlert(q.sequence + 1, E)
<1>1. q \in QueueType /\ q.sequence \in Nat
  BY DEF Sound, QueueType
<1>2. /\ r.alerts = IF enabled = {} THEN q.alerts ELSE q.alerts \cup {n}
      /\ r.sequence = IF enabled = {} THEN q.sequence ELSE q.sequence + 1
  BY <1>1, EnqueueFields
<1>3. n.id = q.sequence + 1 /\ n.events = E /\ n.pending = enabled
  BY NewAlertFields
<1> HIDE DEF n
<1>4. \A a \in q.alerts : a.id \in Nat /\ a.id <= q.sequence
  BY <1>1 DEF Sound, QueueType, AlertType
<1>5. /\ IsFiniteSet(r.alerts) /\ Cardinality(q.alerts) \in Nat
      /\ Cardinality(r.alerts) <= Cardinality(q.alerts) + 1
  <2>1. IsFiniteSet(q.alerts) /\ Cardinality(q.alerts) \in Nat
    BY FS_CardinalityType DEF Sound
  <2>2. /\ IsFiniteSet(q.alerts \cup {n})
        /\ Cardinality(q.alerts \cup {n}) = IF n \in q.alerts THEN Cardinality(q.alerts)
                                            ELSE Cardinality(q.alerts) + 1
    BY <2>1, FS_AddElement
  <2> QED BY <1>2, <2>1, <2>2
<1>6. CASE enabled = {}
  BY <1>1, <1>2, <1>5, <1>6 DEF Sound, Asks
<1>7. CASE enabled # {}
  <2>1. r.alerts = q.alerts \cup {n} /\ r.sequence = q.sequence + 1
    BY <1>2, <1>7
  <2>2. \A a \in r.alerts : a.id <= r.sequence
    BY <1>1, <1>3, <1>4, <2>1
  <2>3. \A a \in q.alerts : a.id # n.id
    BY <1>1, <1>3, <1>4
  <2>4. \A a, b \in r.alerts : a.id = b.id => a = b
    BY <2>1, <2>3 DEF Sound
  <2>5. \A a \in r.alerts : a.events \subseteq 1..p /\ a.events \cap r.batch = {}
    BY <1>3, <2>1 DEF Sound
  <2>6. \A a, b \in r.alerts : a # b => a.events \cap b.events = {}
    BY <1>3, <2>1 DEF Sound
  <2>7. Sound(r, p)
    BY <1>5, <2>2, <2>4, <2>5, <2>6 DEF Sound
  <2>8. \A d \in Deliveries : Asks(r, d) => Asks(q, d) \/ d[1] \in E
    BY <1>3, <2>1 DEF Asks
  <2> QED BY <1>5, <2>1, <2>7, <2>8
<1> QED BY <1>6, <1>7

\* The batch becomes an alert.
LEMMA BatchToQueueSound ==
  ASSUME Scalars, NEW p \in Nat, NEW q, Sound(q, p)
  PROVE  LET r == BatchToQueue(q)
         IN  /\ Sound(r, p) /\ q.alerts \subseteq r.alerts /\ r.batch = {}
             /\ Cardinality(r.alerts) <= Cardinality(q.alerts) + IF q.batch = {} THEN 0 ELSE 1
             /\ \A d \in Deliveries : Asks(r, d) => Asks(q, d)
<1> DEFINE r == BatchToQueue(q)
<1>1. q \in QueueType /\ q.batch \in SUBSET Events /\ Cardinality(q.alerts) \in Nat
  BY FS_CardinalityType DEF Sound, QueueType
<1>2. CASE q.batch = {}
  BY <1>1, <1>2 DEF BatchToQueue
<1>3. CASE q.batch # {}
  <2> DEFINE m == Enqueue(q, q.batch)
  <2>1. m \in QueueType
    BY <1>1, EnqueueFields
  <2>2. r = [m EXCEPT !.batch = {}, !.last = clock]
    BY <1>3 DEF BatchToQueue
  <2> HIDE DEF m
  <2>3. r \in QueueType /\ r.batch = {} /\ r.alerts = m.alerts /\ r.sequence = m.sequence
    BY <2>1, <2>2, Enabled DEF QueueType
  <2> HIDE DEF r
  <2>4. q.batch \subseteq 1..p /\ \A a \in q.alerts : a.events \cap q.batch = {}
    BY DEF Sound
  <2>5. /\ Sound(r, p) /\ q.alerts \subseteq r.alerts
        /\ Cardinality(r.alerts) <= Cardinality(q.alerts) + 1
        /\ \A d \in Deliveries : Asks(r, d) => Asks(q, d) \/ d[1] \in q.batch
    BY <1>1, <2>3, <2>4, OneMore DEF m
  <2> QED BY <1>3, <2>3, <2>5 DEF r, Asks
<1> QED BY <1>2, <1>3

\* One more event waits.
LEMMA JoinSound ==
  ASSUME Scalars, NEW p \in Nat, NEW q, Sound(q, p), NEW e \in Events, e = p + 1
  PROVE  LET r == Join(q, e)
         IN  /\ Sound(r, p + 1) /\ r.alerts = q.alerts /\ r.batch = q.batch \cup {e}
             /\ \A d \in Deliveries : Asks(r, d) => Asks(q, d) \/ d[1] = e
<1> DEFINE r == Join(q, e)
<1>1. q \in QueueType
  BY DEF Sound
<1>2. r \in QueueType /\ r.alerts = q.alerts /\ r.batch = q.batch \cup {e} /\ r.sequence = q.sequence
  BY <1>1, Enabled DEF Join, QueueType
<1> HIDE DEF r
<1>3. \A i \in 1..p : i \in 1..(p + 1) /\ i # e
  OBVIOUS
<1>4. e \in 1..(p + 1)
  OBVIOUS
<1>5. \A a \in q.alerts : a.events \subseteq 1..p /\ a.events \cap q.batch = {}
  BY DEF Sound
<1>6. \A a \in r.alerts : a.events \subseteq 1..(p + 1) /\ a.events \cap r.batch = {}
  BY <1>2, <1>3, <1>5
<1>7. r.batch \subseteq 1..(p + 1)
  BY <1>2, <1>3, <1>4 DEF Sound
<1>8. Sound(r, p + 1)
  BY <1>2, <1>6, <1>7 DEF Sound
<1> QED BY <1>2, <1>8 DEF r, Asks

LEMMA SoundLater ==
  ASSUME NEW p \in Nat, NEW q, Sound(q, p)
  PROVE  Sound(q, p + 1)
<1>1. \A i \in 1..p : i \in 1..(p + 1)
  OBVIOUS
<1> QED BY <1>1 DEF Sound

\* The event takes its place, and the limit is overrun by one alert at most.
LEMMA TakeSound ==
  ASSUME Scalars, NEW p \in Nat, NEW q, Sound(q, p), Cardinality(q.alerts) < Cap,
         NEW e \in Events, e = p + 1, NEW direct \in BOOLEAN
  PROVE  LET r == Take(q, e, direct)
         IN  /\ Sound(r, p + 1) /\ q.alerts \subseteq r.alerts /\ Bounded(r)
             /\ \A d \in Deliveries : Asks(r, d) => Asks(q, d) \/ d[1] = e
<1> DEFINE r == Take(q, e, direct)
<1>1. Cap \in Nat /\ Cardinality(q.alerts) \in Nat
  BY QueueAssumption, FS_CardinalityType DEF Sound
<1>2. q \in QueueType
  BY DEF Sound
<1>3. CASE direct
  <2>1. r = Enqueue(q, {e})
    BY <1>3 DEF Take
  <2> HIDE DEF r
  <2>2. r \in QueueType /\ r.batch = q.batch
    BY <1>2, <2>1, EnqueueFields
  <2>3. Sound(q, p + 1) /\ p + 1 \in Nat /\ {e} \in SUBSET Events /\ {e} \subseteq 1..(p + 1)
    BY SoundLater
  <2>4. e \notin q.batch /\ \A a \in q.alerts : a.events \cap {e} = {}
    <3>1. e \notin 1..p
      OBVIOUS
    <3> QED BY <3>1 DEF Sound
  <2>5. /\ Sound(r, p + 1) /\ q.alerts \subseteq r.alerts
        /\ Cardinality(r.alerts) <= Cardinality(q.alerts) + 1
        /\ \A d \in Deliveries : Asks(r, d) => Asks(q, d) \/ d[1] \in {e}
    <3>1. r.batch \subseteq q.batch /\ r.batch \cap {e} = {}
      BY <2>2, <2>4
    <3> QED BY <2>1, <2>2, <2>3, <2>4, <3>1, OneMore
  <2>6. Cardinality(r.alerts) \in Nat
    BY <2>5, FS_CardinalityType DEF Sound
  <2>7. Cardinality(r.alerts) <= Cap
    BY <1>1, <2>5, <2>6
  <2>8. Bounded(r)
    BY <1>1, <2>6, <2>7 DEF Bounded
  <2> QED BY <2>5, <2>8 DEF r
<1>4. CASE ~direct
  <2> DEFINE j == Join(q, e)
             b == BatchToQueue(j)
  <2>1. /\ Sound(j, p + 1) /\ j.alerts = q.alerts /\ j.batch = q.batch \cup {e}
        /\ \A d \in Deliveries : Asks(j, d) => Asks(q, d) \/ d[1] = e
    BY JoinSound
  <2>2. r \in {j, b}
    BY <1>4 DEF Take
  <2> HIDE DEF r, j
  <2>3. /\ Sound(b, p + 1) /\ j.alerts \subseteq b.alerts /\ b.batch = {}
        /\ Cardinality(b.alerts) <= Cardinality(j.alerts) + 1
        /\ \A d \in Deliveries : Asks(b, d) => Asks(j, d)
    <3>1. p + 1 \in Nat
      OBVIOUS
    <3>2. j.batch # {}
      BY <2>1
    <3> QED BY <2>1, <3>1, <3>2, BatchToQueueSound
  <2> HIDE DEF b
  <2>4. Cardinality(b.alerts) \in Nat
    BY <2>3, FS_CardinalityType DEF Sound
  <2>5. Bounded(j) /\ Bounded(b)
    BY <1>1, <2>1, <2>3, <2>4 DEF Bounded
  <2> QED BY <2>1, <2>2, <2>3, <2>5 DEF r
<1> QED BY <1>3, <1>4

\* An alert leaves.
LEMMA WithoutSound ==
  ASSUME NEW p \in Nat, Sound(queue, p), NEW a \in queue.alerts
  PROVE  LET r == Without(a)
         IN  /\ Sound(r, p) /\ r.batch = queue.batch /\ r.alerts = queue.alerts \ {a}
             /\ Cardinality(r.alerts) <= Cardinality(queue.alerts)
             /\ \A d \in Deliveries : Asks(r, d) => Asks(queue, d)
<1> DEFINE r == Without(a)
<1>1. queue \in QueueType /\ IsFiniteSet(queue.alerts)
  BY DEF Sound
<1>2. r \in QueueType /\ r.batch = queue.batch /\ r.alerts = queue.alerts \ {a} /\ r.sequence = queue.sequence
  BY <1>1 DEF Without, QueueType
<1> HIDE DEF r
<1>3. r.alerts \in SUBSET queue.alerts
  BY <1>2
<1>4. IsFiniteSet(r.alerts) /\ Cardinality(r.alerts) <= Cardinality(queue.alerts)
  BY <1>1, <1>3, FS_Subset
<1>5. Sound(r, p)
  BY <1>2, <1>4 DEF Sound
<1>6. \A d \in Deliveries : Asks(r, d) => Asks(queue, d)
  BY <1>2 DEF Asks
<1> QED BY <1>2, <1>4, <1>5, <1>6 DEF r

\* An alert waits for those of its channels that failed.
LEMMA ReplacingSound ==
  ASSUME NEW p \in Nat, Sound(queue, p), NEW a \in queue.alerts,
         NEW b \in AlertType, b.id = a.id, b.events = a.events, b.pending \subseteq a.pending
  PROVE  LET r == Replacing(a, b)
         IN  /\ Sound(r, p) /\ r.batch = queue.batch /\ r.alerts = (queue.alerts \ {a}) \cup {b}
             /\ Cardinality(r.alerts) <= Cardinality(queue.alerts)
             /\ \A d \in Deliveries : Asks(r, d) => Asks(queue, d)
<1> DEFINE r == Replacing(a, b)
           s == queue.alerts \ {a}
<1>1. queue \in QueueType /\ IsFiniteSet(queue.alerts)
  BY DEF Sound
<1>2. r \in QueueType /\ r.batch = queue.batch /\ r.alerts = s \cup {b} /\ r.sequence = queue.sequence
  BY <1>1 DEF Replacing, QueueType
<1> HIDE DEF r
<1>3. IsFiniteSet(s) /\ Cardinality(s) = Cardinality(queue.alerts) - 1
  BY <1>1, FS_RemoveElement
<1> HIDE DEF s
<1>4. IsFiniteSet(r.alerts) /\ Cardinality(r.alerts) <= Cardinality(queue.alerts)
  <2>1. Cardinality(s) \in Nat /\ Cardinality(queue.alerts) \in Nat
    BY <1>1, <1>3, FS_CardinalityType
  <2>2. /\ IsFiniteSet(s \cup {b})
        /\ Cardinality(s \cup {b}) = IF b \in s THEN Cardinality(s) ELSE Cardinality(s) + 1
    BY <1>3, FS_AddElement
  <2> QED BY <1>2, <1>3, <2>1, <2>2
<1> USE DEF s
<1>5. \A x, y \in r.alerts : x.id = y.id => x = y
  BY <1>2 DEF Sound
<1>6. \A x, y \in r.alerts : x # y => x.events \cap y.events = {}
  BY <1>2 DEF Sound
<1>7. \A x \in r.alerts : x.id <= r.sequence /\ x.events \subseteq 1..p /\ x.events \cap r.batch = {}
  BY <1>2 DEF Sound
<1>8. Sound(r, p)
  BY <1>2, <1>4, <1>5, <1>6, <1>7 DEF Sound
<1>9. \A d \in Deliveries : Asks(r, d) => Asks(queue, d)
  BY <1>2 DEF Asks
<1> QED BY <1>2, <1>4, <1>8, <1>9 DEF r

LEMMA EmptyQueueSound ==
  ASSUME NEW p \in Nat
  PROVE  Sound(EmptyQueue, p) /\ Bounded(EmptyQueue) /\ \A d \in Deliveries : ~Asks(EmptyQueue, d)
<1>1. /\ EmptyQueue \in QueueType /\ EmptyQueue.alerts = {} /\ EmptyQueue.batch = {}
      /\ EmptyQueue.sequence = 0
  BY DEF EmptyQueue, QueueType
<1> QED BY <1>1, FS_EmptySet, QueueAssumption DEF Sound, Bounded, Asks

\* A queue of fewer alerts, and no new batch, is bounded like the old one.
LEMMA FewerBounded ==
  ASSUME NEW p \in Nat, Sound(queue, p), Bounded(queue), NEW r, Sound(r, p),
         r.batch = queue.batch, Cardinality(r.alerts) <= Cardinality(queue.alerts)
  PROVE  Bounded(r)
BY FS_CardinalityType, QueueAssumption DEF Sound, Bounded

-----------------------------------------------------------------------------
\* The alert at hand.

LEMMA ItemFacts ==
  ASSUME IInv, snap # {}
  PROVE  Item \in queue.alerts /\ Item.id = Least(snap) /\ Item.id \in snap /\ Item \in AlertType
<1>1. queue.alerts \subseteq AlertType
  BY DEF IInv, Queues, Sound, QueueType
<1>2. snap \subseteq Ids(queue)
  BY DEF IInv, Visits
<1>3. snap \subseteq Nat
  BY <1>1, <1>2 DEF Ids, AlertType
<1>4. Least(snap) \in snap
  BY <1>3, LeastIsMember
<1>5. \E a \in queue.alerts : a.id = Least(snap)
  BY <1>2, <1>4 DEF Ids
<1>6. Item \in queue.alerts /\ Item.id = Least(snap)
  BY <1>5 DEF Item
<1> QED BY <1>1, <1>4, <1>6

\* More alerts do not change which one it is.
LEMMA ItemStays ==
  ASSUME IInv, snap # {}, snap' = snap, queue.alerts \subseteq queue'.alerts,
         \A a, b \in queue'.alerts : a.id = b.id => a = b
  PROVE  Item' = Item
<1>1. Item \in queue'.alerts /\ Item.id = Least(snap')
  BY ItemFacts
<1>2. Item' \in queue'.alerts /\ Item'.id = Least(snap')
  BY <1>1 DEF Item
<1> QED BY <1>1, <1>2

-----------------------------------------------------------------------------
\* What a step without deliveries does to the counts.

\* A fault allows one repetition more.
LEMMA CountsAfterFault ==
  ASSUME IInv, got' = got, put' \in Nat, put <= put', faults' = faults + 1
  PROVE  Counts'
<1>1. put \in Nat /\ faults \in Nat /\ \A d \in Deliveries : got[d] \in Nat /\ got[d] <= 1 + faults
                                                      /\ (got[d] > 0 => d[1] <= put)
  BY DEF IInv, Scalars, Counts
<1>2. \A d \in Deliveries : d[1] \in Nat
  BY DEF Deliveries, Events
<1> QED BY <1>1, <1>2 DEF Counts

\* Nothing is asked for that was not, but for the new event.
LEMMA CountsWithoutFault ==
  ASSUME IInv, got' = got, put' \in Nat, put <= put', faults' = faults,
         \A d \in Deliveries :
             (Asks(queue', d) \/ Asks(disk', d)) /\ ~Answered(d)' =>
                 ((Asks(queue, d) \/ Asks(disk, d)) /\ ~Answered(d)) \/ put < d[1]
  PROVE  Counts'
<1>1. put \in Nat /\ faults \in Nat /\ \A d \in Deliveries : got[d] \in Nat /\ got[d] <= 1 + faults
                                                      /\ (got[d] > 0 => d[1] <= put)
  BY DEF IInv, Scalars, Counts
<1>2. \A d \in Deliveries : d[1] \in Nat
  BY DEF Deliveries, Events
<1>3. \A d \in Deliveries : (Asks(queue, d) \/ Asks(disk, d)) /\ ~Answered(d) => got[d] <= faults
  BY DEF IInv, Counts
<1>4. \A d \in Deliveries : (Asks(queue', d) \/ Asks(disk', d)) /\ ~Answered(d)' => got[d] <= faults
  BY <1>1, <1>2, <1>3
<1> QED BY <1>1, <1>2, <1>4 DEF Counts

-----------------------------------------------------------------------------
\* Every step keeps the invariant.

LEMMA InitIInv == Init => IInv
<1> SUFFICES ASSUME Init PROVE IInv
  OBVIOUS
<1>1. put = 0 /\ 0 \in Nat /\ MaxEvents \in Nat /\ QueueAssumption
  BY QueueAssumption DEF Init
<1>2. Queues
  BY <1>1, EmptyQueueSound DEF Init, Queues, QueueBounded
<1>3. Scalars
  <2>1. got \in [Deliveries -> Nat]
    BY DEF Init
  <2>2. clock \in Nat /\ up \in BOOLEAN /\ once \in BOOLEAN /\ enabled \in Setups /\ faults \in Nat
    BY DEF Init
  <2>3. put \in 0..MaxEvents /\ kept \subseteq Events /\ given \subseteq Deliveries
    BY <1>1 DEF Init
  <2> QED BY <2>1, <2>2, <2>3 DEF Scalars
<1>4. Visits
  BY DEF Init, Visits
<1>5. \A d \in Deliveries : got[d] = 0
  BY DEF Init
<1>6. Counts
  BY <1>5 DEF Init, Counts
<1> QED BY <1>2, <1>3, <1>4, <1>6 DEF IInv

LEMMA QueueFacts ==
  ASSUME IInv
  PROVE  /\ Scalars /\ put \in Nat /\ Sound(queue, put) /\ Sound(disk, put) /\ Bounded(queue) /\ Bounded(disk)
         /\ queue.batch \subseteq Events /\ Cardinality(queue.alerts) \in Nat
BY FS_CardinalityType DEF IInv, Scalars, Queues, QueueBounded, Sound, QueueType

LEMMA NotifyStep ==
  ASSUME IInv, NEW e \in Events, NEW direct \in BOOLEAN, Notify(e, direct)
  PROVE  IInv'
<1>1. /\ e = put + 1 /\ put' = e /\ Cardinality(queue.alerts) < Cap /\ queue' = Take(queue, e, direct)
      /\ UNCHANGED <<clock, up, once, enabled, pc, snap, results, got, given>>
  BY QueueFacts, QueueAssumption DEF Notify, Offer, Full, flush
<1>2. \/ disk' = queue' /\ faults' = faults
      \/ disk' = disk /\ faults' = faults + 1
  BY DEF Notify, Persist, PersistFails, Fault
<1>3. kept' \subseteq Events
  BY DEF Notify, IInv, Scalars
<1>4. /\ Sound(queue', put') /\ queue.alerts \subseteq queue'.alerts /\ Bounded(queue')
      /\ \A d \in Deliveries : Asks(queue', d) => Asks(queue, d) \/ d[1] = e
  BY <1>1, QueueFacts, TakeSound
<1>5. Queues'
  <2>1. Sound(disk, put')
    BY <1>1, QueueFacts, SoundLater
  <2> QED BY <1>2, <1>4, <2>1, QueueFacts DEF Queues, QueueBounded, Bounded
<1>6. Scalars'
  <2>1. put' \in 0..MaxEvents
    BY <1>1, QueueAssumption DEF Events
  <2> QED BY <1>1, <1>2, <1>3, <2>1 DEF IInv, Scalars
<1>7. snap # {} => Item' = Item
  BY <1>1, <1>4, ItemStays DEF Sound
<1>8. Visits'
  BY <1>1, <1>4, <1>7 DEF IInv, Visits, Ids, Targets
<1>9. Counts'
  <2>1. put' \in Nat /\ put <= put' /\ put < e
    BY <1>1, QueueFacts
  <2>2. \A d \in Deliveries : Answered(d) => Answered(d)'
    BY <1>1, <1>7 DEF Answered, IInv, Visits
  <2>3. CASE faults' = faults + 1
    BY <1>1, <2>1, <2>3, CountsAfterFault
  <2>4. CASE disk' = queue' /\ faults' = faults
    BY <1>1, <1>4, <2>1, <2>2, <2>4, CountsWithoutFault
  <2> QED BY <1>2, <2>3, <2>4
<1> QED BY <1>5, <1>6, <1>8, <1>9 DEF IInv

LEMMA RefuseStep ==
  ASSUME IInv, NEW e \in Events, Refuse(e)
  PROVE  IInv'
<1>1. /\ e = put + 1 /\ put' = e
      /\ UNCHANGED <<clock, up, once, enabled, queue, disk, pc, snap, results, got, kept, given, faults>>
  BY DEF Refuse, Offer, flush
<1>2. put' \in 0..MaxEvents /\ put <= put' /\ put' \in Nat
  BY <1>1, QueueFacts, QueueAssumption DEF Events
<1>3. Sound(queue, put') /\ Sound(disk, put')
  BY <1>1, QueueFacts, SoundLater
<1>4. Item' = Item
  BY <1>1 DEF Item
<1>5. Queues'
  BY <1>1, <1>3 DEF IInv, Queues, QueueBounded, Bounded
<1>6. Scalars' /\ Visits'
  BY <1>1, <1>2, <1>4 DEF IInv, Scalars, Visits, Targets
<1>7. Counts'
  BY <1>1, <1>2, <1>4, CountsWithoutFault DEF Answered
<1> QED BY <1>5, <1>6, <1>7 DEF IInv

LEMMA StartFlushStep ==
  ASSUME IInv, StartFlush
  PROVE  IInv'
<1>1. /\ up /\ pc = "idle" /\ snap = {} /\ results = NoResults
      /\ UNCHANGED <<clock, up, once, enabled, results, got, put, kept, given>>
  BY DEF StartFlush, IInv, Visits
<1>2. \A d \in Deliveries : ~Answered(d)
  BY <1>1 DEF Answered
<1>3. CASE UNCHANGED <<queue, disk, faults>> /\ pc' = "flush" /\ snap' = Ids(queue)
  <2>1. Scalars' /\ Queues' /\ Visits'
    BY <1>1, <1>3 DEF IInv, Scalars, Queues, QueueBounded, Bounded, Visits
  <2>2. Counts'
    BY <1>1, <1>2, <1>3, QueueFacts, CountsWithoutFault
  <2> QED BY <2>1, <2>2 DEF IInv
<1>4. CASE /\ queue.batch # {} /\ queue' = BatchToQueue(queue)
           /\ \/ Persist /\ pc' = "flush" /\ snap' = Ids(queue')
              \/ PersistFails /\ Return
  <2>1. /\ Sound(queue', put) /\ queue'.batch = {}
        /\ Cardinality(queue'.alerts) <= Cardinality(queue.alerts) + 1
        /\ \A d \in Deliveries : Asks(queue', d) => Asks(queue, d)
    BY <1>4, QueueFacts, BatchToQueueSound
  <2>2. Bounded(queue')
    <3>1. Cardinality(queue'.alerts) \in Nat
      BY <2>1, FS_CardinalityType DEF Sound
    <3> QED BY <1>4, <2>1, <3>1, QueueFacts, QueueAssumption DEF Bounded
  <2>3. \/ disk' = queue' /\ faults' = faults /\ pc' = "flush" /\ snap' = Ids(queue')
        \/ disk' = disk /\ faults' = faults + 1 /\ pc' \in {"idle", "done"} /\ snap' = {}
    BY <1>4 DEF Persist, PersistFails, Fault, Return
  <2>4. Queues'
    BY <1>1, <2>1, <2>2, <2>3, QueueFacts DEF Queues, QueueBounded, Bounded
  <2>5. Scalars'
    BY <1>1, <2>3 DEF IInv, Scalars
  <2>6. Visits'
    BY <1>1, <2>3 DEF Visits, Ids
  <2>7. Counts'
    <3>1. CASE faults' = faults + 1
      BY <1>1, <3>1, QueueFacts, CountsAfterFault
    <3>2. CASE disk' = queue' /\ faults' = faults
      BY <1>1, <1>2, <2>1, <3>2, QueueFacts, CountsWithoutFault
    <3> QED BY <2>3, <3>1, <3>2
  <2> QED BY <2>4, <2>5, <2>6, <2>7 DEF IInv
<1> QED BY <1>3, <1>4 DEF StartFlush

\* The steps that change neither queue nor file, but for where the flush is.
LEMMA WalkStep ==
  ASSUME IInv, SkipUndue \/ StartDelivery \/ EndFlush
  PROVE  IInv'
<1>1. /\ UNCHANGED <<clock, up, once, enabled, queue, disk, results, got, put, kept, given, faults>>
      /\ pc = "flush" /\ snap' \subseteq snap
      /\ \/ pc' \in {"flush", "done"}
         \/ pc' = "idle" /\ snap' = {}
         \/ pc' = "deliver" /\ snap' = snap /\ snap # {}
  BY DEF SkipUndue, StartDelivery, EndFlush, Return, AtAlert
<1>2. up /\ results = NoResults /\ DOMAIN results = {}
  BY <1>1 DEF IInv, Visits, NoResults
<1>3. Scalars' /\ Queues'
  BY <1>1 DEF IInv, Scalars, Queues, QueueBounded, Bounded
<1>4. Visits'
  BY <1>1, <1>2 DEF IInv, Visits, Targets
<1>5. \A d \in Deliveries : ~Answered(d) /\ ~Answered(d)'
  BY <1>1, <1>2 DEF Answered
<1>6. Counts'
  BY <1>1, <1>5, QueueFacts, CountsWithoutFault
<1> QED BY <1>3, <1>4, <1>6 DEF IInv

LEMMA SendStep ==
  ASSUME IInv, NEW c \in Channels, NEW outcome \in Outcomes, NEW received \in BOOLEAN,
         Send(c, outcome, received)
  PROVE  IInv'
<1>1. /\ UNCHANGED <<clock, up, once, enabled, queue, disk, pc, snap, put, kept, given>>
      /\ pc = "deliver" /\ c \in Targets /\ c \notin DOMAIN results
      /\ outcome.kind = "ok" => received
      /\ \/ received /\ outcome.kind # "ok" /\ faults' = faults + 1
         \/ ~(received /\ outcome.kind # "ok") /\ faults' = faults
      /\ results' = [x \in DOMAIN results \cup {c} |-> IF x = c THEN outcome ELSE results[x]]
      /\ got' = [d \in Deliveries |->
                    IF received /\ d[1] \in Item.events /\ d[2] = c THEN got[d] + 1 ELSE got[d]]
  BY DEF Send, Fault
<1>2. snap # {} /\ Item' = Item /\ Item \in queue.alerts /\ c \in Item.pending
  <2>1. snap # {}
    BY <1>1 DEF IInv, Visits
  <2> QED BY <1>1, <2>1, ItemFacts DEF Item, Targets
<1>3. faults \in Nat /\ \A d \in Deliveries : got[d] \in Nat
  BY DEF IInv, Scalars
<1>4. DOMAIN results' = DOMAIN results \cup {c} /\ results'[c] = outcome
      /\ \A x \in DOMAIN results : results'[x] = results[x]
  BY <1>1
<1>5. Queues'
  BY <1>1 DEF IInv, Queues, QueueBounded, Bounded
<1>6. Scalars'
  <2>1. got' \in [Deliveries -> Nat]
    BY <1>1, <1>3
  <2>2. faults' \in Nat
    BY <1>1, <1>3
  <2> QED BY <1>1, <2>1, <2>2 DEF IInv, Scalars
<1>7. Visits'
  BY <1>1, <1>2, <1>4 DEF IInv, Visits, Targets
<1>8. \A d \in Deliveries : Answered(d) => d[2] # c /\ Answered(d)'
  BY <1>1, <1>2, <1>4 DEF Answered
<1>9. ASSUME NEW d \in Deliveries
      PROVE  /\ got'[d] <= 1 + faults'
             /\ got'[d] > 0 => d[1] <= put'
             /\ (Asks(queue, d) \/ Asks(disk, d)) /\ ~Answered(d)' => got'[d] <= faults'
  <2>1. /\ got[d] <= 1 + faults /\ (got[d] > 0 => d[1] <= put)
        /\ (Asks(queue, d) \/ Asks(disk, d)) /\ ~Answered(d) => got[d] <= faults
    BY DEF IInv, Counts
  <2>2. CASE received /\ d[1] \in Item.events /\ d[2] = c
    <3>1. Asks(queue, d) /\ ~Answered(d)
      BY <1>2, <1>8, <2>2 DEF Asks
    <3>2. got[d] <= faults /\ got'[d] = got[d] + 1
      BY <1>1, <2>1, <2>2, <3>1
    <3>3. outcome.kind = "ok" => Answered(d)'
      BY <1>1, <1>2, <1>4, <2>2 DEF Answered
    <3>4. d[1] <= put
      <4>1. Item.events \subseteq 1..put
        BY <1>2, QueueFacts DEF Sound
      <4> QED BY <2>2, <4>1, QueueFacts
    <3> QED BY <1>1, <1>3, <2>2, <3>2, <3>3, <3>4
  <2>3. CASE ~(received /\ d[1] \in Item.events /\ d[2] = c)
    <3>1. got'[d] = got[d] /\ faults' >= faults
      BY <1>1, <1>3, <2>3
    <3> QED BY <1>1, <1>3, <1>6, <1>8, <2>1, <3>1 DEF Scalars
  <2> QED BY <2>2, <2>3
<1>10. Counts'
  BY <1>1, <1>9 DEF Counts
<1> QED BY <1>5, <1>6, <1>7, <1>10 DEF IInv

\* After a change of the alert at hand alone, the flush goes on, or ends with a failed write.
LEMMA ContinueStep ==
  ASSUME IInv, pc \in {"flush", "deliver"}, snap # {}, Continue,
         UNCHANGED <<clock, up, once, enabled, got, put, kept>>, given' \subseteq Deliveries, results' = NoResults,
         Sound(queue', put), Bounded(queue'), queue.alerts \ {Item} \subseteq queue'.alerts,
         \A d \in Deliveries : Asks(queue', d) => Asks(queue, d) /\ ~Answered(d)
  PROVE  IInv'
<1>1. \/ disk' = queue' /\ faults' = faults /\ pc' = "flush" /\ snap' = snap \ {Item.id}
      \/ disk' = disk /\ faults' = faults + 1 /\ pc' \in {"idle", "done"} /\ snap' = {}
  BY DEF Continue, Persist, PersistFails, Fault, Return
<1>2. Queues'
  BY <1>1, QueueFacts DEF Queues, QueueBounded, Bounded
<1>3. Scalars'
  BY <1>1 DEF IInv, Scalars
<1>4. Visits'
  <2>1. up
    BY DEF IInv, Visits
  <2>2. snap \ {Item.id} \subseteq Ids(queue')
    BY DEF IInv, Visits, Ids
  <2> QED BY <1>1, <2>1, <2>2 DEF Visits
<1>5. Counts'
  <2>1. CASE faults' = faults + 1
    BY <2>1, QueueFacts, CountsAfterFault
  <2>2. CASE disk' = queue' /\ faults' = faults
    BY <2>2, QueueFacts, CountsWithoutFault
  <2> QED BY <1>1, <2>1, <2>2
<1> QED BY <1>2, <1>3, <1>4, <1>5 DEF IInv

LEMMA AcknowledgeStep ==
  ASSUME IInv, Acknowledge
  PROVE  IInv'
<1>1. /\ pc = "deliver" /\ snap # {} /\ DOMAIN results = Targets /\ Continue /\ results' = NoResults
      /\ UNCHANGED <<clock, up, once, enabled, got, put, kept>>
      /\ given' = given \cup (Item.events \X (Item.pending \ enabled))
      /\ \/ Failed = {} /\ queue' = Without(Item)
         \/ \E asked \in IF Asked = {} THEN {0} ELSE Asked : queue' = Replacing(Item, Retry(Item, asked))
  BY DEF Acknowledge, IInv, Visits
<1>2. Item \in queue.alerts /\ Item \in AlertType
  BY <1>1, ItemFacts
<1>3. given' \subseteq Deliveries
  BY <1>1, <1>2 DEF IInv, Scalars, AlertType, Deliveries
<1>4. Failed \subseteq Item.pending /\ \A c \in Failed : results[c].kind # "ok"
  BY <1>1 DEF Failed, Targets
<1>5. \A d \in Deliveries : d[1] \notin Item.events \/ d[2] \in Failed => ~Answered(d)
  BY <1>4 DEF Answered
<1>6. \A a \in queue.alerts : a # Item => a.events \cap Item.events = {}
  BY <1>2, QueueFacts DEF Sound
<1>7. Item.events \cap queue.batch = {}
  BY <1>2, QueueFacts DEF Sound
<1>8. CASE Failed = {} /\ queue' = Without(Item)
  <2>1. /\ Sound(queue', put) /\ queue'.batch = queue.batch /\ queue'.alerts = queue.alerts \ {Item}
        /\ Cardinality(queue'.alerts) <= Cardinality(queue.alerts)
        /\ \A d \in Deliveries : Asks(queue', d) => Asks(queue, d)
    BY <1>2, <1>8, QueueFacts, WithoutSound
  <2>2. Bounded(queue')
    BY <2>1, QueueFacts, FewerBounded
  <2>3. \A d \in Deliveries : Asks(queue', d) => ~Answered(d)
    BY <1>5, <1>6, <1>7, <2>1 DEF Asks
  <2> QED BY <1>1, <1>3, <2>1, <2>2, <2>3, ContinueStep
<1>9. CASE \E asked \in IF Asked = {} THEN {0} ELSE Asked : queue' = Replacing(Item, Retry(Item, asked))
  <2>1. PICK asked \in IF Asked = {} THEN {0} ELSE Asked : queue' = Replacing(Item, Retry(Item, asked))
    BY <1>9
  <2>2. asked \in Nat
    <3>1. \A c \in DOMAIN results : results[c].asked \in Nat
      BY <1>1, QueueAssumption DEF IInv, Visits, Outcomes
    <3> QED BY <3>1 DEF Asked, Failed
  <2> DEFINE b == Retry(Item, asked)
  <2>3. b \in AlertType /\ b.id = Item.id /\ b.events = Item.events /\ b.pending = Failed
    <3>1. Item.attempts + 1 \in Nat \ {0}
      BY <1>2 DEF AlertType
    <3>2. clock + Delay(Item.attempts + 1, asked) \in Nat
      <4>1. Delay(Item.attempts + 1, asked) \in Nat
        BY <2>2, <3>1, DelayIsTime
      <4>2. clock \in Nat
        BY QueueFacts DEF Scalars
      <4> QED BY <4>1, <4>2
    <3>3. Failed \subseteq Channels
      BY <1>2, <1>4 DEF AlertType
    <3> HIDE DEF Delay
    <3> QED BY <1>2, <3>1, <3>2, <3>3 DEF Retry, AlertType
  <2> HIDE DEF b
  <2>4. /\ Sound(queue', put) /\ queue'.batch = queue.batch /\ queue'.alerts = (queue.alerts \ {Item}) \cup {b}
        /\ Cardinality(queue'.alerts) <= Cardinality(queue.alerts)
        /\ \A d \in Deliveries : Asks(queue', d) => Asks(queue, d)
    BY <1>2, <1>4, <2>1, <2>3, QueueFacts, ReplacingSound DEF b
  <2>5. Bounded(queue')
    BY <2>4, QueueFacts, FewerBounded
  <2>6. \A d \in Deliveries : Asks(queue', d) => ~Answered(d)
    BY <1>5, <1>6, <1>7, <2>3, <2>4 DEF Asks
  <2> QED BY <1>1, <1>3, <2>4, <2>5, <2>6, ContinueStep
<1> QED BY <1>1, <1>8, <1>9

LEMMA ExpireStep ==
  ASSUME IInv, Expire
  PROVE  IInv'
<1>1. /\ pc = "flush" /\ snap # {} /\ results' = NoResults /\ Continue /\ queue' = Without(Item)
      /\ UNCHANGED <<clock, up, once, enabled, got, put, kept>>
      /\ given' = given \cup (Item.events \X Item.pending)
  BY DEF Expire, AtAlert, IInv, Visits
<1>2. Item \in queue.alerts /\ Item \in AlertType
  BY <1>1, ItemFacts
<1>3. given' \subseteq Deliveries
  BY <1>1, <1>2 DEF IInv, Scalars, AlertType, Deliveries
<1>4. /\ Sound(queue', put) /\ queue'.batch = queue.batch /\ queue'.alerts = queue.alerts \ {Item}
      /\ Cardinality(queue'.alerts) <= Cardinality(queue.alerts)
      /\ \A d \in Deliveries : Asks(queue', d) => Asks(queue, d)
  BY <1>1, <1>2, QueueFacts, WithoutSound
<1>5. Bounded(queue')
  BY <1>4, QueueFacts, FewerBounded
<1>6. \A d \in Deliveries : ~Answered(d)
  BY <1>1 DEF Answered
<1> QED BY <1>1, <1>3, <1>4, <1>5, <1>6, ContinueStep

\* The process starts, ends or is killed.
LEMMA ProcessStep ==
  ASSUME IInv, Start \/ Stop \/ Finish \/ Crash
  PROVE  IInv'
<1>1. CASE Start
  <2>1. /\ ~up /\ up' = TRUE /\ once' \in BOOLEAN /\ enabled' \in Setups /\ queue' = disk
        /\ UNCHANGED <<clock, disk, pc, snap, results, got, put, kept, given, faults>>
    BY <1>1 DEF Start, flush
  <2>2. pc = "idle" /\ snap = {}
    BY <2>1 DEF IInv, Visits
  <2>3. Scalars' /\ Queues' /\ Visits'
    BY <2>1, <2>2 DEF IInv, Scalars, Queues, QueueBounded, Bounded, Visits
  <2>4. \A d \in Deliveries : ~Answered(d) /\ ~Answered(d)'
    BY <2>1, <2>2 DEF Answered
  <2>5. Counts'
    BY <2>1, <2>4, QueueFacts, CountsWithoutFault
  <2> QED BY <2>3, <2>5 DEF IInv
<1>2. CASE Stop \/ Finish \/ Crash
  <2>1. /\ up' = FALSE /\ queue' = EmptyQueue /\ pc' = "idle" /\ snap' = {} /\ results' = NoResults
        /\ UNCHANGED <<clock, once, enabled, disk, got, put, kept, given>>
        /\ (pc # "deliver" /\ faults' = faults) \/ faults' = faults + 1
    BY <1>2 DEF Stop, Finish, Crash, Down, Fault
  <2>2. Queues'
    BY <2>1, QueueFacts, EmptyQueueSound DEF Queues, QueueBounded, Bounded
  <2>3. Scalars' /\ Visits'
    <3>1. Visits'
      BY <2>1 DEF Visits
    <3>2. faults' \in Nat
      BY <2>1 DEF IInv, Scalars
    <3>3. Scalars'
      BY <2>1, <3>2 DEF IInv, Scalars
    <3> QED BY <3>1, <3>3
  <2>4. Counts'
    <3>1. CASE faults' = faults + 1
      BY <2>1, <3>1, QueueFacts, CountsAfterFault
    <3>2. CASE pc # "deliver" /\ faults' = faults
      <4>1. \A d \in Deliveries : ~Answered(d) /\ ~Asks(queue', d)
        BY <2>1, <3>2, EmptyQueueSound, QueueFacts DEF Answered
      <4> QED BY <2>1, <3>2, <4>1, QueueFacts, CountsWithoutFault
    <3> QED BY <2>1, <3>1, <3>2
  <2> QED BY <2>2, <2>3, <2>4 DEF IInv
<1> QED BY <1>1, <1>2

LEMMA TickStep ==
  ASSUME IInv, Tick \/ UNCHANGED vars
  PROVE  IInv'
<1>1. /\ clock' \in Nat
      /\ UNCHANGED <<up, once, enabled, queue, disk, pc, snap, results, got, put, kept, given, faults>>
  BY DEF Tick, vars, flush, IInv, Scalars
<1>2. Item' = Item
  BY <1>1 DEF Item
<1>3. Scalars' /\ Queues' /\ Visits'
  BY <1>1, <1>2 DEF IInv, Scalars, Queues, QueueBounded, Bounded, Visits, Targets
<1>4. Counts'
  BY <1>1, <1>2, QueueFacts, CountsWithoutFault DEF Answered
<1> QED BY <1>3, <1>4 DEF IInv

THEOREM InductiveInvariant == Spec => []IInv
<1>1. Init => IInv
  BY InitIInv
<1>2. IInv /\ [Next]_vars => IInv'
  BY NotifyStep, RefuseStep, StartFlushStep, WalkStep, SendStep, AcknowledgeStep, ExpireStep, ProcessStep, TickStep
     DEF Next, Offers, Flush, Deliver
<1> QED BY <1>1, <1>2, PTL DEF Spec

-----------------------------------------------------------------------------
\* Theorems.

\* However the cycle, the worker, crashes and failed writes interleave, the alerts are numbered apart
\* (batch.go: enqueue) and the flush visits only alerts that are there.
THEOREM TypeCorrect == Spec => []TypeOK
<1>1. IInv => TypeOK
  <2> SUFFICES ASSUME IInv PROVE TypeOK
    OBVIOUS
  <2>1. \A q, p : Sound(q, p) => QueueOK(q)
    BY DEF Sound, QueueOK, QueueType
  <2>2. QueueOK(queue) /\ QueueOK(disk)
    BY <2>1, QueueFacts
  <2>3. DOMAIN results \subseteq Channels /\ \A c \in DOMAIN results : results[c] \in Outcomes
    <3>1. CASE pc # "deliver"
      BY <3>1 DEF IInv, Visits, NoResults
    <3>2. CASE pc = "deliver"
      BY <3>2, QueueAssumption DEF IInv, Visits, Targets, Scalars
    <3> QED BY <3>1, <3>2
  <2> QED BY <2>2, <2>3, QueueFacts DEF IInv, Scalars, Visits, TypeOK
<1> QED BY <1>1, InductiveInvariant, PTL

\* The limit of NotifyBan and NotifyAudit (batch.go) is overrun by one alert at most, in memory and on
\* file: the batch that waited.  That it is overrun at all is what QueueWithinLimit is about.
THEOREM QueueBoundedHolds == Spec => []QueueBounded
<1>1. IInv => QueueBounded
  BY DEF IInv, Queues
<1> QED BY <1>1, InductiveInvariant, PTL

\* Retries, restarts and failed acknowledgements repeat a message once for each fault and never
\* else (batch.go: flush).
THEOREM RepeatsHolds == Spec => []Repeats
<1>1. IInv => Repeats
  BY DEF IInv, Counts, Repeats
<1> QED BY <1>1, InductiveInvariant, PTL
=============================================================================
