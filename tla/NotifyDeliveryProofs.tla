------------------------ MODULE NotifyDeliveryProofs ------------------------
(* NotifyQueue implements AlertDelivery, for every value of its constants: *)
(* checked by TLAPS.                                                       *)
EXTENDS NotifyQueueProofs

-----------------------------------------------------------------------------
\* What the invariant of NotifyQueueProofs does not say: how the queue in memory and the queue file
\* stand to one another.

\* A queue owes a delivery; a delivery is done with; an event has its place, or its channels have theirs.
Owes(q, d) == \E a \in q.alerts : d[1] \in a.events /\ d[2] \in a.pending
Done(d)    == got[d] > 0 \/ d \in given
Settled(q, e) == e \in q.batch \/ \A c \in enabled : Owes(q, <<e, c>>) \/ Done(<<e, c>>)

\* What the file owes is owed in memory or done, and what was given up is in memory only when it is
\* on file: the memory was read from it.
Agreed ==
    /\ \A d \in given : d[1] <= put
    /\ up => \A d \in Deliveries : Owes(disk, d) => Owes(queue, d) \/ Done(d)
    /\ up => \A e \in disk.batch : Settled(queue, e)
    /\ \A d \in given : Asks(queue, d) => Asks(disk, d)

\* Who has answered well has received the alert.
Received ==
    pc = "deliver" => \A c \in DOMAIN results : results[c].kind = "ok" => \A e \in Item.events : got[<<e, c>>] > 0

RInv == Agreed /\ Received

\* A step of the promise, or none.
Step == [Promise!Write \/ Promise!Receive \/ Promise!Restart]_(Promise!avars)

-----------------------------------------------------------------------------
\* Deliveries.

LEMMA Pairs ==
  /\ \A e \in Events, c \in Channels : <<e, c>> \in Deliveries /\ <<e, c>>[1] = e /\ <<e, c>>[2] = c
  /\ \A d \in Deliveries : d[1] \in Events /\ d[2] \in Channels /\ d = <<d[1], d[2]>> /\ d[1] \in Nat
BY DEF Deliveries, Events

\* What is on record as owed.
LEMMA OwedIs ==
  ASSUME NEW q, NEW p, Sound(q, p)
  PROVE  UNION {a.events \X a.pending : a \in q.alerts} = {d \in Deliveries : Owes(q, d)}
<1>1. \A a \in q.alerts : a.events \subseteq Events /\ a.pending \subseteq Channels
  BY DEF Sound, QueueType, AlertType
<1>2. ASSUME NEW d \in UNION {a.events \X a.pending : a \in q.alerts} PROVE d \in Deliveries /\ Owes(q, d)
  BY <1>1 DEF Owes, Deliveries
<1>3. ASSUME NEW d \in Deliveries, Owes(q, d) PROVE d \in UNION {a.events \X a.pending : a \in q.alerts}
  BY <1>3, Pairs DEF Owes
<1> QED BY <1>2, <1>3

\* The waiting events become an alert for every channel.
LEMMA BatchSettles ==
  ASSUME Scalars, NEW p \in Nat, NEW q, Sound(q, p)
  PROVE  LET r == BatchToQueue(q)
         IN  r.batch = {} /\ \A x \in q.batch, c \in enabled : Owes(r, <<x, c>>)
<1> DEFINE r == BatchToQueue(q)
           m == Enqueue(q, q.batch)
           n == NewAlert(q.sequence + 1, q.batch)
<1>1. q \in QueueType /\ q.batch \in SUBSET Events
  BY DEF Sound, QueueType
<1>2. r.batch = {}
  BY BatchToQueueSound
<1>3. ASSUME NEW x \in q.batch, NEW c \in enabled PROVE Owes(r, <<x, c>>)
  <2>1. r = [m EXCEPT !.batch = {}, !.last = clock]
    BY <1>3 DEF BatchToQueue
  <2>2. m \in QueueType /\ m.alerts = q.alerts \cup {n}
    BY <1>1, <1>3, EnqueueFields
  <2>3. n.events = q.batch /\ n.pending = enabled
    BY NewAlertFields
  <2> HIDE DEF m, n, r
  <2>4. r.alerts = m.alerts
    BY <2>1, <2>2 DEF QueueType
  <2>5. n \in r.alerts
    BY <2>2, <2>4
  <2> QED BY <1>3, <2>3, <2>5 DEF Owes
<1> QED BY <1>2, <1>3

\* The new event, and those that wait, have their place.
LEMMA TakeSettles ==
  ASSUME Scalars, NEW p \in Nat, NEW q, Sound(q, p),
         NEW e \in Events, e = p + 1, NEW direct \in BOOLEAN
  PROVE  LET r == Take(q, e, direct)
         IN  \A x \in q.batch \cup {e} : x \in r.batch \/ \A c \in enabled : Owes(r, <<x, c>>)
<1> DEFINE r == Take(q, e, direct)
<1>1. q \in QueueType
  BY DEF Sound
<1>2. CASE direct
  <2> DEFINE n == NewAlert(q.sequence + 1, {e})
  <2>1. r.batch = q.batch /\ (enabled # {} => r.alerts = q.alerts \cup {n})
    BY <1>1, <1>2, EnqueueFields DEF Take
  <2>2. n.events = {e} /\ n.pending = enabled
    BY NewAlertFields
  <2> HIDE DEF n, r
  <2>3. ASSUME NEW c \in enabled PROVE Owes(r, <<e, c>>)
    BY <2>1, <2>2, <2>3 DEF Owes
  <2> QED BY <2>1, <2>3 DEF r
<1>3. CASE ~direct
  <2> DEFINE j == Join(q, e)
             b == BatchToQueue(j)
  <2>1. Sound(j, p + 1) /\ j.batch = q.batch \cup {e}
    BY JoinSound
  <2>2. r \in {j, b}
    BY <1>3 DEF Take
  <2> HIDE DEF r, j
  <2>3. \A x \in j.batch, c \in enabled : Owes(b, <<x, c>>)
    <3>1. p + 1 \in Nat
      OBVIOUS
    <3> QED BY <2>1, <3>1, BatchSettles
  <2> HIDE DEF b
  <2> QED BY <2>1, <2>2, <2>3 DEF r
<1> QED BY <1>2, <1>3

-----------------------------------------------------------------------------
\* A change of the queue that writes the file, or fails to.

LEMMA QueueChange ==
  ASSUME IInv, IInv', Agreed, up, UNCHANGED <<up, enabled, got>>, put <= put',
         kept \subseteq kept', given \subseteq given',
         \A d \in given' \ given : d[1] <= put' /\ ~Asks(queue', d),
         \A d \in Deliveries : Owes(queue, d) => Owes(queue', d) \/ Done(d)',
         \A e \in queue.batch \cup (kept' \ kept) : Settled(queue, e)',
         \A d \in Deliveries : Asks(queue', d) => Asks(queue, d) \/ put < d[1],
         disk' = queue' \/ (disk' = disk /\ kept' = kept)
  PROVE  Agreed' /\ Step
<1>1. /\ put \in Nat /\ put' \in Nat /\ given \subseteq Deliveries /\ given' \subseteq Deliveries
      /\ enabled \subseteq Channels /\ kept' \subseteq Events
      /\ Sound(queue, put) /\ Sound(disk, put) /\ Sound(queue', put') /\ Sound(disk', put')
  BY QueueFacts, QueueAssumption DEF IInv, Scalars, Queues
<1>2. \A d \in Deliveries : Done(d) => Done(d)'
  BY DEF Done
<1>3. \A d \in given' : d[1] <= put'
  BY <1>1, Pairs DEF Agreed
<1>4. \A d \in given' : Asks(queue', d) => Asks(disk, d)
  <2> SUFFICES ASSUME NEW d \in given', Asks(queue', d) PROVE Asks(disk, d)
    OBVIOUS
  <2>1. d \in given /\ d \in Deliveries /\ d[1] <= put /\ d[1] \in Nat
    BY <1>1, Pairs DEF Agreed
  <2>2. Asks(queue, d)
    BY <1>1, <2>1
  <2> QED BY <2>1, <2>2 DEF Agreed
<1>5. \A d \in given' : Asks(queue', d) => Asks(disk', d)
  BY <1>4
<1>6. \A d \in Deliveries : Owes(disk, d) => Owes(queue', d) \/ Done(d)'
  BY <1>2 DEF Agreed
<1>7. \A e \in disk.batch : Settled(queue, e)'
  <2> SUFFICES ASSUME NEW e \in disk.batch PROVE Settled(queue, e)'
    OBVIOUS
  <2>1. Settled(queue, e) /\ e \in Events
    BY <1>1 DEF Agreed, Sound, QueueType
  <2>2. CASE e \in queue.batch
    BY <2>2
  <2>3. CASE \A c \in enabled : Owes(queue, <<e, c>>) \/ Done(<<e, c>>)
    <3>1. \A c \in enabled : <<e, c>> \in Deliveries
      BY <1>1, <2>1, Pairs
    <3> QED BY <1>2, <2>3, <3>1 DEF Settled
  <2> QED BY <2>1, <2>2, <2>3 DEF Settled
<1>8. Agreed'
  BY <1>3, <1>5, <1>6, <1>7 DEF Agreed, Settled
<1>9. Owed = {d \in Deliveries : Owes(disk, d)} /\ Owed' = {d \in Deliveries : Owes(disk', d)}
  BY <1>1, OwedIs DEF Owed
<1> DEFINE G == {d \in Deliveries : got[d] > 0}
<1>10. \A d \in Deliveries : Done(d)' => d \in G \cup given'
  BY DEF Done
<1>11. CASE disk' = queue'
  <2>1. Owed \subseteq Owed' \cup G \cup given'
    BY <1>6, <1>9, <1>10, <1>11
  <2>2. (Owed' \ Owed) \cap given \subseteq disk.batch \X Channels
    <3> SUFFICES ASSUME NEW d \in Deliveries, Owes(queue', d), ~Owes(disk, d), d \in given
                 PROVE  d \in disk.batch \X Channels
      BY <1>9, <1>11
    <3>1. Asks(disk, d)
      BY <1>4 DEF Asks, Owes
    <3>2. d[1] \in disk.batch /\ d[2] \in Channels /\ d = <<d[1], d[2]>>
      BY <3>1, Pairs DEF Asks, Owes
    <3> QED BY <3>2
  <2>3. ASSUME NEW e \in disk.batch \cup (kept' \ kept)
        PROVE  e \in disk'.batch \/ {e} \X enabled \subseteq Owed' \cup G \cup given'
    <3>1. Settled(queue, e)' /\ e \in Events
      BY <1>1, <1>7 DEF Sound, QueueType
    <3>2. CASE e \in queue'.batch
      BY <1>11, <3>2
    <3>3. CASE \A c \in enabled : Owes(queue', <<e, c>>) \/ Done(<<e, c>>)'
      <4>1. \A c \in enabled : <<e, c>> \in Deliveries
        BY <1>1, <3>1, Pairs
      <4>2. \A c \in enabled : <<e, c>> \in Owed' \cup G \cup given'
        BY <1>9, <1>10, <1>11, <3>3, <4>1
      <4> QED BY <4>2
    <3> QED BY <3>1, <3>2, <3>3 DEF Settled
  <2>4. Promise!Write
    BY <2>1, <2>2, <2>3 DEF Promise!Write
  <2> QED BY <1>8, <2>4 DEF Step
<1>12. CASE disk' = disk /\ kept' = kept
  <2>1. Owed' = Owed
    BY <1>12 DEF Owed
  <2>2. Promise!Write
    BY <1>12, <2>1 DEF Promise!Write
  <2> QED BY <1>8, <2>2 DEF Step
<1> QED BY <1>11, <1>12

\* Nothing the promise speaks of changes.
LEMMA NothingSaid ==
  ASSUME UNCHANGED <<enabled, disk, got, kept, given>> PROVE Step
BY DEF Step, Promise!avars, Owed

\* Outside a delivery, nobody has answered.
LEMMA NoAnswers == ASSUME pc # "deliver" PROVE Received
BY DEF Received

-----------------------------------------------------------------------------
\* Every step keeps what is said above, and is one of the promise.

LEMMA InitAgrees == Init => RInv /\ Promise!AInit
<1> SUFFICES ASSUME Init PROVE RInv /\ Promise!AInit
  OBVIOUS
<1>1. /\ ~up /\ pc = "idle" /\ given = {} /\ kept = {} /\ enabled \in Setups
      /\ disk.batch = {} /\ disk.alerts = {} /\ \A d \in Deliveries : got[d] = 0
  BY DEF Init, EmptyQueue
<1>2. RInv
  BY <1>1 DEF RInv, Agreed, Received
<1>3. enabled \in SUBSET Channels
  BY <1>1, QueueAssumption
<1>4. Owed = {} /\ {d \in Deliveries : got[d] > 0} = {}
  BY <1>1 DEF Owed
<1>5. Promise!AInit
  BY <1>1, <1>3, <1>4 DEF Promise!AInit
<1> QED BY <1>2, <1>5

LEMMA NotifyAgrees ==
  ASSUME IInv, IInv', RInv, NEW e \in Events, NEW direct \in BOOLEAN, Notify(e, direct)
  PROVE  RInv' /\ Step
<1>1. /\ up /\ e = put + 1 /\ put' = e /\ queue' = Take(queue, e, direct) /\ Cardinality(queue.alerts) < Cap
      /\ UNCHANGED <<up, enabled, pc, snap, results, got, given>>
      /\ \/ disk' = queue' /\ kept' = kept \cup {e}
         \/ disk' = disk /\ kept' = kept
  BY QueueFacts, QueueAssumption DEF Notify, Offer, Full, Persist, PersistFails, flush
<1>2. /\ queue.alerts \subseteq queue'.alerts
      /\ \A d \in Deliveries : Asks(queue', d) => Asks(queue, d) \/ d[1] = e
  BY <1>1, QueueFacts, TakeSound
<1>3. put <= put' /\ put < e
  BY <1>1, QueueFacts
<1>4. \A x \in queue.batch \cup (kept' \ kept) : Settled(queue, x)'
  <2>1. \A x \in queue.batch \cup {e} : x \in queue'.batch \/ \A c \in enabled : Owes(queue', <<x, c>>)
    BY <1>1, QueueFacts, TakeSettles
  <2> QED BY <1>1, <2>1 DEF Settled
<1>5. \A d \in Deliveries : Owes(queue, d) => Owes(queue', d) \/ Done(d)'
  BY <1>2 DEF Owes
<1>6. Agreed' /\ Step
  BY <1>1, <1>2, <1>3, <1>4, <1>5, QueueChange DEF RInv
<1>7. Received'
  <2>1. CASE pc # "deliver"
    BY <1>1, <2>1 DEF Received
  <2>2. CASE pc = "deliver"
    <3>1. Item' = Item
      BY <1>1, <1>2, <2>2, ItemStays DEF IInv, Visits, Queues, Sound
    <3> QED BY <1>1, <3>1 DEF RInv, Received
  <2> QED BY <2>1, <2>2
<1> QED BY <1>6, <1>7 DEF RInv

LEMMA StartFlushAgrees ==
  ASSUME IInv, IInv', RInv, StartFlush
  PROVE  RInv' /\ Step
<1>1. up /\ pc' # "deliver" /\ UNCHANGED <<up, enabled, got, put, kept, given>>
  BY DEF StartFlush, Return
<1>2. Received'
  BY <1>1 DEF Received
<1>3. CASE UNCHANGED <<queue, disk>>
  BY <1>1, <1>2, <1>3, NothingSaid DEF RInv, Agreed, Settled, Done
<1>4. CASE queue' = BatchToQueue(queue) /\ (disk' = queue' \/ disk' = disk)
  <2>1. /\ queue.alerts \subseteq queue'.alerts
        /\ \A d \in Deliveries : Asks(queue', d) => Asks(queue, d)
    BY <1>4, QueueFacts, BatchToQueueSound
  <2>2. \A x \in queue.batch : Settled(queue, x)'
    <3>1. \A x \in queue.batch, c \in enabled : Owes(queue', <<x, c>>)
      BY <1>4, QueueFacts, BatchSettles
    <3> QED BY <1>1, <3>1 DEF Settled
  <2>3. \A d \in Deliveries : Owes(queue, d) => Owes(queue', d)
    BY <2>1 DEF Owes
  <2>4. Agreed' /\ Step
    BY <1>1, <1>4, <2>1, <2>2, <2>3, QueueFacts, QueueChange DEF RInv
  <2> QED BY <1>2, <2>4 DEF RInv
<1> QED BY <1>3, <1>4 DEF StartFlush, Persist, PersistFails

\* The steps that change neither queue, file, deliveries nor channels.
LEMMA OtherAgrees ==
  ASSUME IInv, RInv,
         \/ SkipUndue \/ StartDelivery \/ EndFlush \/ Tick \/ UNCHANGED vars
         \/ \E e \in Events : Refuse(e)
  PROVE  RInv' /\ Step
<1>1. /\ UNCHANGED <<up, enabled, queue, disk, got, kept, given>>
      /\ put' = put \/ put' = put + 1
      /\ \/ UNCHANGED <<pc, snap, results>>
         \/ pc' # "deliver"
         \/ pc = "flush" /\ UNCHANGED results
  BY DEF SkipUndue, StartDelivery, EndFlush, Tick, vars, flush, Refuse, Offer, Return, AtAlert
<1>2. \A d \in given : d[1] <= put'
  <2>1. \A d \in given : d[1] \in Nat
    BY Pairs DEF IInv, Scalars
  <2> QED BY <1>1, <2>1, QueueFacts DEF RInv, Agreed
<1>3. Agreed'
  BY <1>1, <1>2 DEF RInv, Agreed, Settled, Done
<1>4. Received'
  <2>1. CASE pc' # "deliver"
    BY <2>1 DEF Received
  <2>2. CASE UNCHANGED <<pc, snap, results>>
    BY <1>1, <2>2 DEF RInv, Received, Item
  <2>3. CASE pc = "flush" /\ UNCHANGED results
    BY <2>3 DEF IInv, Visits, NoResults, Received
  <2> QED BY <1>1, <2>1, <2>2, <2>3
<1> QED BY <1>1, <1>3, <1>4, NothingSaid DEF RInv

LEMMA SendAgrees ==
  ASSUME IInv, RInv, NEW c \in Channels, NEW outcome \in Outcomes, NEW received \in BOOLEAN,
         Send(c, outcome, received)
  PROVE  RInv' /\ Step
<1>1. /\ UNCHANGED <<up, enabled, queue, disk, pc, snap, put, kept, given>>
      /\ pc = "deliver" /\ c \in Targets
      /\ outcome.kind = "ok" => received
      /\ results' = [x \in DOMAIN results \cup {c} |-> IF x = c THEN outcome ELSE results[x]]
      /\ got' = [d \in Deliveries |->
                    IF received /\ d[1] \in Item.events /\ d[2] = c THEN got[d] + 1 ELSE got[d]]
  BY DEF Send
<1>2. \A d \in Deliveries : got[d] \in Nat
  BY DEF IInv, Scalars
<1>3. \A d \in Deliveries : got[d] > 0 => got'[d] > 0
  BY <1>1, <1>2
<1>4. Item' = Item /\ Item.events \subseteq Events /\ c \in enabled
  <2>1. snap # {}
    BY <1>1 DEF IInv, Visits
  <2> QED BY <1>1, <2>1, ItemFacts DEF Item, AlertType, Targets
<1>5. enabled \subseteq Channels
  BY QueueFacts, Enabled
<1>6. Agreed'
  <2>1. \A d \in Deliveries : Done(d) => Done(d)'
    BY <1>1, <1>3 DEF Done
  <2>2. up => \A d \in Deliveries : Owes(disk, d) => Owes(queue, d) \/ Done(d)'
    BY <2>1 DEF RInv, Agreed
  <2>3. up => \A e \in disk.batch : Settled(queue, e)'
    <3> SUFFICES ASSUME up, NEW e \in disk.batch PROVE Settled(queue, e)'
      OBVIOUS
    <3>1. Settled(queue, e) /\ e \in Events
      BY QueueFacts DEF RInv, Agreed, Sound, QueueType
    <3>2. \A x \in enabled : <<e, x>> \in Deliveries
      BY <1>5, <3>1, Pairs
    <3> QED BY <1>1, <2>1, <3>1, <3>2 DEF Settled
  <2> QED BY <1>1, <2>2, <2>3 DEF RInv, Agreed
<1>7. Received'
  <2> SUFFICES ASSUME NEW x \in DOMAIN results', results'[x].kind = "ok", NEW e \in Item.events
               PROVE  got'[<<e, x>>] > 0
    BY <1>1, <1>4 DEF Received
  <2>1. CASE x = c
    <3>1. received /\ <<e, c>> \in Deliveries /\ <<e, c>>[1] = e /\ <<e, c>>[2] = c
      BY <1>1, <1>4, <2>1, Pairs
    <3>2. got'[<<e, c>>] = got[<<e, c>>] + 1
      BY <1>1, <3>1
    <3> QED BY <1>2, <2>1, <3>1, <3>2
  <2>2. CASE x # c
    <3>1. x \in DOMAIN results /\ results[x].kind = "ok" /\ x \in Channels
      BY <1>1, <1>5, <2>2 DEF IInv, Visits, Targets
    <3>2. got[<<e, x>>] > 0 /\ <<e, x>> \in Deliveries
      BY <1>1, <1>4, <3>1, Pairs DEF RInv, Received
    <3> QED BY <1>3, <3>2
  <2> QED BY <2>1, <2>2
<1>8. Step
  <2> DEFINE G == {d \in Deliveries : got[d] > 0}
             H == {d \in Deliveries : got'[d] > 0}
  <2>1. G \subseteq H
    BY <1>3
  <2>2. H \ G \subseteq Events \X enabled
    <3> SUFFICES ASSUME NEW d \in Deliveries, got'[d] > 0, ~(got[d] > 0) PROVE d \in Events \X enabled
      OBVIOUS
    <3>1. d[2] = c
      BY <1>1
    <3> QED BY <1>4, <3>1, Pairs
  <2>3. Owed' = Owed
    BY <1>1 DEF Owed
  <2>4. Promise!Receive
    BY <1>1, <2>1, <2>2, <2>3 DEF Promise!Receive
  <2> QED BY <2>4 DEF Step
<1> QED BY <1>6, <1>7, <1>8 DEF RInv

LEMMA AcknowledgeAgrees ==
  ASSUME IInv, IInv', RInv, Acknowledge
  PROVE  RInv' /\ Step
<1> DEFINE new == Item.events \X (Item.pending \ enabled)
<1>1. /\ pc = "deliver" /\ snap # {} /\ up /\ DOMAIN results = Targets /\ pc' # "deliver"
      /\ UNCHANGED <<up, enabled, got, put, kept>> /\ given' = given \cup new
      /\ disk' = queue' \/ disk' = disk
      /\ \/ Failed = {} /\ queue' = Without(Item)
         \/ \E asked : queue' = Replacing(Item, Retry(Item, asked))
  BY DEF Acknowledge, Continue, Persist, PersistFails, Return, IInv, Visits
<1>2. Item \in queue.alerts /\ Item \in AlertType
  BY <1>1, ItemFacts
<1>3. /\ \A a \in queue.alerts : a # Item => a.events \cap Item.events = {}
      /\ Item.events \cap queue.batch = {} /\ Item.events \subseteq 1..put
  BY <1>2, QueueFacts DEF Sound
<1>4. /\ queue'.batch = queue.batch
      /\ \/ Failed = {} /\ queue'.alerts = queue.alerts \ {Item}
         \/ \E b : /\ queue'.alerts = (queue.alerts \ {Item}) \cup {b}
                   /\ b.events = Item.events /\ b.pending = Failed
  <2>1. queue \in QueueType
    BY QueueFacts DEF Sound
  <2>2. CASE Failed = {} /\ queue' = Without(Item)
    BY <2>1, <2>2 DEF Without, QueueType
  <2>3. CASE \E asked : queue' = Replacing(Item, Retry(Item, asked))
    <3>1. PICK asked : queue' = Replacing(Item, Retry(Item, asked))
      BY <2>3
    <3> DEFINE b == Retry(Item, asked)
    <3>2. b.events = Item.events /\ b.pending = Failed
      BY <1>2 DEF Retry, AlertType
    <3> HIDE DEF b
    <3>3. queue' = [queue EXCEPT !.alerts = (@ \ {Item}) \cup {b}]
      BY <3>1 DEF Replacing, b
    <3>4. queue'.alerts = (queue.alerts \ {Item}) \cup {b} /\ queue'.batch = queue.batch
      BY <2>1, <3>3 DEF QueueType
    <3> QED BY <3>2, <3>4
  <2> QED BY <1>1, <2>2, <2>3
<1>5. Failed \subseteq Item.pending \cap enabled
  BY <1>1 DEF Failed, Targets
<1>6. ASSUME NEW d \in given' \ given PROVE d[1] <= put' /\ ~Asks(queue', d)
  <2>1. d[1] \in Item.events /\ d[2] \notin enabled
    BY <1>1
  <2>2. d[1] <= put'
    BY <1>1, <1>3, <2>1, QueueFacts
  <2>3. ~Asks(queue', d)
    BY <1>3, <1>4, <1>5, <2>1 DEF Asks
  <2> QED BY <2>2, <2>3
<1>7. ASSUME NEW d \in Deliveries, Owes(queue, d) PROVE Owes(queue', d) \/ Done(d)'
  <2>1. PICK a \in queue.alerts : d[1] \in a.events /\ d[2] \in a.pending
    BY <1>7 DEF Owes
  <2>2. CASE a # Item
    BY <1>4, <2>1, <2>2 DEF Owes
  <2>3. CASE a = Item /\ d[2] \notin enabled
    BY <1>1, <2>1, <2>3, Pairs DEF Done
  <2>4. CASE a = Item /\ d[2] \in enabled
    <3>1. d[2] \in DOMAIN results
      BY <1>1, <2>1, <2>4 DEF Targets
    <3>2. CASE d[2] \in Failed
      BY <1>4, <2>1, <2>4, <3>2 DEF Owes
    <3>3. CASE d[2] \notin Failed
      <4>1. results[d[2]].kind = "ok"
        BY <3>1, <3>3 DEF Failed
      <4>2. got[<<d[1], d[2]>>] > 0
        BY <1>1, <2>1, <2>4, <3>1, <4>1 DEF RInv, Received
      <4> QED BY <1>1, <4>2, Pairs DEF Done
    <3> QED BY <3>2, <3>3
  <2> QED BY <2>2, <2>3, <2>4
<1>8. ASSUME NEW d \in Deliveries, Asks(queue', d) PROVE Asks(queue, d)
  BY <1>2, <1>4, <1>5, <1>8 DEF Asks
<1>9. \A e \in queue.batch \cup (kept' \ kept) : Settled(queue, e)'
  BY <1>1, <1>4 DEF Settled
<1>10. put <= put' /\ kept \subseteq kept' /\ given \subseteq given'
  BY <1>1, QueueFacts
<1>11. Agreed' /\ Step
  BY <1>1, <1>6, <1>7, <1>8, <1>9, <1>10, QueueChange DEF RInv
<1> QED BY <1>1, <1>11 DEF RInv, Received

LEMMA ExpireAgrees ==
  ASSUME IInv, IInv', RInv, Expire
  PROVE  RInv' /\ Step
<1>1. /\ pc = "flush" /\ snap # {} /\ up /\ pc' # "deliver" /\ queue' = Without(Item)
      /\ UNCHANGED <<up, enabled, got, put, kept>> /\ given' = given \cup (Item.events \X Item.pending)
      /\ disk' = queue' \/ disk' = disk
  BY DEF Expire, AtAlert, Continue, Persist, PersistFails, Return, IInv, Visits
<1>2. Item \in queue.alerts
  BY <1>1, ItemFacts
<1>3. /\ \A a \in queue.alerts : a # Item => a.events \cap Item.events = {}
      /\ Item.events \cap queue.batch = {} /\ Item.events \subseteq 1..put
  BY <1>2, QueueFacts DEF Sound
<1>4. queue'.batch = queue.batch /\ queue'.alerts = queue.alerts \ {Item}
  BY <1>1, <1>2, QueueFacts, WithoutSound
<1>5. ASSUME NEW d \in given' \ given PROVE d[1] <= put' /\ ~Asks(queue', d)
  <2>1. d[1] \in Item.events
    BY <1>1
  <2>2. d[1] <= put'
    BY <1>1, <1>3, <2>1, QueueFacts
  <2>3. ~Asks(queue', d)
    BY <1>3, <1>4, <2>1 DEF Asks
  <2> QED BY <2>2, <2>3
<1>6. \A d \in Deliveries : Owes(queue, d) => Owes(queue', d) \/ Done(d)'
  BY <1>1, <1>4, Pairs DEF Owes, Done
<1>7. \A d \in Deliveries : Asks(queue', d) => Asks(queue, d)
  BY <1>4 DEF Asks
<1>8. \A e \in queue.batch \cup (kept' \ kept) : Settled(queue, e)'
  BY <1>1, <1>4 DEF Settled
<1>9. put <= put' /\ kept \subseteq kept' /\ given \subseteq given'
  BY <1>1, QueueFacts
<1>10. Agreed' /\ Step
  BY <1>1, <1>5, <1>6, <1>7, <1>8, <1>9, QueueChange DEF RInv
<1> QED BY <1>1, <1>10 DEF RInv, Received

LEMMA ProcessAgrees ==
  ASSUME IInv, RInv, Start \/ Stop \/ Finish \/ Crash
  PROVE  RInv' /\ Step
<1>1. CASE Start
  <2>1. /\ enabled' \in Setups /\ queue' = disk /\ pc' = "idle"
        /\ UNCHANGED <<disk, got, put, kept, given>>
    BY <1>1 DEF Start, flush, IInv, Visits
  <2>2. RInv'
    BY <2>1 DEF RInv, Agreed, Received, Settled
  <2>3. Owed' = Owed
    BY <2>1 DEF Owed
  <2>4. Promise!Restart
    BY <2>1, <2>3, QueueAssumption DEF Promise!Restart
  <2> QED BY <2>2, <2>4 DEF Step
<1>2. CASE Stop \/ Finish \/ Crash
  <2>1. /\ ~up' /\ queue' = EmptyQueue /\ pc' = "idle"
        /\ UNCHANGED <<enabled, disk, got, put, kept, given>>
    BY <1>2 DEF Stop, Finish, Crash, Down
  <2>2. given \subseteq Deliveries
    BY DEF IInv, Scalars
  <2>3. \A d \in given : ~Asks(queue', d)
    BY <2>1, <2>2, QueueFacts, EmptyQueueSound
  <2>4. RInv'
    BY <2>1, <2>3 DEF RInv, Agreed, Received
  <2> QED BY <2>1, <2>4, NothingSaid
<1> QED BY <1>1, <1>2

LEMMA NextAgrees ==
  ASSUME IInv, IInv', RInv, [Next]_vars
  PROVE  RInv' /\ Step
BY NotifyAgrees, StartFlushAgrees, OtherAgrees, SendAgrees, AcknowledgeAgrees, ExpireAgrees, ProcessAgrees
   DEF Next, Offers, Flush, Deliver

-----------------------------------------------------------------------------
\* Theorems.

\* The queue (batch.go) implements its promise: what it accepted is on file, owed to every enabled
\* channel, delivered or given up, whatever crashes, failed writes, lost answers and restarts with
\* other channels come in between.
THEOREM DeliveredHolds == Spec => Delivered
<1>1. Init => RInv /\ Promise!AInit
  BY InitAgrees
<1>2. IInv /\ IInv' /\ RInv /\ [Next]_vars =>
         RInv' /\ [Promise!Write \/ Promise!Receive \/ Promise!Restart]_(Promise!avars)
  BY NextAgrees DEF Step
<1>3. Spec => []IInv
  BY InductiveInvariant
<1>4. Spec => Promise!AInit /\ [][Promise!Write \/ Promise!Receive \/ Promise!Restart]_(Promise!avars)
  BY <1>1, <1>2, <1>3, PTL DEF Spec
<1> QED BY <1>4, PTL DEF Delivered, Promise!ASpec
=============================================================================
