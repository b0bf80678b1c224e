---------------------------- MODULE NotifyQueue -----------------------------
(***************************************************************************)
(* The durable notification queue (internal/notify: batch.go, delivery.go).*)
(* The protection cycle enqueues events; the worker goroutine of `run', or *)
(* the end of a `test', flushes the queue to the channels outside the      *)
(* mutex, and the queue file is replaced after every change.  A crash      *)
(* loses what is only in memory.  Times are minutes.                       *)
(***************************************************************************)
EXTENDS Integers, FiniteSets

CONSTANTS
    Channels,            \* the notification channels
    Setups,              \* the sets of enabled channels a process may start with
    Cap,                 \* alerts at which NotifyBan and NotifyAudit refuse (1000)
    MaxItems, Interval,  \* when a batch is full, or due
    Lifetime,            \* age at which an alert expires, and the longest delay (24 h)
    Hour,                \* the longest backoff of the queue's own
    RetryAfters,         \* what an HTTP error may ask for; 0 for nothing
    MaxEvents, MaxTime, LastEvent, MaxFaults  \* bounds: events, clock, time of the last event, faults

VARIABLES
    clock,
    up, once, enabled,  \* the process: does it run, as `test', with which channels
    queue, disk,        \* the queue in memory and in the queue file
    pc, snap,           \* the flush: where it is, the alerts it has still to look at
    results,            \* the channels that answered for the alert at hand
    got,                \* ghost: how often each channel received each event
    put, kept,          \* ghost: events handed to the queue; those it said it kept
    given,              \* ghost: deliveries given up
    faults              \* injected faults so far

flush == <<pc, snap, results>>
vars  == <<clock, up, once, enabled, queue, disk, flush, got, put, kept, given, faults>>

Events     == 1..MaxEvents
Deliveries == Events \X Channels
Outcomes   == [kind : {"ok", "network", "http"}, asked : RetryAfters]

ASSUME QueueAssumption ==
    /\ Setups \subseteq SUBSET Channels /\ Setups # {}
    /\ Cap \in Nat \ {0} /\ MaxItems \in Nat \ {0} /\ Interval \in Nat
    /\ Lifetime \in Nat /\ Hour \in Nat \ {0} /\ RetryAfters \subseteq Nat
    /\ MaxEvents \in Nat /\ MaxTime \in Nat /\ LastEvent \in Nat /\ MaxFaults \in Nat

EmptyQueue == [batch |-> {}, last |-> 0, alerts |-> {}, sequence |-> 0]
NoResults  == [c \in {} |-> 0]

Least(S)      == CHOOSE x \in S : \A y \in S : x <= y
Smaller(a, b) == IF a < b THEN a ELSE b
Larger(a, b)  == IF a < b THEN b ELSE a

Fault == faults < MaxFaults /\ faults' = faults + 1

-----------------------------------------------------------------------------
\* enqueue, batchToQueue and persist.

NewAlert(i, events) ==
    [id |-> i, events |-> events, pending |-> enabled, attempts |-> 0, created |-> clock, next |-> 0]

\* Mutant: an alert is numbered by its place in the queue.
EnqueueByPlace(q, events) ==
    IF enabled = {} THEN q
    ELSE [q EXCEPT !.alerts = @ \cup {NewAlert(Cardinality(@) + 1, events)}]

Enqueue(q, events) ==
    IF enabled = {} THEN q
    ELSE [q EXCEPT !.sequence = @ + 1, !.alerts = @ \cup {NewAlert(q.sequence + 1, events)}]

\* The events waiting for a batch become one alert.
BatchToQueue(q) ==
    IF q.batch = {} THEN q
    ELSE [Enqueue(q, q.batch) EXCEPT !.batch = {}, !.last = clock]

\* The queue file is replaced, or the write fails and the old one stays.
Persist      == disk' = queue' /\ UNCHANGED faults
PersistFails == Fault /\ UNCHANGED disk

-----------------------------------------------------------------------------
\* The protection cycle's side.

\* Mutant: the limit is checked one alert too late.
FullLate == Cardinality(queue.alerts) > Cap
Full     == Cardinality(queue.alerts) >= Cap

\* An event takes its place: at once, or in the batch, which may then be full.
Join(q, e) == [q EXCEPT !.batch = @ \cup {e}, !.last = IF q.batch = {} THEN clock ELSE @]
Take(q, e, direct) ==
    IF direct THEN Enqueue(q, {e})
    ELSE IF Cardinality(q.batch \cup {e}) >= MaxItems THEN BatchToQueue(Join(q, e)) ELSE Join(q, e)

\* One more event reaches the queue; a `test' flushes only after its cycle.
Offer(e) ==
    /\ up /\ (once => pc = "idle") /\ clock <= LastEvent
    /\ e = put + 1 /\ put' = e

\* NotifyBan, or NotifyAudit; direct for audits, notify-only rules and without batching.
Notify(e, direct) ==
    /\ Offer(e) /\ ~Full
    /\ queue' = Take(queue, e, direct)
    /\ \/ Persist /\ kept' = kept \cup {e}
       \/ PersistFails /\ UNCHANGED kept
    /\ UNCHANGED <<clock, up, once, enabled, flush, got, given>>

\* A full queue refuses the event, and the cycle goes on.
Refuse(e) ==
    /\ Offer(e) /\ Full
    /\ UNCHANGED <<clock, up, once, enabled, queue, disk, flush, got, kept, given, faults>>

-----------------------------------------------------------------------------
\* flush.

Ids(q) == {a.id : a \in q.alerts}
Item   == CHOOSE a \in queue.alerts : a.id = Least(snap)

\* flush returns: `run' tries again a second later, a `test' ends.
Return == snap' = {} /\ pc' = IF once THEN "done" ELSE "idle"

\* Under the mutex: a due batch becomes an alert, and the alerts of now are the ones to visit.
StartFlush ==
    /\ up /\ pc = "idle"
    /\ IF queue.batch # {} /\ (once \/ clock - queue.last >= Interval)
       THEN /\ queue' = BatchToQueue(queue)
            /\ \/ Persist /\ pc' = "flush" /\ snap' = Ids(queue')
               \/ PersistFails /\ Return
       ELSE /\ once \/ queue.alerts # {}
            /\ pc' = "flush" /\ snap' = Ids(queue)
            /\ UNCHANGED <<queue, disk, faults>>
    /\ UNCHANGED <<clock, up, once, enabled, results, got, put, kept, given>>

AtAlert == pc = "flush" /\ snap # {}

\* Mutant: age is counted from the last attempt.
OldSinceAttempt(a) == clock - Larger(a.created, a.next) > Lifetime
Old(a) == clock - a.created > Lifetime

SkipUndue ==
    /\ AtAlert /\ Item.next > clock
    /\ snap' = snap \ {Item.id}
    /\ UNCHANGED <<clock, up, once, enabled, queue, disk, pc, results, got, put, kept, given, faults>>

StartDelivery ==
    /\ AtAlert /\ Item.next <= clock /\ ~Old(Item)
    /\ pc' = "deliver"
    /\ UNCHANGED <<clock, up, once, enabled, queue, disk, snap, results, got, put, kept, given, faults>>

\* deliver: the pending channels that are still enabled send at the same time.
Targets == Item.pending \cap enabled

\* A channel's goroutine answers; after an error, the alert may have arrived all the same.
Send(c, outcome, received) ==
    /\ pc = "deliver" /\ c \in Targets \ DOMAIN results
    /\ outcome.kind = "ok" => received
    /\ IF received /\ outcome.kind # "ok" THEN Fault ELSE UNCHANGED faults
    /\ results' = [x \in DOMAIN results \cup {c} |-> IF x = c THEN outcome ELSE results[x]]
    /\ got' = [d \in Deliveries |->
                 IF received /\ d[1] \in Item.events /\ d[2] = c THEN got[d] + 1 ELSE got[d]]
    /\ UNCHANGED <<clock, up, once, enabled, queue, disk, pc, snap, put, kept, given>>

\* Mutant: only HTTP errors count as failures.
Rejected == {c \in DOMAIN results : results[c].kind = "http"}
Failed   == {c \in DOMAIN results : results[c].kind # "ok"}
Asked    == {results[c].asked : c \in {x \in Failed : results[x].kind = "http"}}

Backoff(n)      == Smaller(IF n > 7 THEN 64 ELSE 2 ^ (n - 1), Hour)
Delay(n, asked) == Smaller(Larger(Backoff(n), asked), Lifetime)

\* Mutant: a retry goes to every channel of the alert.
RetryAll(a, asked) ==
    [a EXCEPT !.attempts = @ + 1, !.next = clock + Delay(a.attempts + 1, asked)]
Retry(a, asked) ==
    [a EXCEPT !.pending = Failed, !.attempts = @ + 1, !.next = clock + Delay(a.attempts + 1, asked)]

Without(a)     == [queue EXCEPT !.alerts = @ \ {a}]
Replacing(a, b) == [queue EXCEPT !.alerts = (@ \ {a}) \cup {b}]

\* The next alert, or the flush ends because the queue file cannot be written.
Continue == \/ Persist /\ snap' = snap \ {Item.id} /\ pc' = "flush"
            \/ PersistFails /\ Return

\* All channels answered: the alert goes, or waits for those that failed.  The delay one of
\* them asked for is the one errors.As finds first, in the order in which they answered.
Acknowledge ==
    /\ pc = "deliver" /\ DOMAIN results = Targets
    /\ IF Failed = {} THEN queue' = Without(Item)
       ELSE \E asked \in IF Asked = {} THEN {0} ELSE Asked : queue' = Replacing(Item, Retry(Item, asked))
    /\ given' = given \cup (Item.events \X (Item.pending \ enabled))
    /\ results' = NoResults
    /\ Continue
    /\ UNCHANGED <<clock, up, once, enabled, got, put, kept>>

\* An alert older than a day is dropped and logged.
Expire ==
    /\ AtAlert /\ Item.next <= clock /\ Old(Item)
    /\ queue' = Without(Item)
    /\ given' = given \cup (Item.events \X Item.pending)
    /\ Continue
    /\ UNCHANGED <<clock, up, once, enabled, results, got, put, kept>>

EndFlush ==
    /\ pc = "flush" /\ snap = {} /\ Return
    /\ UNCHANGED <<clock, up, once, enabled, queue, disk, results, got, put, kept, given, faults>>

-----------------------------------------------------------------------------
\* The process and time.

\* NewDispatcher reads the queue file back.
Start ==
    /\ ~up /\ up' = TRUE
    /\ once' \in BOOLEAN /\ enabled' \in Setups
    /\ queue' = disk
    /\ UNCHANGED <<clock, disk, flush, got, put, kept, given, faults>>

Down == up' = FALSE /\ queue' = EmptyQueue /\ pc' = "idle" /\ snap' = {} /\ results' = NoResults

\* A cancelled context is looked at between alerts.
Stop ==
    /\ up /\ pc \in {"idle", "flush"} /\ Down
    /\ UNCHANGED <<clock, once, enabled, disk, got, put, kept, given, faults>>

\* A `test' exits after its flush.
Finish ==
    /\ pc = "done" /\ Down
    /\ UNCHANGED <<clock, once, enabled, disk, got, put, kept, given, faults>>

Crash ==
    /\ up /\ Fault /\ Down
    /\ UNCHANGED <<clock, once, enabled, disk, got, put, kept, given>>

\* A delivery takes seconds: each channel has ten of them to answer.
Tick ==
    /\ pc # "deliver"
    /\ clock < MaxTime /\ clock' = clock + 1
    /\ UNCHANGED <<up, once, enabled, queue, disk, flush, got, put, kept, given, faults>>

Init ==
    /\ clock = 0 /\ up = FALSE /\ once = FALSE /\ enabled \in Setups
    /\ queue = EmptyQueue /\ disk = EmptyQueue
    /\ pc = "idle" /\ snap = {} /\ results = NoResults
    /\ got = [d \in Deliveries |-> 0] /\ put = 0 /\ kept = {} /\ given = {}
    /\ faults = 0

Offers  == \E e \in Events : Refuse(e) \/ \E direct \in BOOLEAN : Notify(e, direct)
Deliver == \E c \in Channels, outcome \in Outcomes, received \in BOOLEAN : Send(c, outcome, received)
Flush   == StartFlush \/ SkipUndue \/ StartDelivery \/ Deliver \/ Acknowledge \/ Expire \/ EndFlush

Next == Offers \/ Flush \/ Start \/ Stop \/ Finish \/ Crash \/ Tick

Spec == Init /\ [][Next]_vars

\* The worker ticks every second, a channel answers within its deadline, a `test' exits, time passes.
FairSpec == Spec /\ WF_vars(Flush) /\ WF_vars(Finish) /\ WF_vars(Tick)

-----------------------------------------------------------------------------
\* Properties.

AlertType == [id : Nat, events : SUBSET Events, pending : SUBSET Channels,
              attempts : Nat, created : Nat, next : Nat]

\* A queue, in memory or on file: the alerts are numbered apart.
QueueOK(q) ==
    /\ q = [batch |-> q.batch, last |-> q.last, alerts |-> q.alerts, sequence |-> q.sequence]
    /\ q.batch \subseteq Events /\ q.last \in Nat /\ q.sequence \in Nat
    /\ \A a \in q.alerts : a \in AlertType /\ a.id <= q.sequence
    /\ \A a, b \in q.alerts : a.id = b.id => a = b

TypeOK ==
    /\ clock \in Nat /\ up \in BOOLEAN /\ once \in BOOLEAN /\ enabled \in Setups
    /\ QueueOK(queue) /\ QueueOK(disk)
    /\ pc \in {"idle", "flush", "deliver", "done"} /\ snap \subseteq Ids(queue)
    /\ pc = "deliver" => snap # {}
    /\ DOMAIN results \subseteq Channels /\ \A c \in DOMAIN results : results[c] \in Outcomes
    /\ got \in [Deliveries -> Nat] /\ put \in Nat
    /\ kept \subseteq Events /\ given \subseteq Deliveries /\ faults \in Nat

\* The queue and its file stay bounded: what overruns the limit is at most one alert, the batch that
\* was waiting while the last free place was taken.  batchToQueue does not look at the limit, which
\* is why the documented one is not kept (QueueWithinLimit); but no second batch can gather meanwhile.
Bounded(q) == IF q.batch = {} THEN Cardinality(q.alerts) <= Cap + 1 ELSE Cardinality(q.alerts) <= Cap
QueueBounded == Bounded(queue) /\ Bounded(disk)

\* A channel gets an event once, and once more for each crash, lost answer or failed write.
Repeats == \A d \in Deliveries : got[d] <= 1 + faults

\* Accepted events are neither lost nor forgotten by crash, restart, failed write or retry.
Owed == UNION {a.events \X a.pending : a \in disk.alerts}
Promise == INSTANCE AlertDelivery WITH
    audience <- enabled, held <- disk.batch, owed <- Owed, got <- {d \in Deliveries : got[d] > 0}
Delivered == Promise!ASpec

\* A process that stays up gets rid of every event: delivered, or given up after a day.
\* An alert is older than that at its next attempt, another delay of at most a day later: one
\* for which that lies beyond the bound of the clock is left aside.
Drained == queue.batch = {} /\ \A a \in queue.alerts : a.created + 2 * Lifetime >= MaxTime
Drains == <>[]up => <>[]Drained

-----------------------------------------------------------------------------
\* What the documentation says of the queue and the code does not keep.

\* Retention: up to 1000 alerts.
QueueWithinLimit == Cardinality(queue.alerts) <= Cap
=============================================================================
