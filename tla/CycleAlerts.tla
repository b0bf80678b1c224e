----------------------------- MODULE CycleAlerts ----------------------------
(***************************************************************************)
(* One cycle of the daemon and the notification queue together: the ban,   *)
(* its notification, the audit and its notification, and the two files,    *)
(* of which the queue's is written at once and the state's at the end.     *)
(* Every line comes from an address of its own and is enough for a ban, so *)
(* that a ban is named by its line; how a cycle counts is in Daemon, how   *)
(* the queue delivers in NotifyQueue.                                      *)
(***************************************************************************)
EXTENDS Integers, Sequences, SequencesExt, FiniteSets

CONSTANTS
    MaxLine,           \* bound: lines in the log
    MaxTime,           \* bound: the clock
    Interval,          \* audit_interval
    Cap,               \* alerts at which the queue refuses (1000)
    MaxFaults          \* bound: crashes, failed commands and writes

VARIABLES
    clock, lines,      \* the time, the lines written so far
    disk, mem,         \* the state file, and the state of the cycle
    fw,                \* the addresses the firewall blocks
    queue, file,       \* the queue in memory, and the queue file
    channels,          \* has the process a notification channel
    pc,                \* the cycle, or "down"
    next, upto,        \* the lines of the batch that are not handled yet
    got,               \* ghost: the bans whose notification was delivered
    refused, given,    \* ghosts: bans whose notification failed; whose alert went unsent
    dropped,           \* ghost: lines given up after a failed ban
    audits, faults     \* ghosts: audit alerts put into the queue; faults so far

cycle == <<pc, next, upto>>
vars  == <<clock, lines, disk, mem, fw, queue, file, channels, cycle, got, refused, given, dropped, audits, faults>>

Lines == 1..MaxLine
Audit == 0

\* A state that has seen no audit is older than any interval.
NoState == [off |-> 0, bans |-> {}, last |-> 0 - Interval]

ASSUME CycleAssumption ==
    /\ MaxLine \in Nat /\ MaxTime \in Nat /\ MaxFaults \in Nat
    /\ {Interval, Cap} \subseteq Nat \ {0}

Fault == faults < MaxFaults /\ faults' = faults + 1

-----------------------------------------------------------------------------
\* runOnce.

StartCycle ==
    /\ pc = "idle" /\ pc' = "read"
    /\ mem' = disk
    /\ UNCHANGED <<clock, lines, disk, fw, queue, file, channels, next, upto, got, refused, given, dropped, audits, faults>>

\* Mutant: the cursor is moved past the end of the log.
ReadOneFurther ==
    /\ pc = "read" /\ pc' = "ban"
    /\ next' = mem.off + 1 /\ upto' = lines
    /\ mem' = [mem EXCEPT !.off = lines + 1]
    /\ UNCHANGED <<clock, lines, disk, fw, queue, file, channels, got, refused, given, dropped, audits, faults>>
\* scanRule: the cursor is behind the lines before they are handled.
Read ==
    /\ pc = "read" /\ pc' = "ban"
    /\ next' = mem.off + 1 /\ upto' = lines
    /\ mem' = [mem EXCEPT !.off = lines]
    /\ UNCHANGED <<clock, lines, disk, fw, queue, file, channels, got, refused, given, dropped, audits, faults>>

\* An error of the log or of the listing of events ends the cycle.
ReadFails ==
    /\ pc = "read" /\ Fault /\ pc' = "save"
    /\ UNCHANGED <<clock, lines, disk, mem, fw, queue, file, channels, next, upto, got, refused, given, dropped, audits>>

\* Mutant: the ban is made and not recorded.
BanUnrecorded ==
    /\ pc = "ban" /\ next <= upto /\ pc' = "tell"
    /\ fw' = fw \cup {next}
    /\ UNCHANGED <<clock, lines, disk, mem, queue, file, channels, next, upto, got, refused, given, dropped, audits, faults>>
Ban ==
    /\ pc = "ban" /\ next <= upto /\ pc' = "tell"
    /\ fw' = fw \cup {next}
    /\ mem' = [mem EXCEPT !.bans = @ \cup {next}]
    /\ UNCHANGED <<clock, lines, disk, queue, file, channels, next, upto, got, refused, given, dropped, audits, faults>>

\* An error of the firewall ends the cycle; what is left of the batch is not read again.
BanFails ==
    /\ pc = "ban" /\ next <= upto /\ Fault /\ pc' = "save"
    /\ dropped' = dropped \cup (next..upto)
    /\ UNCHANGED <<clock, lines, disk, mem, fw, queue, file, channels, next, upto, got, refused, given, audits>>

Full == Len(queue) >= Cap

\* Mutant: the alert waits in memory for the next flush.
PersistLater == UNCHANGED <<file, faults>>
\* The queue file is replaced before NotifyBan and NotifyAudit return.
Persist == file' = queue' /\ UNCHANGED faults
PersistFails == Fault /\ UNCHANGED file

\* enqueue: without a channel there is nobody to tell, and no error.
Queued(alert) == IF channels THEN Append(queue, alert) ELSE queue

\* NotifyBan, whose error is only logged.
Tell ==
    /\ pc = "tell" /\ pc' = "ban" /\ next' = next + 1
    /\ IF Full THEN refused' = refused \cup {next} /\ UNCHANGED <<queue, file, given, faults>>
       ELSE /\ queue' = Queued(next)
            /\ given' = IF channels THEN given ELSE given \cup {next}
            /\ \/ Persist /\ UNCHANGED refused
               \/ PersistFails /\ refused' = refused \cup {next}
    /\ UNCHANGED <<clock, lines, disk, mem, fw, channels, upto, got, dropped, audits>>

Scanned == pc = "ban" /\ next > upto

\* Mutants: the interval is one short; the audit waits until more than the interval has passed.
DueEarly == clock - mem.last >= Interval - 1
DueLate  == clock - mem.last > Interval
Due == clock - mem.last >= Interval

\* Nothing is due, or there is nothing to tell: no findings, or audits are not notified.
NoAudit ==
    /\ Scanned /\ pc' = "save"
    /\ \/ ~Due /\ UNCHANGED mem
       \/ Due /\ mem' = [mem EXCEPT !.last = clock]
    /\ UNCHANGED <<clock, lines, disk, fw, queue, file, channels, next, upto, got, refused, given, dropped, audits, faults>>

Audited == mem' = [mem EXCEPT !.last = clock]

\* NotifyAudit; its error ends the cycle before the time of the audit is recorded.
TellAudit ==
    /\ Scanned /\ Due /\ pc' = "save"
    /\ IF Full THEN UNCHANGED <<queue, file, faults, audits, mem>>
       ELSE /\ queue' = Queued(Audit) /\ audits' = IF channels THEN audits + 1 ELSE audits
            /\ \/ Persist /\ Audited
               \/ PersistFails /\ UNCHANGED mem
    /\ UNCHANGED <<clock, lines, disk, fw, channels, next, upto, got, refused, given, dropped>>

\* The deferred saveState, after an error as well.
Save ==
    /\ pc = "save" /\ pc' = "idle"
    /\ \/ disk' = mem /\ UNCHANGED faults
       \/ Fault /\ UNCHANGED disk
    /\ UNCHANGED <<clock, lines, mem, fw, queue, file, channels, next, upto, got, refused, given, dropped, audits>>

-----------------------------------------------------------------------------
\* The worker, the process, the world.

\* An alert is delivered and leaves the queue.
Deliver ==
    /\ pc # "down" /\ channels /\ queue # <<>>
    /\ got' = got \cup ({Head(queue)} \ {Audit})
    /\ queue' = Tail(queue)
    /\ Persist \/ PersistFails
    /\ UNCHANGED <<clock, lines, disk, mem, fw, channels, cycle, refused, given, dropped, audits>>

\* An alert leaves the queue unsent: it is a day old, or none of its channels is enabled any more.
GiveUp ==
    /\ pc # "down" /\ queue # <<>>
    /\ given' = given \cup ({Head(queue)} \ {Audit})
    /\ queue' = Tail(queue)
    /\ Persist \/ PersistFails
    /\ UNCHANGED <<clock, lines, disk, mem, fw, channels, cycle, got, refused, dropped, audits>>

\* What is only in memory is gone.
Kill ==
    /\ pc # "down" /\ Fault /\ pc' = "down"
    /\ mem' = NoState /\ queue' = <<>> /\ channels' = FALSE /\ next' = 1 /\ upto' = 0
    /\ UNCHANGED <<clock, lines, disk, fw, file, got, refused, given, dropped, audits>>

\* The configuration may have changed.
Start ==
    /\ pc = "down" /\ pc' = "idle"
    /\ queue' = file /\ channels' \in BOOLEAN
    /\ UNCHANGED <<clock, lines, disk, mem, fw, file, next, upto, got, refused, given, dropped, audits, faults>>

Write ==
    /\ lines < MaxLine /\ lines' = lines + 1
    /\ UNCHANGED <<clock, disk, mem, fw, queue, file, channels, cycle, got, refused, given, dropped, audits, faults>>

Tick ==
    /\ pc = "idle" /\ clock < MaxTime /\ clock' = clock + 1
    /\ UNCHANGED <<lines, disk, mem, fw, queue, file, channels, cycle, got, refused, given, dropped, audits, faults>>

Init ==
    /\ clock = 0 /\ lines = 0 /\ disk = NoState /\ mem = NoState /\ fw = {}
    /\ queue = <<>> /\ file = <<>> /\ channels = FALSE
    /\ pc = "down" /\ next = 1 /\ upto = 0
    /\ got = {} /\ refused = {} /\ given = {} /\ dropped = {} /\ audits = 0 /\ faults = 0

Cycle == StartCycle \/ Read \/ ReadFails \/ Ban \/ BanFails \/ Tell \/ NoAudit \/ TellAudit \/ Save

Worker == Deliver \/ GiveUp

Next == Cycle \/ Worker \/ Kill \/ Start \/ Write \/ Tick

Spec == Init /\ [][Next]_vars

\* The ticker drives the cycle and the worker, the service manager starts the process again.
FairSpec == Spec /\ WF_vars(Cycle) /\ WF_vars(Worker) /\ WF_vars(Start)

-----------------------------------------------------------------------------
\* Properties.

\* The cursor is never past the log, and bans are of lines that were written.
TypeOK ==
    /\ clock \in 0..MaxTime /\ lines \in 0..MaxLine /\ fw \subseteq Lines
    /\ {disk, mem} \subseteq [off : 0..lines, bans : SUBSET (1..lines), last : (0 - Interval)..clock]
    /\ ToSet(queue) \cup ToSet(file) \subseteq Lines \cup {Audit} /\ channels \in BOOLEAN
    /\ pc \in {"down", "idle", "read", "ban", "tell", "save"} /\ next \in 1..(MaxLine + 1) /\ upto \in 0..lines

\* A ban that the state file knows has its notification in the queue file or has had it delivered,
\* unless the queue refused it and said so, or let it go unsent by itself, after a day or for want of
\* a channel: no crash, failed write or error later in the cycle leaves a recorded ban that nobody is
\* told about.
RecordedIsTold == disk.bans \subseteq ToSet(file) \cup got \cup refused \cup given

\* What the cursor of the state file has passed was acted on; only an error of the firewall gives
\* lines up, and only those that were read together with the one it was about.
NothingSkipped == 1..disk.off \subseteq disk.bans \cup dropped

\* Audits are announced once an interval; each crash or failed write costs one repetition at most.
AuditPace == audits <= 1 + clock \div Interval + faults

\* An audit that is due is done, however full the queue and whatever failed on the way.
AuditsHappen == (pc = "idle" /\ clock - disk.last >= Interval) ~> (clock - disk.last < Interval)
=============================================================================
