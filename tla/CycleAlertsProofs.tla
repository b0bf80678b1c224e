-------------------------- MODULE CycleAlertsProofs -------------------------
(* Theorems about CycleAlerts for every value of its constants, checked by TLAPS. *)
EXTENDS CycleAlerts, SequenceTheorems, TLAPS

-----------------------------------------------------------------------------
\* The inductive invariant.

Alerts == Lines \cup {Audit}
States == [off : 0..lines, bans : SUBSET (1..lines), last : (0 - Interval)..clock]

\* TypeOK, with the sequences as sequences.
Types ==
    /\ clock \in 0..MaxTime /\ lines \in 0..MaxLine /\ fw \subseteq Lines
    /\ disk \in States /\ mem \in States
    /\ queue \in Seq(Alerts) /\ file \in Seq(Alerts) /\ channels \in BOOLEAN
    /\ pc \in {"down", "idle", "read", "ban", "tell", "save"} /\ next \in 1..(MaxLine + 1) /\ upto \in 0..lines

\* The batch at hand ends where the cursor stands, and what the step "tell" is about was banned.
Batch ==
    /\ pc \in {"ban", "tell"} => mem.off = upto
    /\ pc = "ban" => next <= upto + 1
    /\ pc = "tell" => next <= upto /\ next \in mem.bans

\* What of the batch is not handled yet, and the ban that is not told yet.
Open   == IF pc \in {"ban", "tell"} THEN next..upto ELSE {}
Untold == IF pc = "tell" THEN {next} ELSE {}

\* The cycle's own state is as good as the file's, but for what the cycle is about to do.
Told ==
    pc \in {"read", "ban", "tell", "save"} =>
        mem.bans \subseteq ToSet(file) \cup got \cup refused \cup given \cup Untold
Handled == pc \in {"read", "ban", "tell", "save"} => 1..mem.off \subseteq mem.bans \cup dropped \cup Open

\* What left the queue and is still in the file was delivered or given up.
Delivered == pc # "down" => ToSet(file) \subseteq ToSet(queue) \cup got \cup given \cup {Audit}

\* The audit slot a state knows of, and what was announced beyond it: an audit whose time is not in
\* the state file yet, and one for each crash or failed write.
Slot(m) == m.last \div Interval
Pace ==
    /\ audits \in Nat /\ faults \in Nat
    /\ pc \in {"read", "ban", "tell", "save"} => audits <= 1 + Slot(mem) + faults
    /\ audits <= 1 + Slot(disk) + faults + IF pc = "save" THEN 1 ELSE 0

IInv == Types /\ Batch /\ Told /\ Handled /\ Delivered /\ RecordedIsTold /\ NothingSkipped

-----------------------------------------------------------------------------
\* Sequences as sets.

\* Appending adds one element.
LEMMA AppendSet ==
  ASSUME NEW S, NEW s \in Seq(S), NEW e \in S
  PROVE  Append(s, e) \in Seq(S) /\ ToSet(Append(s, e)) = ToSet(s) \cup {e}
<1> DEFINE t == Append(s, e)
<1>1. /\ t \in Seq(S) /\ Len(s) \in Nat /\ Len(t) = Len(s) + 1
      /\ \A i \in 1..Len(s) : t[i] = s[i]
      /\ t[Len(s) + 1] = e
  BY AppendProperties, LenProperties
<1>2. \A i \in 1..Len(t) : i \in 1..Len(s) \/ i = Len(s) + 1
  BY <1>1
<1>3. ToSet(t) \subseteq ToSet(s) \cup {e}
  BY <1>1, <1>2 DEF ToSet
<1>4. \A i \in 1..Len(s) : i \in 1..Len(t)
  BY <1>1
<1>5. Len(s) + 1 \in 1..Len(t)
  BY <1>1
<1>6. ToSet(s) \cup {e} \subseteq ToSet(t)
  <2> HIDE DEF t
  <2> QED BY <1>1, <1>4, <1>5 DEF ToSet
<1> QED BY <1>1, <1>3, <1>6

\* Taking the head off leaves the others.
LEMMA TailSet ==
  ASSUME NEW S, NEW s \in Seq(S), s # <<>>
  PROVE  Tail(s) \in Seq(S) /\ Head(s) \in S /\ ToSet(s) = {Head(s)} \cup ToSet(Tail(s))
<1> DEFINE t == Tail(s)
<1>1. /\ t \in Seq(S) /\ Head(s) \in S /\ Len(t) = Len(s) - 1
      /\ \A i \in 1..Len(t) : t[i] = s[i + 1]
  BY HeadTailProperties
<1>2. Len(s) \in Nat \ {0} /\ Head(s) = s[1]
  BY EmptySeq, LenProperties
<1> HIDE DEF t
<1>3. \A i \in 1..Len(s) : i = 1 \/ (i - 1 \in 1..Len(t) /\ t[i - 1] = s[i])
  BY <1>1, <1>2
<1>4. ToSet(s) \subseteq {Head(s)} \cup ToSet(t)
  BY <1>2, <1>3 DEF ToSet
<1>5. \A i \in 1..Len(t) : i + 1 \in 1..Len(s) /\ t[i] = s[i + 1]
  BY <1>1, <1>2
<1>6. {Head(s)} \cup ToSet(t) \subseteq ToSet(s)
  BY <1>2, <1>5 DEF ToSet
<1> QED BY <1>1, <1>4, <1>6 DEF t

\* The elements of a sequence are elements of its set.
LEMMA ToSetType ==
  ASSUME NEW S, NEW s \in Seq(S) PROVE ToSet(s) \subseteq S
BY DEF ToSet

\* Nothing is in the empty sequence.
LEMMA EmptySet == ToSet(<<>>) = {} /\ \A S : <<>> \in Seq(S)
BY DEF ToSet

-----------------------------------------------------------------------------
\* Division into slots.

LEMMA DivDef ==
  ASSUME NEW a \in Int, NEW n \in Nat \ {0}
  PROVE  a \div n \in Int /\ n * (a \div n) <= a /\ a < n * (a \div n) + n
BY SMTT(30)

LEMMA Product ==
  ASSUME NEW q \in Int, NEW r \in Int, NEW n \in Nat \ {0}, q < r
  PROVE  n * q \in Int /\ n * r \in Int /\ n * q + n <= n * r
BY SMTT(30)

\* A later time is in no earlier slot.
LEMMA SlotMonotone ==
  ASSUME NEW a \in Int, NEW b \in Int, NEW n \in Nat \ {0}, a <= b
  PROVE  a \div n <= b \div n
<1> DEFINE q == a \div n
           r == b \div n
<1>1. q \in Int /\ n * q <= a /\ r \in Int /\ b < n * r + n
  BY DivDef
<1> HIDE DEF q, r
<1>2. ASSUME r < q PROVE FALSE
  BY <1>1, <1>2, Product
<1> QED BY <1>1, <1>2 DEF q, r

\* A time that is an interval later is in a later slot.
LEMMA SlotAdvances ==
  ASSUME NEW a \in Int, NEW b \in Int, NEW n \in Nat \ {0}, a + n <= b
  PROVE  a \div n + 1 <= b \div n
<1> DEFINE q == a \div n
           r == b \div n
<1>1. q \in Int /\ n * q <= a /\ r \in Int /\ b < n * r + n
  BY DivDef
<1> HIDE DEF q, r
<1>2. ASSUME r < q PROVE FALSE
  BY <1>1, <1>2, Product
<1>3. ASSUME r = q PROVE FALSE
  <2>1. n * r \in Int
    BY <1>1
  <2> QED BY <1>1, <1>3, <2>1
<1> QED BY <1>1, <1>2, <1>3 DEF q, r

\* A state that has seen no audit is one slot before the first.
LEMMA SlotOfNone ==
  ASSUME NEW n \in Nat \ {0}
  PROVE  0 <= 1 + ((0 - n) \div n)
<1> DEFINE q == (0 - n) \div n
<1>1. q \in Int /\ 0 - n < n * q + n
  BY DivDef
<1> HIDE DEF q
<1>2. ASSUME q < 0 - 1 PROVE FALSE
  <2>1. n * q + n <= n * (0 - 1) /\ n * q \in Int
    BY <1>1, <1>2, Product
  <2>2. n * (0 - 1) = 0 - n
    OBVIOUS
  <2> QED BY <1>1, <2>1, <2>2
<1> QED BY <1>1, <1>2 DEF q

-----------------------------------------------------------------------------
\* The invariant holds at first.
LEMMA InitIInv == Init => IInv
<1> SUFFICES ASSUME Init PROVE IInv
  OBVIOUS
<1>1. channels \in BOOLEAN
  BY Zenon DEF Init
<1>2. queue \in Seq(Alerts) /\ file \in Seq(Alerts)
  BY EmptySet DEF Init
<1>3. Types
  <2>1. clock \in 0..MaxTime /\ lines \in 0..MaxLine /\ fw \subseteq Lines
    BY CycleAssumption DEF Init
  <2>2. disk \in States /\ mem \in States
    BY CycleAssumption DEF Init, States, NoState
  <2>3. pc \in {"down", "idle", "read", "ban", "tell", "save"} /\ next \in 1..(MaxLine + 1) /\ upto \in 0..lines
    BY CycleAssumption DEF Init
  <2> QED BY <1>1, <1>2, <2>1, <2>2, <2>3 DEF Types
<1> QED BY <1>3, EmptySet DEF Init, IInv, Batch, Told, Handled, Delivered, RecordedIsTold, NothingSkipped, NoState

\* Facts every step starts from.
LEMMA Facts ==
  ASSUME IInv
  PROVE  /\ MaxLine \in Nat /\ MaxTime \in Nat /\ Interval \in Nat \ {0}
         /\ clock \in Nat /\ lines \in Nat /\ next \in Nat /\ upto \in Nat
         /\ mem.off \in 0..lines /\ mem.bans \subseteq 1..lines /\ Audit \notin mem.bans
         /\ disk.off \in 0..lines /\ disk.bans \subseteq 1..lines /\ Audit \notin disk.bans
BY CycleAssumption DEF IInv, Types, States, Audit

\* A change of one field stays within the states.
LEMMA StateUpdates ==
  ASSUME IInv
  PROVE  /\ [mem EXCEPT !.off = lines] \in States
         /\ [mem EXCEPT !.last = clock] \in States
         /\ [mem EXCEPT !.last = clock].off = mem.off
         /\ [mem EXCEPT !.last = clock].bans = mem.bans
<1> USE Facts
<1>1. mem \in States
  BY DEF IInv, Types
<1>2. lines \in 0..lines
  OBVIOUS
<1>3. clock \in (0 - Interval)..clock
  OBVIOUS
<1> QED BY <1>1, <1>2, <1>3 DEF States

\* The steps of a cycle keep it.
LEMMA CycleStep ==
  ASSUME IInv, Cycle PROVE IInv'
<1> USE Facts
<1>1. CASE StartCycle
  <2>1. Types'
    BY <1>1 DEF StartCycle, IInv, Types, States
  <2> QED BY <2>1, <1>1 DEF StartCycle, IInv, Batch, Told, Handled, Delivered, RecordedIsTold, NothingSkipped, Open, Untold
<1>2. CASE Read
  <2>1. mem' = [mem EXCEPT !.off = lines] /\ mem'.off = lines /\ mem'.bans = mem.bans
    BY <1>2 DEF Read, IInv, Types, States
  <2>2. Types'
    <3>1. mem' \in States /\ States' = States
      BY <1>2, <2>1, StateUpdates DEF Read, States
    <3>2. next' \in 1..(MaxLine + 1) /\ upto' \in 0..lines
      BY <1>2 DEF Read, IInv, Types
    <3> QED BY <1>2, <3>1, <3>2 DEF Read, IInv, Types
  <2>3. Handled'
    BY <1>2, <2>1 DEF Read, IInv, Handled, Open
  <2> QED BY <2>1, <2>2, <2>3, <1>2 DEF Read, IInv, Batch, Told, Delivered, RecordedIsTold, NothingSkipped, Untold
<1>3. CASE ReadFails
  <2>1. Types'
    BY <1>3 DEF ReadFails, IInv, Types, States
  <2> QED BY <2>1, <1>3 DEF ReadFails, IInv, Batch, Told, Handled, Delivered, RecordedIsTold, NothingSkipped, Open, Untold
<1>4. CASE Ban
  <2>1. next \in 1..lines /\ next \in Lines
    BY <1>4 DEF Ban, IInv, Types, Lines
  <2>2. mem'.off = mem.off /\ mem'.bans = mem.bans \cup {next} /\ mem' \in States
    BY <1>4, <2>1 DEF Ban, IInv, Types, States
  <2>3. Types'
    BY <1>4, <2>1, <2>2 DEF Ban, IInv, Types, States
  <2> QED BY <2>1, <2>2, <2>3, <1>4 DEF Ban, IInv, Batch, Told, Handled, Delivered, RecordedIsTold, NothingSkipped, Open, Untold
<1>5. CASE BanFails
  <2>1. Types'
    BY <1>5 DEF BanFails, IInv, Types, States
  <2> QED BY <2>1, <1>5 DEF BanFails, IInv, Batch, Told, Handled, Delivered, RecordedIsTold, NothingSkipped, Open, Untold
<1>6. CASE Tell
  <2>1. next \in Lines /\ next \in Alerts /\ next <= upto
    BY <1>6 DEF Tell, IInv, Types, Batch, Lines, Alerts
  <2>2. queue \in Seq(Alerts) /\ file \in Seq(Alerts)
    BY DEF IInv, Types
  <2>3. Append(queue, next) \in Seq(Alerts) /\ ToSet(Append(queue, next)) = ToSet(queue) \cup {next}
    BY <2>1, <2>2, AppendSet
  <2>4. /\ UNCHANGED <<clock, lines, disk, mem, fw, channels, upto, got, dropped>>
        /\ pc = "tell" /\ pc' = "ban" /\ next' = next + 1
    BY <1>6 DEF Tell
  <2>5. /\ queue' \in Seq(Alerts) /\ file' \in Seq(Alerts)
        /\ ToSet(queue) \subseteq ToSet(queue') /\ refused \subseteq refused' /\ given \subseteq given'
        /\ (file' = file /\ next \in refused')
              \/ (file' = queue' /\ next \in ToSet(queue') \cup refused' \cup given')
    <3>1. CASE Full
      BY <1>6, <2>2, <3>1 DEF Tell
    <3>2. CASE ~Full
      <4>1. /\ queue' = IF channels THEN Append(queue, next) ELSE queue
            /\ given' = IF channels THEN given ELSE given \cup {next}
            /\ \/ file' = queue' /\ refused' = refused
               \/ file' = file /\ refused' = refused \cup {next}
        BY <1>6, <3>2 DEF Tell, Queued, Persist, PersistFails
      <4> QED BY <2>2, <2>3, <4>1
    <3> QED BY <3>1, <3>2
  <2>6. Types'
    <3>1. States' = States /\ next' \in 1..(MaxLine + 1)
      BY <2>1, <2>4 DEF States, IInv, Types
    <3> QED BY <2>4, <2>5, <3>1 DEF IInv, Types
  <2>7. Told' /\ Delivered' /\ RecordedIsTold'
    BY Facts, <2>4, <2>5 DEF IInv, Told, Delivered, RecordedIsTold, Untold
  <2> QED BY <2>1, <2>4, <2>6, <2>7 DEF IInv, Batch, Handled, NothingSkipped, Open
<1>7. CASE NoAudit
  <2>1. mem'.off = mem.off /\ mem'.bans = mem.bans /\ mem' \in States
    BY <1>7, StateUpdates DEF NoAudit, IInv, Types
  <2>2. Types'
    BY <1>7, <2>1 DEF NoAudit, IInv, Types, States
  <2>3. Handled'
    BY <1>7, <2>1 DEF NoAudit, Scanned, IInv, Handled, Open
  <2> QED BY <2>1, <2>2, <2>3, <1>7 DEF NoAudit, Scanned, IInv, Batch, Told, Delivered, RecordedIsTold, NothingSkipped, Untold
<1>8. CASE TellAudit
  <2>1. mem'.off = mem.off /\ mem'.bans = mem.bans /\ mem' \in States
    BY <1>8, StateUpdates DEF TellAudit, Audited, IInv, Types
  <2>2. queue \in Seq(Alerts) /\ Audit \in Alerts
    BY DEF IInv, Types, Alerts
  <2>3. Append(queue, Audit) \in Seq(Alerts) /\ ToSet(Append(queue, Audit)) = ToSet(queue) \cup {Audit}
    BY <2>2, AppendSet
  <2>4. /\ UNCHANGED <<clock, lines, disk, fw, channels, next, upto, got, refused, given, dropped>>
        /\ pc = "ban" /\ next > upto /\ pc' = "save"
    BY <1>8 DEF TellAudit, Scanned
  <2>5. \/ queue' = queue /\ file' = file
        \/ queue' \in {queue, Append(queue, Audit)} /\ (file' = queue' \/ file' = file)
    BY <1>8 DEF TellAudit, Queued, Persist, PersistFails
  <2>6. Types'
    BY <2>1, <2>3, <2>4, <2>5 DEF IInv, Types, States
  <2>7. Handled'
    BY <2>1, <2>4 DEF IInv, Handled, Open
  <2>8. Told' /\ Delivered' /\ RecordedIsTold'
    BY Facts, <2>1, <2>3, <2>4, <2>5 DEF IInv, Told, Delivered, RecordedIsTold, Untold
  <2> QED BY <2>1, <2>4, <2>6, <2>7, <2>8 DEF IInv, Batch, NothingSkipped
<1>9. CASE Save
  <2>1. Types'
    BY <1>9 DEF Save, IInv, Types, States
  <2> QED BY <2>1, <1>9 DEF Save, IInv, Batch, Told, Handled, Delivered, RecordedIsTold, NothingSkipped, Open, Untold
<1> QED BY <1>1, <1>2, <1>3, <1>4, <1>5, <1>6, <1>7, <1>8, <1>9 DEF Cycle

\* The worker, the process and the world keep it.
LEMMA OtherStep ==
  ASSUME IInv, Worker \/ Kill \/ Start \/ Write \/ Tick \/ UNCHANGED vars PROVE IInv'
<1> USE Facts
<1>1. CASE Worker
  <2>1. queue \in Seq(Alerts) /\ file \in Seq(Alerts) /\ queue # <<>>
    BY <1>1 DEF Worker, Deliver, GiveUp, IInv, Types
  <2>2. Tail(queue) \in Seq(Alerts) /\ ToSet(queue) = {Head(queue)} \cup ToSet(Tail(queue))
    BY <2>1, TailSet
  <2>3. UNCHANGED <<clock, lines, disk, mem, fw, channels, pc, next, upto, refused, dropped>> /\ pc # "down"
    BY <1>1 DEF Worker, Deliver, GiveUp, cycle
  <2>4. /\ queue' = Tail(queue) /\ (file' = queue' \/ file' = file)
        /\ got \subseteq got' /\ given \subseteq given' /\ {Head(queue)} \ {Audit} \subseteq got' \cup given'
    BY <1>1 DEF Worker, Deliver, GiveUp, Persist, PersistFails
  <2>5. Types'
    BY <2>1, <2>2, <2>3, <2>4 DEF IInv, Types, States
  <2>6. Delivered'
    BY <2>2, <2>3, <2>4 DEF IInv, Delivered
  <2>7. ToSet(file) \subseteq ToSet(file') \cup got' \cup given' \cup {Audit}
    BY <2>2, <2>3, <2>4 DEF IInv, Delivered
  <2>8. Told' /\ RecordedIsTold'
    BY Facts, <2>3, <2>4, <2>7 DEF IInv, Told, RecordedIsTold, Untold
  <2> QED BY <2>3, <2>5, <2>6, <2>8 DEF IInv, Batch, Handled, NothingSkipped, Open
<1>2. CASE Kill
  <2>1. channels' \in BOOLEAN
    BY <1>2, Zenon DEF Kill
  <2>2. queue' \in Seq(Alerts) /\ file' \in Seq(Alerts)
    BY <1>2, EmptySet DEF Kill, IInv, Types
  <2>3. disk' \in States' /\ mem' \in States'
    BY <1>2, CycleAssumption DEF Kill, IInv, Types, States, NoState
  <2>4. /\ clock' \in 0..MaxTime /\ lines' \in 0..MaxLine /\ fw' \subseteq Lines
        /\ pc' \in {"down", "idle", "read", "ban", "tell", "save"} /\ next' \in 1..(MaxLine + 1) /\ upto' \in 0..lines'
    BY <1>2, CycleAssumption DEF Kill, IInv, Types
  <2>5. Types'
    BY <2>1, <2>2, <2>3, <2>4 DEF Types
  <2> QED BY <2>5, <1>2 DEF Kill, IInv, Batch, Told, Handled, Delivered, RecordedIsTold, NothingSkipped, Open, Untold
<1>3. CASE Start
  <2>1. Types'
    BY <1>3 DEF Start, IInv, Types, States
  <2> QED BY <2>1, <1>3 DEF Start, IInv, Batch, Told, Handled, Delivered, RecordedIsTold, NothingSkipped, Open, Untold
<1>4. CASE Write
  <2>1. Types'
    BY <1>4 DEF Write, cycle, IInv, Types, States
  <2> QED BY <2>1, <1>4 DEF Write, cycle, IInv, Batch, Told, Handled, Delivered, RecordedIsTold, NothingSkipped, Open, Untold
<1>5. CASE Tick
  <2>1. Types'
    BY <1>5 DEF Tick, cycle, IInv, Types, States
  <2> QED BY <2>1, <1>5 DEF Tick, cycle, IInv, Batch, Told, Handled, Delivered, RecordedIsTold, NothingSkipped, Open, Untold
<1>6. CASE UNCHANGED vars
  BY <1>6 DEF vars, cycle, IInv, Types, States, Batch, Told, Handled, Delivered, RecordedIsTold, NothingSkipped, Open, Untold
<1> QED BY <1>1, <1>2, <1>3, <1>4, <1>5, <1>6

\* Every step keeps it.
THEOREM InductiveInvariant == Spec => []IInv
<1>1. Init => IInv
  BY InitIInv
<1>2. IInv /\ [Next]_vars => IInv'
  BY CycleStep, OtherStep DEF Next
<1> QED BY <1>1, <1>2, PTL DEF Spec

-----------------------------------------------------------------------------
\* The pace of the audits, on top of it.

LEMMA InitPace == Init => Pace
<1> SUFFICES ASSUME Init PROVE Pace
  OBVIOUS
<1>1. 0 <= 1 + Slot(NoState) /\ Slot(NoState) \in Int
  BY SlotOfNone, DivDef, CycleAssumption DEF Slot, NoState
<1>2. audits = 0 /\ faults = 0 /\ disk = NoState /\ pc = "down"
  BY DEF Init
<1> QED BY <1>1, <1>2 DEF Pace

LEMMA PaceStep ==
  ASSUME IInv, Pace, [Next]_vars PROVE Pace'
<1> USE Facts
<1>1. mem.last \in Int /\ disk.last \in Int /\ mem.last <= clock /\ disk.last <= clock
  BY DEF IInv, Types, States
<1>2. Slot(mem) \in Int /\ Slot(disk) \in Int
  BY <1>1, DivDef DEF Slot
<1>3. audits \in Nat /\ faults \in Nat
  BY DEF Pace
<1>4. CASE StartCycle
  BY <1>2, <1>3, <1>4 DEF StartCycle, Pace, Slot
<1>5. CASE Read
  <2>1. Slot(mem') = Slot(mem)
    BY <1>5 DEF Read, Slot, IInv, Types, States
  <2> QED BY <2>1, <1>2, <1>3, <1>5 DEF Read, Pace, Slot
<1>6. CASE ReadFails
  BY <1>2, <1>3, <1>6 DEF ReadFails, Fault, Pace, Slot
<1>7. CASE Ban
  <2>1. Slot(mem') = Slot(mem)
    BY <1>7 DEF Ban, Slot, IInv, Types, States
  <2> QED BY <2>1, <1>2, <1>3, <1>7 DEF Ban, Pace, Slot
<1>8. CASE BanFails
  BY <1>2, <1>3, <1>8 DEF BanFails, Fault, Pace, Slot
<1>9. CASE Tell
  <2>1. pc = "tell" /\ pc' = "ban" /\ UNCHANGED <<disk, mem, audits>> /\ (faults' = faults \/ faults' = faults + 1)
    BY <1>9 DEF Tell, Persist, PersistFails, Fault
  <2> QED BY <2>1, <1>2, <1>3 DEF Pace, Slot
<1>10. CASE NoAudit
  <2>1. mem'.last = mem.last \/ mem'.last = clock
    BY <1>10, StateUpdates DEF NoAudit, IInv, Types, States
  <2>2. Slot(mem) <= Slot(mem') /\ Slot(mem') \in Int
    BY <2>1, <1>1, <1>2, SlotMonotone, DivDef DEF Slot
  <2> QED BY <2>2, <1>2, <1>3, <1>10 DEF NoAudit, Scanned, Pace, Slot
<1>11. CASE TellAudit
  <2>1. pc = "ban" /\ pc' = "save" /\ disk' = disk /\ mem.last + Interval <= clock
    BY <1>1, <1>11 DEF TellAudit, Scanned, Due
  <2>2. /\ audits' \in {audits, audits + 1}
        /\ \/ audits' = audits /\ faults' = faults /\ mem' = mem
           \/ faults' = faults /\ mem' = [mem EXCEPT !.last = clock]
           \/ faults' = faults + 1 /\ mem' = mem
    BY <1>11 DEF TellAudit, Persist, PersistFails, Audited, Fault
  <2>3. clock \div Interval \in Int /\ Slot(mem) + 1 <= clock \div Interval
    BY <2>1, <1>1, SlotAdvances, DivDef DEF Slot
  <2>4. [mem EXCEPT !.last = clock].last = clock
    BY DEF IInv, Types, States
  <2>5. /\ audits' \in {audits, audits + 1}
        /\ \/ audits' = audits /\ faults' = faults /\ Slot(mem') = Slot(mem)
           \/ faults' = faults /\ Slot(mem') = clock \div Interval
           \/ faults' = faults + 1 /\ Slot(mem') = Slot(mem)
    BY <2>2, <2>4 DEF Slot
  <2>6. audits <= 1 + Slot(mem) + faults /\ audits <= 1 + Slot(disk) + faults
    BY <2>1, <1>2, <1>3 DEF Pace
  <2>7. Slot(disk') = Slot(disk)
    BY <2>1 DEF Slot
  <2>8. audits' <= 1 + Slot(mem') + faults' /\ audits' <= 1 + Slot(disk') + faults' + 1
    BY <2>3, <2>5, <2>6, <2>7, <1>2, <1>3
  <2> QED BY <2>1, <2>5, <2>8, <1>3 DEF Pace
<1>12. CASE Save
  BY <1>2, <1>3, <1>12 DEF Save, Fault, Pace, Slot
<1>13. CASE Worker
  <2>1. UNCHANGED <<disk, mem, pc, audits>> /\ (faults' = faults \/ faults' = faults + 1)
    BY <1>13 DEF Worker, Deliver, GiveUp, cycle, Persist, PersistFails, Fault
  <2> QED BY <2>1, <1>2, <1>3 DEF Pace, Slot
<1>14. CASE Kill
  BY <1>2, <1>3, <1>14 DEF Kill, Fault, Pace, Slot
<1>15. CASE Start
  BY <1>2, <1>3, <1>15 DEF Start, Pace, Slot
<1>16. CASE Write \/ Tick
  BY <1>2, <1>3, <1>16 DEF Write, Tick, cycle, Pace, Slot
<1>17. CASE UNCHANGED vars
  BY <1>2, <1>3, <1>17 DEF vars, cycle, Pace, Slot
<1> QED BY <1>4, <1>5, <1>6, <1>7, <1>8, <1>9, <1>10, <1>11, <1>12, <1>13, <1>14, <1>15, <1>16, <1>17
     DEF Next, Cycle

-----------------------------------------------------------------------------
\* Theorems.

\* Cursor, bans and times stay within the log and the clock, whatever crashes and fails.
THEOREM TypeCorrect == Spec => []TypeOK
<1>1. IInv => TypeOK
  BY ToSetType DEF IInv, Types, TypeOK, States, Alerts
<1> QED BY <1>1, InductiveInvariant, PTL

\* No crash, failed write or error between the queue file and the state file leaves a recorded ban
\* (daemon.go: scanLines, batch.go: NotifyBan) that nobody is told about, unless the queue refused its
\* alert with an error or let it go unsent itself, for want of a channel or after a day.
THEOREM RecordedIsToldHolds == Spec => []RecordedIsTold
<1>1. IInv => RecordedIsTold
  BY DEF IInv
<1> QED BY <1>1, InductiveInvariant, PTL

\* What the cursor of the state file has passed (daemon.go: scanRule) was acted on, or given up
\* with a failed ban.
THEOREM NothingSkippedHolds == Spec => []NothingSkipped
<1>1. IInv => NothingSkipped
  BY DEF IInv
<1> QED BY <1>1, InductiveInvariant, PTL

\* Audits are announced once an interval, plus once for each crash or failed write
\* (daemon.go: maybeAudit, whose time is saved at the end of the cycle).
THEOREM AuditPaceHolds == Spec => []AuditPace
<1>1. Init => Pace
  BY InitPace
<1>2. IInv /\ Pace /\ [Next]_vars => Pace'
  BY PaceStep
<1>3. IInv /\ Pace => AuditPace
  <2> SUFFICES ASSUME IInv, Pace PROVE AuditPace
    OBVIOUS
  <2>1. /\ mem.last \in Int /\ disk.last \in Int /\ mem.last <= clock /\ disk.last <= clock
        /\ clock \in Int /\ Interval \in Nat \ {0}
    BY Facts DEF IInv, Types, States
  <2>2. /\ Slot(mem) \in Int /\ Slot(disk) \in Int /\ clock \div Interval \in Int
        /\ Slot(mem) <= clock \div Interval /\ Slot(disk) <= clock \div Interval
    BY <2>1, SlotMonotone, DivDef DEF Slot
  <2> QED BY <2>2 DEF Pace, AuditPace
<1> QED BY <1>1, <1>2, <1>3, InductiveInvariant, PTL DEF Spec
=============================================================================
