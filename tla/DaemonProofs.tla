---------------------------- MODULE DaemonProofs ----------------------------
(* Theorems about Daemon for every value of its constants, checked by TLAPS. *)
EXTENDS Daemon, SequenceTheorems, FiniteSetTheorems, FunctionTheorems, TLAPS

-----------------------------------------------------------------------------
\* What the helpers of Daemon return.

\* The state a fresh process starts from is a state.
LEMMA EmptyStateType == EmptyState \in StateType
BY ActionAssumption DEF EmptyState, StateType, NoHits, Actions, Unseen

\* A legacy state file holds a state.
LEMMA InheritedType == InheritedStates \subseteq StateType
<1>1. ASSUME NEW k \in Keys, NEW a \in Inherited PROVE LegacyBan(k, a) \in StateType
  <2>1. a \in Actions
    BY ActionAssumption DEF Actions
  <2> QED BY <2>1, EmptyStateType DEF LegacyBan, StateType
<1> QED BY <1>1, EmptyStateType DEF InheritedStates

\* Dropping a ban leaves a state.
LEMMA DropBanType ==
  ASSUME NEW st \in StateType, NEW k \in Keys
  PROVE  DropBan(st, k) \in StateType
BY DEF DropBan, StateType, NoHits, Actions

\* Filtering the hits of a key by its window leaves a bag of times.
LEMMA RecentType ==
  ASSUME NEW h \in [Time -> Nat], NEW r, NEW t
  PROVE  Recent(h, r, t) \in [Time -> Nat]
BY DEF Recent

\* One more failure leaves a bag of times.
LEMMA AppendRecentType ==
  ASSUME NEW h \in [Time -> Nat], NEW r, NEW t
  PROVE  AppendRecent(h, r, t) \in [Time -> Nat]
<1> DEFINE g == Recent(h, r, t)
<1>1. g \in [Time -> Nat]
  BY RecentType
<1>2. [g EXCEPT ![t] = @ + 1] \in [Time -> Nat]
  <2>1. CASE t \in Time BY <1>1, <2>1
  <2>2. CASE t \notin Time BY <1>1, <2>2
  <2> QED BY <2>1, <2>2
<1> QED BY <1>2 DEF AppendRecent

\* Pruning drops cooldowns and hits only.
LEMMA PruneType ==
  ASSUME NEW c, NEW st \in StateType, NEW t
  PROVE  /\ Prune(c, st, t) \in StateType
         /\ Prune(c, st, t).bans = st.bans /\ Prune(c, st, t).act = st.act
<1> DEFINE over == {k \in Keys : st.cool[k] # 0 /\ (st.cool[k] <= t \/ k[2] \in c.ignore)}
           drop == over \cup {k \in Keys : c.action[k[1]] = "absent" \/ k[2] \in c.ignore}
           cool == [k \in Keys |-> IF k \in over THEN 0 ELSE st.cool[k]]
           hits == [k \in Keys |-> IF k \in drop THEN NoHits ELSE Recent(st.hits[k], k[1], t)]
<1>1. Prune(c, st, t) = [st EXCEPT !.cool = cool, !.hits = hits]
  BY DEF Prune
<1>2. cool \in [Keys -> Nat]
  BY DEF StateType
<1>3. hits \in [Keys -> [Time -> Nat]]
  <2>1. ASSUME NEW k \in Keys PROVE Recent(st.hits[k], k[1], t) \in [Time -> Nat]
    BY RecentType DEF StateType
  <2> QED BY <2>1 DEF NoHits
<1> HIDE DEF cool, hits
<1> QED BY <1>1, <1>2, <1>3 DEF StateType

\* The addresses with a success in a batch are addresses.
LEMMA SuccessesType ==
  ASSUME NEW lines \in Seq(Lines)
  PROVE  Successes(lines) \subseteq IPs
BY InputAssumption DEF Successes, LineType

\* Opening a batch touches hits and graces only.
LEMMA OpenBatchType ==
  ASSUME NEW st \in StateType, NEW r \in Rules, NEW t \in Nat, NEW lines
  PROVE  /\ OpenBatch(st, r, t, lines) \in StateType
         /\ OpenBatch(st, r, t, lines).bans = st.bans
         /\ OpenBatch(st, r, t, lines).act = st.act
         /\ OpenBatch(st, r, t, lines).off = st.off
<1> DEFINE ok == Successes(lines)
           grace == [x \in Rules \X IPs |->
                       IF x[1] = r /\ x[2] \in ok THEN t + SuccessGrace[r]
                       ELSE IF st.grace[x] <= t THEN 0 ELSE st.grace[x]]
           hits == [k \in Keys |-> IF k[1] = r /\ k[2] \in ok THEN NoHits ELSE st.hits[k]]
<1>1. OpenBatch(st, r, t, lines) = [st EXCEPT !.grace = grace, !.hits = hits]
  BY DEF OpenBatch
<1>2. grace \in [Rules \X IPs -> Nat]
  BY RuleAssumption DEF StateType
<1>3. hits \in [Keys -> [Time -> Nat]]
  BY DEF StateType, NoHits
<1> HIDE DEF grace, hits
<1> QED BY <1>1, <1>2, <1>3 DEF StateType

\* The entry of a real record is an entry; so is every recorded one.
LEMMA EntryType ==
  ASSUME NEW st \in StateType, NEW k \in Keys, tool \in Tools, Real(st, k)
  PROVE  EntryOf(st, k) \in Entries
BY DEF Real, EntryOf, Entries, Keys

\* What the records of a state stand for are entries.
LEMMA RecordedType ==
  ASSUME NEW st \in StateType, tool \in Tools
  PROVE  Recorded(st) \subseteq Entries
BY EntryType DEF Recorded

-----------------------------------------------------------------------------
\* Type correctness.

\* What a read hands to the scan: lines of the log, between two cursors.
LEMMA ReadType ==
  ASSUME TypeOK, NEW r \in Rules
  PROVE  /\ ReadCursor(r) \in Nat /\ ReadEnd(r) \in Nat /\ ReadEnd(r) <= Len(log[r])
         /\ Len(log[r]) \in Nat
         /\ \A m \in Nat, n \in Nat : n <= Len(log[r]) => SubSeq(log[r], m + 1, n) \in Seq(Lines)
<1> DEFINE s == log[r]
<1>1. s \in Seq(Lines) /\ Len(s) \in Nat
  BY DEF TypeOK
<1>2. mem.off[r] \in Nat \cup {Unseen}
  BY DEF TypeOK, StateType
<1>3. ReadCursor(r) \in Nat
  BY <1>2 DEF ReadCursor
<1>4. ReadEnd(r) \in Nat /\ ReadEnd(r) <= Len(s)
  <2> HIDE DEF s
  <2>1. ReadEnd(r) = IF Len(s) - ReadCursor(r) > MaxBatch THEN ReadCursor(r) + MaxBatch ELSE Len(s)
    BY DEF ReadEnd, s
  <2> QED BY <2>1, <1>1, <1>3, InputAssumption
<1>5. ASSUME NEW m \in Nat, NEW n \in Nat, n <= Len(s) PROVE SubSeq(s, m + 1, n) \in Seq(Lines)
  <2> HIDE DEF s
  <2>1. \A i \in (m + 1)..n : s[i] \in Lines
    BY <1>1, <1>5
  <2> QED BY <1>1, <1>5, <2>1, SubSeqProperties
<1> QED BY <1>1, <1>3, <1>4, <1>5

\* The line at hand, its key and its hits.
LEMMA LineFacts ==
  ASSUME TypeOK, AtLine
  PROVE  /\ rule \in Rules /\ Line \in Lines /\ Line.ip \in IPs /\ LineKey \in Keys
         /\ LineKey[1] = rule /\ LineKey[2] = Line.ip
         /\ Tail(batch) \in Seq(Lines)
         /\ NextHits \in [Time -> Nat]
         /\ BanTime[rule] \in Nat \ {0} /\ now + BanTime[rule] \in Nat \ {0}
<1>1. rule \in Rules /\ batch \in Seq(Lines) /\ batch # <<>> /\ now \in Nat
  BY DEF TypeOK, AtLine
<1>2. Line \in Lines /\ Tail(batch) \in Seq(Lines)
  BY <1>1 DEF Line
<1>3. Line.ip \in IPs /\ Line.user \in Users \cup {NoUser}
  BY <1>2, InputAssumption DEF LineType
<1>4. LineKey \in Keys /\ LineKey[1] = rule /\ LineKey[2] = Line.ip
  BY <1>1, <1>3 DEF LineKey, BanKey, Keys
<1>5. NextHits \in [Time -> Nat]
  <2>1. mem.hits[LineKey] \in [Time -> Nat]
    BY <1>4 DEF TypeOK, StateType
  <2> QED BY <2>1, AppendRecentType DEF NextHits
<1> QED BY <1>1, <1>2, <1>3, <1>4, <1>5, RuleAssumption

\* A cycle that ends leaves the variables of a fresh process.
LEMMA EmptyTypes == <<>> \in Seq(Lines) /\ EmptyState \in StateType
BY EmptySeq, EmptyStateType

\* The initial states have their types.
LEMMA TypeInit == Init => TypeOK
<1> SUFFICES ASSUME Init PROVE TypeOK
  OBVIOUS
<1>1. disk \in StateType /\ mem \in StateType
  BY InheritedType, EmptyStateType DEF Init, NoCycle
<1>2. fw \subseteq Entries
  BY <1>1, RecordedType DEF Init
<1>3. log \in [Rules -> Seq(Lines)]
  BY EmptyTypes DEF Init
<1> QED BY <1>1, <1>2, <1>3, EmptyTypes DEF Init, NoCycle, TypeOK

\* The end of a cycle, and the start of one, keep the types.
LEMMA TypeCycle ==
  ASSUME TypeOK, Start \/ Exit \/ BeginCycle \/ SaveState \/ SaveFails
  PROVE  TypeOK'
<1>1. CASE Start BY <1>1 DEF TypeOK, Start, env, cycle
<1>2. CASE Exit BY <1>2 DEF TypeOK, Exit, env, cycle
<1>3. CASE BeginCycle BY <1>3 DEF TypeOK, BeginCycle, env, Releases
<1>4. CASE SaveState BY <1>4, EmptyTypes DEF TypeOK, SaveState, EndCycle, env
<1>5. CASE SaveFails
  <2>1. Lost \subseteq Entries
    BY RecordedType DEF TypeOK, Lost, SymDiff, Current
  <2>2. unsure' \subseteq Entries
    BY <1>5, <2>1 DEF TypeOK, SaveFails
  <2>3. faults' \in Nat
    BY <1>5 DEF TypeOK, SaveFails, Fault
  <2> QED BY <1>5, <2>2, <2>3, EmptyTypes DEF TypeOK, SaveFails, EndCycle, env
<1> QED BY <1>1, <1>2, <1>3, <1>4, <1>5

\* What is planned for release is a ban with a backend that can be undone.
TodoOK ==
    /\ \A k \in todo : mem.bans[k] # 0 /\ Backend(cfg, mem, k) # Custom
    /\ pc # "release" => todo = {} /\ gone = {}

\* Such a ban, unless it is a quiet one, stands for a firewall entry.
LEMMA TodoReal ==
  ASSUME TypeOK, TodoOK, NEW k \in todo, Backend(cfg, mem, k) \notin Quiet
  PROVE  Real(mem, k) /\ EntryOf(mem, k) \in Entries
<1>1. k \in Keys /\ mem.bans[k] # 0 /\ mem.act[k] \in Actions /\ tool \in Tools /\ mem \in StateType
  BY DEF TypeOK, TodoOK, StateType
<1>2. mem.act[k] \in Tools \cup {NoAct}
  BY <1>1 DEF TodoOK, Backend, Actions
<1> QED BY <1>1, <1>2, EntryType DEF Real

\* reconcileBans keeps the types.
LEMMA TypeReconcile ==
  ASSUME TypeOK, TodoOK, Reconcile
  PROVE  TypeOK'
<1>1. ASSUME NEW k \in Keys, ReleaseBan(k) PROVE TypeOK'
  <2>1. mem' \in StateType
    BY <1>1, DropBanType DEF ReleaseBan, TypeOK
  <2>2. fw' \subseteq fw /\ gone' \subseteq Entries
    BY <1>1, TodoReal DEF ReleaseBan, NothingToRemove, TypeOK
  <2> QED BY <1>1, <2>1, <2>2 DEF ReleaseBan, TypeOK
<1>2. ASSUME NEW k \in Keys, ReleaseFails(k) PROVE TypeOK'
  <2>1. fw' \subseteq fw /\ EntryOf(mem, k) \in Entries
    BY <1>2, TodoReal DEF ReleaseFails, NothingToRemove
  <2> QED BY <1>2, <2>1 DEF ReleaseFails, TypeOK, Fault
<1>3. CASE PruneState
  BY <1>3, PruneType DEF PruneState, TypeOK, env
<1> QED BY <1>1, <1>2, <1>3 DEF Reconcile

\* Reading a log keeps the types.
LEMMA TypeRead ==
  ASSUME TypeOK, Read
  PROVE  TypeOK'
<1> PICK r \in Rules : SkipToEnd(r) \/ ReadLog(r) \/ LogMissing(r) \/ ReadFails(r)
  BY DEF Read
<1>1. CASE SkipToEnd(r)
  <2>1. mem' \in StateType
    BY <1>1, ReadType DEF SkipToEnd, TypeOK, StateType
  <2> QED BY <1>1, <2>1 DEF SkipToEnd, TypeOK, env
<1>2. CASE ReadLog(r)
  <2> DEFINE from  == IF AtEnd(r) THEN Len(log[r]) ELSE ReadCursor(r)
             to    == IF AtEnd(r) THEN Len(log[r]) ELSE ReadEnd(r)
             lines == SubSeq(log[r], from + 1, to)
             read  == OpenBatch(mem, r, now, lines)
  <2>1. from \in Nat /\ to \in Nat /\ lines \in Seq(Lines)
    BY ReadType
  <2>2. Successes(lines) \subseteq IPs
    BY <2>1, SuccessesType
  <2>3. read \in StateType /\ [read EXCEPT !.off[r] = to] \in StateType
    <3> HIDE DEF lines, to
    <3>1. read \in StateType
      BY OpenBatchType DEF TypeOK
    <3> HIDE DEF read
    <3> QED BY <3>1, <2>1 DEF StateType
  <2>4. /\ pc' = "lines" /\ rule' = r
        /\ batch' = lines /\ upto' = to /\ succeeded' = Successes(lines)
        /\ mem' = read \/ mem' = [read EXCEPT !.off[r] = to]
        /\ left' = left \ {r}
        /\ UNCHANGED <<env, disk, cfg, now, todo, gone, err, faults, unsure>>
    BY <1>2 DEF ReadLog
  <2> HIDE DEF lines, to, read
  <2> QED BY <2>1, <2>2, <2>3, <2>4 DEF TypeOK, env
<1>3. CASE LogMissing(r) BY <1>3 DEF LogMissing, Fault, TypeOK, env
<1>4. CASE ReadFails(r) BY <1>4 DEF ReadFails, Fault, TypeOK, env
<1> QED BY <1>1, <1>2, <1>3, <1>4

\* scanLines keeps the types.
LEMMA TypeScan ==
  ASSUME TypeOK, Scan
  PROVE  TypeOK'
<1>1. CASE SkipLine BY <1>1, LineFacts DEF SkipLine, TypeOK, env
<1>2. CASE CountLine
  <2>1. mem' \in StateType
    <3>1. mem \in StateType /\ LineKey \in Keys /\ NextHits \in [Time -> Nat]
          /\ now + BanTime[rule] \in Nat
      BY <1>2, LineFacts DEF CountLine, TypeOK
    <3> QED BY <1>2, <3>1 DEF CountLine, StateType
  <2> QED BY <1>2, <2>1, LineFacts DEF CountLine, TypeOK, env
<1>3. CASE QuietBan
  <2>1. mem' \in StateType
    <3>1. mem \in StateType /\ LineKey \in Keys /\ NextHits \in [Time -> Nat]
          /\ now + BanTime[rule] \in Nat
      BY <1>3, LineFacts DEF QuietBan, TypeOK
    <3> QED BY <1>3, <3>1 DEF QuietBan, StateType
  <2> QED BY <1>3, <2>1, LineFacts DEF QuietBan, TypeOK, env
<1>4. CASE RealBan
  <2>1. ApplyBackend \in Actions /\ Target \in Entries /\ AtLine
    BY <1>4, LineFacts DEF RealBan, ApplyBackend, Actions, Target, Entries, TypeOK
  <2>2. mem' \in StateType
    <3>1. mem \in StateType /\ LineKey \in Keys /\ NextHits \in [Time -> Nat]
          /\ now + BanTime[rule] \in Nat
      BY <1>4, LineFacts DEF RealBan, TypeOK
    <3> QED BY <1>4, <2>1, <3>1 DEF RealBan, StateType
  <2>3. unsure' \subseteq Entries /\ fw' \subseteq Entries
    BY <1>4, <2>1, RecordedType DEF RealBan, TypeOK
  <2> QED BY <1>4, <2>2, <2>3, LineFacts DEF RealBan, TypeOK
<1>5. CASE BanFails
  <2>1. Target \in Entries /\ AtLine
    BY <1>5, LineFacts DEF BanFails, Target, Entries, TypeOK
  <2>2. mem' \in StateType
    <3>1. mem \in StateType /\ LineKey \in Keys /\ NextHits \in [Time -> Nat]
          /\ now + BanTime[rule] \in Nat
      BY <1>5, LineFacts DEF BanFails, TypeOK
    <3> QED BY <1>5, <3>1 DEF BanFails, StateType
  <2>3. fw' \subseteq Entries
    BY <1>5, <2>1 DEF BanFails, FailedApply, TypeOK
  <2>4. unsure' \subseteq Entries
    BY <1>5, <2>3 DEF BanFails, SymDiff, TypeOK
  <2> QED BY <1>5, <2>2, <2>3, <2>4, EmptyTypes DEF BanFails, Fault, TypeOK
<1>6. CASE FinishLines
  <2>1. mem' \in StateType
    BY <1>6 DEF FinishLines, TypeOK, StateType
  <2> QED BY <1>6, <2>1 DEF FinishLines, TypeOK, env
<1>7. CASE FinishScan BY <1>7 DEF FinishScan, TypeOK, env, cycle
<1> QED BY <1>1, <1>2, <1>3, <1>4, <1>5, <1>6, <1>7 DEF Scan

\* Time, log writers, operators, faults and reboots keep the types.
LEMMA TypeEnvironment ==
  ASSUME TypeOK, Environment
  PROVE  TypeOK'
<1>0. Lost \subseteq Entries
  BY RecordedType DEF TypeOK, Lost, SymDiff, Current
<1>1. CASE Tick BY <1>1 DEF Tick, TypeOK, cycle
<1>2. CASE Crash
  <2>1. unsure' \subseteq Entries
    BY <1>0, <1>2 DEF TypeOK, Crash
  <2>2. faults' \in Nat
    BY <1>2 DEF TypeOK, Crash, Fault
  <2> QED BY <1>2, <2>1, <2>2, EmptyTypes DEF Crash, EndCycle, TypeOK, env
<1>3. CASE Reboot
  <2>1. unsure' \subseteq Entries /\ fw' \subseteq Entries
    BY <1>0, <1>3 DEF TypeOK, Reboot
  <2>2. faults' \in Nat
    BY <1>3 DEF TypeOK, Reboot, Fault
  <2> QED BY <1>3, <2>1, <2>2, EmptyTypes DEF Reboot, EndCycle, TypeOK
<1>4. CASE InstallTool BY <1>4 DEF InstallTool, Fault, TypeOK, cycle
<1>5. ASSUME NEW r \in Rules, NEW ln \in Lines, AppendLine(r, ln) PROVE TypeOK'
  <2>1. log' \in [Rules -> Seq(Lines)]
    BY <1>5 DEF AppendLine, TypeOK
  <2> QED BY <1>5, <2>1 DEF AppendLine, TypeOK, cycle
<1>6. ASSUME NEW ip \in IPs, Unban(ip) PROVE TypeOK'
  BY <1>6 DEF Unban, Fault, TypeOK, cycle
<1> QED BY <1>1, <1>2, <1>3, <1>4, <1>5, <1>6 DEF Environment

-----------------------------------------------------------------------------
\* The inductive invariant behind Agreement.

\* Records whose entry is to be removed or is removed are all on the plan, but for those
\* of an entry whose removal failed; what is removed is not in the firewall.
PlanOK ==
    /\ \A k \in todo, j \in Keys :
          Real(mem, k) /\ Real(mem, j) /\ EntryOf(mem, j) = EntryOf(mem, k) /\ j \notin todo
              => EntryOf(mem, k) \in unsure
    /\ \A j \in Keys :
          Real(mem, j) /\ EntryOf(mem, j) \in gone /\ j \notin todo => EntryOf(mem, j) \in unsure
    /\ \A e \in gone : e \notin fw

\* A record without a backend comes from an older version, on a host with a single tool.
LegacyOK ==
    NoAct \notin Inherited =>
        \A k \in Keys : /\ disk.bans[k] # 0 => disk.act[k] # NoAct
                        /\ InCycle => (mem.bans[k] # 0 => mem.act[k] # NoAct)

IInv == TypeOK /\ TodoOK /\ PlanOK /\ LegacyOK /\ Agreement

\* A step that changes no ban, no plan and nothing sure of the firewall keeps the invariant.
LEMMA Frame ==
  ASSUME IInv, TypeOK',
         todo' = todo, gone' = gone, tool' = tool, cfg' = cfg, disk' = disk,
         mem'.bans = mem.bans, mem'.act = mem.act,
         InCycle' <=> InCycle, pc' = "release" <=> pc = "release",
         unsure \subseteq unsure', \A e \in gone : e \notin fw',
         \A e \in Entries \ unsure' : e \in fw' <=> e \in fw
  PROVE  IInv'
<1>1. /\ \A k \in Keys : Real(mem', k) = Real(mem, k)
      /\ \A k \in Keys : EntryOf(mem, k)' = EntryOf(mem, k)
      /\ \A k \in Keys : Backend(cfg', mem', k) = Backend(cfg, mem, k)
  BY DEF Real, EntryOf, Backend
<1>2. TodoOK'
  BY <1>1 DEF IInv, TypeOK, TodoOK
<1>3. PlanOK'
  BY <1>1 DEF IInv, TypeOK, PlanOK
<1>4. LegacyOK'
  BY DEF IInv, LegacyOK
<1>5. /\ \A k \in Keys : Real(Current', k) = Real(Current, k)
      /\ \A k \in Keys : EntryOf(Current, k)' = EntryOf(Current, k)
  BY DEF Real, EntryOf, Current
<1>6. Standing' = Standing
  BY <1>5 DEF Standing
<1>7. Agreement'
  BY <1>6 DEF IInv, Agreement
<1> QED BY <1>2, <1>3, <1>4, <1>7 DEF IInv

\* The steps that change no ban, no plan and no entry keep the invariant.
LEMMA FramedActions ==
  ASSUME IInv, TypeOK',
         Read \/ SkipLine \/ CountLine \/ QuietBan \/ BanFails \/ FinishLines \/ FinishScan
           \/ Tick \/ (\E r \in Rules, ln \in Lines : AppendLine(r, ln))
           \/ (\E ip \in IPs : Unban(ip))
  PROVE  IInv'
<1> USE DEF InCycle
<1>1. CASE Read
  <2> PICK r \in Rules : SkipToEnd(r) \/ ReadLog(r) \/ LogMissing(r) \/ ReadFails(r)
    BY <1>1 DEF Read
  <2>1. CASE SkipToEnd(r) BY <2>1, Frame DEF SkipToEnd, env, IInv, PlanOK
  <2>2. CASE ReadLog(r)
    <3>1. mem'.bans = mem.bans /\ mem'.act = mem.act
      BY <2>2, OpenBatchType DEF ReadLog, IInv, TypeOK
    <3> QED BY <2>2, <3>1, Frame DEF ReadLog, env, IInv, PlanOK
  <2>3. CASE LogMissing(r) BY <2>3, Frame DEF LogMissing, env, IInv, PlanOK
  <2>4. CASE ReadFails(r) BY <2>4, Frame DEF ReadFails, env, IInv, PlanOK
  <2> QED BY <2>1, <2>2, <2>3, <2>4
<1>2. CASE SkipLine BY <1>2, Frame DEF SkipLine, AtLine, env, IInv, PlanOK
<1>3. CASE CountLine BY <1>3, Frame DEF CountLine, AtLine, env, IInv, PlanOK
<1>4. CASE QuietBan BY <1>4, Frame DEF QuietBan, AtLine, env, IInv, PlanOK
<1>5. CASE BanFails
  <2>1. gone = {}
    BY <1>5 DEF BanFails, AtLine, IInv, TodoOK
  <2>2. \A e \in Entries \ unsure' : e \in fw' <=> e \in fw
    BY <1>5 DEF BanFails, SymDiff
  <2> QED BY <1>5, <2>1, <2>2, Frame DEF BanFails, AtLine
<1>6. CASE FinishLines BY <1>6, Frame DEF FinishLines, env, IInv, PlanOK
<1>7. CASE FinishScan BY <1>7, Frame DEF FinishScan, env, cycle, IInv, PlanOK
<1>8. CASE Tick BY <1>8, Frame DEF Tick, cycle, IInv, PlanOK
<1>9. ASSUME NEW r \in Rules, NEW ln \in Lines, AppendLine(r, ln) PROVE IInv'
  BY <1>9, Frame DEF AppendLine, cycle, IInv, PlanOK
<1>10. ASSUME NEW ip \in IPs, Unban(ip) PROVE IInv'
  BY <1>10, Frame DEF Unban, cycle, IInv, PlanOK
<1> QED BY <1>1, <1>2, <1>3, <1>4, <1>5, <1>6, <1>7, <1>8, <1>9, <1>10

\* A cycle starts from a plan that takes all the records of an entry, or none.
LEMMA BeginPlan ==
  ASSUME IInv, NEW k \in Releases(cfg, disk, clock), Real(disk, k),
         NEW j \in Keys, Real(disk, j), EntryOf(disk, j) = EntryOf(disk, k)
  PROVE  j \in Releases(cfg, disk, clock)
<1> DEFINE A == Active(cfg, disk, clock)
<1>1. \A x \in Keys : Real(disk, x) => Backend(cfg, disk, x) \notin Quiet
  BY ActionAssumption DEF Real, Backend, Quiet, Custom
<1>2. k \in Keys /\ ~cfg.dryRun /\ k[2] \notin A
  BY <1>1 DEF Releases
<1>3. j[2] = k[2]
  BY DEF EntryOf
<1>4. ~KeepsActive(cfg, disk, clock, j)
  BY <1>2, <1>3 DEF Active
<1>5. disk.bans[j] # 0 /\ Backend(cfg, disk, j) \notin Quiet
  BY <1>1 DEF Real
<1>6. Release(cfg, disk, clock, j) /\ Backend(cfg, disk, j) # Custom
  BY <1>2, <1>4, <1>5 DEF KeepsActive
<1> HIDE DEF A
<1> QED BY <1>2, <1>3, <1>5, <1>6 DEF Releases, A

\* Starting a process and beginning, ending and saving a cycle keep the invariant.
LEMMA CycleActions ==
  ASSUME IInv, TypeOK', Start \/ Exit \/ BeginCycle \/ SaveState
  PROVE  IInv'
<1> USE DEF InCycle
<1>1. CASE Start \/ Exit
  <2>1. /\ ~InCycle /\ ~InCycle' /\ todo = {} /\ gone = {} /\ todo' = {} /\ gone' = {}
        /\ disk' = disk /\ fw' = fw /\ tool' = tool /\ unsure' = unsure /\ pc' # "release"
    BY <1>1 DEF Start, Exit, env, cycle, IInv, TodoOK
  <2>2. Standing' = Standing
    BY <2>1 DEF Standing, Current, Real, EntryOf
  <2> QED BY <2>1, <2>2 DEF IInv, TodoOK, PlanOK, LegacyOK, Agreement
<1>2. CASE BeginCycle
  <2>1. /\ ~InCycle /\ InCycle' /\ todo = {} /\ gone = {} /\ gone' = {} /\ mem' = disk
        /\ disk' = disk /\ fw' = fw /\ tool' = tool /\ unsure' = unsure /\ cfg' = cfg
        /\ todo' = Releases(cfg, disk, clock) /\ pc' = "release"
    BY <1>2 DEF BeginCycle, env, IInv, TodoOK
  <2>2. Standing' = Standing
    BY <2>1 DEF Standing, Current, Real, EntryOf
  <2>3. \A k \in todo' : mem'.bans[k] # 0 /\ Backend(cfg', mem', k) # Custom
    <3> SUFFICES ASSUME NEW k \in Releases(cfg, disk, clock)
                 PROVE  disk.bans[k] # 0 /\ Backend(cfg, disk, k) # Custom
      BY <2>1
    <3> QED BY DEF Releases, Quiet, Custom
  <2>4. \A k \in todo', j \in Keys :
           Real(disk, k) /\ Real(disk, j) /\ EntryOf(disk, j) = EntryOf(disk, k) => j \in todo'
    BY <2>1, BeginPlan
  <2>5. PlanOK'
    BY <2>1, <2>4 DEF PlanOK, Real, EntryOf
  <2>6. TodoOK' /\ LegacyOK' /\ Agreement'
    BY <2>1, <2>2, <2>3 DEF TodoOK, IInv, LegacyOK, Agreement
  <2> QED BY <2>5, <2>6 DEF IInv
<1>3. CASE SaveState
  <2>1. /\ InCycle /\ ~InCycle' /\ todo = {} /\ gone = {} /\ todo' = {} /\ gone' = {}
        /\ disk' = mem /\ fw' = fw /\ tool' = tool /\ unsure' = unsure /\ pc' # "release"
    BY <1>3 DEF SaveState, EndCycle, env, IInv, TodoOK
  <2>2. Standing' = Standing
    BY <2>1 DEF Standing, Current, Real, EntryOf
  <2> QED BY <2>1, <2>2 DEF IInv, TodoOK, PlanOK, LegacyOK, Agreement
<1> QED BY <1>1, <1>2, <1>3

\* Where a cycle's state is lost, the entries it had changed are unsure.
LEMMA LosingActions ==
  ASSUME IInv, TypeOK', SaveFails \/ Crash \/ Reboot
  PROVE  IInv'
<1> USE DEF InCycle
<1>1. /\ ~InCycle' /\ todo' = {} /\ gone' = {} /\ disk' = disk /\ tool' = tool
      /\ pc' # "release" /\ unsure \cup Lost \subseteq unsure'
      /\ fw' \subseteq fw /\ fw \ fw' \subseteq unsure'
  BY DEF SaveFails, Crash, Reboot, EndCycle, env
<1>2. Standing' = Recorded(disk)
  BY <1>1 DEF Standing, Recorded, Current, Real, EntryOf
<1>3. ASSUME NEW e \in Entries, e \notin unsure'
      PROVE  e \in fw' <=> e \in Recorded(disk)
  <2>1. e \notin gone /\ (e \in Recorded(Current) <=> e \in Recorded(disk)) /\ e \notin unsure
    BY <1>1, <1>3 DEF Lost, SymDiff
  <2>2. e \in Standing <=> e \in Recorded(Current)
    BY <2>1 DEF Standing, Recorded
  <2>3. e \in fw <=> e \in fw'
    BY <1>1, <1>3
  <2> QED BY <2>1, <2>2, <2>3 DEF IInv, Agreement
<1>4. Agreement'
  BY <1>2, <1>3 DEF Agreement
<1>5. TodoOK' /\ PlanOK' /\ LegacyOK'
  BY <1>1 DEF IInv, TodoOK, PlanOK, LegacyOK
<1> QED BY <1>4, <1>5 DEF IInv

\* The end of reconcileBans keeps the invariant: every planned release was decided.
LEMMA PruneAction ==
  ASSUME IInv, TypeOK', PruneState
  PROVE  IInv'
<1>1. /\ InCycle /\ InCycle' /\ todo = {} /\ todo' = {} /\ gone' = {} /\ disk' = disk
      /\ fw' = fw /\ tool' = tool /\ unsure' = unsure
      /\ mem'.bans = mem.bans /\ mem'.act = mem.act
  BY PruneType DEF PruneState, env, InCycle, IInv, TypeOK
<1>2. Standing' = Standing
  BY <1>1 DEF Standing, Current, Real, EntryOf
<1> QED BY <1>1, <1>2 DEF IInv, TodoOK, PlanOK, LegacyOK, Agreement

\* A new tool changes no entry: with records that name none there is only one tool.
LEMMA ToolAction ==
  ASSUME IInv, TypeOK', InstallTool
  PROVE  IInv'
<1>1. NoAct \notin Inherited /\ UNCHANGED <<fw, disk, pc, cfg, mem, todo, gone, unsure>>
  BY ActionAssumption DEF InstallTool, cycle, IInv, TypeOK
<1>2. InCycle' <=> InCycle
  BY <1>1 DEF InCycle
<1>3. \A k \in Keys : Real(Current, k) => Current.act[k] # NoAct
  BY <1>1 DEF IInv, LegacyOK, Current, Real
<1>4. \A k \in Keys : Real(Current, k) => EntryOf(Current, k)' = EntryOf(Current, k)
  BY <1>1, <1>2, <1>3 DEF EntryOf, Current
<1>5. \A k \in Keys : Real(Current, k)' <=> Real(Current, k)
  BY <1>1, <1>2 DEF Current, Real
<1>6. Standing' = Standing
  BY <1>1, <1>4, <1>5 DEF Standing
<1>7. TodoOK' /\ LegacyOK' /\ Agreement'
  BY <1>1, <1>2, <1>6 DEF IInv, TodoOK, LegacyOK, Agreement, Backend
<1>8. PlanOK'
  <2>1. CASE pc = "release"
    <3>1. Current = mem
      BY <2>1 DEF Current, InCycle
    <3>2. \A k \in Keys : Real(mem, k)' <=> Real(mem, k)
      BY <1>1 DEF Real
    <3>3. \A k \in Keys : Real(mem, k) => EntryOf(mem, k)' = EntryOf(mem, k)
      BY <1>1, <1>3, <3>1 DEF EntryOf
    <3>4. todo \subseteq Keys
      BY DEF IInv, TypeOK
    <3> QED BY <1>1, <3>2, <3>3, <3>4 DEF IInv, PlanOK
  <2>2. CASE pc # "release"
    BY <1>1, <2>2 DEF IInv, TodoOK, PlanOK
  <2> QED BY <2>1, <2>2
<1> QED BY <1>7, <1>8 DEF IInv

\* Releasing a ban keeps the invariant: the first record of an entry removes it, the others follow.
LEMMA ReleaseAction ==
  ASSUME IInv, TypeOK', NEW k \in Keys, ReleaseBan(k)
  PROVE  IInv'
<1> DEFINE e == EntryOf(mem, k)
<1>1. /\ pc = "release" /\ pc' = pc /\ InCycle /\ InCycle' /\ k \in todo /\ todo' = todo \ {k}
      /\ disk' = disk /\ tool' = tool /\ unsure' = unsure /\ cfg' = cfg
      /\ mem' = DropBan(mem, k) /\ mem \in StateType
  BY DEF ReleaseBan, InCycle, IInv, TypeOK
<1>2. /\ mem'.bans = [mem.bans EXCEPT ![k] = 0]
      /\ mem'.act = [mem.act EXCEPT ![k] = NoAct]
  BY <1>1 DEF DropBan, StateType
<1>3. /\ ~Real(mem', k)
      /\ \A j \in Keys \ {k} : /\ mem'.bans[j] = mem.bans[j] /\ mem'.act[j] = mem.act[j]
                               /\ Real(mem', j) = Real(mem, j)
                               /\ EntryOf(mem, j)' = EntryOf(mem, j)
                               /\ Backend(cfg', mem', j) = Backend(cfg, mem, j)
  BY <1>1, <1>2 DEF StateType, Real, EntryOf, Backend
<1>4. TodoOK'
  BY <1>1, <1>3 DEF IInv, TypeOK, TodoOK
<1>5. LegacyOK'
  BY <1>1, <1>2, <1>3 DEF IInv, LegacyOK, StateType
<1>6. CASE NothingToRemove(k)
  <2>1. fw' = fw /\ gone' = gone
    BY <1>6 DEF ReleaseBan
  <2>2. Real(mem, k) => e \in gone
    BY <1>6, ActionAssumption DEF NothingToRemove, Real, Backend, Quiet, Custom
  <2>3. Standing' = Standing
    BY <1>1, <1>3, <2>1, <2>2 DEF Standing, Current
  <2>4. PlanOK'
    BY <1>1, <1>3, <2>1, <2>2 DEF IInv, TypeOK, PlanOK
  <2> QED BY <1>1, <1>4, <1>5, <2>1, <2>3, <2>4 DEF IInv, Agreement
<1>7. CASE ~NothingToRemove(k)
  <2>1. fw' = fw \ {e} /\ gone' = gone \cup {e} /\ Real(mem, k)
    BY <1>1, <1>7, TodoReal DEF ReleaseBan, NothingToRemove, IInv
  <2>2. \A j \in Keys : Real(mem, j) /\ EntryOf(mem, j) = e /\ j \notin todo => e \in unsure
    BY <1>1, <2>1 DEF IInv, PlanOK
  <2>3. PlanOK'
    <3>1. \A x \in todo', j \in Keys :
            Real(mem', x) /\ Real(mem', j) /\ EntryOf(mem, j)' = EntryOf(mem, x)' /\ j \notin todo'
              => EntryOf(mem, x)' \in unsure'
      BY <1>1, <1>3 DEF IInv, TypeOK, PlanOK
    <3>2. \A j \in Keys : Real(mem', j) /\ EntryOf(mem, j)' \in gone' /\ j \notin todo'
             => EntryOf(mem, j)' \in unsure'
      BY <1>1, <1>3, <2>1, <2>2 DEF IInv, PlanOK
    <3>3. \A x \in gone' : x \notin fw'
      BY <2>1 DEF IInv, PlanOK
    <3> QED BY <3>1, <3>2, <3>3 DEF PlanOK
  <2>4. ASSUME NEW x \in Entries, x \notin unsure', x # e
        PROVE  x \in Standing' <=> x \in Standing
    BY <1>1, <1>3, <2>1, <2>4 DEF Standing, Current
  <2>5. ASSUME e \notin unsure' PROVE e \notin Standing'
    BY <1>1, <1>3, <2>1, <2>2, <2>5 DEF Standing, Current
  <2>6. Agreement'
    BY <1>1, <2>1, <2>4, <2>5 DEF IInv, Agreement
  <2> QED BY <1>4, <1>5, <2>3, <2>6 DEF IInv
<1> QED BY <1>6, <1>7

\* A failed removal leaves its record, and its entry unsure.
LEMMA ReleaseFailsAction ==
  ASSUME IInv, TypeOK', NEW k \in Keys, ReleaseFails(k)
  PROVE  IInv'
<1> DEFINE e == EntryOf(mem, k)
<1>1. /\ pc = "release" /\ pc' = pc /\ InCycle /\ InCycle' /\ k \in todo /\ todo' = todo \ {k}
      /\ disk' = disk /\ tool' = tool /\ unsure' = unsure \cup {e} /\ cfg' = cfg
      /\ mem' = mem /\ gone' = gone
      /\ fw' \subseteq fw /\ fw \ fw' \subseteq {e}
  BY DEF ReleaseFails, InCycle
<1>2. /\ \A j \in Keys : /\ Real(mem', j) = Real(mem, j) /\ EntryOf(mem, j)' = EntryOf(mem, j)
                         /\ Backend(cfg', mem', j) = Backend(cfg, mem, j)
  BY <1>1 DEF Real, EntryOf, Backend
<1>3. TodoOK' /\ LegacyOK'
  BY <1>1, <1>2 DEF IInv, TypeOK, TodoOK, LegacyOK
<1>4. PlanOK'
  BY <1>1, <1>2 DEF IInv, TypeOK, PlanOK
<1>5. ASSUME NEW x \in Entries, x \notin unsure' PROVE x \in Standing' <=> x \in Standing
  BY <1>1, <1>2, <1>5 DEF Standing, Current
<1>6. Agreement'
  BY <1>1, <1>5 DEF IInv, Agreement
<1> QED BY <1>3, <1>4, <1>6 DEF IInv

\* A ban that was applied is recorded with the entry that was added.
LEMMA BanAction ==
  ASSUME IInv, TypeOK', RealBan
  PROVE  IInv'
<1> DEFINE k == LineKey
           T == IF ApplyBackend = Custom THEN {} ELSE {Target}
<1>1. /\ pc = "lines" /\ pc' = pc /\ InCycle /\ InCycle' /\ todo = {} /\ gone = {}
      /\ todo' = todo /\ gone' = gone /\ disk' = disk /\ tool' = tool /\ cfg' = cfg
      /\ fw' = fw \cup T /\ unsure' = (unsure \cup (Recorded(mem) \ Recorded(mem'))) \ T
      /\ k \in Keys /\ k[2] = Line.ip /\ now + BanTime[rule] # 0 /\ mem \in StateType
      /\ tool \in Tools
  BY LineFacts DEF RealBan, AtLine, InCycle, IInv, TypeOK, TodoOK
<1>2. /\ mem'.bans = [mem.bans EXCEPT ![k] = now + BanTime[rule]]
      /\ mem'.act = [mem.act EXCEPT ![k] = ApplyBackend]
  BY DEF RealBan
<1>3. Standing' = Recorded(mem') /\ Standing = Recorded(mem)
  BY <1>1 DEF Standing, Recorded, Current, Real, EntryOf
<1>4. ApplyBackend # NoAct
  BY <1>1, ActionAssumption DEF ApplyBackend
<1>5. ASSUME NEW x \in Recorded(mem'), x \notin Recorded(mem) PROVE x \in T
  <2>1. PICK j \in Keys : Real(mem', j) /\ x = EntryOf(mem', j)
    BY DEF Recorded
  <2>2. j = k
    BY <1>1, <1>2, <1>5, <2>1 DEF Recorded, Real, EntryOf, StateType
  <2>3. ApplyBackend = tool /\ ApplyBackend # Custom
    BY <1>1, <1>2, <1>4, <2>1, <2>2, ActionAssumption DEF Real, ApplyBackend, StateType, Custom
  <2> QED BY <1>1, <1>2, <1>4, <2>1, <2>2, <2>3 DEF EntryOf, Target, StateType
<1>6. T \subseteq Recorded(mem')
  <2>1. CASE ApplyBackend # Custom
    <3>1. Real(mem', k) /\ EntryOf(mem', k) = Target
      BY <1>1, <1>2, <1>4, <2>1 DEF Real, EntryOf, Target, ApplyBackend, StateType
    <3> QED BY <1>1, <3>1 DEF Recorded
  <2> QED BY <2>1
<1>7. Agreement'
  <2> SUFFICES ASSUME NEW x \in Entries, x \notin unsure'
               PROVE  x \in fw' <=> x \in Standing'
    BY DEF Agreement
  <2>1. CASE x \in T
    BY <1>1, <1>3, <1>6, <2>1
  <2>2. CASE x \notin T
    <3>1. x \notin unsure /\ (x \in Recorded(mem) => x \in Recorded(mem'))
      BY <1>1, <2>2
    <3>2. x \in fw <=> x \in Recorded(mem)
      BY <1>3, <3>1 DEF IInv, Agreement
    <3> QED BY <1>1, <1>3, <1>5, <2>2, <3>1, <3>2
  <2> QED BY <2>1, <2>2
<1>8. TodoOK' /\ PlanOK'
  BY <1>1 DEF TodoOK, PlanOK
<1>9. LegacyOK'
  BY <1>1, <1>2, <1>4 DEF IInv, LegacyOK, StateType
<1> QED BY <1>7, <1>8, <1>9 DEF IInv

-----------------------------------------------------------------------------
\* The theorems.

\* The invariant holds at first: a legacy state agrees with its firewall.
LEMMA InvInit == Init => IInv
<1> SUFFICES ASSUME Init PROVE IInv
  OBVIOUS
<1>1. TypeOK /\ todo = {} /\ gone = {} /\ ~InCycle /\ fw = Recorded(disk) /\ pc = "down"
  BY TypeInit DEF Init, NoCycle, InCycle
<1>2. Standing = Recorded(disk)
  BY <1>1 DEF Standing, Recorded, Current
<1>3. LegacyOK
  <2>1. ASSUME NoAct \notin Inherited, NEW k \in Keys, disk.bans[k] # 0
        PROVE  disk.act[k] # NoAct
    <3>1. EmptyState.bans[k] = 0 /\ disk # EmptyState
      BY <2>1 DEF EmptyState
    <3>2. PICK j \in Keys, a \in Inherited : disk = LegacyBan(j, a)
      BY <3>1 DEF Init, InheritedStates
    <3>3. j = k /\ disk.act[k] = a
      BY <2>1, <3>1, <3>2 DEF LegacyBan, EmptyState
    <3> QED BY <2>1, <3>3
  <2> QED BY <1>1, <2>1 DEF LegacyOK
<1> QED BY <1>1, <1>2, <1>3 DEF IInv, TodoOK, PlanOK, Agreement

\* Every step keeps the types.
LEMMA TypeNext == IInv /\ [Next]_vars => TypeOK'
<1> SUFFICES ASSUME IInv, [Next]_vars PROVE TypeOK'
  OBVIOUS
<1>1. CASE UNCHANGED vars BY <1>1 DEF IInv, TypeOK, vars, env, cycle
<1>2. CASE Start \/ Exit \/ BeginCycle \/ Save BY <1>2, TypeCycle DEF IInv, Save
<1>3. CASE Reconcile BY <1>3, TypeReconcile DEF IInv
<1>4. CASE Read BY <1>4, TypeRead DEF IInv
<1>5. CASE Scan BY <1>5, TypeScan DEF IInv
<1>6. CASE Environment BY <1>6, TypeEnvironment DEF IInv
<1> QED BY <1>1, <1>2, <1>3, <1>4, <1>5, <1>6 DEF Next, CycleStep

\* Every step keeps the invariant.
LEMMA InvNext == IInv /\ [Next]_vars => IInv'
<1> SUFFICES ASSUME IInv, [Next]_vars PROVE IInv'
  OBVIOUS
<1>0. TypeOK'
  BY TypeNext
<1>1. CASE UNCHANGED vars
  <2>1. Standing' = Standing
    BY <1>1 DEF vars, env, cycle, Standing, Current, InCycle, Real, EntryOf
  <2> QED BY <1>0, <1>1, <2>1
      DEF IInv, TodoOK, PlanOK, LegacyOK, Agreement, InCycle, Real, EntryOf, Backend, vars, env, cycle
<1>2. CASE Start \/ Exit \/ BeginCycle \/ Save
  BY <1>0, <1>2, CycleActions, LosingActions DEF Save
<1>3. CASE Reconcile
  BY <1>0, <1>3, ReleaseAction, ReleaseFailsAction, PruneAction DEF Reconcile
<1>4. CASE Read BY <1>0, <1>4, FramedActions
<1>5. CASE Scan BY <1>0, <1>5, FramedActions, BanAction DEF Scan
<1>6. CASE Environment
  BY <1>0, <1>6, FramedActions, LosingActions, ToolAction DEF Environment
<1> QED BY <1>1, <1>2, <1>3, <1>4, <1>5, <1>6 DEF Next, CycleStep

\* The strengthened invariant: types, the plan of reconcileBans, legacy records and agreement.
THEOREM InductiveInvariant == Spec => []IInv
<1> QED BY InvInit, InvNext, PTL DEF Spec

\* Every variable of the daemon keeps its type.
THEOREM TypeCorrect == Spec => []TypeOK
<1>1. IInv => TypeOK
  BY DEF IInv
<1> QED BY <1>1, InductiveInvariant, PTL

\* The firewall and the records of internal/daemon agree in every reachable state, whatever
\* the rules, the addresses, the configurations and the number of faults.
THEOREM AgreementHolds == Spec => []Agreement
<1>1. IInv => Agreement
  BY DEF IInv
<1> QED BY <1>1, InductiveInvariant, PTL

-----------------------------------------------------------------------------
\* Action properties of the release plan.

\* Nothing that runs is on the plan; a real ban on it is not a dry run's and shares its
\* address with no running ban.
PlanSafe ==
    pc = "release" =>
        \A k \in todo :
            /\ ~Needed(mem, k)
            /\ Real(mem, k) => /\ ~cfg.dryRun
                               /\ \A j \in Keys : Needed(mem, j) => j[2] # k[2]

\* A running ban is none that the first pass of reconcileBans releases: it keeps its address.
LEMMA NeededActive ==
  ASSUME NEW st \in StateType, NEW t \in Nat, NEW k \in Keys, Real(st, k), st.bans[k] > t,
         k[2] \notin cfg.ignore, cfg.action[k[1]] # "notify"
  PROVE  ~Release(cfg, st, t, k) /\ k[2] \in Active(cfg, st, t)
<1>1. st.bans[k] \in Nat /\ st.bans[k] # 0 /\ Backend(cfg, st, k) \notin Quiet
  BY ActionAssumption DEF StateType, Real, Backend, Quiet, Custom
<1>2. ~Release(cfg, st, t, k)
  BY <1>1 DEF Release
<1> QED BY <1>1, <1>2 DEF Active, KeepsActive

\* Every step keeps the plan away from the bans that are still needed.
LEMMA PlanSafeNext == TypeOK /\ PlanSafe /\ [Next]_vars => PlanSafe'
<1> SUFFICES ASSUME TypeOK, PlanSafe, [Next]_vars, pc' = "release" PROVE PlanSafe'
  BY DEF PlanSafe
<1>1. CASE BeginCycle
  <2>1. mem' = disk /\ now' = clock /\ todo' = Releases(cfg, disk, clock) /\ cfg' = cfg
        /\ disk \in StateType /\ clock \in Nat
    BY <1>1 DEF BeginCycle, TypeOK
  <2>2. \A k \in Keys : Needed(mem, k)' <=> /\ Real(disk, k) /\ disk.bans[k] > clock
                                              /\ k[2] \notin cfg.ignore /\ cfg.action[k[1]] # "notify"
    BY <2>1 DEF Needed, Real
  <2>3. ASSUME NEW k \in Releases(cfg, disk, clock)
        PROVE  /\ k \in Keys /\ Release(cfg, disk, clock, k)
               /\ Real(disk, k) => ~cfg.dryRun /\ k[2] \notin Active(cfg, disk, clock)
    BY ActionAssumption DEF Releases, Real, Backend, Quiet, Custom
  <2>4. \A k \in Keys : Needed(mem, k)' =>
             ~Release(cfg, disk, clock, k) /\ k[2] \in Active(cfg, disk, clock)
    BY <2>1, <2>2, NeededActive
  <2>5. \A k \in Keys : Real(mem', k) <=> Real(disk, k)
    BY <2>1 DEF Real
  <2> QED BY <2>1, <2>3, <2>4, <2>5 DEF PlanSafe
<1>2. ASSUME NEW k \in Keys, ReleaseBan(k) PROVE PlanSafe'
  <2>1. /\ pc = "release" /\ todo' = todo \ {k} /\ cfg' = cfg /\ now' = now
        /\ mem' = DropBan(mem, k) /\ mem \in StateType /\ todo \subseteq Keys
    BY <1>2 DEF ReleaseBan, TypeOK
  <2>2. \A j \in Keys : /\ Real(mem', j) => Real(mem, j)
                        /\ Needed(mem, j)' => Needed(mem, j)
    BY <2>1 DEF DropBan, StateType, Real, Needed
  <2> QED BY <2>1, <2>2 DEF PlanSafe
<1>3. ASSUME NEW k \in Keys, ReleaseFails(k) PROVE PlanSafe'
  BY <1>3 DEF ReleaseFails, PlanSafe, Needed, Real
<1>4. CASE UNCHANGED <<pc, mem, todo, now, cfg>>
  BY <1>4 DEF PlanSafe, Needed, Real
<1>5. \/ BeginCycle \/ (\E k \in Keys : ReleaseBan(k) \/ ReleaseFails(k))
      \/ UNCHANGED <<pc, mem, todo, now, cfg>>
  <2>1. CASE Environment
    BY <2>1 DEF Environment, Tick, Crash, Reboot, InstallTool, AppendLine, Unban, cycle
  <2>2. CASE UNCHANGED vars BY <2>2 DEF vars, cycle
  <2>3. CASE Start \/ Exit \/ Save BY <2>3 DEF Start, Exit, Save, SaveState, SaveFails
  <2>4. CASE Read BY <2>4 DEF Read, SkipToEnd, ReadLog, LogMissing, ReadFails
  <2>5. CASE Scan
    BY <2>5 DEF Scan, SkipLine, CountLine, QuietBan, RealBan, BanFails, FinishLines, FinishScan, AtLine
  <2>6. CASE Reconcile BY <2>6 DEF Reconcile, PruneState
  <2> QED BY <2>1, <2>2, <2>3, <2>4, <2>5, <2>6 DEF Next, CycleStep
<1> QED BY <1>1, <1>2, <1>3, <1>4, <1>5

\* A plan never takes the entry of a ban that is still needed.
LEMMA PlanIsSafe == Spec => []PlanSafe
<1>1. Init => PlanSafe
  BY DEF Init, PlanSafe
<1> QED BY <1>1, PlanSafeNext, TypeCorrect, PTL DEF Spec

\* Releasing never unblocks an address another running ban needs: for any number of rules,
\* users and addresses, a shared entry stays until every rule releases it.
THEOREM ActiveBlockStaysHolds == Spec => ActiveBlockStays
<1> DEFINE P == Reconcile => \A k \in Keys : Needed(mem, k) =>
                  /\ EntryOf(mem, k) \in fw => EntryOf(mem, k) \in fw'
                  /\ mem'.bans[k] = mem.bans[k]
<1>1. ASSUME TypeOK, TodoOK, PlanSafe, Reconcile, NEW k \in Keys, Needed(mem, k)
      PROVE  /\ EntryOf(mem, k) \in fw => EntryOf(mem, k) \in fw'
             /\ mem'.bans[k] = mem.bans[k]
  <2>1. ASSUME NEW j \in Keys, ReleaseBan(j) \/ ReleaseFails(j)
        PROVE  /\ EntryOf(mem, k) \in fw => EntryOf(mem, k) \in fw'
               /\ mem'.bans[k] = mem.bans[k]
    <3>1. pc = "release" /\ j \in todo /\ mem \in StateType
      BY <1>1, <2>1 DEF ReleaseBan, ReleaseFails, TypeOK
    <3>2. j # k /\ (Real(mem, j) => j[2] # k[2])
      BY <1>1, <3>1 DEF PlanSafe
    <3>3. mem'.bans[k] = mem.bans[k]
      <4>1. CASE ReleaseBan(j)
        BY <3>1, <3>2, <4>1 DEF ReleaseBan, DropBan, StateType
      <4>2. CASE ReleaseFails(j)
        BY <4>2 DEF ReleaseFails
      <4> QED BY <2>1, <4>1, <4>2
    <3>4. fw' = fw \/ (Real(mem, j) /\ fw \ fw' \subseteq {EntryOf(mem, j)})
      BY <1>1, <2>1, <3>1, TodoReal DEF ReleaseBan, ReleaseFails, NothingToRemove
    <3>5. EntryOf(mem, j) = EntryOf(mem, k) => j[2] = k[2]
      BY DEF EntryOf
    <3> QED BY <3>2, <3>3, <3>4, <3>5
  <2>2. CASE PruneState
    BY <1>1, <2>2, PruneType DEF PruneState, TypeOK, env
  <2> QED BY <1>1, <2>1, <2>2 DEF Reconcile
<1>2. TypeOK /\ TodoOK /\ PlanSafe => P
  BY <1>1
<1>3. IInv => TypeOK /\ TodoOK
  BY DEF IInv
<1>4. IInv /\ PlanSafe /\ [Next]_vars => [P]_vars
  BY <1>2, <1>3
<1> QED BY <1>4, InductiveInvariant, PlanIsSafe, PTL DEF Spec, ActiveBlockStays

\* A dry run neither touches the firewall nor drops the record of a real ban.
THEOREM DryRunHolds == Spec => DryRunPreserves
<1> DEFINE Q == CycleStep /\ cfg.dryRun =>
                  fw' = fw /\ (InCycle /\ InCycle' => Recorded(mem') = Recorded(mem))
<1>1. ASSUME TypeOK, TodoOK, PlanSafe, CycleStep, cfg.dryRun
      PROVE  fw' = fw /\ (InCycle /\ InCycle' => Recorded(mem') = Recorded(mem))
  <2>0. ASSUME fw' = fw, mem'.bans = mem.bans, mem'.act = mem.act
        PROVE  fw' = fw /\ Recorded(mem') = Recorded(mem)
    BY <2>0 DEF Recorded, Real, EntryOf
  <2>1. CASE BeginCycle BY <2>1 DEF BeginCycle, InCycle, env
  <2>2. ASSUME NEW k \in Keys, ReleaseBan(k) \/ ReleaseFails(k)
        PROVE  fw' = fw /\ Recorded(mem') = Recorded(mem)
    <3>1. pc = "release" /\ k \in todo /\ mem \in StateType
      BY <1>1, <2>2 DEF ReleaseBan, ReleaseFails, TypeOK
    <3>2. ~Real(mem, k)
      BY <1>1, <3>1 DEF PlanSafe
    <3>3. NothingToRemove(k)
      BY <1>1, <3>1, <3>2, TodoReal DEF NothingToRemove
    <3>4. fw' = fw /\ mem' = DropBan(mem, k)
      BY <2>2, <3>3 DEF ReleaseBan, ReleaseFails
    <3>5. \A j \in Keys : Real(mem', j) = Real(mem, j)
                          /\ (Real(mem, j) => EntryOf(mem', j) = EntryOf(mem, j))
      BY <3>1, <3>2, <3>4 DEF DropBan, StateType, Real, EntryOf
    <3> QED BY <3>4, <3>5 DEF Recorded
  <2>3. CASE PruneState
    <3>1. fw' = fw /\ mem'.bans = mem.bans /\ mem'.act = mem.act
      BY <1>1, <2>3, PruneType DEF PruneState, TypeOK, env
    <3> QED BY <2>0, <3>1
  <2>4. CASE Read
    <3> PICK r \in Rules : SkipToEnd(r) \/ ReadLog(r) \/ LogMissing(r) \/ ReadFails(r)
      BY <2>4 DEF Read
    <3>1. CASE SkipToEnd(r) BY <2>0, <3>1 DEF SkipToEnd, env
    <3>2. CASE ReadLog(r)
      <4>1. mem'.bans = mem.bans /\ mem'.act = mem.act /\ fw' = fw
        BY <1>1, <3>2, OpenBatchType DEF ReadLog, TypeOK, env
      <4> QED BY <2>0, <4>1
    <3>3. CASE LogMissing(r) \/ ReadFails(r) BY <2>0, <3>3 DEF LogMissing, ReadFails, env
    <3> QED BY <3>1, <3>2, <3>3
  <2>5. CASE Scan
    <3>1. ~RealBan /\ ~BanFails
      BY <1>1 DEF RealBan, BanFails, Quietly
    <3>2. fw' = fw
      BY <2>5, <3>1 DEF Scan, SkipLine, CountLine, QuietBan, FinishLines, FinishScan, env
    <3>3. mem'.bans = mem.bans /\ mem'.act = mem.act
      <4>1. mem' = mem \/ (\E k, h : mem' = [mem EXCEPT !.hits[k] = h])
              \/ (\E k, h, c : mem' = [mem EXCEPT !.hits[k] = h, !.cool[k] = c])
              \/ (\E r, o : mem' = [mem EXCEPT !.off[r] = o])
        BY <2>5, <3>1 DEF Scan, SkipLine, CountLine, QuietBan, FinishLines, FinishScan, cycle
      <4> QED BY <1>1, <4>1 DEF TypeOK, StateType
    <3> QED BY <2>0, <3>2, <3>3
  <2>6. CASE Save BY <2>6 DEF Save, SaveState, SaveFails, InCycle, env
  <2> QED BY <1>1, <2>1, <2>2, <2>3, <2>4, <2>5, <2>6 DEF CycleStep, Reconcile
<1>2. TypeOK /\ TodoOK /\ PlanSafe => Q
  BY <1>1
<1>3. IInv => TypeOK /\ TodoOK
  BY DEF IInv
<1>4. IInv /\ PlanSafe /\ [Next]_vars => [Q]_vars
  BY <1>2, <1>3
<1> QED BY <1>4, InductiveInvariant, PlanIsSafe, PTL DEF Spec, DryRunPreserves

-----------------------------------------------------------------------------
\* What a reconciliation without errors leaves behind.

\* A record that is over and still there, is there for another record of its address.
Shared(k) == \E j \in Keys \ todo : j # k /\ j[2] = k[2] /\ mem.bans[j] # 0 /\ mem.act[j] \notin Quiet
Cleaned ==
    pc \in {"release", "scan", "lines"} /\ ~err /\ ~cfg.dryRun =>
        \A k \in Keys \ todo :
            Real(mem, k) /\ Backend(cfg, mem, k) # Custom /\ ~Needed(mem, k) => Shared(k)

\* What the first pass leaves out, though it is over, shares its address with a ban that stays.
LEMMA LeftOut ==
  ASSUME NEW c, NEW st \in StateType, NEW t \in Nat, ~c.dryRun,
         NEW k \in Keys \ Releases(c, st, t), Real(st, k),
         Release(c, st, t, k), Backend(c, st, k) # Custom
  PROVE  \E j \in Keys \ Releases(c, st, t) :
            j # k /\ j[2] = k[2] /\ st.bans[j] # 0 /\ st.act[j] \notin Quiet
<1>1. \A x \in Keys : Backend(c, st, x) \notin Quiet => st.act[x] \notin Quiet
  BY ActionAssumption DEF Backend
<1>2. st.bans[k] # 0 /\ Backend(c, st, k) \notin Quiet
  BY ActionAssumption DEF Real, Backend, Quiet, Custom
<1>3. k[2] \in Active(c, st, t)
  BY <1>2 DEF Releases
<1>4. PICK j \in Keys : KeepsActive(c, st, t, j) /\ j[2] = k[2]
  BY <1>3 DEF Active
<1>5. j # k
  BY <1>4 DEF KeepsActive
<1>6. j \notin Releases(c, st, t)
  BY <1>3, <1>4 DEF Releases, KeepsActive
<1> QED BY <1>1, <1>4, <1>5, <1>6 DEF KeepsActive

\* A step that changes no ban, no plan and no clock of the cycle keeps it.
LEMMA CleanedFrame ==
  ASSUME Cleaned, todo' = todo, cfg' = cfg, now' = now,
         mem'.bans = mem.bans, mem'.act = mem.act, err \/ pc \in {"release", "scan", "lines"}, err => err'
  PROVE  Cleaned'
<1>1. \A k \in Keys : /\ Real(mem', k) = Real(mem, k) /\ Backend(cfg', mem', k) = Backend(cfg, mem, k)
                      /\ Needed(mem, k)' = Needed(mem, k) /\ Shared(k)' = Shared(k)
  BY DEF Real, Backend, Needed, Shared
<1> QED BY <1>1 DEF Cleaned

\* A ban that was just made is needed, and its address is blocked by it.
LEMMA CleanedBan ==
  ASSUME TypeOK, TodoOK, Cleaned, RealBan
  PROVE  Cleaned'
<1> PICK x \in Keys : x = LineKey
  BY LineFacts DEF RealBan
<1>1. /\ pc = "lines" /\ todo = {} /\ todo' = todo /\ cfg' = cfg /\ now' = now /\ err' = err
      /\ x \in Keys /\ x[1] = rule /\ x[2] = Line.ip /\ mem \in StateType /\ now \in Nat
      /\ now + BanTime[rule] > now /\ now + BanTime[rule] # 0 /\ tool \in Tools
      /\ Line.ip \notin cfg.ignore /\ cfg.action[rule] # "notify"
  BY LineFacts DEF RealBan, AtLine, TypeOK, TodoOK, Skipped, Quietly
<1>2. /\ mem'.bans = [mem.bans EXCEPT ![x] = now + BanTime[rule]]
      /\ mem'.act = [mem.act EXCEPT ![x] = ApplyBackend]
  BY DEF RealBan
<1>3. ApplyBackend \in {Custom, tool} /\ ApplyBackend \notin Quiet /\ ApplyBackend # NoAct
  BY <1>1, ActionAssumption DEF ApplyBackend, Custom, Quiet
<1>4. mem'.bans[x] = now + BanTime[rule] /\ mem'.act[x] = ApplyBackend
  BY <1>1, <1>2 DEF StateType
<1>5. Backend(cfg', mem', x) = Custom \/ Needed(mem, x)'
  BY <1>1, <1>3, <1>4 DEF Backend, Needed, Real
<1>6. \A k \in Keys \ {x} : mem'.bans[k] = mem.bans[k] /\ mem'.act[k] = mem.act[k]
  BY <1>1, <1>2 DEF StateType
<1>7. \A k \in Keys \ {x} :
          /\ Real(mem', k) = Real(mem, k) /\ Backend(cfg', mem', k) = Backend(cfg, mem, k)
          /\ Needed(mem, k)' = Needed(mem, k)
  BY <1>1, <1>6 DEF Real, Backend, Needed
<1>8. \A k \in Keys \ {x} : Shared(k) => Shared(k)'
  BY <1>1, <1>3, <1>4, <1>6 DEF Shared
<1> QED BY <1>1, <1>5, <1>7, <1>8 DEF Cleaned

\* Every step keeps it.
LEMMA CleanedNext == TypeOK /\ TodoOK /\ Cleaned /\ [Next]_vars => Cleaned'
<1> SUFFICES ASSUME TypeOK, TodoOK, Cleaned, [Next]_vars,
                    pc' \in {"release", "scan", "lines"}, ~err', ~cfg'.dryRun
             PROVE  Cleaned'
  BY DEF Cleaned
<1>1. CASE BeginCycle
  <2>1. /\ mem' = disk /\ now' = clock /\ cfg' = cfg /\ todo' = Releases(cfg, disk, clock)
        /\ disk \in StateType /\ clock \in Nat /\ ~cfg.dryRun
    BY <1>1 DEF BeginCycle, TypeOK
  <2>2. ASSUME NEW k \in Keys \ Releases(cfg, disk, clock), Real(mem', k), ~Needed(mem, k)'
        PROVE  Real(disk, k) /\ (Backend(cfg, disk, k) # Custom => Release(cfg, disk, clock, k))
    <3>1. Real(disk, k) /\ disk.bans[k] \in Nat /\ Backend(cfg, disk, k) # "notify"
      BY <2>1, <2>2, ActionAssumption DEF Real, StateType, Backend, Quiet, Custom
    <3> QED BY <2>1, <2>2, <3>1 DEF Needed, Real, Release
  <2>3. ASSUME NEW k \in Keys \ Releases(cfg, disk, clock), Real(mem', k), ~Needed(mem, k)',
               Backend(cfg, disk, k) # Custom
        PROVE  Shared(k)'
    BY <2>1, <2>2, <2>3, LeftOut DEF Shared
  <2> QED BY <2>1, <2>3 DEF Cleaned, Backend
<1>2. ASSUME NEW x \in Keys, ReleaseBan(x) PROVE Cleaned'
  <2>1. /\ pc = "release" /\ x \in todo /\ todo' = todo \ {x} /\ cfg' = cfg /\ now' = now
        /\ mem' = DropBan(mem, x) /\ mem \in StateType /\ ~err /\ ~cfg.dryRun
    BY <1>2 DEF ReleaseBan, TypeOK
  <2>2. /\ ~Real(mem', x)
        /\ \A k \in Keys \ {x} : mem'.bans[k] = mem.bans[k] /\ mem'.act[k] = mem.act[k]
    BY <2>1 DEF DropBan, StateType, Real
  <2>3. \A k \in Keys \ todo :
            /\ Real(mem', k) = Real(mem, k) /\ Backend(cfg', mem', k) = Backend(cfg, mem, k)
            /\ Needed(mem, k)' = Needed(mem, k)
    BY <2>1, <2>2 DEF Real, Backend, Needed
  <2>4. \A k \in Keys \ todo : Shared(k) => Shared(k)'
    BY <2>1, <2>2 DEF Shared
  <2> QED BY <2>1, <2>2, <2>3, <2>4 DEF Cleaned
<1>3. ASSUME NEW x \in Keys, ReleaseFails(x) PROVE FALSE
  BY <1>3 DEF ReleaseFails
<1>4. CASE RealBan BY <1>4, CleanedBan
<1>5. CASE /\ todo' = todo /\ cfg' = cfg /\ now' = now /\ err' = err
           /\ mem'.bans = mem.bans /\ mem'.act = mem.act /\ pc \in {"release", "scan", "lines"}
  BY <1>5, CleanedFrame
<1>6. \/ BeginCycle \/ (\E k \in Keys : ReleaseBan(k) \/ ReleaseFails(k)) \/ RealBan
      \/ /\ todo' = todo /\ cfg' = cfg /\ now' = now /\ err' = err
         /\ mem'.bans = mem.bans /\ mem'.act = mem.act /\ pc \in {"release", "scan", "lines"}
  <2>1. CASE Environment
    BY <2>1 DEF Environment, Tick, Crash, Reboot, InstallTool, AppendLine, Unban, cycle
  <2>2. CASE UNCHANGED vars BY <2>2 DEF vars, cycle
  <2>3. CASE Start \/ Exit \/ Save BY <2>3 DEF Start, Exit, Save, SaveState, SaveFails
  <2>4. CASE Read
    <3> PICK r \in Rules : SkipToEnd(r) \/ ReadLog(r) \/ LogMissing(r) \/ ReadFails(r)
      BY <2>4 DEF Read
    <3>1. CASE SkipToEnd(r) BY <3>1 DEF SkipToEnd
    <3>2. CASE ReadLog(r)
      <4>1. mem'.bans = mem.bans /\ mem'.act = mem.act
        BY <3>2, OpenBatchType DEF ReadLog, TypeOK
      <4> QED BY <3>2, <4>1 DEF ReadLog
    <3>3. CASE LogMissing(r) \/ ReadFails(r) BY <3>3 DEF LogMissing, ReadFails
    <3> QED BY <3>1, <3>2, <3>3
  <2>5. CASE Scan /\ ~RealBan
    <3>1. CASE SkipLine \/ FinishScan BY <3>1 DEF SkipLine, FinishScan, AtLine, cycle
    <3>2. CASE CountLine \/ QuietBan BY <3>2 DEF CountLine, QuietBan, AtLine, TypeOK, StateType
    <3>3. CASE FinishLines BY <3>3 DEF FinishLines, TypeOK, StateType
    <3>4. CASE BanFails BY <3>4 DEF BanFails
    <3> QED BY <2>5, <3>1, <3>2, <3>3, <3>4 DEF Scan
  <2>6. CASE PruneState
    BY <2>6, PruneType DEF PruneState, TypeOK
  <2> QED BY <2>1, <2>2, <2>3, <2>4, <2>5, <2>6 DEF Next, CycleStep, Reconcile
<1> QED BY <1>1, <1>2, <1>3, <1>4, <1>5, <1>6

\* After a reconciliation without errors in production an expired, whitelisted or notify-only
\* ban is only still recorded while another record blocks its address.
THEOREM CleanReleaseHolds == Spec => []CleanRelease
<1>1. Init => Cleaned
  BY DEF Init, Cleaned
<1>2. IInv => TypeOK /\ TodoOK
  BY DEF IInv
<1>3. TypeOK /\ TodoOK /\ Cleaned => CleanRelease
  BY DEF TodoOK, Cleaned, CleanRelease, Shared
<1> QED BY <1>1, <1>2, <1>3, CleanedNext, InductiveInvariant, PTL DEF Spec

-----------------------------------------------------------------------------
\* What the count of a key's hits is.

\* The hits of a key are finitely many.
LEMMA HitsFinite ==
  ASSUME NEW h \in [Time -> Nat]
  PROVE  IsFiniteSet(Hits(h)) /\ HitCount(h) \in Nat
<1> DEFINE f == [t \in Time |-> {t} \X (1..h[t])]
           T == {{t} \X (1..h[t]) : t \in Time}
<1>1. f \in Surjection(Time, T)
  BY DEF Surjection
<1>2. IsFiniteSet(Time)
  BY FS_Interval, InputAssumption DEF Time
<1>3. IsFiniteSet(T)
  BY <1>1, <1>2, FS_Surjection
<1>4. ASSUME NEW x \in T PROVE IsFiniteSet(x)
  <2>1. PICK t \in Time : x = {t} \X (1..h[t])
    OBVIOUS
  <2>2. IsFiniteSet({t}) /\ IsFiniteSet(1..h[t])
    <3>1. IsFiniteSet({t})
      BY FS_Singleton
    <3>2. h[t] \in Int /\ 1 \in Int
      OBVIOUS
    <3>3. IsFiniteSet(1..h[t])
      BY <3>2, FS_Interval
    <3> QED BY <3>1, <3>3
  <2>3. IsFiniteSet({t} \X (1..h[t]))
    BY <2>2, FS_Product
  <2> QED BY <2>1, <2>3
<1> HIDE DEF T
<1>5. IsFiniteSet(UNION T)
  BY <1>3, <1>4, FS_UNION
<1> QED BY <1>5, FS_CardinalityType DEF Hits, HitCount, T

\* A key whose failures were forgotten counts none.
LEMMA NoHitsCount == NoHits \in [Time -> Nat] /\ HitCount(NoHits) = 0
<1>1. Hits(NoHits) = {}
  BY DEF Hits, NoHits
<1> QED BY <1>1, FS_EmptySet DEF HitCount, NoHits

\* The filter of the window adds no hit.
LEMMA RecentFewer ==
  ASSUME NEW h \in [Time -> Nat], NEW r, NEW t
  PROVE  Hits(Recent(h, r, t)) \subseteq Hits(h) /\ HitCount(Recent(h, r, t)) <= HitCount(h)
<1>1. Hits(Recent(h, r, t)) \subseteq Hits(h)
  BY DEF Hits, Recent
<1> QED BY <1>1, HitsFinite, FS_Subset DEF HitCount

\* A failure adds one hit at most.
LEMMA AppendOne ==
  ASSUME NEW h \in [Time -> Nat], NEW r, NEW t
  PROVE  HitCount(AppendRecent(h, r, t)) <= HitCount(h) + 1
<1> DEFINE g == Recent(h, r, t)
           x == <<t, g[t] + 1>>
<1>1. g \in [Time -> Nat]
  BY RecentType
<1>2. Hits(AppendRecent(h, r, t)) \subseteq Hits(g) \cup {x}
  <2> HIDE DEF g
  <2>1. AppendRecent(h, r, t) = [g EXCEPT ![t] = @ + 1]
    BY DEF AppendRecent, g
  <2> QED BY <1>1, <2>1 DEF Hits
<1>3. IsFiniteSet(Hits(g)) /\ HitCount(g) \in Nat /\ HitCount(g) <= HitCount(h) /\ HitCount(h) \in Nat
  BY <1>1, HitsFinite, RecentFewer
<1> HIDE DEF g, x
<1>4. IsFiniteSet(Hits(g) \cup {x}) /\ Cardinality(Hits(g) \cup {x}) <= HitCount(g) + 1
  BY <1>3, FS_AddElement DEF HitCount
<1>5. HitCount(AppendRecent(h, r, t)) <= Cardinality(Hits(g) \cup {x})
  BY <1>2, <1>4, FS_Subset DEF HitCount
<1>6. HitCount(AppendRecent(h, r, t)) \in Nat /\ Cardinality(Hits(g) \cup {x}) \in Nat
  BY <1>4, AppendRecentType, HitsFinite, FS_CardinalityType
<1> QED BY <1>3, <1>4, <1>5, <1>6

\* Pruning adds no hit and moves no cursor.
LEMMA PruneFewer ==
  ASSUME NEW c, NEW st \in StateType, NEW t, NEW k \in Keys
  PROVE  HitCount(Prune(c, st, t).hits[k]) <= HitCount(st.hits[k]) /\ Prune(c, st, t).off = st.off
<1> DEFINE over == {x \in Keys : st.cool[x] # 0 /\ (st.cool[x] <= t \/ x[2] \in c.ignore)}
           drop == over \cup {x \in Keys : c.action[x[1]] = "absent" \/ x[2] \in c.ignore}
           cool == [x \in Keys |-> IF x \in over THEN 0 ELSE st.cool[x]]
           hits == [x \in Keys |-> IF x \in drop THEN NoHits ELSE Recent(st.hits[x], x[1], t)]
<1>1. Prune(c, st, t) = [st EXCEPT !.cool = cool, !.hits = hits]
  BY DEF Prune
<1>2. st.hits[k] \in [Time -> Nat] /\ HitCount(st.hits[k]) \in Nat
  BY HitsFinite DEF StateType
<1>3. HitCount(hits[k]) <= HitCount(st.hits[k])
  BY <1>2, NoHitsCount, RecentFewer
<1> HIDE DEF cool, hits
<1> QED BY <1>1, <1>3 DEF StateType

-----------------------------------------------------------------------------
\* The failures that speak for a count.

\* Lines up to p that are failures of the key, with no success of its address up to e.
Counted(lg, k, p, e) ==
    {i \in 1..p : /\ lg[k[1]][i].kind = "fail"
                  /\ BanKey(k[1], lg[k[1]][i].ip, lg[k[1]][i].user) = k
                  /\ \A j \in i..e : lg[k[1]][j].ip = k[2] => lg[k[1]][j].kind = "fail"}

\* They are finitely many, and more of the log gives no fewer.
LEMMA CountedType ==
  ASSUME NEW lg, NEW k, NEW p \in Int, NEW e
  PROVE  IsFiniteSet(Counted(lg, k, p, e)) /\ Cardinality(Counted(lg, k, p, e)) \in Nat
<1>1. IsFiniteSet(1..p)
  BY FS_Interval
<1>2. Counted(lg, k, p, e) \in SUBSET (1..p)
  BY DEF Counted
<1> QED BY <1>1, <1>2, FS_Subset, FS_CardinalityType

LEMMA CountedSubset ==
  ASSUME NEW lg, NEW k, NEW p \in Int, NEW e, NEW lg2, NEW q \in Int, NEW e2,
         Counted(lg, k, p, e) \subseteq Counted(lg2, k, q, e2)
  PROVE  Cardinality(Counted(lg, k, p, e)) <= Cardinality(Counted(lg2, k, q, e2))
BY CountedType, FS_Subset

\* A failure of the key itself makes one more.
LEMMA CountedOneMore ==
  ASSUME NEW lg, NEW k, NEW p \in Nat, NEW e, p + 1 \in Counted(lg, k, p + 1, e)
  PROVE  Cardinality(Counted(lg, k, p + 1, e)) >= Cardinality(Counted(lg, k, p, e)) + 1
<1> DEFINE A == Counted(lg, k, p, e)
           B == Counted(lg, k, p + 1, e)
<1>1. p + 1 \notin A /\ A \cup {p + 1} \subseteq B
  BY DEF Counted
<1>2. IsFiniteSet(A) /\ IsFiniteSet(B) /\ Cardinality(A) \in Nat /\ Cardinality(B) \in Nat
  BY CountedType
<1> HIDE DEF A, B
<1>3. IsFiniteSet(A \cup {p + 1}) /\ Cardinality(A \cup {p + 1}) = Cardinality(A) + 1
  BY <1>1, <1>2, FS_AddElement
<1>4. Cardinality(A \cup {p + 1}) <= Cardinality(B)
  BY <1>1, <1>2, <1>3, FS_Subset
<1> QED BY <1>2, <1>3, <1>4 DEF A, B

\* Where the scan of a rule is: the lines counted, and the lines read.
Position == upto - Len(batch)
Reading(r) == pc = "lines" /\ r = rule
From(r) == IF Reading(r) THEN Position ELSE mem.off[r]
To(r)   == IF Reading(r) THEN upto ELSE mem.off[r]

\* What has been read lies in the log; the lines to go are the next ones of the log.
ReadOK ==
    /\ \A r \in Rules : disk.off[r] <= Len(log[r]) /\ mem.off[r] <= Len(log[r])
    /\ InCycle => \A r \in left : cfg.action[r] # "absent"
    /\ pc = "lines" => /\ Position >= 0 /\ upto <= Len(log[rule]) /\ cfg.action[rule] # "absent"
                       /\ \A i \in 1..Len(batch) : batch[i] = log[rule][Position + i]
                       /\ \A i \in 1..Len(batch) : batch[i].kind = "success" => batch[i].ip \in succeeded
                       /\ rule \notin EventLogs => mem.off[rule] = upto

\* The rules of text logs, and those of event logs that ban nobody for real.
Exact == {r \in Rules : r \in EventLogs =>
             \A c \in Configs : c.dryRun \/ c.action[r] \in {"notify", "absent"}}
ExactKeys == {k \in Keys : k[1] \in Exact}

\* No key of theirs counts more hits than there are failures that speak for it.
CountsOK ==
    /\ \A k \in ExactKeys : HitCount(disk.hits[k]) <= Cardinality(Counted(log, k, disk.off[k[1]], disk.off[k[1]]))
    /\ InCycle => \A k \in ExactKeys :
          HitCount(mem.hits[k]) <= Cardinality(Counted(log, k, From(k[1]), To(k[1])))

\* The numbers these are about.
Numbers ==
    /\ \A k \in Keys : k[1] \in Rules /\ k[2] \in IPs
    /\ \A k \in Keys : mem.hits[k] \in [Time -> Nat] /\ HitCount(mem.hits[k]) \in Nat
    /\ \A k \in Keys : disk.hits[k] \in [Time -> Nat] /\ HitCount(disk.hits[k]) \in Nat
    /\ \A r \in Rules : /\ mem.off[r] \in Int /\ disk.off[r] \in Int
                        /\ From(r) \in Int /\ To(r) \in Int
                        /\ log[r] \in Seq(Lines) /\ Len(log[r]) \in Nat
    /\ Len(batch) \in Nat /\ Position \in Int
LEMMA CountTypes == TypeOK => Numbers
<1> SUFFICES ASSUME TypeOK PROVE Numbers
  OBVIOUS
<1>1. Len(batch) \in Nat /\ Position \in Int
  BY LenProperties DEF TypeOK, Position
<1>2. \A r \in Rules : mem.off[r] \in Int /\ disk.off[r] \in Int
  BY DEF TypeOK, StateType, Unseen
<1>3. \A k \in Keys : mem.hits[k] \in [Time -> Nat] /\ disk.hits[k] \in [Time -> Nat]
  BY DEF TypeOK, StateType
<1>4. \A r \in Rules : From(r) \in Int /\ To(r) \in Int
  BY <1>1, <1>2 DEF From, To, TypeOK
<1>5. \A r \in Rules : log[r] \in Seq(Lines) /\ Len(log[r]) \in Nat
  BY LenProperties DEF TypeOK
<1>6. \A k \in Keys : k[1] \in Rules /\ k[2] \in IPs
  BY DEF Keys
<1> QED BY <1>1, <1>2, <1>3, <1>4, <1>5, <1>6, HitsFinite DEF Numbers
LEMMA CountTypesNext == TypeOK' => Numbers'
BY CountTypes, PTL

\* A step within a cycle that counts no more, and reads nothing, keeps the counts.
LEMMA CountFrame ==
  ASSUME TypeOK, TypeOK', CountsOK, InCycle, disk' = disk, log' = log,
         \A k \in ExactKeys : HitCount(mem'.hits[k]) <= HitCount(mem.hits[k]),
         \A k \in ExactKeys : Counted(log, k, From(k[1]), To(k[1])) \subseteq Counted(log, k, From(k[1])', To(k[1])')
  PROVE  CountsOK'
<1>1. ASSUME NEW k \in ExactKeys
      PROVE  HitCount(mem'.hits[k]) <= Cardinality(Counted(log', k, From(k[1])', To(k[1])'))
  <2>0. k \in Keys
    BY DEF ExactKeys
  <2>1. k[1] \in Rules /\ HitCount(mem'.hits[k]) \in Nat /\ HitCount(mem.hits[k]) \in Nat
        /\ From(k[1]) \in Int /\ From(k[1])' \in Int
    BY <2>0, CountTypes, CountTypesNext DEF Numbers
  <2>2. Cardinality(Counted(log, k, From(k[1]), To(k[1]))) <= Cardinality(Counted(log, k, From(k[1])', To(k[1])'))
    BY <2>1, CountedSubset
  <2>3. Cardinality(Counted(log, k, From(k[1]), To(k[1]))) \in Nat /\ Cardinality(Counted(log, k, From(k[1])', To(k[1])')) \in Nat
    BY <2>1, CountedType
  <2>4. HitCount(mem.hits[k]) <= Cardinality(Counted(log, k, From(k[1]), To(k[1])))
    BY DEF CountsOK
  <2> QED BY <2>1, <2>2, <2>3, <2>4
<1> QED BY <1>1 DEF CountsOK

\* What a success in a batch does to the hits.
LEMMA OpenBatchHits ==
  ASSUME NEW st \in StateType, NEW r, NEW t, NEW lines, NEW k \in Keys
  PROVE  OpenBatch(st, r, t, lines).hits[k] =
            IF k[1] = r /\ k[2] \in Successes(lines) THEN NoHits ELSE st.hits[k]
BY DEF OpenBatch, StateType

\* What a read leaves for the scan: the lines from the cursor on, none of them counted.
LEMMA ReadLogFacts ==
  ASSUME TypeOK, ReadOK, NEW r \in Rules, ReadLog(r)
  PROVE  /\ pc = "scan" /\ pc' = "lines" /\ rule' = r /\ r \in left /\ left' \subseteq left
         /\ disk' = disk /\ log' = log /\ cfg' = cfg
         /\ upto' \in Nat /\ upto' <= Len(log[r]) /\ mem.off[r] <= upto'
         /\ Position' >= 0 /\ Position' <= upto' /\ mem.off[r] <= Position'
         /\ Len(batch') = upto' - Position'
         /\ mem.off[r] = Unseen \/ Position' = mem.off[r]
         /\ \A i \in 1..Len(batch') : batch'[i] = log[r][Position' + i]
         /\ succeeded' = Successes(batch')
         /\ \A k \in Keys : mem'.hits[k] =
               IF k[1] = r /\ k[2] \in succeeded' THEN NoHits ELSE mem.hits[k]
         /\ mem'.off = IF r \in EventLogs THEN mem.off ELSE [mem.off EXCEPT ![r] = upto']
<1> DEFINE from  == IF AtEnd(r) THEN Len(log[r]) ELSE ReadCursor(r)
           to    == IF AtEnd(r) THEN Len(log[r]) ELSE ReadEnd(r)
           lines == SubSeq(log[r], from + 1, to)
           read  == OpenBatch(mem, r, now, lines)
<1>1. /\ pc = "scan" /\ pc' = "lines" /\ rule' = r /\ r \in left /\ left' \subseteq left
      /\ disk' = disk /\ log' = log /\ cfg' = cfg
      /\ batch' = lines /\ upto' = to /\ succeeded' = Successes(lines)
      /\ mem' = IF r \in EventLogs THEN read ELSE [read EXCEPT !.off[r] = to]
  BY DEF ReadLog, env
<1>2. /\ mem \in StateType /\ now \in Nat /\ log[r] \in Seq(Lines) /\ Len(log[r]) \in Nat
      /\ mem.off[r] \in Nat \cup {Unseen} /\ mem.off[r] <= Len(log[r])
  BY CountTypes DEF Numbers, TypeOK, ReadOK, StateType
<1>3. /\ from \in Nat /\ to \in Nat /\ from <= to /\ to <= Len(log[r]) /\ mem.off[r] <= from
      /\ mem.off[r] = Unseen \/ from = mem.off[r]
  <2> DEFINE n == Len(log[r])
  <2>0. n \in Nat
    BY <1>2
  <2> HIDE DEF n
  <2>1. ReadEnd(r) = IF n - ReadCursor(r) > MaxBatch THEN ReadCursor(r) + MaxBatch ELSE n
    BY DEF ReadEnd, n
  <2>2. ReadCursor(r) = IF mem.off[r] = Unseen THEN 0 ELSE mem.off[r]
    BY DEF ReadCursor
  <2>3. mem.off[r] <= n /\ mem.off[r] \in Nat \cup {-1} /\ MaxBatch \in Nat
    BY <1>2, InputAssumption DEF n, Unseen
  <2>4. AtEnd(r) => mem.off[r] = -1
    BY DEF AtEnd, Unseen
  <2>5. /\ from = IF AtEnd(r) THEN n ELSE ReadCursor(r)
        /\ to = IF AtEnd(r) THEN n ELSE ReadEnd(r)
    BY DEF n
  <2> HIDE DEF from, to
  <2> QED BY <2>0, <2>1, <2>2, <2>3, <2>4, <2>5 DEF Unseen, n
<1> HIDE DEF from, to
<1>4. /\ lines \in Seq(Lines) /\ Len(lines) = to - from
      /\ \A i \in 1..(to - from) : lines[i] = log[r][from + i]
  <2>1. \A i \in (from + 1)..to : log[r][i] \in Lines
    BY <1>2, <1>3
  <2>2. from + 1 \in Int /\ to \in Int
    BY <1>3
  <2>3. /\ lines \in Seq(Lines)
        /\ Len(lines) = IF from + 1 <= to THEN to - (from + 1) + 1 ELSE 0
        /\ \A i \in 1..(to - (from + 1) + 1) : lines[i] = log[r][(from + 1) + i - 1]
    BY <2>1, <2>2, SubSeqProperties
  <2>4. to - (from + 1) + 1 = to - from /\ \A i \in Int : (from + 1) + i - 1 = from + i
    BY <1>3
  <2> QED BY <1>3, <2>3, <2>4
<1>5. read \in StateType /\ read.off = mem.off
  BY <1>2, OpenBatchType
<1>6. \A k \in Keys : read.hits[k] = IF k[1] = r /\ k[2] \in Successes(lines) THEN NoHits ELSE mem.hits[k]
  BY <1>2, OpenBatchHits
<1> HIDE DEF lines, read
<1>7. mem'.hits = read.hits /\ mem'.off = IF r \in EventLogs THEN mem.off ELSE [mem.off EXCEPT ![r] = to]
  BY <1>1, <1>5 DEF StateType
<1>8. Position' = from
  BY <1>1, <1>3, <1>4 DEF Position
<1>9. mem.off[r] <= to
  BY <1>2, <1>3 DEF Unseen
<1>10. Len(batch') = upto' - Position'
  BY <1>1, <1>4, <1>8
<1>11. succeeded' = Successes(batch')
  BY <1>1
<1>12. \A i \in 1..Len(batch') : batch'[i] = log[r][Position' + i]
  BY <1>1, <1>4, <1>8
<1>13. /\ upto' \in Nat /\ upto' <= Len(log[r]) /\ Position' >= 0 /\ Position' <= upto'
  BY <1>1, <1>3, <1>8
<1> QED BY <1>1, <1>3, <1>6, <1>7, <1>8, <1>9, <1>10, <1>11, <1>12, <1>13

\* The line at hand is the next one of the log; a line that is not skipped speaks for its key.
LEMMA NextLine ==
  ASSUME TypeOK, ReadOK, AtLine
  PROVE  /\ Position \in Nat /\ Position + 1 <= upto /\ rule \in Rules /\ LineKey \in Keys
         /\ Line = log[rule][Position + 1] /\ Len(Tail(batch)) = Len(batch) - 1
         /\ \A i \in 1..Len(Tail(batch)) : Tail(batch)[i] = batch[i + 1]
         /\ ~Skipped => Position + 1 \in Counted(log, LineKey, Position + 1, upto)
<1>1. /\ batch \in Seq(Lines) /\ batch # <<>> /\ Len(batch) \in Nat /\ Len(batch) >= 1
      /\ upto \in Nat /\ Position \in Nat /\ Position = upto - Len(batch) /\ pc = "lines"
      /\ upto <= Len(log[rule]) /\ rule \in Rules /\ log[rule] \in Seq(Lines) /\ Len(log[rule]) \in Nat
  BY CountTypes, EmptySeq DEF Numbers, AtLine, TypeOK, ReadOK, Position
<1>2. /\ Len(Tail(batch)) = Len(batch) - 1 /\ \A i \in 1..Len(Tail(batch)) : Tail(batch)[i] = batch[i + 1]
  BY <1>1, HeadTailProperties
<1>3. Line = log[rule][Position + 1]
  BY <1>1 DEF Line, ReadOK
<1>4. /\ Line.ip \in IPs /\ LineKey \in Keys /\ LineKey[1] = rule /\ LineKey[2] = Line.ip /\ Line \in Lines
  BY LineFacts
<1>5. ASSUME ~Skipped PROVE Position + 1 \in Counted(log, LineKey, Position + 1, upto)
  <2>1. Line.kind = "fail" /\ Line.ip \notin succeeded
    BY <1>4, <1>5, InputAssumption DEF Skipped, LineType
  <2>2. ASSUME NEW j \in (Position + 1)..upto, log[rule][j].ip = Line.ip
        PROVE  log[rule][j].kind = "fail"
    <3>1. PICK i \in 1..Len(batch) : j = Position + i
      <4>1. j - Position \in 1..Len(batch) /\ j = Position + (j - Position)
        BY <1>1
      <4> QED BY <4>1
    <3>2. batch[i] = log[rule][j] /\ (batch[i].kind = "success" => batch[i].ip \in succeeded)
      BY <1>1, <3>1 DEF ReadOK
    <3>3. batch[i] \in Lines
      BY <1>1
    <3>4. log[rule][j].kind \in {"fail", "success"}
      BY <3>2, <3>3, InputAssumption DEF LineType
    <3> QED BY <2>1, <2>2, <3>2, <3>4
  <2>3. Position + 1 \in 1..(Position + 1)
    BY <1>1
  <2> QED BY <1>3, <1>4, <2>1, <2>2, <2>3 DEF Counted, LineKey
<1> QED BY <1>1, <1>2, <1>3, <1>4, <1>5

\* A log only grows: what was read stays as it was.
LEMMA LogGrows ==
  ASSUME TypeOK, NEW r \in Rules, NEW ln \in Lines, AppendLine(r, ln)
  PROVE  \A x \in Rules : /\ Len(log[x]) <= Len(log'[x])
                          /\ \A i \in 1..Len(log[x]) : log'[x][i] = log[x][i]
<1> TAKE x \in Rules
<1>1. log[x] \in Seq(Lines) /\ Len(log[x]) \in Nat
  BY CountTypes DEF Numbers
<1>2. log'[x] = IF x = r THEN Append(log[x], ln) ELSE log[x]
  BY DEF AppendLine, TypeOK
<1> QED BY <1>1, <1>2, AppendProperties

\* So do the failures that speak for a key.
LEMMA CountedStays ==
  ASSUME TypeOK, NEW r \in Rules, NEW ln \in Lines, AppendLine(r, ln),
         NEW k \in Keys, NEW p \in Int, NEW e \in Int, p <= Len(log[k[1]]), e <= Len(log[k[1]])
  PROVE  Counted(log', k, p, e) = Counted(log, k, p, e)
<1>1. k[1] \in Rules /\ Len(log[k[1]]) \in Nat
  BY CountTypes DEF Numbers
<1>2. \A i \in 1..Len(log[k[1]]) : log'[k[1]][i] = log[k[1]][i]
  BY <1>1, LogGrows
<1>3. \A i \in 1..p : log'[k[1]][i] = log[k[1]][i] /\ \A j \in i..e : log'[k[1]][j] = log[k[1]][j]
  BY <1>1, <1>2
<1> QED BY <1>3 DEF Counted

\* A state file never points behind the end of a log.
LEMMA EmptyRead == \A r \in Rules : EmptyState.off[r] = Unseen
BY DEF EmptyState

\* Outside the scan of a batch the cursors are all there is.
LEMMA ReadFrame ==
  ASSUME ReadOK, log' = log, pc' # "lines",
         disk' \in {disk, mem}, mem'.off \in {mem.off, disk.off},
         InCycle' => \A r \in left' : cfg'.action[r] # "absent"
  PROVE  ReadOK'
BY DEF ReadOK

\* Every step keeps what the cursors and the batch say of the logs.
LEMMA ReadNext == TypeOK /\ ReadOK /\ [Next]_vars => ReadOK'
<1> SUFFICES ASSUME TypeOK, ReadOK, [Next]_vars PROVE ReadOK'
  OBVIOUS
<1>0. /\ \A x \in Rules : Len(log[x]) \in Nat /\ mem.off[x] \in Int /\ disk.off[x] \in Int
      /\ mem \in StateType /\ disk \in StateType
  BY CountTypes DEF Numbers, TypeOK
<1> USE DEF InCycle
<1>1. CASE UNCHANGED vars BY <1>1 DEF vars, env, cycle, ReadOK, Position
<1>2. CASE Start \/ Exit BY <1>2, ReadFrame DEF Start, Exit, env, cycle
<1>3. CASE BeginCycle BY <1>3, ReadFrame DEF BeginCycle, env
<1>4. ASSUME NEW k \in Keys, ReleaseBan(k) \/ ReleaseFails(k) PROVE ReadOK'
  <2>1. mem'.off = mem.off
    BY <1>0, <1>4 DEF ReleaseBan, ReleaseFails, DropBan, StateType
  <2> QED BY <1>4, <2>1, ReadFrame DEF ReleaseBan, ReleaseFails, ReadOK
<1>5. CASE PruneState
  <2>1. mem'.off = mem.off
    BY <1>0, <1>5 DEF PruneState, Prune, StateType
  <2> QED BY <1>5, <2>1, ReadFrame DEF PruneState, ReadOK, env
<1>6. ASSUME NEW r \in Rules, SkipToEnd(r) PROVE ReadOK'
  <2>1. mem'.off = [mem.off EXCEPT ![r] = Len(log[r])]
    BY <1>0, <1>6 DEF SkipToEnd, StateType
  <2> QED BY <1>0, <1>6, <2>1 DEF SkipToEnd, ReadOK, env, StateType
<1>7. ASSUME NEW r \in Rules, ReadLog(r) PROVE ReadOK'
  <2>1. r \in left /\ cfg.action[r] # "absent"
    BY <1>7 DEF ReadOK, ReadLog
  <2>2. \A x \in Rules : mem'.off[x] <= Len(log[x])
    <3> SUFFICES ASSUME NEW x \in Rules PROVE mem'.off[x] <= Len(log[x])
      OBVIOUS
    <3>1. mem'.off = [mem.off EXCEPT ![r] = upto'] \/ mem'.off = mem.off
      BY <1>7, ReadLogFacts
    <3>2. upto' <= Len(log[r]) /\ mem.off[x] <= Len(log[x])
      BY <1>7, ReadLogFacts DEF ReadOK
    <3> QED BY <1>0, <3>1, <3>2 DEF StateType
  <2>3. \A i \in 1..Len(batch') : batch'[i].kind = "success" => batch'[i].ip \in succeeded'
    <3>1. succeeded' = Successes(batch') /\ batch' \in Seq(Lines)
      <4>1. succeeded' = Successes(batch')
        BY <1>7, ReadLogFacts
      <4>2. batch' \in Seq(Lines)
        BY <1>7, TypeRead DEF Read, TypeOK
      <4> QED BY <4>1, <4>2
    <3>2. DOMAIN batch' = 1..Len(batch')
      BY <3>1, LenProperties
    <3> QED BY <3>1, <3>2 DEF Successes
  <2>4. r \notin EventLogs => mem'.off[r] = upto'
    BY <1>0, <1>7, ReadLogFacts DEF StateType
  <2>5. /\ pc' = "lines" /\ rule' = r /\ left' \subseteq left /\ disk' = disk /\ log' = log /\ cfg' = cfg
        /\ Position' >= 0 /\ upto' <= Len(log[r])
        /\ \A i \in 1..Len(batch') : batch'[i] = log[r][Position' + i]
        /\ InCycle
    BY <1>7, ReadLogFacts
  <2> QED BY <2>1, <2>2, <2>3, <2>4, <2>5 DEF ReadOK
<1>8. ASSUME NEW r \in Rules, LogMissing(r) \/ ReadFails(r) PROVE ReadOK'
  BY <1>8, ReadFrame DEF LogMissing, ReadFails, ReadOK, env
<1>9. CASE SkipLine \/ CountLine \/ QuietBan \/ RealBan
  <2>1. /\ AtLine /\ pc' = "lines" /\ batch' = Tail(batch)
        /\ UNCHANGED <<log, disk, cfg, left, rule, upto, succeeded>>
    BY <1>9 DEF SkipLine, CountLine, QuietBan, RealBan, AtLine, env
  <2>2. mem'.off = mem.off
    BY <1>0, <1>9 DEF SkipLine, CountLine, QuietBan, RealBan, StateType
  <2>3. /\ Position \in Nat /\ Len(batch') = Len(batch) - 1 /\ Len(batch) \in Nat /\ upto \in Nat
        /\ \A i \in 1..Len(batch') : batch'[i] = batch[i + 1]
    BY <2>1, NextLine, CountTypes DEF TypeOK, Numbers
  <2>4. Position' = Position + 1
    <3>1. upto' = upto
      BY <2>1
    <3>2. Len(batch') = Len(batch) - 1 /\ Len(batch) \in Nat /\ upto \in Nat
      BY <2>3
    <3> QED BY <3>1, <3>2 DEF Position
  <2>5. \A i \in 1..Len(batch') : i + 1 \in 1..Len(batch) /\ Position' + i = Position + (i + 1)
    BY <2>3, <2>4
  <2>6. \A i \in 1..Len(batch') :
           /\ batch'[i] = log[rule][Position' + i]
           /\ batch'[i].kind = "success" => batch'[i].ip \in succeeded
    BY <2>1, <2>3, <2>5 DEF ReadOK, AtLine
  <2>7. Position' >= 0
    BY <2>3, <2>4
  <2>8. pc = "lines" /\ UNCHANGED <<rule, upto, succeeded, left, cfg, log, disk>>
    BY <2>1 DEF AtLine
  <2> QED BY <2>1, <2>2, <2>6, <2>7, <2>8 DEF ReadOK
<1>10. CASE BanFails
  <2>1. mem'.off = mem.off
    BY <1>0, <1>10 DEF BanFails, StateType
  <2> QED BY <1>10, <2>1, ReadFrame DEF BanFails
<1>11. CASE FinishLines
  <2>1. mem'.off = mem.off \/ mem'.off = [mem.off EXCEPT ![rule] = upto]
    BY <1>0, <1>11 DEF FinishLines, StateType
  <2>2. \A x \in Rules : mem'.off[x] <= Len(log[x])
    BY <1>0, <1>11, <2>1 DEF FinishLines, ReadOK, TypeOK, StateType
  <2> QED BY <1>11, <2>2 DEF FinishLines, ReadOK, env
<1>12. CASE FinishScan BY <1>12, ReadFrame DEF FinishScan, ReadOK, env, cycle
<1>13. CASE SaveState
  <2>1. \A r \in Rules : EmptyState.off[r] <= Len(log[r])
    BY <1>0, EmptyRead DEF Unseen
  <2> QED BY <1>13, <2>1 DEF SaveState, EndCycle, ReadOK, env
<1>14. CASE SaveFails \/ Crash \/ Reboot
  <2>1. \A r \in Rules : EmptyState.off[r] <= Len(log[r])
    BY <1>0, EmptyRead DEF Unseen
  <2> QED BY <1>14, <2>1 DEF SaveFails, Crash, Reboot, EndCycle, ReadOK, env
<1>15. CASE Tick \/ InstallTool \/ \E ip \in IPs : Unban(ip)
  BY <1>15 DEF Tick, InstallTool, Unban, cycle, ReadOK, Position
<1>16. ASSUME NEW r \in Rules, NEW ln \in Lines, AppendLine(r, ln) PROVE ReadOK'
  <2>1. UNCHANGED <<disk, mem, cfg, left, pc, rule, upto, batch, succeeded>>
    BY <1>16 DEF AppendLine, cycle
  <2>2. \A x \in Rules : /\ Len(log[x]) <= Len(log'[x]) /\ Len(log'[x]) \in Nat
                         /\ \A i \in 1..Len(log[x]) : log'[x][i] = log[x][i]
    <3>1. \A x \in Rules : Len(log'[x]) \in Nat
      <4>1. log' \in [Rules -> Seq(Lines)]
        BY <1>16 DEF AppendLine, TypeOK
      <4> QED BY <4>1, LenProperties
    <3> QED BY <1>16, <3>1, LogGrows
  <2>3. \A x \in Rules : disk'.off[x] <= Len(log'[x]) /\ mem'.off[x] <= Len(log'[x])
    BY <1>0, <2>1, <2>2 DEF ReadOK
  <2>4. ASSUME pc = "lines" PROVE /\ upto <= Len(log'[rule])
                                  /\ \A i \in 1..Len(batch) : batch[i] = log'[rule][Position + i]
    <3>1. rule \in Rules /\ upto \in Nat /\ Len(batch) \in Nat
      BY <2>4, CountTypes DEF TypeOK, Numbers
    <3>2. \A i \in 1..Len(batch) : Position + i \in 1..Len(log[rule])
      BY <1>0, <2>4, <3>1 DEF ReadOK, Position
    <3> QED BY <1>0, <2>2, <2>4, <3>1, <3>2 DEF ReadOK
  <2>5. Position' = Position
    BY <2>1 DEF Position
  <2> QED BY <2>1, <2>3, <2>4, <2>5 DEF ReadOK
<1> QED
  BY <1>1, <1>2, <1>3, <1>4, <1>5, <1>6, <1>7, <1>8, <1>9, <1>10, <1>11, <1>12, <1>13, <1>14, <1>15, <1>16
  DEF Next, CycleStep, Reconcile, Read, Scan, Save, Environment

\* Between cycles only the state file counts.
LEMMA CountsRest ==
  ASSUME CountsOK, disk' = disk, log' = log, ~InCycle'
  PROVE  CountsOK'
BY DEF CountsOK

\* Reading a log forgets the failures before a success, and counts no line yet.
LEMMA CountRead ==
  ASSUME TypeOK, TypeOK', ReadOK, CountsOK, NEW r \in Rules, ReadLog(r)
  PROVE  CountsOK'
<1>1. InCycle /\ InCycle' /\ disk' = disk /\ log' = log /\ pc = "scan" /\ pc' = "lines" /\ rule' = r
  BY ReadLogFacts DEF InCycle
<1>2. ASSUME NEW k \in ExactKeys PROVE HitCount(mem'.hits[k]) <= Cardinality(Counted(log, k, From(k[1])', To(k[1])'))
  <2> k \in Keys
    BY DEF ExactKeys
  <2>0. /\ k[1] \in Rules /\ k[2] \in IPs /\ HitCount(mem.hits[k]) \in Nat
        /\ From(k[1]) \in Int /\ From(k[1])' \in Int
        /\ Len(log[r]) \in Nat /\ log[r] \in Seq(Lines)
    BY CountTypes, CountTypesNext DEF Numbers
  <2>1. /\ HitCount(mem.hits[k]) <= Cardinality(Counted(log, k, From(k[1]), To(k[1])))
        /\ Cardinality(Counted(log, k, From(k[1]), To(k[1]))) \in Nat
        /\ Cardinality(Counted(log, k, From(k[1])', To(k[1])')) \in Nat
    BY <1>1, <2>0, CountedType DEF CountsOK
  <2>2. From(k[1]) = mem.off[k[1]] /\ To(k[1]) = mem.off[k[1]]
    BY <1>1 DEF From, To, Reading
  <2>3. CASE k[1] # r
    <3>1. From(k[1])' = mem.off[k[1]] /\ To(k[1])' = mem.off[k[1]]
      BY <1>1, <2>0, <2>3, ReadLogFacts DEF From, To, Reading, TypeOK, StateType
    <3>2. mem'.hits[k] = mem.hits[k]
      BY <2>3, ReadLogFacts
    <3> QED BY <2>1, <2>2, <3>1, <3>2
  <2>4. CASE k[1] = r /\ k[2] \in succeeded'
    <3>1. HitCount(mem'.hits[k]) = 0
      BY <2>4, ReadLogFacts, NoHitsCount
    <3> QED BY <2>1, <3>1
  <2>5. CASE k[1] = r /\ k[2] \notin succeeded'
    <3>1. From(k[1])' = Position' /\ To(k[1])' = upto'
      BY <1>1, <2>5 DEF From, To, Reading
    <3>2. /\ mem.off[r] <= Position' /\ (mem.off[r] = Unseen \/ Position' = mem.off[r])
          /\ upto' \in Nat /\ upto' <= Len(log[r]) /\ Position' >= 0 /\ Position' <= upto'
          /\ Len(batch') = upto' - Position' /\ Position' \in Int
          /\ \A i \in 1..Len(batch') : batch'[i] = log[r][Position' + i]
          /\ succeeded' = Successes(batch')
      BY ReadLogFacts, CountTypesNext DEF Numbers
    <3>3. ASSUME NEW j \in Int, Position' + 1 <= j, j <= upto', log[r][j].ip = k[2]
          PROVE  log[r][j].kind = "fail"
      <4>1. PICK i \in 1..Len(batch') : j = Position' + i
        <5>1. j - Position' \in 1..Len(batch') /\ j = Position' + (j - Position')
          BY <3>2, <3>3
        <5> QED BY <5>1
      <4>2. batch'[i] = log[r][j] /\ batch' \in Seq(Lines)
        BY <3>2, <4>1 DEF TypeOK
      <4>3. i \in DOMAIN batch' /\ batch'[i] \in Lines
        BY <4>1, <4>2, LenProperties, ElementOfSeq
      <4>4. batch'[i].kind # "success"
        BY <2>5, <3>2, <3>3, <4>2, <4>3 DEF Successes
      <4> QED BY <4>2, <4>3, <4>4, InputAssumption DEF LineType
    <3>4. Counted(log, k, mem.off[r], mem.off[r]) \subseteq Counted(log, k, Position', upto')
      <4>1. CASE mem.off[r] = Unseen
        <5>1. 1..mem.off[r] = {}
          BY <4>1 DEF Unseen
        <5> QED BY <5>1 DEF Counted
      <4>2. CASE Position' = mem.off[r]
        <5>1. ASSUME NEW i \in 1..Position', NEW j \in i..upto', log[r][j].ip = k[2],
                     \A x \in i..Position' : log[r][x].ip = k[2] => log[r][x].kind = "fail"
              PROVE  log[r][j].kind = "fail"
          <6>1. j \in Int /\ (j \in i..Position' \/ (Position' + 1 <= j /\ j <= upto'))
            BY <3>2
          <6> QED BY <3>3, <5>1, <6>1
        <5> QED BY <2>5, <4>2, <5>1 DEF Counted
      <4> QED BY <3>2, <4>1, <4>2
    <3>5. Cardinality(Counted(log, k, mem.off[r], mem.off[r])) <= Cardinality(Counted(log, k, Position', upto'))
      BY <2>0, <2>2, <2>5, <3>2, <3>4, CountedSubset
    <3>6. mem'.hits[k] = mem.hits[k]
      BY <2>5, ReadLogFacts
    <3>7. /\ HitCount(mem.hits[k]) <= Cardinality(Counted(log, k, mem.off[r], mem.off[r]))
          /\ Cardinality(Counted(log, k, mem.off[r], mem.off[r])) \in Nat
          /\ Cardinality(Counted(log, k, Position', upto')) \in Nat
      BY <2>1, <2>2, <2>5, <3>1
    <3>8. HitCount(mem.hits[k]) <= Cardinality(Counted(log, k, Position', upto'))
      BY <2>0, <3>5, <3>7
    <3> QED BY <3>1, <3>6, <3>8
  <2> QED BY <2>3, <2>4, <2>5
<1> QED BY <1>1, <1>2 DEF CountsOK

\* A line that is counted speaks for its key.
LEMMA CountLines ==
  ASSUME TypeOK, TypeOK', ReadOK, CountsOK,
         SkipLine \/ CountLine \/ QuietBan \/ RealBan \/ BanFails
  PROVE  CountsOK'
<1> PICK x \in Keys : x = LineKey
  BY LineFacts DEF SkipLine, CountLine, QuietBan, RealBan, BanFails
<1>1. /\ AtLine /\ InCycle /\ pc = "lines" /\ log' = log /\ disk' = disk /\ mem \in StateType
      /\ InCycle'
  BY DEF SkipLine, CountLine, QuietBan, RealBan, BanFails, AtLine, InCycle, env, TypeOK
<1>2. /\ Position \in Nat /\ Position + 1 <= upto /\ upto \in Nat /\ rule \in Rules
      /\ x[1] = rule /\ NextHits \in [Time -> Nat]
      /\ ~Skipped => Position + 1 \in Counted(log, x, Position + 1, upto)
  BY <1>1, NextLine, LineFacts DEF TypeOK
<1>3. \/ SkipLine /\ mem' = mem
      \/ ~Skipped /\ mem'.hits = [mem.hits EXCEPT ![x] = NextHits] /\ mem'.off = mem.off
  BY <1>1 DEF SkipLine, CountLine, QuietBan, RealBan, BanFails, StateType
<1>4. \/ pc' = "lines" /\ rule' = rule /\ upto' = upto /\ Position' = Position + 1
      \/ pc' = "save" /\ (rule \in Exact => mem.off[rule] = upto)
  <2>1. CASE BanFails
    <3>1. rule \in Exact => rule \notin EventLogs
      BY <1>1, <2>1 DEF BanFails, Quietly, Exact, TypeOK, ReadOK
    <3> QED BY <1>1, <2>1, <3>1 DEF BanFails, ReadOK
  <2>2. CASE SkipLine \/ CountLine \/ QuietBan \/ RealBan
    <3>1. pc' = "lines" /\ rule' = rule /\ upto' = upto /\ batch' = Tail(batch)
      BY <2>2 DEF SkipLine, CountLine, QuietBan, RealBan, AtLine
    <3>2. Len(batch') = Len(batch) - 1 /\ Len(batch) \in Nat /\ upto \in Nat
      BY <1>1, <3>1, NextLine, CountTypes DEF Numbers, TypeOK
    <3>3. Position' = Position + 1
      <4>1. upto' = upto
        BY <3>1
      <4> QED BY <3>2, <4>1 DEF Position
    <3> QED BY <3>1, <3>3
  <2> QED BY <2>1, <2>2
<1>5. ASSUME NEW k \in ExactKeys PROVE HitCount(mem'.hits[k]) <= Cardinality(Counted(log, k, From(k[1])', To(k[1])'))
  <2> k \in Keys
    BY DEF ExactKeys
  <2>0. /\ k[1] \in Rules /\ HitCount(mem.hits[k]) \in Nat /\ HitCount(mem'.hits[k]) \in Nat
        /\ mem.hits[k] \in [Time -> Nat] /\ mem.off[k[1]] \in Int
        /\ From(k[1]) \in Int /\ From(k[1])' \in Int
    BY CountTypes, CountTypesNext DEF Numbers
  <2>1. /\ HitCount(mem.hits[k]) <= Cardinality(Counted(log, k, From(k[1]), To(k[1])))
        /\ Cardinality(Counted(log, k, From(k[1]), To(k[1]))) \in Nat
        /\ Cardinality(Counted(log, k, From(k[1])', To(k[1])')) \in Nat
    BY <1>1, <2>0, CountedType DEF CountsOK
  <2>2. CASE k[1] # rule
    <3>1. mem'.hits[k] = mem.hits[k] /\ mem'.off = mem.off
      BY <1>1, <1>2, <1>3, <2>2 DEF StateType
    <3>2. From(k[1])' = From(k[1]) /\ To(k[1])' = To(k[1])
      BY <1>1, <1>4, <2>2, <3>1 DEF From, To, Reading
    <3> QED BY <2>1, <3>1, <3>2
  <2>3. CASE k[1] = rule
    <3>1. From(k[1]) = Position /\ To(k[1]) = upto
      BY <1>1, <2>3 DEF From, To, Reading
    <3>2. To(k[1])' = upto /\ From(k[1])' >= Position + 1
      <4>1. mem'.off = mem.off
        BY <1>3
      <4>2. CASE pc' = "lines" /\ rule' = rule /\ upto' = upto /\ Position' = Position + 1
        BY <1>2, <2>3, <4>2 DEF From, To, Reading
      <4>3. CASE pc' = "save" /\ (rule \in Exact => mem.off[rule] = upto)
        <5>1. mem.off[rule] = upto
          BY <2>3, <4>3 DEF ExactKeys
        <5> QED BY <1>2, <2>3, <4>1, <4>3, <5>1 DEF From, To, Reading
      <4> QED BY <1>4, <4>2, <4>3
    <3>3. /\ Counted(log, k, Position, upto) \subseteq Counted(log, k, From(k[1])', upto)
          /\ Counted(log, k, Position + 1, upto) \subseteq Counted(log, k, From(k[1])', upto)
      BY <1>2, <2>0, <3>2 DEF Counted
    <3>4. /\ Cardinality(Counted(log, k, Position, upto)) <= Cardinality(Counted(log, k, From(k[1])', upto))
          /\ Cardinality(Counted(log, k, Position + 1, upto)) <= Cardinality(Counted(log, k, From(k[1])', upto))
          /\ Cardinality(Counted(log, k, Position + 1, upto)) \in Nat
      BY <1>2, <2>0, <3>3, CountedSubset, CountedType
    <3>0. /\ HitCount(mem.hits[k]) <= Cardinality(Counted(log, k, Position, upto))
          /\ Cardinality(Counted(log, k, Position, upto)) \in Nat
          /\ Cardinality(Counted(log, k, From(k[1])', upto)) \in Nat
      BY <2>1, <3>1, <3>2
    <3>5. CASE mem'.hits[k] = mem.hits[k]
      <4>1. HitCount(mem.hits[k]) <= Cardinality(Counted(log, k, From(k[1])', upto))
        BY <2>0, <3>0, <3>4
      <4> QED BY <3>2, <3>5, <4>1
    <3>6. CASE k = x /\ ~Skipped /\ mem'.hits[k] = NextHits
      <4>1. HitCount(NextHits) <= HitCount(mem.hits[k]) + 1
        BY <2>0, <3>6, AppendOne DEF NextHits
      <4>2. Cardinality(Counted(log, k, Position + 1, upto)) >= Cardinality(Counted(log, k, Position, upto)) + 1
        BY <1>2, <3>6, CountedOneMore
      <4>3. HitCount(NextHits) \in Nat
        BY <2>0, <3>6
      <4>4. HitCount(NextHits) <= Cardinality(Counted(log, k, From(k[1])', upto))
        BY <2>0, <3>0, <3>4, <4>1, <4>2, <4>3
      <4> QED BY <3>2, <3>6, <4>4
    <3>7. mem'.hits[k] = mem.hits[k] \/ (k = x /\ ~Skipped /\ mem'.hits[k] = NextHits)
      BY <1>1, <1>3 DEF StateType
    <3> QED BY <3>5, <3>6, <3>7
  <2> QED BY <2>2, <2>3
<1> QED BY <1>1, <1>5 DEF CountsOK

\* Every step keeps the counts.
LEMMA CountNext == TypeOK /\ TypeOK' /\ ReadOK /\ CountsOK /\ [Next]_vars => CountsOK'
<1> SUFFICES ASSUME TypeOK, TypeOK', ReadOK, CountsOK, [Next]_vars PROVE CountsOK'
  OBVIOUS
<1>0. /\ mem \in StateType /\ disk \in StateType
      /\ \A k \in Keys : k[1] \in Rules /\ HitCount(mem.hits[k]) \in Nat /\ HitCount(mem'.hits[k]) \in Nat
  BY CountTypes, CountTypesNext DEF Numbers, TypeOK
<1> USE DEF InCycle, ExactKeys
<1>1. CASE UNCHANGED vars
  BY <1>1 DEF vars, env, cycle, CountsOK, From, To, Reading, Position
<1>2. CASE Start \/ Exit \/ SaveFails \/ Crash \/ Reboot
  BY <1>2, CountsRest DEF Start, Exit, SaveFails, Crash, Reboot, env
<1>3. CASE BeginCycle
  BY <1>3 DEF BeginCycle, env, CountsOK, From, To, Reading
<1>4. ASSUME NEW x \in Keys, ReleaseBan(x) \/ ReleaseFails(x) PROVE CountsOK'
  <2>1. /\ InCycle /\ disk' = disk /\ log' = log /\ pc = "release" /\ pc' = "release"
        /\ mem' = mem \/ mem' = DropBan(mem, x)
    BY <1>4 DEF ReleaseBan, ReleaseFails
  <2>2. /\ mem'.off = mem.off
        /\ \A k \in Keys : mem'.hits[k] = mem.hits[k] \/ mem'.hits[k] = NoHits
    BY <1>0, <2>1 DEF DropBan, StateType
  <2>3. \A k \in Keys : HitCount(mem'.hits[k]) <= HitCount(mem.hits[k])
    BY <1>0, <2>2, NoHitsCount
  <2>4. \A k \in Keys : From(k[1])' = From(k[1]) /\ To(k[1])' = To(k[1])
    BY <2>1, <2>2 DEF From, To, Reading
  <2> QED BY <2>1, <2>3, <2>4, CountFrame
<1>5. CASE PruneState
  <2>1. /\ InCycle /\ disk' = disk /\ log' = log /\ pc = "release" /\ pc' = "scan" /\ mem' = Prune(cfg, mem, now)
    BY <1>5 DEF PruneState, env
  <2>2. \A k \in Keys : HitCount(mem'.hits[k]) <= HitCount(mem.hits[k]) /\ mem'.off = mem.off
    BY <1>0, <2>1, PruneFewer
  <2>3. \A k \in Keys : From(k[1])' = From(k[1]) /\ To(k[1])' = To(k[1])
    BY <2>1, <2>2 DEF From, To, Reading
  <2> QED BY <2>1, <2>2, <2>3, CountFrame
<1>6. ASSUME NEW r \in Rules, SkipToEnd(r) PROVE CountsOK'
  <2>1. /\ InCycle /\ disk' = disk /\ log' = log /\ pc = "scan" /\ pc' = "scan" /\ mem.off[r] = Unseen
        /\ mem'.hits = mem.hits /\ mem'.off = [mem.off EXCEPT ![r] = Len(log[r])]
    BY <1>0, <1>6 DEF SkipToEnd, AtEnd, env, StateType
  <2>2. \A k \in Keys : Counted(log, k, From(k[1]), To(k[1])) \subseteq Counted(log, k, From(k[1])', To(k[1])')
    <3> SUFFICES ASSUME NEW k \in Keys
                 PROVE  Counted(log, k, From(k[1]), To(k[1])) \subseteq Counted(log, k, From(k[1])', To(k[1])')
      OBVIOUS
    <3>1. From(k[1]) = mem.off[k[1]] /\ To(k[1]) = mem.off[k[1]]
      BY <2>1 DEF From, To, Reading
    <3>2. CASE k[1] = r
      <4>1. 1..From(k[1]) = {}
        BY <2>1, <3>1, <3>2 DEF Unseen
      <4> QED BY <4>1 DEF Counted
    <3>3. CASE k[1] # r
      <4>1. From(k[1])' = From(k[1]) /\ To(k[1])' = To(k[1])
        BY <1>0, <2>1, <3>1, <3>3 DEF From, To, Reading, StateType
      <4> QED BY <4>1
    <3> QED BY <3>2, <3>3
  <2>3. \A k \in Keys : HitCount(mem'.hits[k]) <= HitCount(mem.hits[k])
    BY <1>0, <2>1
  <2> QED BY <2>1, <2>2, <2>3, CountFrame
<1>7. ASSUME NEW r \in Rules, ReadLog(r) PROVE CountsOK'
  BY <1>7, CountRead
<1>8. CASE FinishScan \/ \E r \in Rules : LogMissing(r) \/ ReadFails(r)
  <2>1. /\ InCycle /\ disk' = disk /\ log' = log /\ mem' = mem /\ pc = "scan" /\ pc' \in {"scan", "save"}
    BY <1>8 DEF FinishScan, LogMissing, ReadFails, env, cycle
  <2>2. \A k \in Keys : From(k[1])' = From(k[1]) /\ To(k[1])' = To(k[1])
    BY <2>1 DEF From, To, Reading
  <2>3. \A k \in Keys : HitCount(mem'.hits[k]) <= HitCount(mem.hits[k])
    BY <1>0, <2>1
  <2> QED BY <2>1, <2>2, <2>3, CountFrame
<1>9. CASE SkipLine \/ CountLine \/ QuietBan \/ RealBan \/ BanFails
  BY <1>9, CountLines
<1>10. CASE FinishLines
  <2>1. /\ InCycle /\ disk' = disk /\ log' = log /\ pc = "lines" /\ pc' = "scan" /\ batch = <<>>
        /\ rule \in Rules /\ upto \in Nat
    BY <1>10 DEF FinishLines, env, TypeOK
  <2>2. /\ mem'.hits = mem.hits
        /\ mem'.off = IF rule \in EventLogs THEN [mem.off EXCEPT ![rule] = upto] ELSE mem.off
    BY <1>0, <1>10 DEF FinishLines, StateType
  <2>3. Position = upto /\ mem'.off[rule] = upto
    BY <1>0, <2>1, <2>2, EmptySeq DEF Position, ReadOK, StateType
  <2>4. \A k \in Keys : From(k[1])' = From(k[1]) /\ To(k[1])' = To(k[1])
    BY <1>0, <2>1, <2>2, <2>3 DEF From, To, Reading, StateType
  <2>5. \A k \in Keys : HitCount(mem'.hits[k]) <= HitCount(mem.hits[k])
    BY <1>0, <2>2
  <2> QED BY <2>1, <2>4, <2>5, CountFrame
<1>11. CASE SaveState
  BY <1>11 DEF SaveState, EndCycle, env, CountsOK, From, To, Reading
<1>12. CASE Tick \/ InstallTool \/ \E ip \in IPs : Unban(ip)
  BY <1>12 DEF Tick, InstallTool, Unban, cycle, CountsOK, From, To, Reading, Position
<1>13. ASSUME NEW r \in Rules, NEW ln \in Lines, AppendLine(r, ln) PROVE CountsOK'
  <2>1. UNCHANGED <<disk, mem, pc, rule, upto, batch>>
    BY <1>13 DEF AppendLine, cycle
  <2>2. \A x \in Rules : From(x)' = From(x) /\ To(x)' = To(x)
    BY <2>1 DEF From, To, Reading, Position
  <2>3. ASSUME NEW k \in Keys
        PROVE  /\ Counted(log', k, From(k[1]), To(k[1])) = Counted(log, k, From(k[1]), To(k[1]))
               /\ Counted(log', k, disk.off[k[1]], disk.off[k[1]]) = Counted(log, k, disk.off[k[1]], disk.off[k[1]])
    <3>1. /\ k[1] \in Rules /\ From(k[1]) \in Int /\ To(k[1]) \in Int /\ disk.off[k[1]] \in Int
          /\ Len(log[k[1]]) \in Nat /\ disk.off[k[1]] <= Len(log[k[1]])
          /\ Len(batch) \in Nat /\ upto \in Nat
      BY CountTypes DEF Numbers, ReadOK, TypeOK
    <3>2. From(k[1]) <= Len(log[k[1]]) /\ To(k[1]) <= Len(log[k[1]])
      BY <3>1 DEF From, To, Reading, Position, ReadOK
    <3> QED BY <1>13, <3>1, <3>2, CountedStays
  <2>4. \A k \in Keys : From(k[1])' = From(k[1]) /\ To(k[1])' = To(k[1])
    BY <1>0, <2>2
  <2>5. \A k \in ExactKeys : HitCount(disk'.hits[k]) <= Cardinality(Counted(log', k, disk'.off[k[1]], disk'.off[k[1]]))
    BY <2>1, <2>3 DEF CountsOK
  <2>6. InCycle' => \A k \in ExactKeys :
           HitCount(mem'.hits[k]) <= Cardinality(Counted(log', k, From(k[1])', To(k[1])'))
    BY <2>1, <2>3, <2>4 DEF CountsOK
  <2> QED BY <2>5, <2>6 DEF CountsOK
<1> QED
  BY <1>1, <1>2, <1>3, <1>4, <1>5, <1>6, <1>7, <1>8, <1>9, <1>10, <1>11, <1>12, <1>13
  DEF Next, CycleStep, Reconcile, Read, Scan, Save, Environment

\* The counts hold from the first state on, which knows no hit and no cursor.
LEMMA CountInit == Init => ReadOK /\ CountsOK
<1> SUFFICES ASSUME Init PROVE ReadOK /\ CountsOK
  OBVIOUS
<1>1. pc = "down" /\ mem = EmptyState /\ ~InCycle
  BY DEF Init, NoCycle, InCycle
<1>2. disk.off = EmptyState.off /\ disk.hits = EmptyState.hits
  <2>1. \A k \in Keys, a \in Inherited :
           LegacyBan(k, a).off = EmptyState.off /\ LegacyBan(k, a).hits = EmptyState.hits
    BY DEF LegacyBan, EmptyState
  <2> QED BY <2>1 DEF Init, InheritedStates
<1>3. \A r \in Rules : disk.off[r] = Unseen /\ mem.off[r] = Unseen
  BY <1>1, <1>2, EmptyRead
<1>4. ReadOK
  BY <1>1, <1>3, TypeInit, CountTypes DEF ReadOK, Numbers, Unseen
<1>5. CountsOK
  <2>1. ASSUME NEW k \in ExactKeys
        PROVE  HitCount(disk.hits[k]) <= Cardinality(Counted(log, k, disk.off[k[1]], disk.off[k[1]]))
    <3>1. k \in Keys /\ disk.off[k[1]] \in Int
      BY TypeInit, CountTypes DEF Numbers, ExactKeys
    <3>2. Cardinality(Counted(log, k, disk.off[k[1]], disk.off[k[1]])) \in Nat
      BY <3>1, CountedType
    <3>3. disk.hits[k] = NoHits
      BY <1>2, <3>1 DEF EmptyState
    <3> QED BY <3>2, <3>3, NoHitsCount
  <2> QED BY <1>1, <2>1 DEF CountsOK
<1> QED BY <1>4, <1>5

\* A ban or a notification of these rules takes max_attempts distinct failure lines of its own key
\* after the last success of the address, for any logs, batches, restarts and faults.
THEOREM ThresholdOfExactRules ==
  Spec => [][Penalty /\ pc' = "lines" /\ rule \in Exact =>
               Cardinality(Evidence) >= MaxAttempts[rule][Line.ip]]_vars
<1> DEFINE P == Penalty /\ pc' = "lines" /\ rule \in Exact => Cardinality(Evidence) >= MaxAttempts[rule][Line.ip]
<1>1. ASSUME TypeOK, ReadOK, CountsOK, Next, Penalty, pc' = "lines", rule \in Exact
      PROVE  Cardinality(Evidence) >= MaxAttempts[rule][Line.ip]
  <2>1. AtLine /\ pc = "lines" /\ InCycle /\ (mem'.bans # mem.bans \/ mem'.cool # mem.cool)
        /\ mem \in StateType
    BY <1>1 DEF Penalty, AtLine, InCycle, TypeOK
  <2>2. QuietBan \/ RealBan
    <3>1. ~Environment /\ ~Start /\ ~Exit /\ ~BeginCycle /\ ~Reconcile /\ ~Read /\ ~Save
      <4>1. ~Environment
        BY <1>1, <2>1 DEF Environment, Tick, Crash, Reboot, InstallTool, AppendLine, Unban, cycle
      <4> QED BY <2>1, <4>1 DEF Start, Exit, BeginCycle, Reconcile, ReleaseBan, ReleaseFails, PruneState,
                 Read, SkipToEnd, ReadLog, LogMissing, ReadFails, Save, SaveState, SaveFails
    <3>2. ~SkipLine /\ ~CountLine /\ ~BanFails /\ ~FinishLines /\ ~FinishScan
      BY <1>1, <2>1 DEF SkipLine, CountLine, BanFails, FinishLines, FinishScan, StateType, AtLine
    <3> QED BY <1>1, <3>1, <3>2 DEF Next, CycleStep, Scan
  <2>3. ~Skipped /\ Reached
    BY <2>2 DEF QuietBan, RealBan
  <2> PICK x \in Keys : x = LineKey
    BY <1>1, <2>1, LineFacts
  <2>4. /\ x[1] = rule /\ x[2] = Line.ip /\ rule \in Rules /\ Line.ip \in IPs
        /\ Position \in Nat /\ Position + 1 \in Counted(log, x, Position + 1, upto)
        /\ mem.hits[x] \in [Time -> Nat] /\ HitCount(mem.hits[x]) \in Nat
        /\ NextHits \in [Time -> Nat] /\ HitCount(NextHits) \in Nat
        /\ Len(batch) \in Nat /\ upto \in Nat
    BY <1>1, <2>1, <2>3, LineFacts, NextLine, CountTypes, HitsFinite DEF Numbers, TypeOK
  <2>5. Evidence = Counted(log, x, Position + 1, upto)
    <3>1. upto - Len(batch) + 1 = Position + 1
      BY DEF Position
    <3> QED BY <2>4, <3>1 DEF Evidence, Counted
  <2>6. HitCount(NextHits) <= HitCount(mem.hits[x]) + 1
    BY <2>4, AppendOne DEF NextHits
  <2>7. HitCount(mem.hits[x]) <= Cardinality(Counted(log, x, Position, upto))
    <3>1. x \in ExactKeys
      BY <1>1, <2>4 DEF ExactKeys
    <3> QED BY <1>1, <2>1, <2>4, <3>1 DEF CountsOK, From, To, Reading
  <2>8. /\ Cardinality(Counted(log, x, Position + 1, upto)) >= Cardinality(Counted(log, x, Position, upto)) + 1
        /\ Cardinality(Counted(log, x, Position + 1, upto)) \in Nat
        /\ Cardinality(Counted(log, x, Position, upto)) \in Nat
    BY <2>4, CountedOneMore, CountedType
  <2>9. HitCount(NextHits) >= MaxAttempts[rule][Line.ip] /\ MaxAttempts[rule][Line.ip] \in Nat
    BY <2>3, <2>4, RuleAssumption DEF Reached
  <2> QED BY <2>4, <2>5, <2>6, <2>7, <2>8, <2>9
<1>2. TypeOK /\ ReadOK /\ CountsOK /\ [Next]_vars => [P]_vars
  BY <1>1
<1>3. TypeOK /\ TypeOK' /\ ReadOK /\ CountsOK /\ [Next]_vars => ReadOK' /\ CountsOK'
  BY ReadNext, CountNext
<1> QED BY <1>2, <1>3, CountInit, TypeCorrect, PTL DEF Spec


\* So does every penalty where the rules of event logs, which count a line again after a failed
\* ban, only notify.
THEOREM ThresholdHolds ==
  ASSUME \A r \in EventLogs, c \in Configs : c.dryRun \/ c.action[r] \in {"notify", "absent"}
  PROVE  Spec => ThresholdHonoured
<1> DEFINE P == Penalty /\ pc' = "lines" /\ rule \in Exact => Cardinality(Evidence) >= MaxAttempts[rule][Line.ip]
           Q == Penalty /\ pc' = "lines" => Cardinality(Evidence) >= MaxAttempts[rule][Line.ip]
<1>1. TypeOK /\ [P]_vars => [Q]_vars
  BY DEF Exact, TypeOK, Penalty, AtLine
<1> QED BY <1>1, TypeCorrect, ThresholdOfExactRules, PTL DEF ThresholdHonoured
=============================================================================
