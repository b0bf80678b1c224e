------------------------------- MODULE Daemon -------------------------------
(***************************************************************************)
(* The protection cycle of banhack233 (internal/daemon): a cycle loads the *)
(* state file, releases the bans that are over, reads the new lines of     *)
(* every rule's log, bans through the firewall (internal/ban) and saves    *)
(* the state file.  The environment appends log lines, lets time pass,     *)
(* installs a firewall tool, unbans by hand, reboots and kills the daemon. *)
(*                                                                         *)
(* lock.Acquire admits one process at a time to the state file, for `run'  *)
(* and for `test' alike, so one program counter stands for whichever       *)
(* process holds the lock.  A log is the sequence of the lines a rule's    *)
(* patterns match; a time is the number of a clock tick; a firewall entry  *)
(* is a pair of a backend and an address.                                  *)
(***************************************************************************)
EXTENDS Integers, Sequences, FiniteSets

CONSTANTS
    Rules, IPs, Users,  \* the rules of the configuration, the addresses, the users in log lines
    NoUser, NoRule,     \* the user part of a key that names none; no rule being read
    CountByUser,        \* the rules with count_by_user
    EventLogs,          \* the rules that read a Windows event channel, not a text file
    MaxAttempts,        \* [Rules -> [IPs -> Nat]]: max_attempts, or the override of the region of the IP
    FindTime, BanTime, SuccessGrace,  \* [Rules -> Nat]: the windows of each rule
    Tools,              \* the firewall backends this host may have
    NoAct,              \* a ban recorded without its backend, by an older version
    Inherited,          \* what an older version may have recorded as the action of a ban
    Configs,            \* the configurations the process may be started with
    StartAtEnd,         \* start_at_end: skip what a log holds when it is first seen
    Lines,              \* the log lines that may appear
    MaxBatch,           \* lines one read returns (4 MiB of text, 1024 events)
    MaxTime, MaxLog, MaxFaults  \* bounds: clock, lines per log, injected faults

VARIABLES
    clock, log, fw, tool,  \* environment: time, logs, firewall entries, the preferred tool
    disk,                  \* the state file
    pc, cfg,               \* the process: where it is, its configuration
    now, mem,              \* the cycle: its time and its copy of the state
    todo, gone, err,       \* reconcileBans: records to release, entries removed, releaseErr
    left, rule, batch, upto, succeeded,  \* the scan: rules to go, current rule, lines to go, end of batch
    faults,                \* injected faults so far
    unsure                 \* ghost: entries a fault put out of step with their records

env   == <<clock, log, fw, tool>>
cycle == <<now, mem, todo, gone, err, left, rule, batch, upto, succeeded>>
vars  == <<env, disk, pc, cfg, cycle, faults, unsure>>

Custom == "custom"
Quiet  == {"notify", "dry-run"}
Time   == 0..MaxTime
Unseen == -1

Keys    == {k \in Rules \X IPs \X (Users \cup {NoUser}) :
              k[1] \in CountByUser \/ k[3] = NoUser}
Actions == Tools \cup Quiet \cup {Custom, NoAct}
Entries == Tools \X IPs

LineType   == [kind : {"fail", "success"}, ip : IPs, user : Users \cup {NoUser}]
ConfigType == [dryRun : BOOLEAN, ignore : SUBSET IPs,
               action : [Rules -> {"auto", "notify", Custom, "absent"}]]
StateType  == [bans : [Keys -> Nat], act : [Keys -> Actions],
               hits : [Keys -> [Time -> Nat]], cool : [Keys -> Nat],
               grace : [Rules \X IPs -> Nat], off : [Rules -> Nat \cup {Unseen}]]

ASSUME RuleAssumption ==
    /\ CountByUser \subseteq Rules /\ EventLogs \subseteq Rules /\ NoUser \notin Users /\ NoRule \notin Rules
    /\ MaxAttempts \in [Rules -> [IPs -> Nat \ {0}]]
    /\ FindTime \in [Rules -> Nat \ {0}] /\ BanTime \in [Rules -> Nat \ {0}]
    /\ SuccessGrace \in [Rules -> Nat]
ASSUME ActionAssumption ==
    /\ Tools \subseteq {"nft", "iptables", "pf", "netsh"} /\ Tools # {}
    /\ NoAct \notin Tools \cup Quiet \cup {Custom}
    /\ Inherited \subseteq {NoAct} \cup Quiet
    /\ NoAct \in Inherited => \E t \in Tools : Tools = {t}
ASSUME InputAssumption ==
    /\ Configs \subseteq ConfigType /\ Configs # {}
    /\ Lines \subseteq LineType /\ StartAtEnd \in BOOLEAN
    /\ MaxBatch \in Nat \ {0} /\ MaxTime \in Nat \ {0} /\ MaxLog \in Nat /\ MaxFaults \in Nat

-----------------------------------------------------------------------------
\* Keys, records and what they stand for.

BanKey(r, ip, user) == <<r, ip, IF r \in CountByUser THEN user ELSE NoUser>>

NoHits == [t \in Time |-> 0]
Hits(h) == UNION {{t} \X (1..h[t]) : t \in Time}
HitCount(h) == Cardinality(Hits(h))
Recent(h, r, t) == [s \in Time |-> IF s > t - FindTime[r] THEN h[s] ELSE 0]
AppendRecent(h, r, t) == [Recent(h, r, t) EXCEPT ![t] = @ + 1]

EmptyState ==
    [bans |-> [k \in Keys |-> 0], act |-> [k \in Keys |-> NoAct],
     hits |-> [k \in Keys |-> NoHits], cool |-> [k \in Keys |-> 0],
     grace |-> [x \in Rules \X IPs |-> 0], off |-> [r \in Rules |-> Unseen]]

\* The firewall entry a record stands for; Recorded: those of all records.
Real(st, k)    == st.bans[k] # 0 /\ st.act[k] \in Tools \cup {NoAct}
EntryOf(st, k) == <<IF st.act[k] = NoAct THEN tool ELSE st.act[k], k[2]>>
Recorded(st)   == {EntryOf(st, k) : k \in {x \in Keys : Real(st, x)}}

SymDiff(A, B) == (A \ B) \cup (B \ A)

-----------------------------------------------------------------------------
\* The first pass of reconcileBans.

Backend(c, st, k) ==
    IF st.act[k] # NoAct THEN st.act[k]
    ELSE IF c.action[k[1]] = Custom THEN Custom ELSE "auto"

\* Mutant: a ban that ends at this very moment is not over yet.
ReleaseLate(c, st, t, k) ==
    k[2] \in c.ignore \/ st.bans[k] < t \/ c.action[k[1]] = "notify"

Release(c, st, t, k) ==
    \/ k[2] \in c.ignore
    \/ st.bans[k] <= t
    \/ c.action[k[1]] = "notify" /\ Backend(c, st, k) # "notify"

\* Mutant: a record keeps its address blocked even when it is over.
KeepsActiveAlways(c, st, t, k) == st.bans[k] # 0 /\ Backend(c, st, k) \notin Quiet

\* A record keeps its address blocked while it runs, and a custom action for good.
KeepsActive(c, st, t, k) ==
    /\ st.bans[k] # 0
    /\ Backend(c, st, k) \notin Quiet
    /\ IF Release(c, st, t, k) THEN ~c.dryRun /\ Backend(c, st, k) = Custom ELSE TRUE
Active(c, st, t) == {k[2] : k \in {x \in Keys : KeepsActive(c, st, t, x)}}

\* Mutants: a release that does not ask for other bans of the address, or for dry_run.
ReleasesUnshared(c, st, t) ==
    {k \in Keys : /\ st.bans[k] # 0 /\ Release(c, st, t, k)
                  /\ Backend(c, st, k) # Custom /\ (c.dryRun => Backend(c, st, k) \in Quiet)}
ReleasesInDryRun(c, st, t) ==
    {k \in Keys : /\ st.bans[k] # 0 /\ Release(c, st, t, k)
                  /\ Backend(c, st, k) # Custom /\ k[2] \notin Active(c, st, t)}

Releases(c, st, t) ==
    {k \in Keys : /\ st.bans[k] # 0
                  /\ Release(c, st, t, k)
                  /\ \/ Backend(c, st, k) \in Quiet
                     \/ /\ ~c.dryRun
                        /\ Backend(c, st, k) # Custom
                        /\ k[2] \notin Active(c, st, t)}

DropBan(st, k) ==
    [st EXCEPT !.bans[k] = 0, !.act[k] = NoAct, !.hits[k] = NoHits]

\* The last two loops of reconcileBans: cooldowns, then hits.
Prune(c, st, t) ==
    LET over == {k \in Keys : st.cool[k] # 0 /\ (st.cool[k] <= t \/ k[2] \in c.ignore)}
        drop == over \cup {k \in Keys : c.action[k[1]] = "absent" \/ k[2] \in c.ignore}
    IN  [st EXCEPT !.cool = [k \in Keys |-> IF k \in over THEN 0 ELSE @[k]],
                   !.hits = [k \in Keys |-> IF k \in drop THEN NoHits
                                            ELSE Recent(@[k], k[1], t)]]

-----------------------------------------------------------------------------
\* Start, load and release.

\* What a legacy state file may hold: one ban, its backend perhaps unrecorded.
LegacyBan(k, a) == [EmptyState EXCEPT !.bans[k] = 2, !.act[k] = a]
InheritedStates == {EmptyState} \cup {LegacyBan(k, a) : k \in Keys, a \in Inherited}

NoCycle == /\ now = 0 /\ mem = EmptyState /\ todo = {} /\ gone = {} /\ err = FALSE
           /\ left = {} /\ rule = NoRule /\ batch = <<>> /\ upto = 0 /\ succeeded = {}

Init ==
    /\ clock = 1 /\ log = [r \in Rules |-> <<>>] /\ tool \in Tools
    /\ disk \in InheritedStates /\ fw = Recorded(disk)
    /\ pc = "down" /\ cfg \in Configs
    /\ NoCycle
    /\ faults = 0 /\ unsure = {}

InCycle == pc \in {"release", "scan", "lines", "save"}
Current == IF InCycle THEN mem ELSE disk
Fault   == faults < MaxFaults /\ faults' = faults + 1

\* The entries whose record and firewall part when the cycle's state is not saved.
Lost == gone \cup SymDiff(Recorded(Current), Recorded(disk))

\* Run or RunOnce takes the lock with the configuration it was given.
Start ==
    /\ pc = "down" /\ pc' = "started"
    /\ cfg' \in Configs
    /\ UNCHANGED <<env, disk, cycle, faults, unsure>>

\* The context is only looked at between cycles.
Exit ==
    /\ pc = "idle" /\ pc' = "down"
    /\ UNCHANGED <<env, disk, cfg, cycle, faults, unsure>>

\* loadState and the first pass of reconcileBans.
BeginCycle ==
    /\ pc \in {"started", "idle"} /\ pc' = "release"
    /\ now' = clock /\ mem' = disk
    /\ todo' = Releases(cfg, disk, clock)
    /\ left' = {r \in Rules : cfg.action[r] # "absent"}
    /\ UNCHANGED <<env, disk, cfg, gone, err, rule, batch, upto, succeeded, faults, unsure>>

\* Mutant: removals are remembered by address, not by backend and address.
NothingLeft(k) == Backend(cfg, mem, k) \in Quiet \/ \E e \in gone : e[2] = k[2]

\* A record that has nothing to remove: a quiet one, or its entry went already.  The code remembers
\* removals by the backend as recorded, so next to a record of its tool an older version's "auto" has
\* the entry removed a second time; that changes nothing, or fails and leaves the record for later.
NothingToRemove(k) ==
    Backend(cfg, mem, k) \in Quiet \/ EntryOf(mem, k) \in gone

ReleaseBan(k) ==
    /\ pc = "release" /\ k \in todo
    /\ IF NothingToRemove(k)
       THEN UNCHANGED <<fw, gone>>
       ELSE /\ fw' = fw \ {EntryOf(mem, k)}
            /\ gone' = gone \cup {EntryOf(mem, k)}
    /\ mem' = DropBan(mem, k)
    /\ todo' = todo \ {k}
    /\ UNCHANGED <<clock, log, tool, disk, pc, cfg, now, err, left, rule, batch, upto,
                   succeeded, faults, unsure>>

\* ban.RemovePorts failed: iptables may have deleted some of its rules by then.
ReleaseFails(k) ==
    /\ pc = "release" /\ k \in todo /\ ~NothingToRemove(k)
    /\ Fault
    /\ fw' \in {fw} \cup (IF EntryOf(mem, k)[1] = "iptables" THEN {fw \ {EntryOf(mem, k)}} ELSE {})
    /\ err' = TRUE
    /\ todo' = todo \ {k}
    /\ unsure' = unsure \cup {EntryOf(mem, k)}
    /\ UNCHANGED <<clock, log, tool, disk, pc, cfg, now, mem, gone, left, rule, batch, upto,
                   succeeded>>

PruneState ==
    /\ pc = "release" /\ todo = {} /\ pc' = "scan"
    /\ mem' = Prune(cfg, mem, now)
    /\ gone' = {}
    /\ UNCHANGED <<env, disk, cfg, now, todo, err, left, rule, batch, upto, succeeded, faults, unsure>>

-----------------------------------------------------------------------------
\* scanRule: read one rule's log.

ReadCursor(r) == IF mem.off[r] = Unseen THEN 0 ELSE mem.off[r]
ReadEnd(r)    == IF Len(log[r]) - ReadCursor(r) > MaxBatch
                 THEN ReadCursor(r) + MaxBatch ELSE Len(log[r])
AtEnd(r)      == StartAtEnd /\ mem.off[r] = Unseen

Successes(lines) == {lines[i].ip : i \in {j \in DOMAIN lines : lines[j].kind = "success"}}

\* Mutant: a success does not clear the failures counted before.
OpenBatchKeepingHits(st, r, t, lines) ==
    [st EXCEPT !.grace = [x \in Rules \X IPs |->
                            IF x[1] = r /\ x[2] \in Successes(lines) THEN t + SuccessGrace[r]
                            ELSE IF @[x] <= t THEN 0 ELSE @[x]]]

\* The head of scanLines: expired graces go, then the batch's successes count first.
OpenBatch(st, r, t, lines) ==
    [st EXCEPT
       !.grace = [x \in Rules \X IPs |->
                    IF x[1] = r /\ x[2] \in Successes(lines) THEN t + SuccessGrace[r]
                    ELSE IF @[x] <= t THEN 0 ELSE @[x]],
       !.hits = [k \in Keys |-> IF k[1] = r /\ k[2] \in Successes(lines) THEN NoHits ELSE @[k]]]

\* The first sight of a text file skips to its end and scans nothing.
SkipToEnd(r) ==
    /\ pc = "scan" /\ r \in left /\ AtEnd(r) /\ r \notin EventLogs
    /\ mem' = [mem EXCEPT !.off[r] = Len(log[r])]
    /\ left' = left \ {r}
    /\ UNCHANGED <<env, disk, pc, cfg, now, todo, gone, err, rule, batch, upto, succeeded, faults, unsure>>

\* A text cursor moves now, an event cursor once the batch went through.
ReadLog(r) ==
    LET from  == IF AtEnd(r) THEN Len(log[r]) ELSE ReadCursor(r)
        to    == IF AtEnd(r) THEN Len(log[r]) ELSE ReadEnd(r)
        lines == SubSeq(log[r], from + 1, to)
        read  == OpenBatch(mem, r, now, lines)
    IN  /\ pc = "scan" /\ r \in left /\ (AtEnd(r) => r \in EventLogs)
        /\ pc' = "lines" /\ rule' = r
        /\ batch' = lines /\ upto' = to /\ succeeded' = Successes(lines)
        /\ mem' = IF r \in EventLogs THEN read ELSE [read EXCEPT !.off[r] = to]
        /\ left' = left \ {r}
        /\ UNCHANGED <<env, disk, cfg, now, todo, gone, err, faults, unsure>>

\* A text file that does not exist (yet) is passed over.
LogMissing(r) ==
    /\ pc = "scan" /\ r \in left /\ r \notin EventLogs /\ Fault
    /\ left' = left \ {r}
    /\ UNCHANGED <<env, disk, pc, cfg, now, mem, todo, gone, err, rule, batch, upto, succeeded, unsure>>

\* Any other error ends the scan; what was done so far is saved.
ReadFails(r) ==
    /\ pc = "scan" /\ r \in left /\ Fault
    /\ pc' = "save" /\ left' = {} /\ err' = TRUE
    /\ UNCHANGED <<env, disk, cfg, now, mem, todo, gone, rule, batch, upto, succeeded, unsure>>

-----------------------------------------------------------------------------
\* scanLines: one line of the batch at a time.

Line     == Head(batch)
LineKey  == BanKey(rule, Line.ip, Line.user)
Quietly  == cfg.dryRun \/ cfg.action[rule] = "notify"
NextHits == AppendRecent(mem.hits[LineKey], rule, now)

Skipped ==
    \/ Line.kind = "success"
    \/ Line.ip \in succeeded \/ mem.grace[<<rule, Line.ip>>] > now
    \/ Line.ip \in cfg.ignore
    \/ mem.bans[LineKey] > now
    \/ Quietly /\ mem.cool[LineKey] > now

Reached == HitCount(NextHits) >= MaxAttempts[rule][Line.ip]
AtLine  == pc = "lines" /\ batch # <<>>

SkipLine ==
    /\ AtLine /\ Skipped
    /\ batch' = Tail(batch)
    /\ UNCHANGED <<env, disk, pc, cfg, now, mem, todo, gone, err, left, rule, upto, succeeded, faults, unsure>>

CountLine ==
    /\ AtLine /\ ~Skipped /\ ~Reached
    /\ mem' = [mem EXCEPT !.hits[LineKey] = NextHits]
    /\ batch' = Tail(batch)
    /\ UNCHANGED <<env, disk, pc, cfg, now, todo, gone, err, left, rule, upto, succeeded, faults, unsure>>

\* notify and dry_run start a cooldown and touch no firewall.
QuietBan ==
    /\ AtLine /\ ~Skipped /\ Reached /\ Quietly
    /\ mem' = [mem EXCEPT !.hits[LineKey] = NextHits, !.cool[LineKey] = now + BanTime[rule]]
    /\ batch' = Tail(batch)
    /\ UNCHANGED <<env, disk, pc, cfg, now, todo, gone, err, left, rule, upto, succeeded, faults, unsure>>

\* Mutant: the ban is recorded with the action of the rule, not the backend that applied it.
RuleAction == cfg.action[rule]

ApplyBackend == IF cfg.action[rule] = Custom THEN Custom ELSE tool
Target       == <<tool, Line.ip>>

\* ban.ApplyPorts succeeded and the ban is recorded with its backend.
RealBan ==
    /\ AtLine /\ ~Skipped /\ Reached /\ ~Quietly
    /\ fw' = IF ApplyBackend = Custom THEN fw ELSE fw \cup {Target}
    /\ mem' = [mem EXCEPT !.hits[LineKey] = NextHits, !.cool[LineKey] = 0,
                          !.bans[LineKey] = now + BanTime[rule], !.act[LineKey] = ApplyBackend]
    /\ unsure' = (unsure \cup (Recorded(mem) \ Recorded(mem')))
                   \ (IF ApplyBackend = Custom THEN {} ELSE {Target})
    /\ batch' = Tail(batch)
    /\ UNCHANGED <<clock, log, tool, disk, pc, cfg, now, todo, gone, err, left, rule, upto, succeeded, faults>>

\* What a failed ban.ApplyPorts may leave: nft and pf change nothing; iptables takes back
\* its rules, those of an earlier ban included, or fails at that; netsh deleted the rule first.
FailedApply ==
    CASE ApplyBackend = "iptables" -> {fw, fw \ {Target}, fw \cup {Target}}
      [] ApplyBackend = "netsh"    -> {fw, fw \ {Target}}
      [] OTHER                     -> {fw}

\* The error ends the scan; the hits stay counted.
BanFails ==
    /\ AtLine /\ ~Skipped /\ Reached /\ ~Quietly /\ Fault
    /\ fw' \in FailedApply
    /\ mem' = [mem EXCEPT !.hits[LineKey] = NextHits, !.cool[LineKey] = 0]
    /\ unsure' = unsure \cup SymDiff(fw, fw')
    /\ pc' = "save" /\ err' = TRUE
    /\ left' = {} /\ rule' = NoRule /\ batch' = <<>> /\ upto' = 0 /\ succeeded' = {}
    /\ UNCHANGED <<clock, log, tool, disk, cfg, now, todo, gone>>

FinishLinesUnmoved ==
    /\ pc = "lines" /\ batch = <<>> /\ pc' = "scan"
    /\ rule' = NoRule /\ upto' = 0 /\ succeeded' = {}
    /\ UNCHANGED <<env, disk, cfg, now, mem, todo, gone, err, left, batch, faults, unsure>>

FinishLines ==
    /\ pc = "lines" /\ batch = <<>> /\ pc' = "scan"
    /\ mem' = IF rule \in EventLogs THEN [mem EXCEPT !.off[rule] = upto] ELSE mem
    /\ rule' = NoRule /\ upto' = 0 /\ succeeded' = {}
    /\ UNCHANGED <<env, disk, cfg, now, todo, gone, err, left, batch, faults, unsure>>

FinishScan ==
    /\ pc = "scan" /\ left = {} /\ pc' = "save"
    /\ UNCHANGED <<env, disk, cfg, cycle, faults, unsure>>

-----------------------------------------------------------------------------
\* The deferred saveState, which runs whether or not the cycle failed.

EndCycle == /\ now' = 0 /\ mem' = EmptyState /\ todo' = {} /\ gone' = {} /\ err' = FALSE
            /\ left' = {} /\ rule' = NoRule /\ batch' = <<>> /\ upto' = 0 /\ succeeded' = {}

SaveState ==
    /\ pc = "save" /\ pc' = "idle"
    /\ disk' = mem
    /\ EndCycle
    /\ UNCHANGED <<env, cfg, faults, unsure>>

SaveFails ==
    /\ pc = "save" /\ pc' = "idle" /\ Fault
    /\ unsure' = unsure \cup Lost
    /\ EndCycle
    /\ UNCHANGED <<env, disk, cfg>>

-----------------------------------------------------------------------------
\* The environment.

Tick ==
    /\ clock < MaxTime /\ clock' = clock + 1
    /\ UNCHANGED <<log, fw, tool, disk, pc, cfg, cycle, faults, unsure>>

AppendLine(r, ln) ==
    /\ Len(log[r]) < MaxLog
    /\ log' = [log EXCEPT ![r] = Append(@, ln)]
    /\ UNCHANGED <<clock, fw, tool, disk, pc, cfg, cycle, faults, unsure>>

\* The process is killed; only the state file and the firewall survive.
Crash ==
    /\ pc # "down" /\ pc' = "down" /\ Fault
    /\ unsure' = unsure \cup Lost
    /\ EndCycle
    /\ UNCHANGED <<env, disk, cfg>>

\* A reboot also empties the firewall, but for the persistent rules of netsh.
Reboot ==
    /\ pc' = "down" /\ Fault
    /\ fw' = {e \in fw : e[1] = "netsh"}
    /\ unsure' = unsure \cup Lost \cup (fw \ fw')
    /\ EndCycle
    /\ UNCHANGED <<clock, log, tool, disk, cfg>>

\* `banhack233 unban': the current tool's entry goes, the state file is not told.
Unban(ip) ==
    /\ <<tool, ip>> \in fw /\ Fault
    /\ fw' = fw \ {<<tool, ip>>}
    /\ unsure' = unsure \cup {<<tool, ip>>}
    /\ UNCHANGED <<clock, log, tool, disk, pc, cfg, cycle>>

\* exec.LookPath answers differently once nft is installed or removed.
InstallTool ==
    /\ tool' \in Tools \ {tool} /\ Fault
    /\ UNCHANGED <<clock, log, fw, disk, pc, cfg, cycle, unsure>>

-----------------------------------------------------------------------------
Reconcile == (\E k \in Keys : ReleaseBan(k) \/ ReleaseFails(k)) \/ PruneState
Read      == \E r \in Rules : SkipToEnd(r) \/ ReadLog(r) \/ LogMissing(r) \/ ReadFails(r)
Scan      == SkipLine \/ CountLine \/ QuietBan \/ RealBan \/ BanFails \/ FinishLines \/ FinishScan
Save      == SaveState \/ SaveFails
CycleStep == BeginCycle \/ Reconcile \/ Read \/ Scan \/ Save

Environment ==
    \/ Tick \/ Crash \/ Reboot \/ InstallTool
    \/ \E r \in Rules, ln \in Lines : AppendLine(r, ln)
    \/ \E ip \in IPs : Unban(ip)

Next == Start \/ Exit \/ CycleStep \/ Environment

Spec == Init /\ [][Next]_vars

\* A running process carries its cycle on; a stopped one is started again; time passes.
FairSpec == Spec /\ WF_vars(CycleStep) /\ WF_vars(Start) /\ WF_vars(Tick)

-----------------------------------------------------------------------------
\* Properties.

TypeOK ==
    /\ clock \in Nat /\ log \in [Rules -> Seq(Lines)] /\ fw \subseteq Entries /\ tool \in Tools
    /\ disk \in StateType /\ mem \in StateType
    /\ pc \in {"down", "started", "idle", "release", "scan", "lines", "save"}
    /\ cfg \in Configs /\ now \in Nat
    /\ todo \subseteq Keys /\ gone \subseteq Entries /\ err \in BOOLEAN
    /\ left \subseteq Rules /\ rule \in Rules \cup {NoRule}
    /\ batch \in Seq(Lines) /\ upto \in Nat /\ succeeded \subseteq IPs
    /\ pc = "lines" => rule \in Rules
    /\ faults \in Nat /\ unsure \subseteq Entries

\* The records that count: all but those whose entry this reconciliation removed already.
Standing ==
    {EntryOf(Current, k) : k \in {x \in Keys : /\ Real(Current, x)
                                               /\ ~(x \in todo /\ EntryOf(Current, x) \in gone)}}

\* The firewall blocks what the state records and nothing else, at every step of a cycle:
\* no entry without a record that will release it, no record without its entry, except
\* where a failed command, a lost state or somebody else's command parted the two.
Agreement == \A e \in Entries \ unsure : e \in fw <=> e \in Standing

\* A ban of this configuration that still runs.
Needed(st, k) == /\ Real(st, k) /\ st.bans[k] > now
                 /\ k[2] \notin cfg.ignore /\ cfg.action[k[1]] # "notify"

\* Releasing never unblocks an address that a running ban of any rule or user still needs
\* (reconcileBans: shared entries stay until every active rule releases them).
ActiveBlockStays ==
    [][Reconcile => \A k \in Keys : Needed(mem, k) =>
          /\ EntryOf(mem, k) \in fw => EntryOf(mem, k) \in fw'
          /\ mem'.bans[k] = mem.bans[k]]_vars

\* After a reconciliation without errors in production, what is over is gone: an expired,
\* whitelisted or notify-only ban is only kept while another record blocks its address.
CleanRelease ==
    pc = "scan" /\ ~err /\ ~cfg.dryRun =>
        \A k \in Keys :
            Real(mem, k) /\ Backend(cfg, mem, k) # Custom /\ ~Needed(mem, k) =>
                \E j \in Keys : j # k /\ j[2] = k[2] /\ mem.bans[j] # 0 /\ mem.act[j] \notin Quiet

\* A dry run decides about bans but never touches the firewall, nor loses a real ban.
DryRunPreserves ==
    [][CycleStep /\ cfg.dryRun =>
          fw' = fw /\ (InCycle /\ InCycle' => Recorded(mem') = Recorded(mem))]_vars

\* The failures that speak for a penalty: lines of the key up to the current one, with no
\* later success of the address in what has been read, the rest of the batch included.
Evidence ==
    {i \in 1..(upto - Len(batch) + 1) :
        /\ log[rule][i].kind = "fail"
        /\ BanKey(rule, log[rule][i].ip, log[rule][i].user) = LineKey
        /\ \A j \in i..upto : log[rule][j].ip = Line.ip => log[rule][j].kind = "fail"}

Penalty == AtLine /\ (mem'.bans # mem.bans \/ mem'.cool # mem.cool)

\* A ban or a notification takes max_attempts distinct failure lines of its own key after
\* the last success of the address: no line counts twice, whatever crashes or is retried.
ThresholdHonoured ==
    [][Penalty /\ pc' = "lines" => Cardinality(Evidence) >= MaxAttempts[rule][Line.ip]]_vars

\* The failures of a key; of them, those the cursor of a state has before it.
FailuresOf(k) == {i \in DOMAIN log[k[1]] :
    log[k[1]][i].kind = "fail" /\ BanKey(k[1], log[k[1]][i].ip, log[k[1]][i].user) = k}
Unread(st, k) == {i \in FailuresOf(k) : i > st.off[k[1]] /\ ~(StartAtEnd /\ st.off[k[1]] = Unseen)}

\* What a cycle that loads the state at time t will have counted for a key after reading them.
Prospect(st, t, k) ==
    Cardinality(Unread(st, k))
      + IF k \in Releases(cfg, st, t) THEN 0 ELSE HitCount(Prune(cfg, st, t).hits[k])

\* The entries that unread failures make such a cycle add, and record; with those on record, the
\* entries the state accounts for.
Returning(st, t) ==
    {<<tool, k[2]>> : k \in {x \in Keys :
        /\ ~cfg.dryRun /\ cfg.action[x[1]] = "auto" /\ x[2] \notin cfg.ignore
        /\ st.bans[x] <= t
        /\ Unread(st, x) # {} /\ Prospect(st, t, x) >= MaxAttempts[x[1]][x[2]]}}
Known(st, t) == Recorded(st) \cup Returning(st, t)

NoSuccess == \A r \in Rules : \A i \in DOMAIN log[r] : log[r][i].kind = "fail"

\* A ban failed: what is left of its batch is not read again, and its key is over the threshold.
BanRefused ==
    err /\ \E k \in Keys : mem.bans[k] <= now /\ HitCount(mem.hits[k]) >= MaxAttempts[k[1]][k[2]]


\* A ban that is over is released in the end, or renewed, or kept for a running ban of its address.
Over(k) == Real(disk, k) /\ disk.bans[k] <= clock
OverReleased ==
    []<>(pc # "down") =>
        \A k \in Keys : Over(k) ~> (~Over(k) \/ \E j \in Keys : j[2] = k[2] /\ disk.bans[j] > clock)

\* Every line of a configured log is read in the end, and its reading is on record.
CaughtUp == []<>(pc # "down") =>
    <>[](\A r \in Rules : cfg.action[r] # "absent" => disk.off[r] = Len(log[r]))

-----------------------------------------------------------------------------
\* What the documentation says of the program and the code does not keep.

\* Windows event IDs keep an event from being counted twice.
EventLogCountsOnce ==
    \A k \in Keys : k[1] \in EventLogs =>
        HitCount(Current.hits[k]) <= Cardinality(FailuresOf(k))

\* Restarting the daemon releases the automatic bans of whitelisted addresses.
WhitelistReleases ==
    pc = "scan" /\ ~err /\ ~cfg.dryRun =>
        \A k \in Keys : mem.bans[k] # 0 /\ mem.act[k] \in Tools => k[2] \notin cfg.ignore

\* Several active bans share a block until all of them can be released.
SharedBlockStays ==
    [][Reconcile \/ Scan => \A k \in Keys :
          Needed(mem, k) /\ EntryOf(mem, k) \in fw => EntryOf(mem, k) \in fw']_vars
=============================================================================
