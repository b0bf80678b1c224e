----------------------------- MODULE ProcessScan ----------------------------
(***************************************************************************)
(* Scan of internal/malware: the walk over /proc and the termination of    *)
(* recognised payloads, by a manual scan or by the audit of the daemon,    *)
(* while processes start, exit, execute and hand their numbers on.         *)
(* Preload and persistence checks only read files and are left out.        *)
(***************************************************************************)
EXTENDS Naturals

CONSTANTS
    MaxPid,            \* bound: process numbers 1..MaxPid
    Names,             \* names that command lines and executables contain
    Payloads,          \* those of knownMalwareExecutable
    Suspicious,        \* those minerPatterns match, payloads among them
    DirectKill         \* malware.direct_kill

VARIABLES
    proc,              \* proc[pid]: its command line and executable, or Gone
    mode,              \* "idle", "manual" or "audit"
    kill,              \* opts.Kill
    pc, pid,           \* the step of the scan and the process it looks at
    seen,              \* what was read of that process so far
    fresh,             \* ghost: it has not changed since its executable was read again
    signals            \* ghost: how the last signal was sent, and what it hit

vars == <<proc, mode, kill, pc, pid, seen, fresh, signals>>

Pids     == 1..MaxPid
Gone     == [cmd |-> "", exe |-> ""]
Programs == [cmd : Names, exe : Names]

ScanAssumption ==
    /\ MaxPid \in Nat \ {0} /\ "" \notin Names /\ Payloads \subseteq Suspicious /\ Suspicious \subseteq Names
    /\ DirectKill \in BOOLEAN

None == [mode |-> "none", victim |-> Gone, fresh |-> FALSE]

\* -kill or direct_kill for a manual scan; audit.Run switches direct_kill off.
KillOption(m, flag) == m = "manual" /\ (flag \/ DirectKill)

Start(m, flag) ==
    /\ mode = "idle" /\ mode' = m
    /\ kill' = KillOption(m, flag)
    /\ pc' = "cmdline" /\ pid' = 1
    /\ UNCHANGED <<proc, seen, fresh, signals>>

\* The next process of the listing, or the end of the scan.
NextProcess ==
    /\ seen' = Gone /\ fresh' = FALSE
    /\ IF pid < MaxPid THEN pid' = pid + 1 /\ pc' = "cmdline" /\ UNCHANGED mode
       ELSE pid' = 1 /\ pc' = "start" /\ mode' = "idle"

\* A process that is gone has an empty command line and no executable.
ReadCmdline ==
    /\ mode # "idle" /\ pc = "cmdline" /\ pc' = "exe"
    /\ seen' = [seen EXCEPT !.cmd = proc[pid].cmd]
    /\ UNCHANGED <<proc, mode, kill, pid, fresh, signals>>

ReadExe ==
    /\ mode # "idle" /\ pc = "exe" /\ pc' = "judge"
    /\ seen' = [seen EXCEPT !.exe = proc[pid].exe]
    /\ UNCHANGED <<proc, mode, kill, pid, fresh, signals>>

Qualifies == (seen.cmd \in Suspicious \/ seen.exe \in Suspicious) /\ seen.exe \in Payloads

Judge ==
    /\ mode # "idle" /\ pc = "judge"
    /\ IF Qualifies THEN pc' = "recmd" /\ UNCHANGED <<pid, seen, fresh, mode>> ELSE NextProcess
    /\ UNCHANGED <<proc, kill, signals>>

RecheckCmdline ==
    /\ mode # "idle" /\ pc = "recmd"
    /\ IF proc[pid].cmd = seen.cmd THEN pc' = "reexe" /\ UNCHANGED <<pid, seen, fresh, mode>> ELSE NextProcess
    /\ UNCHANGED <<proc, kill, signals>>

\* Mutant: the executable is not read again.
SameExeAlways == TRUE
SameExe == proc[pid].exe = seen.exe

\* remediateProcess does nothing without the option.
RecheckExe ==
    /\ mode # "idle" /\ pc = "reexe"
    /\ IF SameExe /\ kill THEN pc' = "kill" /\ fresh' = TRUE /\ UNCHANGED <<pid, seen, mode>> ELSE NextProcess
    /\ UNCHANGED <<proc, kill, signals>>

\* SIGTERM reaches whoever has the number now; without such a process it fails.
Terminate ==
    /\ mode # "idle" /\ pc = "kill" /\ NextProcess
    /\ signals' = IF proc[pid] = Gone THEN signals ELSE [mode |-> mode, victim |-> proc[pid], fresh |-> fresh]
    /\ proc' = [proc EXCEPT ![pid] = Gone]
    /\ UNCHANGED kill

\* A process starts, executes another program, changes its title or exits.
Change(p, program) ==
    /\ program # proc[p] /\ (proc[p] = Gone => program # Gone)
    /\ proc' = [proc EXCEPT ![p] = program]
    /\ fresh' = (fresh /\ p # pid)
    /\ UNCHANGED <<mode, kill, pc, pid, seen, signals>>

Init ==
    /\ proc \in [Pids -> Programs \cup {Gone}]
    /\ mode = "idle" /\ kill = FALSE /\ pc = "start" /\ pid = 1 /\ seen = Gone /\ fresh = FALSE
    /\ signals = None

Next ==
    \/ \E m \in {"manual", "audit"}, flag \in BOOLEAN : Start(m, flag)
    \/ ReadCmdline \/ ReadExe \/ Judge \/ RecheckCmdline \/ RecheckExe \/ Terminate
    \/ \E p \in Pids, program \in Programs \cup {Gone} : Change(p, program)

Spec == Init /\ [][Next]_vars

-----------------------------------------------------------------------------
\* Properties.

\* The scan looks at a process that may be there.
TypeOK ==
    /\ proc \in [Pids -> Programs \cup {Gone}] /\ seen.cmd \in Names \cup {""} /\ seen.exe \in Names \cup {""}
    /\ mode = "idle" <=> pc = "start"
    /\ pid \in Pids /\ {kill, fresh} \subseteq BOOLEAN

\* README-EN.md:90: a scan terminates recognised payloads only.  It holds for every process that
\* has not changed since the scan looked for the last time, whoever had the number before, and
\* wherever between the reads it was handed on.
SparesOthers == signals.fresh => signals.victim.exe \in Payloads

\* docs/configuration-en.md:92: audits are read-only, with direct_kill on as well.
AuditReadOnly == signals.mode # "audit"

=============================================================================
