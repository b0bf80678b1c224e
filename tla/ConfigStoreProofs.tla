-------------------------- MODULE ConfigStoreProofs -------------------------
(* Theorems about ConfigStore for any number of processes, addresses and   *)
(* other settings, checked by TLAPS.                                       *)
EXTENDS ConfigStore, TLAPS

-----------------------------------------------------------------------------
\* The inductive invariant.

Files == Documents \cup {Absent, Torn}
Steps == {"rename", "backup", "copy", "open", "write"}
Jobs  == [cmd : Commands \cup {None}, read : Files, fd : {"none", "own", "shared", "lost"}, alone : BOOLEAN]

Types ==
    /\ config \in Files /\ backup \in Files /\ asked \in BOOLEAN
    /\ pc \in [Procs -> Steps \cup {"idle"}] /\ job \in [Procs -> Jobs]

\* A process at work has a command and a document it can apply to, and before it writes an open
\* file; the others have none.
Work ==
    \A p \in Procs :
        IF pc[p] = "idle" THEN job[p] = NoJob
        ELSE /\ job[p].cmd \in Commands
             /\ job[p].cmd.name = "init" \/ job[p].read \in Documents
             /\ pc[p] = "write" => job[p].fd # "none"

\* Every text that is or may still become the configuration is dry, until somebody asks.
IsDry(data) == data \in Documents => data.dry
Quiet ==
    asked \/ /\ IsDry(config)
             /\ \A p \in Procs : IsDry(job[p].read) /\ (pc[p] # "idle" => job[p].cmd.name # "production")

IInv == Types /\ Work /\ Quiet

-----------------------------------------------------------------------------
\* What a command makes of a document is a document, and a dry one of a dry one unless it is to
\* enable production.

LEMMA EffectIsDocument ==
  ASSUME ConfigAssumption, NEW c \in Commands, NEW d, c.name = "init" \/ d \in Documents
  PROVE  /\ Effect(c, d) \in Documents
         /\ c.name # "production" /\ IsDry(d) => IsDry(Effect(c, d))
<1>1. Default \in Documents /\ Default.dry
  BY DEF Default, Documents, ConfigAssumption
<1>2. CASE c.name = "init"
  BY <1>1, <1>2 DEF Effect, IsDry
<1>3. CASE c.name = "whitelist" /\ d \in Documents
  <2>1. c.ip \in IPs
    BY <1>3 DEF Commands
  <2> QED BY <1>3, <2>1 DEF Effect, IsDry, Documents
<1>4. CASE c.name = "production" /\ d \in Documents
  BY <1>4 DEF Effect, Documents
<1>5. CASE c.name = "safe" /\ d \in Documents
  BY <1>5 DEF Effect, IsDry, Documents
<1>6. c.name \in {"whitelist", "production", "safe", "init"}
  BY DEF Commands
<1> QED BY <1>2, <1>3, <1>4, <1>5, <1>6

\* What a process at work is about to write.
LEMMA OutIsDocument ==
  ASSUME ConfigAssumption, IInv, NEW p \in Procs, pc[p] # "idle"
  PROVE  Out(p) \in Documents /\ (~asked => IsDry(Out(p)))
BY EffectIsDocument DEF IInv, Work, Quiet, Out

LEMMA NoJobIsJob == ConfigAssumption => NoJob \in Jobs /\ NoJob.read = Absent /\ IsDry(Absent) /\ IsDry(Torn)
BY DEF ConfigAssumption, NoJob, Jobs, Files, IsDry

LEMMA InitIInv ==
  ASSUME ConfigAssumption, Init PROVE IInv
<1>1. config \in Files /\ IsDry(config)
  BY NoJobIsJob DEF Init, Files, Documents, IsDry
<1> QED BY <1>1, NoJobIsJob DEF Init, IInv, Types, Work, Quiet, Files

-----------------------------------------------------------------------------
\* Every step keeps it.
LEMMA BeginStep ==
  ASSUME ConfigAssumption, IInv, NEW p \in Procs, NEW c \in Commands, NEW force \in BOOLEAN, Begin(p, c, force)
  PROVE  IInv'
<1> DEFINE new == [cmd |-> c, read |-> config, fd |-> "none", alone |-> AllIdleBut(p)]
<1>1. new.alone \in BOOLEAN
  BY DEF AllIdleBut
<1>2. new \in Jobs /\ new.cmd = c /\ new.read = config
  BY <1>1 DEF Jobs, IInv, Types
<1> HIDE DEF new
<1>3. /\ job' = [q \in Procs |-> IF q = p THEN new ELSE [job[q] EXCEPT !.alone = FALSE]]
      /\ pc[p] = "idle" /\ pc' = [pc EXCEPT ![p] = FirstStep(c)]
      /\ asked' = (asked \/ c.name = "production") /\ UNCHANGED <<config, backup>>
  BY DEF Begin, Idle, new
<1>4. FirstStep(c) \in Steps \ {"write"}
  BY DEF FirstStep, Steps
<1>5. \A q \in Procs : job[q] \in Jobs
  BY DEF IInv, Types
<1>6. \A q \in Procs \ {p} : /\ job'[q] \in Jobs
                             /\ job'[q].cmd = job[q].cmd /\ job'[q].read = job[q].read
                             /\ (job[q] = NoJob => job'[q] = NoJob)
                             /\ job'[q].fd = job[q].fd
  <2>1. \A j \in Jobs : LET k == [j EXCEPT !.alone = FALSE]
                        IN  k \in Jobs /\ k.cmd = j.cmd /\ k.read = j.read /\ k.fd = j.fd
    BY DEF Jobs
  <2>2. [NoJob EXCEPT !.alone = FALSE] = NoJob
    <3>1. NoJob.alone = FALSE
      BY DEF NoJob
    <3>2. \A j \in Jobs : j.alone = FALSE => [j EXCEPT !.alone = FALSE] = j
      BY DEF Jobs
    <3> QED BY <3>1, <3>2, NoJobIsJob
  <2>3. \A q \in Procs \ {p} : job'[q] = [job[q] EXCEPT !.alone = FALSE]
    BY <1>3
  <2>4. ASSUME NEW q \in Procs \ {p}, job[q] = NoJob PROVE job'[q] = NoJob
    BY <2>2, <2>3, <2>4
  <2> QED BY <1>5, <2>1, <2>3, <2>4
<1>7. \A q \in Procs : pc'[q] = IF q = p THEN FirstStep(c) ELSE pc[q]
  BY <1>3 DEF IInv, Types
<1>8. job'[p] = new
  BY <1>3
<1>9. Types'
  <2>1. job' \in [Procs -> Jobs]
    BY <1>2, <1>3, <1>6, <1>8
  <2> QED BY <2>1, <1>3, <1>4 DEF IInv, Types
<1>10. c.name = "init" \/ config \in Documents
  BY DEF Begin, Accepts, Parses, Commands
<1>11. Work'
  BY <1>2, <1>4, <1>6, <1>7, <1>8, <1>10 DEF IInv, Work, Steps
<1>12. Quiet'
  BY <1>2, <1>3, <1>4, <1>6, <1>7, <1>8 DEF IInv, Quiet
<1> QED BY <1>9, <1>11, <1>12 DEF IInv

\* A step of a process that leaves the commands, and what was read, as they are but for its own.
LEMMA Frame ==
  ASSUME ConfigAssumption, IInv, NEW p \in Procs,
         config' \in Files, backup' \in Files, UNCHANGED asked,
         ~asked => IsDry(config'),
         NEW to \in Steps \cup {"idle"}, pc[p] # "idle", pc' = [pc EXCEPT ![p] = to],
         job' \in [Procs -> Jobs],
         to = "idle" => job'[p] = NoJob,
         to # "idle" => job'[p].cmd = job[p].cmd /\ job'[p].read = job[p].read,
         to = "write" => job'[p].fd # "none",
         \A q \in Procs \ {p} : /\ job'[q].cmd = job[q].cmd /\ job'[q].read = job[q].read
                                /\ (job[q] = NoJob => job'[q] = NoJob)
                                /\ (job[q].fd # "none" => job'[q].fd # "none")
  PROVE  IInv'
<1>1. \A q \in Procs : pc'[q] = IF q = p THEN to ELSE pc[q]
  BY DEF IInv, Types
<1>2. Types'
  BY DEF IInv, Types
<1>3. Work'
  BY <1>1 DEF IInv, Work
<1>4. Quiet'
  BY <1>1, NoJobIsJob DEF IInv, Quiet
<1> QED BY <1>2, <1>3, <1>4 DEF IInv

LEMMA ProcessStep ==
  ASSUME ConfigAssumption, IInv, NEW p \in Procs, Step(p) \/ Stop(p)
  PROVE  IInv'
<1>1. /\ config \in Files /\ backup \in Files /\ pc \in [Procs -> Steps \cup {"idle"}]
      /\ job \in [Procs -> Jobs] /\ NoJob \in Jobs /\ (~asked => IsDry(config)) /\ IsDry(Torn) /\ Torn \in Files
      /\ \A d \in Documents : d \in Files
  BY NoJobIsJob DEF IInv, Types, Quiet, Files
<1>2. \A q \in Procs, f \in {"own", "shared", "lost"} :
        LET j == [job[q] EXCEPT !.fd = f] IN j \in Jobs /\ j.cmd = job[q].cmd /\ j.read = job[q].read /\ j.fd # "none"
  BY <1>1 DEF Jobs
<1>3. \A q \in Procs : job[q].fd = "none" \/ job[q] # NoJob
  BY DEF NoJob
<1>4. CASE Rename(p)
  <2>1. pc[p] # "idle" /\ Out(p) \in Documents /\ (~asked => IsDry(Out(p)))
    BY <1>4, OutIsDocument DEF Rename
  <2>2. job' \in [Procs -> Jobs] /\ job'[p] = NoJob
    BY <1>1, <1>2, <1>4 DEF Rename
  <2>3. \A q \in Procs \ {p} : /\ job'[q].cmd = job[q].cmd /\ job'[q].read = job[q].read
                               /\ (job[q] = NoJob => job'[q] = NoJob)
                               /\ (job[q].fd # "none" => job'[q].fd # "none")
    BY <1>2, <1>3, <1>4 DEF Rename
  <2>4. config' = Out(p) /\ UNCHANGED <<backup, asked>> /\ pc' = [pc EXCEPT ![p] = "idle"]
    BY <1>4 DEF Rename
  <2> QED BY <2>1, <2>2, <2>3, <2>4, <1>1, Frame
<1>5. CASE OpenBackup(p)
  BY <1>1, <1>5, Frame DEF OpenBackup, Steps
<1>6. CASE WriteBackup(p)
  <2>1. job[p].read \in Files
    BY <1>1 DEF Jobs
  <2>2. backup' \in Files
    BY <2>1, <1>1, <1>6 DEF WriteBackup
  <2> QED BY <2>2, <1>1, <1>6, Frame DEF WriteBackup, Steps
<1>7. CASE Open(p)
  <2>1. pc[p] # "idle" /\ config' = Torn /\ UNCHANGED <<backup, asked>> /\ pc' = [pc EXCEPT ![p] = "write"]
    BY <1>7 DEF Open
  <2>2. job' = [job EXCEPT ![p] = [job[p] EXCEPT !.fd = "own"]]
    BY <1>7 DEF Open
  <2>3. /\ job' \in [Procs -> Jobs] /\ job'[p].cmd = job[p].cmd /\ job'[p].read = job[p].read /\ job'[p].fd # "none"
        /\ \A q \in Procs \ {p} : job'[q] = job[q]
    BY <1>1, <1>2, <2>2
  <2> QED BY <2>1, <2>3, <1>1, Frame DEF Steps
<1>8. CASE Write(p)
  <2>1. pc[p] # "idle" /\ Out(p) \in Documents /\ (~asked => IsDry(Out(p)))
    BY <1>8, OutIsDocument DEF Write
  <2>2. config' \in {Out(p), Torn, config} /\ UNCHANGED <<backup, asked>> /\ pc' = [pc EXCEPT ![p] = "idle"]
    <3>1. job[p].fd \in {"own", "shared", "lost"}
      BY <1>1, <1>8 DEF Jobs, IInv, Work, Write
    <3> QED BY <3>1, <1>8 DEF Write
  <2>3. job' \in [Procs -> Jobs] /\ job'[p] = NoJob
    BY <1>1, <1>2, <1>8 DEF Write
  <2>4. \A q \in Procs \ {p} : /\ job'[q].cmd = job[q].cmd /\ job'[q].read = job[q].read
                               /\ (job[q] = NoJob => job'[q] = NoJob)
                               /\ (job[q].fd # "none" => job'[q].fd # "none")
    BY <1>2, <1>3, <1>8 DEF Write
  <2> QED BY <2>1, <2>2, <2>3, <2>4, <1>1, Frame
<1>9. CASE Stop(p)
  <2>1. pc[p] # "idle" /\ UNCHANGED <<config, backup, asked>> /\ pc' = [pc EXCEPT ![p] = "idle"]
        /\ job' = [job EXCEPT ![p] = NoJob]
    BY <1>9 DEF Stop, Leave, Idle
  <2>2. job' \in [Procs -> Jobs] /\ job'[p] = NoJob /\ \A q \in Procs \ {p} : job'[q] = job[q]
    BY <2>1, <1>1
  <2> QED BY <2>1, <2>2, <1>1, Frame
<1> QED BY <1>4, <1>5, <1>6, <1>7, <1>8, <1>9 DEF Step

THEOREM InductiveInvariant == ASSUME ConfigAssumption PROVE Spec => []IInv
<1>1. Init => IInv
  BY InitIInv
<1>2. IInv /\ [Next]_vars => IInv'
  <2>1. ASSUME IInv, Next PROVE IInv'
    BY <2>1, BeginStep, ProcessStep DEF Next
  <2>2. ASSUME IInv, UNCHANGED vars PROVE IInv'
    BY <2>2 DEF vars, IInv, Types, Work, Quiet
  <2> QED BY <2>1, <2>2
<1> QED BY <1>1, <1>2, PTL DEF Spec

-----------------------------------------------------------------------------
\* Theorems.

\* However many commands overlap, are killed and tear the file, the configuration and its backup are
\* documents, torn or absent, and a command at work has something complete to write.
THEOREM TypeCorrect == ASSUME ConfigAssumption PROVE Spec => []TypeOK
<1>1. IInv => TypeOK
  <2> SUFFICES ASSUME IInv PROVE TypeOK
    OBVIOUS
  <2>1. \A p \in Procs : pc[p] # "idle" => Out(p) \in Documents
    BY OutIsDocument
  <2> QED BY <2>1 DEF IInv, Types, Work, TypeOK, Files
<1> QED BY <1>1, InductiveInvariant, PTL

\* The daemon bans for real only when somebody has asked for it (main.go: runEnableProduction):
\* no other command, and no two of them overlapping or torn, turn dry_run off.
THEOREM ProductionOnRequestHolds == ASSUME ConfigAssumption PROVE Spec => []ProductionOnRequest
<1>1. IInv => ProductionOnRequest
  BY DEF IInv, Quiet, IsDry, ProductionOnRequest, Mode, Parses
<1> QED BY <1>1, InductiveInvariant, PTL

-----------------------------------------------------------------------------
\* What a command that runs alone does.

\* Nobody else is at work, so the file is as it was read, or this command has just emptied it; safe-ssh
\* has a complete backup before it opens the file.
Undisturbed ==
    \A p \in Procs : pc[p] # "idle" /\ job[p].alone =>
        /\ AllIdleBut(p)
        /\ pc[p] = "rename" <=> job[p].cmd.name = "whitelist"
        /\ pc[p] = "write" => config = Torn /\ job[p].fd = "own"
        /\ pc[p] # "write" => config = job[p].read
        /\ job[p].cmd.name = "safe" /\ pc[p] \in {"open", "write"} => backup = job[p].read

LEMMA UndisturbedNext ==
  ASSUME IInv, Undisturbed, [Next]_vars
  PROVE  Undisturbed'
<1>1. /\ pc \in [Procs -> Steps \cup {"idle"}] /\ job \in [Procs -> Jobs]
  BY DEF IInv, Types
<1> SUFFICES ASSUME NEW p \in Procs, pc'[p] # "idle", job'[p].alone
              PROVE  /\ AllIdleBut(p)'
                     /\ pc'[p] = "rename" <=> job'[p].cmd.name = "whitelist"
                     /\ pc'[p] = "write" => config' = Torn /\ job'[p].fd = "own"
                     /\ pc'[p] # "write" => config' = job'[p].read
                     /\ job'[p].cmd.name = "safe" /\ pc'[p] \in {"open", "write"} => backup' = job'[p].read
  BY DEF Undisturbed
<1>2. ASSUME NEW q \in Procs, NEW c \in Commands, NEW force \in BOOLEAN, Begin(q, c, force)
      PROVE  /\ AllIdleBut(p)'
             /\ pc'[p] = "rename" <=> job'[p].cmd.name = "whitelist"
             /\ pc'[p] # "write" /\ config' = job'[p].read
             /\ ~(job'[p].cmd.name = "safe" /\ pc'[p] \in {"open", "write"})
  <2>1. q = p
    <3>1. \A r \in Procs \ {q} : job'[r] = [job[r] EXCEPT !.alone = FALSE]
      BY <1>2 DEF Begin
    <3>2. \A j \in Jobs : [j EXCEPT !.alone = FALSE].alone = FALSE
      BY DEF Jobs
    <3> QED BY <1>1, <3>1, <3>2
  <2>2. job'[p] = [cmd |-> c, read |-> config, fd |-> "none", alone |-> AllIdleBut(p)]
    BY <1>2, <2>1 DEF Begin
  <2>3. AllIdleBut(p) /\ job'[p].cmd = c /\ job'[p].read = config
    BY <2>2
  <2>4. pc' = [pc EXCEPT ![p] = FirstStep(c)] /\ config' = config
    BY <1>2, <2>1 DEF Begin
  <2>5. AllIdleBut(p)'
    BY <1>1, <2>3, <2>4 DEF AllIdleBut, Idle
  <2>6. pc'[p] = FirstStep(c)
    BY <1>1, <2>4
  <2>7. c.name \in {"whitelist", "production", "safe", "init"}
    BY DEF Commands
  <2> QED BY <2>3, <2>4, <2>5, <2>6, <2>7 DEF FirstStep
<1>3. ASSUME NEW q \in Procs, Step(q) \/ Stop(q)
      PROVE  /\ AllIdleBut(p)'
             /\ pc'[p] = "rename" <=> job'[p].cmd.name = "whitelist"
             /\ pc'[p] = "write" => config' = Torn /\ job'[p].fd = "own"
             /\ pc'[p] # "write" => config' = job'[p].read
             /\ job'[p].cmd.name = "safe" /\ pc'[p] \in {"open", "write"} => backup' = job'[p].read
  <2>1. pc[q] # "idle" /\ \A r \in Procs \ {q} : pc'[r] = pc[r]
    BY <1>1, <1>3 DEF Step, Stop, Rename, OpenBackup, WriteBackup, Open, Write, Idle, Leave
  <2>2. Rename(q) \/ Write(q) \/ Stop(q) => pc'[q] = "idle"
    BY <1>1 DEF Rename, Write, Stop, Leave
  <2>3. q = p
    <3> SUFFICES ASSUME q # p PROVE FALSE
      OBVIOUS
    <3>1. pc[p] # "idle"
      BY <2>1
    <3>2. job[p].alone
      <4>1. \A j \in Jobs, f \in {"own", "shared", "lost"} : [j EXCEPT !.fd = f].alone = j.alone
        BY DEF Jobs
      <4>2. job'[p] = job[p] \/ \E f \in {"own", "shared", "lost"} : job'[p] = [job[p] EXCEPT !.fd = f]
        <5>1. CASE Rename(q)
          BY <1>1, <5>1 DEF Rename
        <5>2. CASE Write(q)
          BY <1>1, <5>2 DEF Write
        <5>3. CASE OpenBackup(q) \/ WriteBackup(q) \/ Open(q) \/ Stop(q)
          BY <1>1, <5>3 DEF OpenBackup, WriteBackup, Open, Stop, Leave
        <5> QED BY <1>3, <5>1, <5>2, <5>3 DEF Step
      <4> QED BY <1>1, <4>1, <4>2
    <3> QED BY <2>1, <3>1, <3>2 DEF Undisturbed, AllIdleBut, Idle
  <2>4. OpenBackup(p) \/ WriteBackup(p) \/ Open(p)
    BY <1>3, <2>2, <2>3 DEF Step
  <2>5. CASE OpenBackup(p)
    <3>1. job' = job /\ config' = config /\ pc[p] = "backup" /\ pc'[p] = "copy"
      BY <1>1, <2>5 DEF OpenBackup
    <3> QED BY <2>1, <2>3, <3>1 DEF Undisturbed, AllIdleBut, Idle
  <2>6. CASE WriteBackup(p)
    <3>1. job' = job /\ config' = config /\ pc[p] = "copy" /\ pc'[p] = "open"
      BY <1>1, <2>6 DEF WriteBackup
    <3>2. AllIdleBut(p)
      BY <3>1 DEF Undisturbed
    <3>3. backup' = job[p].read
      BY <2>6, <3>2 DEF WriteBackup
    <3> QED BY <2>1, <2>3, <3>1, <3>3 DEF Undisturbed, AllIdleBut, Idle
  <2>7. CASE Open(p)
    <3>1. /\ job'[p] = [job[p] EXCEPT !.fd = "own"] /\ config' = Torn /\ backup' = backup
          /\ pc[p] = "open" /\ pc'[p] = "write"
      BY <1>1, <2>7 DEF Open
    <3>2. job'[p].fd = "own" /\ job'[p].alone = job[p].alone /\ job'[p].cmd = job[p].cmd /\ job'[p].read = job[p].read
      <4>1. \A j \in Jobs : LET k == [j EXCEPT !.fd = "own"]
                            IN  k.fd = "own" /\ k.alone = j.alone /\ k.cmd = j.cmd /\ k.read = j.read
        BY DEF Jobs
      <4> QED BY <1>1, <3>1, <4>1
    <3> QED BY <2>1, <2>3, <3>1, <3>2 DEF Undisturbed, AllIdleBut, Idle
  <2> QED BY <2>4, <2>5, <2>6, <2>7
<1>4. CASE UNCHANGED vars
  BY <1>4 DEF vars, Undisturbed, AllIdleBut, Idle
<1> QED BY <1>2, <1>3, <1>4 DEF Next

LEMMA UndisturbedInvariant == ASSUME ConfigAssumption PROVE Spec => [](IInv /\ Undisturbed)
<1>1. Init => Undisturbed
  BY DEF Init, Undisturbed
<1>2. IInv /\ Undisturbed /\ [Next]_vars => Undisturbed'
  BY UndisturbedNext
<1> QED BY <1>1, <1>2, InductiveInvariant, PTL DEF Spec

\* How a command that runs alone ends.
LEMMA EndOfAlone ==
  ASSUME IInv, Undisturbed, Next, NEW p \in Procs, Ends(p), job[p].alone
  PROVE  /\ job[p].cmd \in Commands /\ (job[p].cmd.name = "init" \/ job[p].read \in Documents)
         /\ \/ config' = Out(p)
            \/ config' = config /\ pc[p] # "write"
            \/ config' = Torn /\ pc[p] = "write"
         /\ backup' = backup /\ (pc[p] = "rename" => config' \in {Out(p), config})
         /\ pc[p] \in {"rename", "write"} \/ config' = config
<1>1. pc \in [Procs -> Steps \cup {"idle"}] /\ job \in [Procs -> Jobs] /\ pc[p] # "idle" /\ pc'[p] = "idle"
  BY DEF IInv, Types, Ends
<1>2. PICK q \in Procs : Step(q) \/ Stop(q) \/ \E c \in Commands, force \in BOOLEAN : Begin(q, c, force)
  BY DEF Next
<1>3. q = p /\ (Rename(p) \/ Write(p) \/ Stop(p))
  <2>1. ASSUME NEW c \in Commands, NEW force \in BOOLEAN, Begin(q, c, force) PROVE FALSE
    <3>1. FirstStep(c) # "idle"
      BY DEF FirstStep
    <3> QED BY <1>1, <2>1, <3>1 DEF Begin
  <2>2. CASE OpenBackup(q) \/ WriteBackup(q) \/ Open(q)
    BY <1>1, <2>2 DEF OpenBackup, WriteBackup, Open
  <2>3. CASE Rename(q) \/ Write(q) \/ Stop(q)
    BY <1>1, <2>3 DEF Rename, Write, Stop, Leave
  <2> QED BY <1>2, <2>1, <2>2, <2>3 DEF Step
<1>4. job[p].cmd \in Commands /\ (job[p].cmd.name = "init" \/ job[p].read \in Documents)
  BY <1>1 DEF IInv, Work
<1>5. CASE Rename(p)
  BY <1>4, <1>5 DEF Rename
<1>6. CASE Write(p)
  BY <1>1, <1>4, <1>6 DEF Write, Undisturbed
<1>7. CASE Stop(p)
  BY <1>1, <1>4, <1>7 DEF Stop, Undisturbed
<1> QED BY <1>3, <1>5, <1>6, <1>7

LEMMA EffectIsItsPart ==
  ASSUME NEW c \in Commands, NEW d, c.name = "init" \/ d \in Documents
  PROVE  OnlyItsPart(c, d, Effect(c, d))
<1>1. CASE c.name = "whitelist"
  BY <1>1 DEF OnlyItsPart, Effect, Documents
<1>2. CASE c.name # "whitelist"
  BY <1>2 DEF OnlyItsPart, Effect, Commands
<1> QED BY <1>1, <1>2

\* A command that ran alone has changed its own settings and nothing else, or nothing at all; only
\* where os.WriteFile rewrites the file in place can it leave a torn one (AddIgnoreIPs cannot).
THEOREM ChangesItsPartOnlyHolds == ASSUME ConfigAssumption PROVE Spec => ChangesItsPartOnly
<1> DEFINE Part == \A p \in Procs : Ends(p) /\ job[p].alone =>
                     \/ config' = job[p].read
                     \/ config' \in Documents /\ OnlyItsPart(job[p].cmd, job[p].read, config')
                     \/ config' = Torn /\ job[p].cmd.name # "whitelist"
<1>1. IInv /\ Undisturbed /\ [Next]_vars => [Part]_vars
  <2> SUFFICES ASSUME IInv, Undisturbed, Next, NEW p \in Procs, Ends(p), job[p].alone
                PROVE  \/ config' = job[p].read
                       \/ config' \in Documents /\ OnlyItsPart(job[p].cmd, job[p].read, config')
                       \/ config' = Torn /\ job[p].cmd.name # "whitelist"
    OBVIOUS
  <2>1. pc[p] # "idle"
    BY DEF Ends
  <2>2. job[p].cmd \in Commands /\ (job[p].cmd.name = "init" \/ job[p].read \in Documents)
    BY EndOfAlone
  <2>3. CASE config' = Out(p)
    <3>1. Out(p) \in Documents
      BY <2>1, OutIsDocument
    <3>2. OnlyItsPart(job[p].cmd, job[p].read, Out(p))
      BY <2>2, EffectIsItsPart DEF Out
    <3> QED BY <2>3, <3>1, <3>2
  <2>4. CASE config' = config /\ pc[p] # "write"
    BY <2>1, <2>4 DEF Undisturbed
  <2>5. CASE config' = Torn /\ pc[p] = "write"
    BY <2>1, <2>5 DEF Undisturbed
  <2> QED BY <2>3, <2>4, <2>5, EndOfAlone
<1> QED BY <1>1, UndisturbedInvariant, PTL DEF Spec, ChangesItsPartOnly

\* Wherever safe-ssh is killed, the original is in the file or complete in the backup: the backup is
\* written before the file is opened.
THEOREM OriginalKeptHolds == ASSUME ConfigAssumption PROVE Spec => OriginalKept
<1> DEFINE Kept == \A p \in Procs : Ends(p) /\ job[p].alone /\ job[p].cmd.name = "safe" =>
                     config' = job[p].read \/ backup' = job[p].read
<1>1. IInv /\ Undisturbed /\ [Next]_vars => [Kept]_vars
  <2> SUFFICES ASSUME IInv, Undisturbed, Next, NEW p \in Procs, Ends(p), job[p].alone, job[p].cmd.name = "safe"
                PROVE  config' = job[p].read \/ backup' = job[p].read
    OBVIOUS
  <2>1. pc[p] # "idle"
    BY DEF Ends
  <2>2. backup' = backup /\ (pc[p] \in {"rename", "write"} \/ config' = config)
    BY EndOfAlone
  <2>3. pc[p] # "rename"
    BY <2>1 DEF Undisturbed
  <2> QED BY <2>1, <2>2, <2>3 DEF Undisturbed
<1> QED BY <1>1, UndisturbedInvariant, PTL DEF Spec, OriginalKept
=============================================================================
