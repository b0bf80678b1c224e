----------------------------- MODULE ConfigStore ----------------------------
(***************************************************************************)
(* The configuration file and the commands that rewrite it: whitelist,     *)
(* enable-production, safe-ssh and init-config, by several processes, and  *)
(* what a daemon that starts at any moment makes of it.  A document has    *)
(* the fields the commands tell apart; `other' stands for every setting no *)
(* command touches, credentials and unknown fields included.               *)
(***************************************************************************)
EXTENDS FiniteSets

CONSTANTS
    Procs,             \* processes that run a command
    IPs,               \* entries for ignore_ips
    Others,            \* values of the settings no command touches
    DefaultOther,      \* what they are in config.Default()
    Absent, Torn,      \* no file; a file that is no complete document
    None               \* nothing

VARIABLES
    config,            \* the content of the configuration file
    backup,            \* the content of its .before-safe-ssh
    pc, job,           \* the processes: where they are, what they do
    asked              \* ghost: somebody has asked for production

vars == <<config, backup, pc, job, asked>>

\* rule: how the rule ssh-auth-failure stands in the file, "none" when it has no such rule.
Documents == [dry : BOOLEAN, ips : SUBSET IPs, rule : {"plain", "safe", "none"}, other : Others]

ConfigAssumption ==
    /\ DefaultOther \in Others
    /\ Absent \notin Documents /\ Torn \notin Documents \cup {Absent} /\ None \notin Documents

\* Default: dry_run is on, and the rules are safe already.
Default == [dry |-> TRUE, ips |-> {}, rule |-> "safe", other |-> DefaultOther]

Commands == [name : {"whitelist"}, ip : IPs] \cup [name : {"production", "safe", "init"}]

\* What a command makes of the document it has read.
Effect(c, d) ==
    CASE c.name = "whitelist"  -> [d EXCEPT !.ips = @ \cup {c.ip}]
      [] c.name = "production" -> [d EXCEPT !.dry = FALSE]
      [] c.name = "safe"       -> [d EXCEPT !.rule = "safe"]
      [] c.name = "init"       -> Default

\* read: the file when the command began.  fd: the file opened for writing is the one at the path
\* ("own"), that one but written by somebody else since ("shared"), or unlinked by a rename
\* ("lost").  alone: a ghost, no other command ran meanwhile.
NoJob == [cmd |-> None, read |-> Absent, fd |-> "none", alone |-> FALSE]
Out(p) == Effect(job[p].cmd, job[p].read)

Idle(p)     == pc[p] = "idle"
AllIdleBut(p) == \A q \in Procs \ {p} : Idle(q)

\* The command ends, whether it is done or gives up.
Leave(p) == pc' = [pc EXCEPT ![p] = "idle"] /\ job' = [job EXCEPT ![p] = NoJob]

-----------------------------------------------------------------------------
Parses(data) == data \in Documents

\* A command reads and checks the file (safe-ssh twice, taken as one here): safe-ssh insists on its
\* rule, and init-config on there being no file unless it is forced.
Accepts(c, force) ==
    CASE c.name = "init" -> force \/ config = Absent
      [] c.name = "safe" -> Parses(config) /\ config.rule # "none"
      [] OTHER           -> Parses(config)

\* Mutant: safe-ssh replaces the configuration before it writes the backup.
FirstStepReversed(c) == IF c.name = "whitelist" THEN "rename" ELSE "open"
FirstStep(c) == CASE c.name = "whitelist" -> "rename"
                  [] c.name = "safe"      -> "backup"
                  [] OTHER                -> "open"

Begin(p, c, force) ==
    /\ Idle(p) /\ Accepts(c, force)
    /\ pc' = [pc EXCEPT ![p] = FirstStep(c)]
    /\ job' = [q \in Procs |->
                 IF q = p THEN [cmd |-> c, read |-> config, fd |-> "none", alone |-> AllIdleBut(p)]
                 ELSE [job[q] EXCEPT !.alone = FALSE]]
    /\ asked' = (asked \/ c.name = "production")
    /\ UNCHANGED <<config, backup>>

\* AddIgnoreIPs: the temporary file is complete when it is renamed over the configuration, and
\* whoever has the old file open goes on writing to a file without a name.
Rename(p) ==
    /\ pc[p] = "rename"
    /\ config' = Out(p)
    /\ pc' = [pc EXCEPT ![p] = "idle"]
    /\ job' = [q \in Procs |-> IF q = p THEN NoJob
                               ELSE IF job[q].fd = "none" THEN job[q] ELSE [job[q] EXCEPT !.fd = "lost"]]
    /\ UNCHANGED <<backup, asked>>

\* safe-ssh: os.WriteFile of the backup, which is empty before it is complete.
OpenBackup(p) ==
    /\ pc[p] = "backup" /\ pc' = [pc EXCEPT ![p] = "copy"]
    /\ backup' = Torn
    /\ UNCHANGED <<config, job, asked>>

WriteBackup(p) ==
    /\ pc[p] = "copy" /\ pc' = [pc EXCEPT ![p] = "open"]
    /\ backup' \in {job[p].read} \cup (IF AllIdleBut(p) THEN {} ELSE {Torn})
    /\ UNCHANGED <<config, job, asked>>

\* os.WriteFile of the configuration: opening it empties it.
Open(p) ==
    /\ pc[p] = "open" /\ pc' = [pc EXCEPT ![p] = "write"]
    /\ config' = Torn
    /\ job' = [job EXCEPT ![p].fd = "own"]
    /\ UNCHANGED <<backup, asked>>

\* Two texts in one file leave the tail of the longer one behind the shorter.
Write(p) ==
    /\ pc[p] = "write"
    /\ CASE job[p].fd = "own"    -> config' = Out(p)
         [] job[p].fd = "shared" -> config' \in {Out(p), Torn}
         [] job[p].fd = "lost"   -> UNCHANGED config
    /\ pc' = [pc EXCEPT ![p] = "idle"]
    /\ job' = [q \in Procs |-> IF q = p THEN NoJob
                               ELSE IF job[q].fd = "own" /\ job[p].fd # "lost"
                               THEN [job[q] EXCEPT !.fd = "shared"] ELSE job[q]]
    /\ UNCHANGED <<backup, asked>>

\* The command is killed, or the disk is full.
Stop(p) ==
    /\ ~Idle(p) /\ Leave(p)
    /\ UNCHANGED <<config, backup, asked>>

\* Mutant: the error of Load is passed over, and a Config without values has dry_run off.
ModeAnyway(data) == IF Parses(data) /\ data.dry THEN "dry" ELSE "production"
\* config.Load at the start of the daemon; a file that does not parse ends it.
Mode(data) == IF ~Parses(data) THEN "down" ELSE IF data.dry THEN "dry" ELSE "production"

Init ==
    /\ config \in {Absent} \cup [dry : {TRUE}, ips : {{}}, rule : {"plain", "none"}, other : Others]
    /\ backup = Absent /\ asked = FALSE
    /\ pc = [p \in Procs |-> "idle"] /\ job = [p \in Procs |-> NoJob]

Step(p) == Rename(p) \/ OpenBackup(p) \/ WriteBackup(p) \/ Open(p) \/ Write(p)

Next ==
    \E p \in Procs : Step(p) \/ Stop(p) \/ \E c \in Commands, force \in BOOLEAN : Begin(p, c, force)

Spec == Init /\ [][Next]_vars

-----------------------------------------------------------------------------
\* Properties.

\* What the processes hold is as the step they are at.
TypeOK ==
    /\ config \in Documents \cup {Absent, Torn} /\ backup \in Documents \cup {Absent, Torn}
    /\ asked \in BOOLEAN
    /\ \A p \in Procs : IF pc[p] = "idle" THEN job[p] = NoJob
                        ELSE job[p].cmd \in Commands /\ Out(p) \in Documents

\* Whatever commands rewrite the file, overlapping, killed and torn, the daemon never bans for real
\* unless somebody has asked for it, whenever it starts: dry_run is the default of every file that
\* lost its settings, and a file in the middle of a rewrite starts no daemon.
ProductionOnRequest == ~asked => Mode(config) # "production"

Ends(p) == pc[p] # "idle" /\ pc'[p] = "idle"

\* A command that ran alone has changed its own settings and nothing else, or nothing at all; the
\* whitelist cannot even leave a torn file when it is killed.
OnlyItsPart(c, old, new) ==
    CASE c.name = "whitelist"  -> old.ips \subseteq new.ips /\ new = [old EXCEPT !.ips = new.ips]
      [] c.name = "production" -> new = [old EXCEPT !.dry = FALSE]
      [] c.name = "safe"       -> new = [old EXCEPT !.rule = "safe"]
      [] c.name = "init"       -> new = Default
ChangesItsPartOnly ==
    [][\A p \in Procs : Ends(p) /\ job[p].alone =>
          \/ config' = job[p].read
          \/ config' \in Documents /\ OnlyItsPart(job[p].cmd, job[p].read, config')
          \/ config' = Torn /\ job[p].cmd.name # "whitelist"]_vars

\* Killed at any step, safe-ssh leaves the configuration as it was or a complete copy of it.
OriginalKept ==
    [][\A p \in Procs : Ends(p) /\ job[p].alone /\ job[p].cmd.name = "safe" =>
          config' = job[p].read \/ backup' = job[p].read]_vars

=============================================================================
