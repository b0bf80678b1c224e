------------------------------ MODULE Hardening -----------------------------
(***************************************************************************)
(* secure-ssh and keepalive (internal/hardening) as processes on one host: *)
(* sshd_config, the temporary file of fixed name, the backup named by the *)
(* second, the keepalive drop-in, and the sshd that reads them, next to an *)
(* operator who edits sshd_config.  A file is the sequence of its lines.   *)
(***************************************************************************)
EXTENDS Naturals, Sequences, SequencesExt, FiniteSets

CONSTANTS
    SecureProcs,       \* processes that run secure-ssh -write
    KeepProcs,         \* processes that run keepalive -write
    Body,              \* Body[p]: the managed settings p's configuration asks for
    Begin, End,        \* the lines that mark the managed block
    Edits,             \* lines the operator adds, each once, and takes out again
    Invalid,           \* lines and settings sshd -t rejects
    Originals,         \* what sshd_config may be at first
    Absent,            \* no file
    Empty, Garbled,    \* an emptied file; a part of a text, or two mixed
    Crews              \* bound: the processes that may be at work at one time, as sets

VARIABLES
    main, tmp,         \* sshd_config and sshd_config.banhack233.tmp
    backup,            \* sshd_config.banhack233.<second>, the one name all runs of a second share
    dropin,            \* 99-banhack233-keepalive.conf: Absent, Empty, Garbled or "written"
    sshd,              \* sshd is "up" or went "down"
    pc, job

vars == <<main, tmp, backup, dropin, sshd, pc, job>>

Procs  == SecureProcs \cup KeepProcs
Damaged == {Absent, Empty, Garbled}
Lines   == {Begin, End} \cup Edits \cup {Body[p] : p \in SecureProcs}
             \cup UNION {ToSet(f) : f \in Originals \ Damaged}

HardeningAssumption ==
    /\ SecureProcs \cap KeepProcs = {} /\ UNION Crews = Procs
    /\ Begin # End /\ Cardinality(Damaged) = 3 /\ \A f \in Damaged : f \notin Seq(Lines)
    /\ DOMAIN Body = SecureProcs /\ {Begin, End} \cap (Edits \cup {Body[p] : p \in SecureProcs}) = {}
    /\ \A f \in Originals : f \in Seq(Lines) \cup {Empty, Garbled}

\* orig: the file as read.  fd: where the opened file is now, "tmp", "main" or "gone".
\* alone: a ghost, nobody else has touched anything since the process began.
NoJob == [orig |-> Absent, fd |-> "none", alone |-> FALSE]

-----------------------------------------------------------------------------
\* replaceManagedBlock.

FirstOf(f, line) == IF line \notin ToSet(f) THEN 0
                    ELSE CHOOSE i \in DOMAIN f : f[i] = line /\ \A j \in 1..i - 1 : f[j] # line
Managed(body)    == <<Begin, body, End>>

\* Mutant: the line after the block goes with it.
ReplaceTooMuch(f, body) ==
    IF FirstOf(f, Begin) > 0 /\ FirstOf(f, End) > FirstOf(f, Begin)
    THEN SubSeq(f, 1, FirstOf(f, Begin) - 1) \o Managed(body) \o SubSeq(f, FirstOf(f, End) + 2, Len(f))
    ELSE f \o Managed(body)
\* From the first BEGIN to the first END, if that comes later; otherwise a block is appended.
Replace(f, body) ==
    IF FirstOf(f, Begin) > 0 /\ FirstOf(f, End) > FirstOf(f, Begin)
    THEN SubSeq(f, 1, FirstOf(f, Begin) - 1) \o Managed(body) \o SubSeq(f, FirstOf(f, End) + 1, Len(f))
    ELSE f \o Managed(body)

\* sshd -t reads the main file given and the drop-in it includes; an empty file passes.
Passes(f) ==
    /\ dropin # Garbled
    /\ f = Empty \/ (f \notin Damaged /\ \A i \in 1..Len(f) : f[i] \notin Invalid)

-----------------------------------------------------------------------------
Goto(p, to) == pc' = [pc EXCEPT ![p] = to]

Leave(p) == Goto(p, "idle") /\ job' = [job EXCEPT ![p] = NoJob]

\* The process starts: nobody who is at work is alone any longer.
Enter(p, to, orig) ==
    /\ pc[p] = "idle" /\ Goto(p, to)
    /\ \E crew \in Crews : {q \in Procs : pc[q] # "idle"} \cup {p} \subseteq crew
    /\ job' = [q \in Procs |->
                 IF q = p THEN [NoJob EXCEPT !.orig = orig, !.alone = \A r \in Procs \ {p} : pc[r] = "idle"]
                 ELSE [job[q] EXCEPT !.alone = FALSE]]

\* Files change their names under whoever has them open.
Moved(p, to) == [q \in Procs |-> IF q = p THEN job[q] ELSE [job[q] EXCEPT !.fd = to[@]]]

\* SecureSSH reads sshd_config; opening the backup of this second empties it.
Read(p) ==
    /\ main # Garbled /\ Enter(p, "backup", main)
    /\ UNCHANGED <<main, tmp, backup, dropin, sshd>>

OpenBackup(p) ==
    /\ pc[p] = "backup" /\ Goto(p, "copy")
    /\ backup' = Empty
    /\ UNCHANGED <<main, tmp, dropin, sshd, job>>

Copy(p) ==
    /\ pc[p] = "copy" /\ Goto(p, "open")
    /\ backup' = job[p].orig
    /\ UNCHANGED <<main, tmp, dropin, sshd, job>>

\* os.WriteFile of the temporary file, whose name all runs share.
OpenTmp(p) ==
    /\ pc[p] = "open" /\ Goto(p, "fill")
    /\ tmp' = Empty
    /\ job' = [job EXCEPT ![p].fd = "tmp"]
    /\ UNCHANGED <<main, backup, dropin, sshd>>

Fill(p) ==
    LET next == Replace(IF job[p].orig = Empty THEN <<>> ELSE job[p].orig, Body[p])
        text(old) == IF old = Empty THEN {next} ELSE {next, Garbled}
    IN  /\ pc[p] = "fill" /\ Goto(p, "test")
        /\ CASE job[p].fd = "tmp"  -> tmp' \in text(tmp) /\ UNCHANGED main
             [] job[p].fd = "main" -> main' \in text(main) /\ UNCHANGED tmp
             [] job[p].fd = "gone" -> UNCHANGED <<main, tmp>>
        /\ job' = [job EXCEPT ![p].fd = "none", ![p].orig = Absent]
        /\ UNCHANGED <<backup, dropin, sshd>>

\* sshd -t -f tmp; the file is removed when it is not accepted.
Test(p) ==
    /\ pc[p] = "test"
    /\ IF Passes(tmp) THEN Goto(p, "rename") /\ UNCHANGED <<tmp, job>>
       ELSE /\ tmp' = Absent /\ Goto(p, "idle")
            /\ job' = [Moved(p, [none |-> "none", tmp |-> "gone", main |-> "main", gone |-> "gone"]) EXCEPT ![p] = NoJob]
    /\ UNCHANGED <<main, backup, dropin, sshd>>

Rename(p) ==
    /\ pc[p] = "rename"
    /\ IF tmp = Absent THEN Leave(p) /\ UNCHANGED <<main, tmp>>
       ELSE /\ main' = tmp /\ tmp' = Absent /\ Goto(p, "reload")
            /\ job' = Moved(p, [none |-> "none", tmp |-> "main", main |-> "gone", gone |-> "gone"])
    /\ UNCHANGED <<backup, dropin, sshd>>

\* systemctl reload, whose errors are ignored: sshd reads its files again and dies of an error in them.
Reload(p) ==
    /\ pc[p] = "reload" /\ Leave(p)
    /\ \/ UNCHANGED sshd
       \/ sshd' = IF Passes(main) THEN sshd ELSE "down"
    /\ UNCHANGED <<main, tmp, backup, dropin>>

\* ApplyKeepalive: the drop-in is written first.
OpenDropin(p) ==
    /\ Enter(p, "dropin", Absent)
    /\ dropin' = Empty
    /\ UNCHANGED <<main, tmp, backup, sshd>>

WriteDropin(p) ==
    /\ pc[p] = "dropin" /\ Goto(p, "check")
    /\ dropin' = "written"
    /\ UNCHANGED <<main, tmp, backup, sshd, job>>

\* sysctl --system may fail as well as sshd -t, and the drop-in stays.
Check(p) ==
    /\ pc[p] = "check"
    /\ \/ Passes(main) /\ Goto(p, "reload") /\ UNCHANGED job
       \/ Leave(p)
    /\ UNCHANGED <<main, tmp, backup, dropin, sshd>>

-----------------------------------------------------------------------------
\* The environment.

\* A write that is cut short leaves nothing of the text, or a part of it.
Kill(p) ==
    /\ pc[p] # "idle" /\ Leave(p)
    /\ tmp' \in {tmp} \cup (IF pc[p] = "fill" /\ job[p].fd = "tmp" THEN {Garbled} ELSE {})
    /\ main' \in {main} \cup (IF pc[p] = "fill" /\ job[p].fd = "main" THEN {Garbled} ELSE {})
    /\ dropin' \in {dropin} \cup (IF pc[p] = "dropin" THEN {Garbled} ELSE {})
    /\ UNCHANGED <<backup, sshd>>

Edit(line) ==
    /\ main \notin Damaged
    /\ main' = IF Contains(main, line) THEN RemoveAt(main, FirstOf(main, line)) ELSE Append(main, line)
    /\ job' = [q \in Procs |-> [job[q] EXCEPT !.alone = FALSE]]
    /\ UNCHANGED <<tmp, backup, dropin, sshd, pc>>

Init ==
    /\ main \in Originals
    /\ tmp = Absent /\ backup = Absent /\ dropin = Absent
    /\ sshd = "up"
    /\ pc = [p \in Procs |-> "idle"] /\ job = [p \in Procs |-> NoJob]

Next ==
    \/ \E p \in SecureProcs : Read(p) \/ OpenBackup(p) \/ Copy(p) \/ OpenTmp(p) \/ Fill(p) \/ Test(p) \/ Rename(p)
    \/ \E p \in KeepProcs : OpenDropin(p) \/ WriteDropin(p) \/ Check(p)
    \/ \E p \in Procs : Reload(p) \/ Kill(p)
    \/ \E line \in Edits : Edit(line)

Spec == Init /\ [][Next]_vars

-----------------------------------------------------------------------------
\* Properties.

\* There is always an sshd_config, and an idle process holds nothing.
TypeOK ==
    /\ main # Absent /\ dropin \in Damaged \cup {"written"} /\ sshd \in {"up", "down"}
    /\ \A p \in Procs : pc[p] = "idle" => job[p] = NoJob

Count(f, line) == Cardinality({i \in 1..Len(f) : f[i] = line})

\* At most one managed block, and it is closed.
WellFormed(f) ==
    /\ f \notin Damaged
    /\ \/ Count(f, Begin) = 0 /\ Count(f, End) = 0
       \/ Count(f, Begin) = 1 /\ Count(f, End) = 1 /\ FirstOf(f, Begin) < FirstOf(f, End)

\* The operator's lines: what stands before and after the block.
Own(f) == IF Count(f, Begin) = 0 THEN f
          ELSE SubSeq(f, 1, FirstOf(f, Begin) - 1) \o SubSeq(f, FirstOf(f, End) + 1, Len(f))

\* Running secure-ssh again, with the same or other settings, replaces its block and adds no second.
BlockSettles ==
    WellFormed(main) => \A p, q \in SecureProcs :
        Replace(Replace(main, Body[p]), Body[q]) = Replace(main, Body[q])

Renames(p) == pc[p] = "rename" /\ pc'[p] = "reload"

\* secure-ssh on its own keeps every line of the operator in place, has a backup of what it replaces,
\* and installs nothing that sshd -t rejects.
OwnLinesStay ==
    [][\A p \in SecureProcs : Renames(p) /\ job[p].alone /\ WellFormed(main) =>
          /\ WellFormed(main') /\ Own(main') = Own(main)
          /\ backup = main
          /\ Passes(main')]_vars

\* A command that runs alone never takes sshd down, whatever the operator wrote and wherever an
\* earlier command was killed: it reloads only after sshd -t has accepted the files.
SshdStaysUp ==
    [][\A p \in Procs : pc[p] = "reload" /\ pc'[p] = "idle" /\ job[p].alone => sshd' = sshd]_vars

=============================================================================
