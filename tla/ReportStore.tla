----------------------------- MODULE ReportStore ----------------------------
(***************************************************************************)
(* The report directory of the malware scan: WriteReport and PruneReports  *)
(* of several scans at once.  All of them happen in one second, the case   *)
(* in which their names collide: a name is its number, 1 for the plain one.*)
(***************************************************************************)
EXTENDS Naturals, Sequences, SequencesExt, FiniteSets

CONSTANTS
    Scans,             \* the scans that run
    NoScan,
    Keep,              \* report_keep
    MaxTries           \* how many names are tried (1000 in the code)

VARIABLES
    order,             \* the directory: the names, the last modified first
    file,              \* file[n]: who writes it, and how far it is; for the names that exist
    pc, job,
    kills              \* ghost: a scan was killed or failed to remove, and no scan has finished since

vars == <<order, file, pc, job, kills>>

Names == 1..MaxTries

ReportAssumption == {Keep, MaxTries} \subseteq Nat \ {0} /\ NoScan \notin Scans

\* name: the name tried or created; doomed: what is left to remove; alone: a ghost, no other
\* scan has been at work since this one began.
NoJob == [name |-> 1, doomed |-> <<>>, alone |-> FALSE]
NoFile == [by |-> NoScan, text |-> "none"]

Exists(n) == n \in ToSet(order)
Without(n) == IF Exists(n) THEN RemoveAt(order, CHOOSE k \in DOMAIN order : order[k] = n) ELSE order
Touch(n)  == order' = <<n>> \o Without(n)
Goto(p, to) == pc' = [pc EXCEPT ![p] = to]
Leave(p) == Goto(p, "idle") /\ job' = [job EXCEPT ![p] = NoJob]

\* safeReportName and the time stamp give the first name.
Begin(p) ==
    /\ pc[p] = "idle" /\ Goto(p, "try")
    /\ job' = [q \in Scans |->
                 IF q = p THEN [NoJob EXCEPT !.alone = \A r \in Scans \ {p} : pc[r] = "idle"]
                 ELSE [job[q] EXCEPT !.alone = FALSE]]
    /\ UNCHANGED <<order, file, kills>>

Free(n) == ~Exists(n)

Create(p) ==
    /\ pc[p] = "try" /\ Free(job[p].name)
    /\ Goto(p, "write") /\ Touch(job[p].name)
    /\ file' = [file EXCEPT ![job[p].name] = [by |-> p, text |-> "part"]]
    /\ UNCHANGED <<job, kills>>

\* Mutant: the number of tries is not limited.
TakenForever(p) ==
    /\ pc[p] = "try" /\ ~Free(job[p].name)
    /\ job' = [job EXCEPT ![p].name = @ + 1]
    /\ UNCHANGED <<order, file, pc, kills>>
Taken(p) ==
    /\ pc[p] = "try" /\ ~Free(job[p].name)
    /\ IF job[p].name < MaxTries THEN job' = [job EXCEPT ![p].name = @ + 1] /\ UNCHANGED pc ELSE Leave(p)
    /\ UNCHANGED <<order, file, kills>>

\* A file that was pruned meanwhile takes the text along.
Write(p) ==
    LET n == job[p].name IN
    /\ pc[p] = "write" /\ Goto(p, "list")
    /\ IF file[n].by = p THEN Touch(n) /\ file' = [file EXCEPT ![n].text = "full", ![n].by = NoScan]
       ELSE UNCHANGED <<order, file>>
    /\ UNCHANGED <<job, kills>>

\* Mutant: the oldest are kept.
DoomedNewest  == SubSeq(order, 1, Len(order) - Keep)
\* PruneReports: all but the Keep last modified.
Doomed == SubSeq(order, Keep + 1, Len(order))

List(p) ==
    /\ pc[p] = "list" /\ Goto(p, "prune")
    /\ job' = [job EXCEPT ![p].doomed = Doomed]
    /\ UNCHANGED <<order, file, kills>>

\* The names of the listing are removed one by one, whatever they name by now.
Prune(p) ==
    /\ pc[p] = "prune" /\ job[p].doomed # <<>>
    /\ LET n == Head(job[p].doomed) IN
         /\ order' = Without(n)
         /\ file' = [file EXCEPT ![n] = NoFile]
    /\ job' = [job EXCEPT ![p].doomed = Tail(@)]
    /\ UNCHANGED <<pc, kills>>

\* A report that cannot be removed ends the pruning, as does the end of the list.
Finish(p) ==
    /\ pc[p] = "prune" /\ Leave(p)
    /\ IF job[p].doomed = <<>> THEN kills' = (kills /\ ~job[p].alone) ELSE kills' = TRUE
    /\ UNCHANGED <<order, file>>

Kill(p) ==
    /\ pc[p] # "idle" /\ Leave(p) /\ kills' = TRUE
    /\ file' = [n \in Names |-> IF file[n].by = p THEN [file[n] EXCEPT !.by = NoScan] ELSE file[n]]
    /\ UNCHANGED order

Init ==
    /\ order = <<>> /\ file = [n \in Names |-> NoFile]
    /\ pc = [p \in Scans |-> "idle"] /\ job = [p \in Scans |-> NoJob] /\ kills = FALSE

Next == \E p \in Scans :
    Begin(p) \/ Create(p) \/ Taken(p) \/ Write(p) \/ List(p) \/ Prune(p) \/ Finish(p) \/ Kill(p)

Spec == Init /\ [][Next]_vars

-----------------------------------------------------------------------------
\* Properties.

\* A name is in the directory once, and names what is there.
TypeOK ==
    /\ IsInjective(order) /\ ToSet(order) \subseteq Names
    /\ \A n \in Names : file[n].text = "none" <=> ~Exists(n)
    /\ \A p \in Scans : job[p].name \in Names /\ ToSet(job[p].doomed) \subseteq Names

\* However many scans run at once, none writes into the report of another: a report is complete or
\* it is removed, and its text never changes.
NothingOverwritten ==
    [][\A n \in Names : Exists(n) /\ Exists(n)' =>
          file'[n] = file[n] \/ (file[n].text = "part" /\ file[n].by # NoScan
                                 /\ (file'[n].text = "full" \/ file'[n].by = NoScan))]_vars

\* Scans of which none was killed leave no more than Keep reports when the last of them is done.
Bounded == (\A p \in Scans : pc[p] = "idle") /\ ~kills => Len(order) <= Keep

\* A scan on its own removes nothing that is among the Keep last modified, wherever earlier scans
\* were killed, and its own report stays.
NewestStay ==
    [][\A p \in Scans : job[p].alone /\ pc[p] \in {"try", "write", "list", "prune"} =>
          \A n \in ToSet(SubSeq(order, 1, IF Len(order) < Keep THEN Len(order) ELSE Keep)) : Exists(n)']_vars

=============================================================================
