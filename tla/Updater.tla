------------------------------- MODULE Updater ------------------------------
(***************************************************************************)
(* The self-updater (internal/update): Run, install and rollback, by       *)
(* several processes at once (the daily schedule, an operator), against    *)
(* the installed executable, its backup and receipt, and the managed       *)
(* daemon.  A version stands for the bytes of its executable, its number   *)
(* for the order of `newer'; Corrupt is any download that is no release.   *)
(***************************************************************************)
EXTENDS Integers, FiniteSets

CONSTANTS
    Procs, NoProc,     \* the updater processes; nobody
    MaxVersion,        \* bound: versions 1..MaxVersion are published
    Bad,               \* versions whose daemon does not stay up
    Refused,           \* versions whose config-check rejects the configuration
    Corrupt, None,     \* a download that fails verification; a file that is not there
    MaxFaults          \* bound: injected faults

VARIABLES
    latest,            \* the latest published release
    target,            \* the installed executable
    previous, receipt, \* target.previous, and the digest in target.update.json
    service,           \* the executable the running daemon was started from, or None
    holder,            \* who holds target.update.lock
    pc, job,           \* the processes: where they are, what they do
    skipped,           \* ghost: an executable was installed without a restart
    faults             \* injected faults so far

files == <<target, previous, receipt>>
vars  == <<latest, files, service, holder, pc, job, skipped, faults>>

Versions == 1..MaxVersion

ASSUME VersionAssumption ==
    /\ MaxVersion \in Nat \ {0} /\ Bad \subseteq Versions \ {1} /\ Refused \subseteq Versions \ {1}
    /\ Corrupt \notin Versions /\ None \notin Versions \cup {Corrupt}
    /\ NoProc \notin Procs /\ MaxFaults \in Nat

\* tag: the release found; stage: the verified file; old: the bytes install puts back.
JobType == [rollback : BOOLEAN, restart : BOOLEAN, tag : Versions,
            stage : Versions \cup {None}, old : Versions \cup {None}]

NoJob == [rollback |-> FALSE, restart |-> FALSE, tag |-> 1, stage |-> None, old |-> None]

Fault == faults < MaxFaults /\ faults' = faults + 1

At(p, from)   == pc[p] = from
Goto(p, to)   == pc' = [pc EXCEPT ![p] = to]

\* The process returns, with an error or not, and the lock goes with it.
Leave(p) ==
    /\ pc' = [pc EXCEPT ![p] = "idle"]
    /\ job' = [job EXCEPT ![p] = NoJob]
    /\ holder' = IF holder = p THEN NoProc ELSE holder

\* Starting the daemon: a bad one exits before three health checks have passed.
Boot(v) == IF v \in Bad THEN None ELSE v

-----------------------------------------------------------------------------
\* Run: what happens before anything is replaced.

\* The release is looked up before the lock is taken.
Begin(p, restart) ==
    /\ At(p, "idle") /\ latest > target
    /\ Goto(p, "lock")
    /\ job' = [job EXCEPT ![p] = [NoJob EXCEPT !.restart = restart, !.tag = latest]]
    /\ UNCHANGED <<latest, files, service, holder, skipped, faults>>

BeginRollback(p, restart) ==
    /\ At(p, "idle")
    /\ Goto(p, "lock")
    /\ job' = [job EXCEPT ![p] = [NoJob EXCEPT !.rollback = TRUE, !.restart = restart]]
    /\ UNCHANGED <<latest, files, service, holder, skipped, faults>>

\* Mutant: the lock is taken whether or not it is free.
FreeAlways == TRUE
Free == holder = NoProc

\* lock.Acquire does not wait.
TakeLock(p) ==
    /\ At(p, "lock") /\ Free
    /\ holder' = p
    /\ Goto(p, IF job[p].rollback THEN "verify" ELSE "recheck")
    /\ UNCHANGED <<latest, files, service, job, skipped, faults>>

Busy(p) ==
    /\ At(p, "lock") /\ ~Free
    /\ Leave(p)
    /\ UNCHANGED <<latest, files, service, skipped, faults>>

\* Mutant: the installed version is not looked at again.
StillNewerUnchecked(p) == TRUE
StillNewer(p) == job[p].tag > target

\* Another updater may have finished since the release was looked up.
Recheck(p) ==
    /\ At(p, "recheck")
    /\ IF StillNewer(p) THEN Goto(p, "download") /\ UNCHANGED <<holder, job>> ELSE Leave(p)
    /\ UNCHANGED <<latest, files, service, skipped, faults>>

\* Mutant: the digest of the download is not compared.
AcceptedUnverified(p, bytes) == bytes \notin Refused
Accepted(p, bytes) == bytes = job[p].tag /\ bytes \notin Refused

\* Download, digest, version and config-check: the staged file is the release, or nothing.
Download(p, bytes) ==
    /\ At(p, "download")
    /\ IF Accepted(p, bytes)
       THEN /\ Goto(p, "backup") /\ job' = [job EXCEPT ![p].stage = bytes]
            /\ UNCHANGED holder
       ELSE Leave(p)
    /\ UNCHANGED <<latest, files, service, skipped, faults>>

Backup(p) ==
    /\ At(p, "backup") /\ Goto(p, "receipt")
    /\ job' = [job EXCEPT ![p].old = target]
    /\ previous' = target
    /\ UNCHANGED <<latest, target, receipt, service, holder, skipped, faults>>

\* Mutant: the receipt names the release that is being installed.
ReceiptOfRelease(p) == job[p].tag
ReceiptOf(p) == job[p].old

WriteReceipt(p) ==
    /\ At(p, "receipt") /\ Goto(p, "install")
    /\ receipt' = ReceiptOf(p)
    /\ UNCHANGED <<latest, target, previous, service, holder, job, skipped, faults>>

\* rollback: the backup counts only with the digest of the receipt.
VerifyBackup(p) ==
    /\ At(p, "verify")
    /\ IF previous # None /\ previous = receipt
       THEN /\ Goto(p, "install")
            /\ job' = [job EXCEPT ![p].stage = previous, ![p].old = target]
            /\ UNCHANGED holder
       ELSE Leave(p)
    /\ UNCHANGED <<latest, files, service, skipped, faults>>

\* Reading or writing a file, or asking the network or the executable, failed.
GiveUp(p) ==
    /\ pc[p] \in {"recheck", "download", "backup", "receipt", "verify", "install"}
    /\ Fault /\ Leave(p)
    /\ UNCHANGED <<latest, files, service, skipped>>

-----------------------------------------------------------------------------
\* install.

\* A restart needs a running daemon.
CheckService(p) ==
    /\ At(p, "install")
    /\ IF ~job[p].restart THEN Goto(p, "rename") /\ UNCHANGED <<holder, job>>
       ELSE IF service # None THEN Goto(p, "stop") /\ UNCHANGED <<holder, job>>
       ELSE Leave(p)
    /\ UNCHANGED <<latest, files, service, skipped, faults>>

StopService(p) ==
    /\ At(p, "stop") /\ Goto(p, "rename")
    /\ service' = None
    /\ UNCHANGED <<latest, files, holder, job, skipped, faults>>

\* An error of the stop command ends the update; the daemon may have stopped by then.
StopFails(p) ==
    /\ At(p, "stop") /\ Fault
    /\ service' \in {service, None}
    /\ Leave(p)
    /\ UNCHANGED <<latest, files, skipped>>

\* The staged file replaces the executable.
Rename(p) ==
    /\ At(p, "rename")
    /\ target' = job[p].stage
    /\ IF job[p].restart THEN Goto(p, "start") /\ UNCHANGED <<holder, job, skipped>>
       ELSE Leave(p) /\ skipped' = TRUE
    /\ UNCHANGED <<latest, previous, receipt, service, faults>>

RenameFails(p) ==
    /\ At(p, "rename") /\ Fault
    /\ service' \in IF job[p].restart THEN {None, Boot(target)} ELSE {service}
    /\ Leave(p)
    /\ UNCHANGED <<latest, files, skipped>>

StartService(p) ==
    /\ At(p, "start") /\ Goto(p, "health")
    /\ service' = Boot(target)
    /\ UNCHANGED <<latest, files, holder, job, skipped, faults>>

StartFails(p) ==
    /\ At(p, "start") /\ Fault /\ Goto(p, "recover")
    /\ service' \in {None, Boot(target)}
    /\ UNCHANGED <<latest, files, holder, job, skipped>>

Healthy(p) ==
    /\ At(p, "health") /\ service # None
    /\ Leave(p)
    /\ UNCHANGED <<latest, files, service, skipped, faults>>

Unhealthy(p) ==
    /\ At(p, "health") /\ Goto(p, "recover")
    /\ IF service = None THEN UNCHANGED faults ELSE Fault
    /\ UNCHANGED <<latest, files, service, holder, job, skipped>>

\* The recovery stops the daemon again and goes on if it cannot.
RecoverStop(p) ==
    /\ At(p, "recover") /\ Goto(p, "restore")
    /\ \/ service' = None /\ UNCHANGED faults
       \/ Fault /\ UNCHANGED service
    /\ UNCHANGED <<latest, files, holder, job, skipped>>

\* Mutants: the staged file is put back; the recovery ends with the executable.
RestoreStaged(p) ==
    /\ At(p, "restore")
    /\ target' = job[p].stage /\ Goto(p, "restart")
    /\ UNCHANGED <<latest, previous, receipt, service, holder, job, skipped, faults>>
RestoreOnly(p) ==
    /\ At(p, "restore")
    /\ target' = job[p].old /\ Leave(p)
    /\ UNCHANGED <<latest, previous, receipt, service, skipped, faults>>

Restore(p) ==
    /\ At(p, "restore")
    /\ target' = job[p].old /\ Goto(p, "restart")
    /\ UNCHANGED <<latest, previous, receipt, service, holder, job, skipped, faults>>

RestoreFails(p) ==
    /\ At(p, "restore") /\ Fault /\ Leave(p)
    /\ UNCHANGED <<latest, files, service, skipped>>

Restart(p) ==
    /\ At(p, "restart") /\ Leave(p)
    /\ \/ service' = Boot(target) /\ UNCHANGED faults
       \/ Fault /\ service' = None
    /\ UNCHANGED <<latest, files, skipped>>

-----------------------------------------------------------------------------
\* The environment.

Publish ==
    /\ latest < MaxVersion /\ latest' = latest + 1
    /\ UNCHANGED <<files, service, holder, pc, job, skipped, faults>>

\* An updater is killed; the operating system releases its lock.
Kill(p) ==
    /\ ~At(p, "idle") /\ Fault /\ Leave(p)
    /\ UNCHANGED <<latest, files, service, skipped>>

\* A reboot ends the updaters and starts the enabled daemon.
Reboot ==
    /\ Fault
    /\ pc' = [p \in Procs |-> "idle"] /\ job' = [p \in Procs |-> NoJob] /\ holder' = NoProc
    /\ service' = Boot(target)
    /\ UNCHANGED <<latest, files, skipped>>

Init ==
    /\ latest = 1 /\ target = 1 /\ previous = None /\ receipt = None /\ service = 1
    /\ holder = NoProc
    /\ pc = [p \in Procs |-> "idle"] /\ job = [p \in Procs |-> NoJob]
    /\ skipped = FALSE /\ faults = 0

Check(p)   == TakeLock(p) \/ Busy(p) \/ Recheck(p) \/ VerifyBackup(p) \/ GiveUp(p)
                \/ \E bytes \in Versions \cup {Corrupt} : Download(p, bytes)
Write(p)   == Backup(p) \/ WriteReceipt(p) \/ Rename(p) \/ RenameFails(p)
                \/ Restore(p) \/ RestoreFails(p)
Manage(p)  == CheckService(p) \/ StopService(p) \/ StopFails(p) \/ StartService(p) \/ StartFails(p)
                \/ Healthy(p) \/ Unhealthy(p) \/ RecoverStop(p) \/ Restart(p)
Step(p)    == Check(p) \/ Write(p) \/ Manage(p)

Next ==
    \/ \E p \in Procs : Step(p) \/ Kill(p) \/ \E restart \in BOOLEAN : Begin(p, restart) \/ BeginRollback(p, restart)
    \/ Publish \/ Reboot

Spec == Init /\ [][Next]_vars

\* A process that has begun goes on: every command it waits for has a deadline.
FairSpec == Spec /\ \A p \in Procs : WF_vars(Step(p))

-----------------------------------------------------------------------------
\* Properties.

Locked == {"recheck", "download", "backup", "receipt", "verify", "install", "stop", "rename",
           "start", "health", "recover", "restore", "restart"}

TypeOK ==
    /\ latest \in Versions /\ target \in Versions
    /\ previous \in Versions \cup {None} /\ receipt \in Versions \cup {None}
    /\ service \in Versions \cup {None}
    /\ pc \in [Procs -> {"idle", "lock"} \cup Locked] /\ job \in [Procs -> JobType]
    /\ holder \in Procs \cup {NoProc}
    /\ \A p \in Procs : pc[p] \in Locked => holder = p
    /\ skipped \in BOOLEAN /\ faults \in Nat

\* Whatever fails or crashes, the installed executable and its backup are releases that
\* passed verification and accept the configuration.
VerifiedOnly == \A v \in {target, previous, service} \ {None} : v \in Versions \ Refused

\* Only a rollback, or the recovery of a failed update, ever installs an older version: an
\* updater that looked its release up before another one finished does not.
NoDowngrade ==
    [][target' < target => \E p \in Procs : job[p].rollback \/ At(p, "restore")]_vars

\* From the moment an update replaces the executable, the backup and its receipt hold the
\* executable that was replaced: a rollback after it is possible and undoes just this update.
RollbackReady ==
    \A p \in Procs : ~job[p].rollback /\ pc[p] \in {"install", "stop", "rename", "start", "health",
                                                    "recover", "restore", "restart"} =>
        /\ previous = job[p].old /\ receipt = job[p].old
        /\ target = IF pc[p] \in {"install", "stop", "rename", "restart"} THEN job[p].old
                    ELSE job[p].stage

\* A restart update is all or nothing: when no updater is at work and no command failed, the
\* daemon runs the installed executable, and a bad release has been withdrawn.
AtRest == holder = NoProc /\ faults = 0 /\ ~skipped => service = target

\* An updater that stops the daemon brings a daemon back, the new one or the old one.
ServiceBack == [](faults = 0 /\ ~skipped) => []<>(service # None)
=============================================================================
