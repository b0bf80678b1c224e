---------------------------- MODULE UpdaterProofs ----------------------------
(* Theorems about Updater for every value of its constants, checked by TLAPS. *)
EXTENDS Updater, TLAPS

-----------------------------------------------------------------------------
\* The inductive invariant.

Looking   == {"recheck", "download", "backup", "receipt"}     \* only Run
Before    == {"install", "stop", "rename"}                    \* only install, nothing replaced
Replacing == {"start", "health", "recover", "restore", "restart"}

\* The holder of the lock is at work.
Owner == \A p \in Procs : holder = p => pc[p] \in Locked

\* What an updater carries from one step to the next still agrees with the files, whatever
\* the other updaters did before it took the lock.
JobOK(p) ==
    /\ pc[p] \in Looking => ~job[p].rollback
    /\ pc[p] = "verify" => job[p].rollback
    /\ pc[p] \in {"backup", "receipt"} \cup Before \cup Replacing =>
          /\ job[p].stage \in Versions \ Refused
          /\ ~job[p].rollback => job[p].stage = job[p].tag
    /\ pc[p] \in {"receipt"} \cup Before \cup Replacing => job[p].old \in Versions \ Refused
    /\ pc[p] \in {"receipt"} \cup Before => job[p].old = target
    /\ pc[p] = "receipt" => previous = target
    /\ pc[p] = "restart" => target = job[p].old
    /\ pc[p] \in {"download", "backup", "receipt"} \cup Before /\ ~job[p].rollback =>
          job[p].tag > target

JobsOK == \A p \in Procs : JobOK(p)

\* How far the daemon is from the installed executable while an updater is at work.
RestOK(p) ==
    /\ pc[p] \in Looking \cup {"verify", "install", "stop"} => service = target /\ target \notin Bad
    /\ pc[p] = "rename" => target \notin Bad
    /\ pc[p] \in Replacing => job[p].restart /\ job[p].old \notin Bad
    /\ pc[p] = "health" => service = Boot(target)

Settled ==
    faults = 0 /\ ~skipped =>
        /\ holder = NoProc => service = target /\ target \notin Bad
        /\ \A p \in Procs : RestOK(p)

SafeInv == VerifiedOnly /\ JobsOK /\ RollbackReady /\ Settled

IInv == TypeOK /\ Owner /\ SafeInv

-----------------------------------------------------------------------------
\* Types and the lock.

\* An idle process has a job of the type.
LEMMA NoJobType == NoJob \in JobType
BY VersionAssumption DEF NoJob, JobType, Versions

\* A process that leaves gives the lock up, and only its own.
LEMMA LeaveType ==
  ASSUME TypeOK, Owner, NEW p \in Procs, Leave(p)
  PROVE  /\ pc' \in [Procs -> {"idle", "lock"} \cup Locked] /\ job' \in [Procs -> JobType]
         /\ holder' \in Procs \cup {NoProc}
         /\ \A q \in Procs : pc'[q] \in Locked <=> holder' = q
BY NoJobType, VersionAssumption DEF Leave, TypeOK, Owner, Locked

\* Every step keeps the types, and at most one updater, the holder of the lock, at work.
LEMMA TypeStep ==
  ASSUME TypeOK, Owner, JobsOK, Next
  PROVE  TypeOK' /\ Owner'
<1> USE VersionAssumption DEF TypeOK, Owner, At, Goto, Fault, files
<1>1. ASSUME NEW p \in Procs, NEW restart \in BOOLEAN, Begin(p, restart)
      PROVE  TypeOK' /\ Owner'
  <2>1. job' \in [Procs -> JobType]
    BY <1>1, NoJobType DEF Begin, NoJob, JobType, Versions
  <2> QED BY <1>1, <2>1 DEF Begin, Locked
<1>2. ASSUME NEW p \in Procs, NEW restart \in BOOLEAN, BeginRollback(p, restart)
      PROVE  TypeOK' /\ Owner'
  <2>1. job' \in [Procs -> JobType]
    BY <1>2, NoJobType DEF BeginRollback, NoJob, JobType, Versions
  <2> QED BY <1>2, <2>1 DEF BeginRollback, Locked
<1>3. ASSUME NEW p \in Procs, NEW bytes \in Versions \cup {Corrupt}, Download(p, bytes)
      PROVE  TypeOK' /\ Owner'
  <2>1. CASE Leave(p)
    BY <1>3, <2>1, LeaveType DEF Download, Versions
  <2>2. CASE ~Leave(p)
    <3>1. job' \in [Procs -> JobType]
      BY <1>3, <2>2 DEF Download, Accepted, JobType
    <3> QED BY <1>3, <2>2, <3>1 DEF Download, Locked
  <2> QED BY <2>1, <2>2
<1>4. ASSUME NEW p \in Procs, TakeLock(p) PROVE TypeOK' /\ Owner'
  BY <1>4 DEF TakeLock, Locked, Versions, Free
<1>5. ASSUME NEW p \in Procs, Busy(p) PROVE TypeOK' /\ Owner'
  BY <1>5, LeaveType DEF Busy, Locked, Versions
<1>6. ASSUME NEW p \in Procs, Recheck(p) PROVE TypeOK' /\ Owner'
  BY <1>6, LeaveType DEF Recheck, Locked, Versions
<1>7. ASSUME NEW p \in Procs, VerifyBackup(p) PROVE TypeOK' /\ Owner'
  <2>1. CASE Leave(p)
    BY <1>7, <2>1, LeaveType DEF VerifyBackup, Versions
  <2>2. CASE ~Leave(p)
    <3>1. job' \in [Procs -> JobType]
      BY <1>7, <2>2 DEF VerifyBackup, JobType
    <3> QED BY <1>7, <2>2, <3>1 DEF VerifyBackup, Locked
  <2> QED BY <2>1, <2>2
<1>8. ASSUME NEW p \in Procs, GiveUp(p) PROVE TypeOK' /\ Owner'
  BY <1>8, LeaveType DEF GiveUp, Locked, Versions
<1>9. ASSUME NEW p \in Procs, Backup(p) PROVE TypeOK' /\ Owner'
  <2>1. job' \in [Procs -> JobType]
    BY <1>9, NoJobType DEF Backup, JobType
  <2> QED BY <1>9, <2>1 DEF Backup, Locked
<1>10. ASSUME NEW p \in Procs, WriteReceipt(p) PROVE TypeOK' /\ Owner'
  BY <1>10 DEF WriteReceipt, Locked, Versions, ReceiptOf, JobType
<1>11. ASSUME NEW p \in Procs, Rename(p) PROVE TypeOK' /\ Owner'
  BY <1>11, LeaveType DEF Rename, Locked, Versions, JobsOK, JobOK, Before
<1>12. ASSUME NEW p \in Procs, RenameFails(p) PROVE TypeOK' /\ Owner'
  BY <1>12, LeaveType DEF RenameFails, Locked, Versions, Boot
<1>13. ASSUME NEW p \in Procs, Restore(p) PROVE TypeOK' /\ Owner'
  BY <1>13 DEF Restore, Locked, Versions, JobsOK, JobOK, Replacing
<1>14. ASSUME NEW p \in Procs, RestoreFails(p) PROVE TypeOK' /\ Owner'
  BY <1>14, LeaveType DEF RestoreFails, Locked, Versions
<1>15. ASSUME NEW p \in Procs, CheckService(p) PROVE TypeOK' /\ Owner'
  BY <1>15, LeaveType DEF CheckService, Locked, Versions
<1>16. ASSUME NEW p \in Procs, StopService(p) PROVE TypeOK' /\ Owner'
  BY <1>16 DEF StopService, Locked, Versions
<1>17. ASSUME NEW p \in Procs, StopFails(p) PROVE TypeOK' /\ Owner'
  BY <1>17, LeaveType DEF StopFails, Locked, Versions
<1>18. ASSUME NEW p \in Procs, StartService(p) PROVE TypeOK' /\ Owner'
  BY <1>18 DEF StartService, Locked, Versions, Boot
<1>19. ASSUME NEW p \in Procs, StartFails(p) PROVE TypeOK' /\ Owner'
  BY <1>19 DEF StartFails, Locked, Versions, Boot
<1>20. ASSUME NEW p \in Procs, Healthy(p) PROVE TypeOK' /\ Owner'
  BY <1>20, LeaveType DEF Healthy, Locked, Versions
<1>21. ASSUME NEW p \in Procs, Unhealthy(p) PROVE TypeOK' /\ Owner'
  BY <1>21 DEF Unhealthy, Locked, Versions
<1>22. ASSUME NEW p \in Procs, RecoverStop(p) PROVE TypeOK' /\ Owner'
  BY <1>22 DEF RecoverStop, Locked, Versions
<1>23. ASSUME NEW p \in Procs, Restart(p) PROVE TypeOK' /\ Owner'
  BY <1>23, LeaveType DEF Restart, Locked, Versions, Boot
<1>24. ASSUME NEW p \in Procs, Kill(p) PROVE TypeOK' /\ Owner'
  BY <1>24, LeaveType DEF Kill, Locked, Versions
<1>25. ASSUME Publish PROVE TypeOK' /\ Owner'
  BY <1>25 DEF Publish, Locked, Versions
<1>26. ASSUME Reboot PROVE TypeOK' /\ Owner'
  BY <1>26 DEF Reboot, Locked, Versions, Boot, NoJob, JobType
<1> QED BY <1>1, <1>2, <1>3, <1>4, <1>5, <1>6, <1>7, <1>8, <1>9, <1>10, <1>11, <1>12,
         <1>13, <1>14, <1>15, <1>16, <1>17, <1>18, <1>19, <1>20, <1>21, <1>22, <1>23,
         <1>24, <1>25, <1>26
         DEF Next, Step, Check, Write, Manage

-----------------------------------------------------------------------------
\* The files, the jobs and the daemon.

\* Every step keeps the agreement between the jobs, the files and the daemon.
LEMMA SafeStep ==
  ASSUME IInv, Next
  PROVE  SafeInv'
<1> USE VersionAssumption
    DEF IInv, TypeOK, Owner, SafeInv, VerifiedOnly, JobsOK, JobOK, RollbackReady, Settled, RestOK,
        Locked, Looking, Before, Replacing, At, Goto, Leave, Fault, files
<1> DEFINE Safe == VerifiedOnly /\ JobsOK /\ RollbackReady
<1>1. ASSUME NEW p \in Procs, NEW restart \in BOOLEAN, Begin(p, restart)
      PROVE  SafeInv'
  <2>1. Safe'
    BY <1>1 DEF Begin, NoJob, JobType, Versions
  <2>2. Settled'
    BY <1>1 DEF Begin, NoJob, JobType
  <2> QED BY <2>1, <2>2
<1>2. ASSUME NEW p \in Procs, NEW restart \in BOOLEAN, BeginRollback(p, restart)
      PROVE  SafeInv'
  <2>1. Safe'
    BY <1>2 DEF BeginRollback, NoJob, JobType, Versions
  <2>2. Settled'
    BY <1>2 DEF BeginRollback, NoJob, JobType
  <2> QED BY <2>1, <2>2
<1>3. ASSUME NEW p \in Procs, NEW bytes \in Versions \cup {Corrupt}, Download(p, bytes)
      PROVE  SafeInv'
  <2>1. Safe'
    BY <1>3 DEF Download, JobType, Versions, Accepted
  <2>2. Settled'
    BY <1>3 DEF Download, JobType, Accepted
  <2> QED BY <2>1, <2>2
<1>4. ASSUME NEW p \in Procs, TakeLock(p) PROVE SafeInv'
  <2>1. Safe'
    BY <1>4 DEF TakeLock, JobType, Versions, Free
  <2>2. Settled'
    BY <1>4 DEF TakeLock, JobType, Free
  <2> QED BY <2>1, <2>2
<1>5. ASSUME NEW p \in Procs, Busy(p) PROVE SafeInv'
  <2>1. Safe'
    BY <1>5 DEF Busy, JobType, Versions
  <2>2. Settled'
    BY <1>5 DEF Busy, JobType
  <2> QED BY <2>1, <2>2
<1>6. ASSUME NEW p \in Procs, Recheck(p) PROVE SafeInv'
  <2>1. Safe'
    BY <1>6 DEF Recheck, JobType, Versions, StillNewer
  <2>2. Settled'
    BY <1>6 DEF Recheck, JobType, StillNewer
  <2> QED BY <2>1, <2>2
<1>7. ASSUME NEW p \in Procs, VerifyBackup(p) PROVE SafeInv'
  <2>1. CASE previous # None /\ previous = receipt
    <3>1. previous \in Versions \ Refused
      BY <2>1
    <3>2. job' = [job EXCEPT ![p].stage = previous, ![p].old = target]
      BY <1>7, <2>1 DEF VerifyBackup
    <3>3. Safe'
      BY <1>7, <2>1, <3>1, <3>2 DEF VerifyBackup, JobType
    <3>4. Settled'
      BY <1>7, <2>1 DEF VerifyBackup, JobType
    <3> QED BY <3>3, <3>4
  <2>2. CASE ~(previous # None /\ previous = receipt)
    <3>1. Safe'
      BY <1>7, <2>2 DEF VerifyBackup
    <3>2. Settled'
      BY <1>7, <2>2 DEF VerifyBackup
    <3> QED BY <3>1, <3>2
  <2> QED BY <2>1, <2>2
<1>8. ASSUME NEW p \in Procs, GiveUp(p) PROVE SafeInv'
  <2>1. Safe'
    BY <1>8 DEF GiveUp, JobType, Versions
  <2>2. Settled'
    BY <1>8 DEF GiveUp, JobType
  <2> QED BY <2>1, <2>2
<1>9. ASSUME NEW p \in Procs, Backup(p) PROVE SafeInv'
  <2>1. Safe'
    BY <1>9 DEF Backup, JobType, Versions
  <2>2. Settled'
    BY <1>9 DEF Backup, JobType
  <2> QED BY <2>1, <2>2
<1>10. ASSUME NEW p \in Procs, WriteReceipt(p) PROVE SafeInv'
  <2>1. Safe'
    BY <1>10 DEF WriteReceipt, JobType, Versions, ReceiptOf
  <2>2. Settled'
    BY <1>10 DEF WriteReceipt, JobType, ReceiptOf
  <2> QED BY <2>1, <2>2
<1>11. ASSUME NEW p \in Procs, Rename(p) PROVE SafeInv'
  <2>1. Safe'
    BY <1>11 DEF Rename, JobType, Versions
  <2>2. Settled'
    BY <1>11 DEF Rename, JobType
  <2> QED BY <2>1, <2>2
<1>12. ASSUME NEW p \in Procs, RenameFails(p) PROVE SafeInv'
  <2>1. Safe'
    BY <1>12 DEF RenameFails, JobType, Versions, Boot
  <2>2. Settled'
    BY <1>12 DEF RenameFails, JobType, Boot
  <2> QED BY <2>1, <2>2
<1>13. ASSUME NEW p \in Procs, Restore(p) PROVE SafeInv'
  <2>1. Safe'
    BY <1>13 DEF Restore, JobType, Versions
  <2>2. Settled'
    BY <1>13 DEF Restore, JobType
  <2> QED BY <2>1, <2>2
<1>14. ASSUME NEW p \in Procs, RestoreFails(p) PROVE SafeInv'
  <2>1. Safe'
    BY <1>14 DEF RestoreFails, JobType, Versions
  <2>2. Settled'
    BY <1>14 DEF RestoreFails, JobType
  <2> QED BY <2>1, <2>2
<1>15. ASSUME NEW p \in Procs, CheckService(p) PROVE SafeInv'
  <2>1. Safe'
    BY <1>15 DEF CheckService, JobType, Versions
  <2>2. Settled'
    BY <1>15 DEF CheckService, JobType
  <2> QED BY <2>1, <2>2
<1>16. ASSUME NEW p \in Procs, StopService(p) PROVE SafeInv'
  <2>1. Safe'
    BY <1>16 DEF StopService, JobType, Versions
  <2>2. Settled'
    BY <1>16 DEF StopService, JobType
  <2> QED BY <2>1, <2>2
<1>17. ASSUME NEW p \in Procs, StopFails(p) PROVE SafeInv'
  <2>1. Safe'
    BY <1>17 DEF StopFails, JobType, Versions
  <2>2. Settled'
    BY <1>17 DEF StopFails, JobType
  <2> QED BY <2>1, <2>2
<1>18. ASSUME NEW p \in Procs, StartService(p) PROVE SafeInv'
  <2>1. Safe'
    BY <1>18 DEF StartService, JobType, Versions, Boot
  <2>2. Settled'
    BY <1>18 DEF StartService, JobType, Boot
  <2> QED BY <2>1, <2>2
<1>19. ASSUME NEW p \in Procs, StartFails(p) PROVE SafeInv'
  <2>1. Safe'
    BY <1>19 DEF StartFails, JobType, Versions, Boot
  <2>2. Settled'
    BY <1>19 DEF StartFails, JobType, Boot
  <2> QED BY <2>1, <2>2
<1>20. ASSUME NEW p \in Procs, Healthy(p) PROVE SafeInv'
  <2>1. Safe'
    BY <1>20 DEF Healthy, JobType, Versions, Boot
  <2>2. Settled'
    BY <1>20 DEF Healthy, JobType, Boot
  <2> QED BY <2>1, <2>2
<1>21. ASSUME NEW p \in Procs, Unhealthy(p) PROVE SafeInv'
  <2>1. Safe'
    BY <1>21 DEF Unhealthy, JobType, Versions, Boot
  <2>2. Settled'
    BY <1>21 DEF Unhealthy, JobType, Boot
  <2> QED BY <2>1, <2>2
<1>22. ASSUME NEW p \in Procs, RecoverStop(p) PROVE SafeInv'
  <2>1. Safe'
    BY <1>22 DEF RecoverStop, JobType, Versions
  <2>2. Settled'
    BY <1>22 DEF RecoverStop, JobType
  <2> QED BY <2>1, <2>2
<1>23. ASSUME NEW p \in Procs, Restart(p) PROVE SafeInv'
  <2>1. Safe'
    BY <1>23 DEF Restart, JobType, Versions, Boot
  <2>2. Settled'
    BY <1>23 DEF Restart, JobType, Boot
  <2> QED BY <2>1, <2>2
<1>24. ASSUME NEW p \in Procs, Kill(p) PROVE SafeInv'
  <2>1. Safe'
    BY <1>24 DEF Kill, JobType, Versions
  <2>2. Settled'
    BY <1>24 DEF Kill, JobType
  <2> QED BY <2>1, <2>2
<1>25. ASSUME Publish PROVE SafeInv'
  <2>1. Safe'
    BY <1>25 DEF Publish, JobType, Versions
  <2>2. Settled'
    BY <1>25 DEF Publish, JobType
  <2> QED BY <2>1, <2>2
<1>26. ASSUME Reboot PROVE SafeInv'
  <2>1. Safe'
    BY <1>26 DEF Reboot, JobType, Versions, Boot, NoJob
  <2>2. Settled'
    BY <1>26 DEF Reboot, JobType, Boot, NoJob
  <2> QED BY <2>1, <2>2
<1> QED BY <1>1, <1>2, <1>3, <1>4, <1>5, <1>6, <1>7, <1>8, <1>9, <1>10, <1>11, <1>12,
         <1>13, <1>14, <1>15, <1>16, <1>17, <1>18, <1>19, <1>20, <1>21, <1>22, <1>23,
         <1>24, <1>25, <1>26
         DEF Next, Step, Check, Write, Manage

-----------------------------------------------------------------------------
\* The theorems.

\* The invariant holds in every reachable state.
THEOREM InductiveInvariant == Spec => []IInv
<1>1. Init => IInv
  <2> SUFFICES ASSUME Init PROVE IInv
    OBVIOUS
  <2>1. TypeOK /\ Owner
    <3>1. 1 \in Versions
      BY VersionAssumption DEF Versions
    <3>2. Owner
      BY VersionAssumption DEF Init, Owner
    <3>3. TypeOK
      BY <3>1, NoJobType DEF Init, TypeOK, Locked
    <3> QED BY <3>2, <3>3
  <2>2. VerifiedOnly
    BY VersionAssumption DEF Init, VerifiedOnly, Versions
  <2>3. JobsOK /\ RollbackReady
    BY DEF Init, JobsOK, JobOK, RollbackReady, Looking, Before, Replacing
  <2>4. Settled
    BY VersionAssumption DEF Init, Settled, RestOK, Looking, Before, Replacing
  <2> QED BY <2>1, <2>2, <2>3, <2>4 DEF IInv, SafeInv
<1>2. IInv /\ [Next]_vars => IInv'
  <2>1. CASE Next
    BY <2>1, TypeStep, SafeStep DEF IInv, SafeInv
  <2>2. CASE UNCHANGED vars
    BY <2>2 DEF vars, files, IInv, TypeOK, Owner, SafeInv, VerifiedOnly, JobsOK, JobOK,
                RollbackReady, Settled, RestOK, Boot
  <2> QED BY <2>1, <2>2
<1> QED BY <1>1, <1>2, PTL DEF Spec

\* Every state is well typed, and two updaters never work at once.
THEOREM TypeCorrect == Spec => []TypeOK
<1>1. IInv => TypeOK
  BY DEF IInv
<1> QED BY <1>1, InductiveInvariant, PTL

\* The executable, its backup and the daemon are always verified releases that accept the
\* configuration, however many updaters run, fail or are killed (internal/update: install).
THEOREM VerifiedOnlyHolds == Spec => []VerifiedOnly
<1>1. IInv => VerifiedOnly
  BY DEF IInv, SafeInv
<1> QED BY <1>1, InductiveInvariant, PTL

\* Whenever an update is about to replace the executable or has done so, the backup and the
\* receipt of what it replaced are in place (internal/update: Run writes them first).
THEOREM RollbackReadyHolds == Spec => []RollbackReady
<1>1. IInv => RollbackReady
  BY DEF IInv, SafeInv
<1> QED BY <1>1, InductiveInvariant, PTL

\* Without a failed command or an update without restart, the daemon runs the installed
\* executable whenever no updater is at work: a bad release has been withdrawn.
THEOREM AtRestHolds == Spec => []AtRest
<1>1. IInv => AtRest
  BY DEF IInv, SafeInv, Settled, AtRest
<1> QED BY <1>1, InductiveInvariant, PTL

\* Only a rollback or the recovery of a failed update installs an older version.
THEOREM NoDowngradeHolds == Spec => NoDowngrade
<1> DEFINE Down == target' < target => \E p \in Procs : job[p].rollback \/ At(p, "restore")
<1>1. IInv /\ [Next]_vars => Down
  <2> SUFFICES ASSUME IInv, [Next]_vars, target' # target PROVE Down
    BY DEF IInv, TypeOK, Versions
  <2>1. \E p \in Procs : Rename(p) \/ Restore(p)
    BY DEF Next, Step, Check, Write, Manage, Begin, BeginRollback, TakeLock, Busy, Recheck,
           Download, VerifyBackup, GiveUp, Backup, WriteReceipt, RenameFails, RestoreFails,
           CheckService, StopService, StopFails, StartService, StartFails, Healthy, Unhealthy,
           RecoverStop, Restart, Publish, Kill, Reboot, vars, files
  <2>2. PICK p \in Procs : Rename(p) \/ Restore(p)
    BY <2>1
  <2>3. CASE Restore(p)
    BY <2>3 DEF Restore
  <2>4. CASE Rename(p) /\ ~job[p].rollback
    <3>1. target' = job[p].tag /\ job[p].tag > target
      BY <2>4 DEF Rename, At, IInv, SafeInv, JobsOK, JobOK, Before
    <3>2. target \in Int /\ target' \in Int
      BY <3>1, <2>4 DEF IInv, TypeOK, JobType, Versions
    <3> QED BY <3>1, <3>2
  <2> QED BY <2>2, <2>3, <2>4
<1> QED BY <1>1, InductiveInvariant, PTL DEF Spec, NoDowngrade
=============================================================================
