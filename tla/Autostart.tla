------------------------------ MODULE Autostart -----------------------------
(***************************************************************************)
(* Starting at boot (internal/autostart/autostart.go: Enable, Disable;     *)
(* internal/update/schedule.go: Schedule).  Each command is a script of    *)
(* steps against systemd, launchd or the Windows task scheduler; a step    *)
(* whose error is dropped does not stop the script.  Any step may fail, in *)
(* part, the command may be killed between two steps, and the host may     *)
(* reboot.  What the service managers do is external.  A unit that is on   *)
(* is one they were told to run and start again when it exits (Restart,    *)
(* KeepAlive); that its process stays up is not said.  On Linux the file   *)
(* of the updates is the timer's: its service is written before it, starts *)
(* nothing alone, and is removed once the timer is disabled.               *)
(***************************************************************************)
EXTENDS Integers, Sequences

CONSTANTS MaxFaults  \* bound: failing steps, kills

AutostartAssumption == MaxFaults \in Nat

Platforms == {"linux", "darwin", "windows"}
Units     == {"daemon", "update"}  \* the service, and the daily update

VARIABLES
    platform,
    file,     \* the units whose file, or task, is installed
    loaded,   \* the units the service manager knows
    boot,     \* the units it starts at boot
    on,       \* the units the service manager runs, or whose timer does
    op,       \* the command at work: its unit, its action, the step it is at
    report,   \* what the last command on a unit said, and whether no fault befell it
    clean,    \* has no fault befallen the command at work?
    faults

units == <<file, loaded, boot, on>>
vars  == <<platform, units, op, report, clean, faults>>

NoOp     == [unit |-> "none", action |-> "none", at |-> 0]
NoReport == [by |-> "none", said |-> "none", clean |-> TRUE]

-----------------------------------------------------------------------------
\* The scripts: a step, and whether its failure ends the command.

\* Mutant: no error is dropped.
IgnoreNot(c)   == [cmd |-> c, must |-> TRUE]
Must(c)   == [cmd |-> c, must |-> TRUE]
Ignore(c) == [cmd |-> c, must |-> FALSE]

\* Enable and Disable of autostart.go.
DaemonScript(p, action) ==
    CASE p = "linux" /\ action = "enable"    -> <<Must("write"), Must("reload"), Must("enable --now")>>
      [] p = "darwin" /\ action = "enable"   -> <<Must("write"), Ignore("bootout"), Must("bootstrap"), Must("kickstart")>>
      [] p = "windows" /\ action = "enable"  -> <<Must("create"), Must("run")>>
      [] p = "linux" /\ action = "disable"   -> <<Ignore("disable --now"), Ignore("remove"), Must("reload")>>
      [] p = "darwin" /\ action = "disable"  -> <<Ignore("bootout"), Ignore("remove")>>
      [] p = "windows" /\ action = "disable" -> <<Ignore("end"), Must("delete")>>

\* Schedule of schedule.go.
UpdateScript(p, action) ==
    CASE p = "linux" /\ action = "enable"    -> <<Must("write"), Must("reload"), Must("enable --now")>>
      [] p = "darwin" /\ action = "enable"   -> <<Must("write"), Ignore("bootout"), Must("bootstrap")>>
      [] p = "windows" /\ action = "enable"  -> <<Must("create")>>
      [] p = "linux" /\ action = "disable"   -> <<Must("disable --now"), Ignore("remove"), Must("reload")>>
      [] p = "darwin" /\ action = "disable"  -> <<Must("bootout"), Must("remove")>>
      [] p = "windows" /\ action = "disable" -> <<Must("delete")>>

Script(u, action) == IF u = "daemon" THEN DaemonScript(platform, action) ELSE UpdateScript(platform, action)

-----------------------------------------------------------------------------
\* systemctl, launchctl and schtasks: what a step needs, and what it does when it succeeds.

Works(c, u) ==
    CASE c \in {"write", "reload", "create"}             -> TRUE
      [] c = "enable --now"                                -> u \in file /\ u \in loaded
      [] c \in {"disable --now", "remove", "run", "delete"} -> u \in file
      [] c \in {"bootout", "kickstart"}                  -> u \in loaded
      [] c = "bootstrap"                                 -> u \in file /\ u \notin loaded
      [] c = "end"                                       -> u \in on

Without(S, u) == S \ {u}
With(S, u)    == S \cup {u}

\* systemd starts a unit and enables its link; launchd starts what it loads, and loads at boot
\* what is in its directory; a task starts at boot, or is due each day, while it exists.
Does(c, u) ==
    /\ file' = CASE c \in {"write", "create"}  -> With(file, u)
                 [] c \in {"remove", "delete"} -> Without(file, u)
                 [] OTHER -> file
    /\ loaded' = CASE c = "bootstrap" -> With(loaded, u)
                   [] c = "bootout"   -> Without(loaded, u)
                   [] c = "reload"    -> IF u \in file THEN With(loaded, u) ELSE Without(loaded, u)
                   [] OTHER -> loaded
    /\ boot' = CASE c \in {"enable --now", "create"}    -> With(boot, u)
                 [] c \in {"disable --now", "delete"}   -> Without(boot, u)
                 [] c = "write" /\ platform = "darwin"  -> With(boot, u)
                 [] c = "remove" /\ platform = "darwin" -> Without(boot, u)
                 [] OTHER -> boot
    /\ on' = CASE c \in {"enable --now", "bootstrap", "kickstart", "run"} -> With(on, u)
               [] c \in {"disable --now", "bootout", "end"}               -> Without(on, u)
               [] c = "create" /\ u = "update" -> With(on, u)
               [] c = "delete" /\ u = "update" -> Without(on, u)
               [] OTHER -> on

\* A step that fails may have done half of its work: the link without the start or the stop,
\* or a start that was reported as failed.
DoesHalf(c, u) ==
    \/ UNCHANGED units
    \/ c = "enable --now" /\ boot' = With(boot, u) /\ UNCHANGED <<file, loaded, on>>
    \/ c = "disable --now" /\ boot' = Without(boot, u) /\ UNCHANGED <<file, loaded, on>>
    \/ c = "write" /\ file' = With(file, u) /\ UNCHANGED <<loaded, boot, on>>

-----------------------------------------------------------------------------
\* The commands install-autostart, uninstall-autostart, auto-update -enable and -disable.

Fault == faults < MaxFaults /\ faults' = faults + 1 /\ clean' = FALSE

Run(u, action) ==
    /\ op = NoOp
    /\ op' = [unit |-> u, action |-> action, at |-> 1]
    /\ report' = [report EXCEPT ![u] = NoReport] /\ clean' = TRUE
    /\ UNCHANGED <<platform, units, faults>>

Step == Script(op.unit, op.action)[op.at]

Returns(said) ==
    /\ op' = NoOp
    /\ report' = [report EXCEPT ![op.unit] = [by |-> op.action, said |-> said, clean |-> clean']]

Last == op.at = Len(Script(op.unit, op.action))

\* The next step, or the command ends: with the error of a step that must not fail, or well.
GoOn(failed) ==
    IF failed /\ Step.must THEN Returns("error")
    ELSE IF Last THEN Returns("ok")
    ELSE op' = [op EXCEPT !.at = @ + 1] /\ UNCHANGED report

StepDone ==
    /\ op # NoOp /\ Works(Step.cmd, op.unit)
    /\ UNCHANGED <<platform, clean, faults>>
    /\ Does(Step.cmd, op.unit) /\ GoOn(FALSE)

\* The step cannot be done in the state the host is in.
StepRefused ==
    /\ op # NoOp /\ ~Works(Step.cmd, op.unit)
    /\ UNCHANGED <<platform, units, clean, faults>>
    /\ GoOn(TRUE)

StepFails ==
    /\ op # NoOp /\ Fault
    /\ DoesHalf(Step.cmd, op.unit) /\ GoOn(TRUE)
    /\ UNCHANGED platform

Kill ==
    /\ op # NoOp /\ Fault
    /\ op' = NoOp
    /\ UNCHANGED <<platform, units, report>>

\* A link whose unit file is gone starts nothing.
AtBoot == boot \cap file

\* The host starts again, and with it what is started at boot.
Reboot ==
    /\ op = NoOp
    /\ on' = AtBoot
    /\ loaded' = CASE platform = "linux" -> file [] platform = "darwin" -> AtBoot [] OTHER -> loaded
    /\ UNCHANGED <<platform, file, boot, op, report, clean, faults>>

Init ==
    /\ platform \in Platforms
    /\ file = {} /\ loaded = {} /\ boot = {} /\ on = {}
    /\ op = NoOp /\ report = [u \in Units |-> NoReport] /\ clean = TRUE /\ faults = 0

Next ==
    \/ \E u \in Units, action \in {"enable", "disable"} : Run(u, action)
    \/ StepDone \/ StepRefused \/ StepFails \/ Kill \/ Reboot

Spec == Init /\ [][Next]_vars

-----------------------------------------------------------------------------
\* Properties.

\* A command is at one of its steps.
TypeOK ==
    /\ platform \in Platforms
    /\ file \subseteq Units /\ loaded \subseteq Units /\ boot \subseteq Units /\ on \subseteq Units
    /\ op = NoOp \/ (op.unit \in Units /\ op.action \in {"enable", "disable"}
                       /\ op.at \in DOMAIN Script(op.unit, op.action))
    /\ \A u \in Units : report[u] = NoReport \/
         report[u] \in [by : {"enable", "disable"}, said : {"ok", "error"}, clean : BOOLEAN]
    /\ clean \in BOOLEAN /\ faults \in 0..MaxFaults

Said(u, action, said) == report[u].by = action /\ report[u].said = said

\* What was enabled runs, and runs again after a reboot, whatever failed before, until another
\* command touches it.
OnStays == \A u \in Units : Said(u, "enable", "ok") => u \in on \cap AtBoot

\* A half-done command can be repaired: enabling again works, whatever an earlier command that
\* failed or was killed left behind.
EnableRepairs == \A u \in Units : report[u].by = "enable" /\ report[u].clean => report[u].said = "ok"

\* Updates that were disabled stay off, and no reboot brings them back.
Off(u) == u \notin on \cup AtBoot
UpdatesStayOff == Said("update", "disable", "ok") => Off("update")

=============================================================================
