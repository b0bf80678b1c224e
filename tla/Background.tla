----------------------------- MODULE Background -----------------------------
(* What goes on beside the cycle, next to one another: the updaters, and   *)
(* the worker that empties the notification queue.  They share no          *)
(* variable.  A behaviour is one of one of them, while the other stays as  *)
(* it is at first: what is true of a part depends on nothing the other     *)
(* does.                                                                   *)
EXTENDS Updater

\* The constants of the queue; those of the updaters are Updater's own.
CONSTANTS
    Q_Channels, Q_Setups, Q_Cap, Q_MaxItems, Q_Interval, Q_Lifetime, Q_Hour, Q_RetryAfters,
    Q_MaxEvents, Q_MaxTime, Q_LastEvent, Q_MaxFaults

VARIABLES
    part,  \* the part this behaviour is one of
    q_clock, q_up, q_once, q_enabled, q_queue, q_disk, q_pc, q_snap, q_results,
    q_got, q_put, q_kept, q_given, q_faults

Q == INSTANCE NotifyQueue WITH
    Channels <- Q_Channels, Setups <- Q_Setups, Cap <- Q_Cap, MaxItems <- Q_MaxItems,
    Interval <- Q_Interval, Lifetime <- Q_Lifetime, Hour <- Q_Hour, RetryAfters <- Q_RetryAfters,
    MaxEvents <- Q_MaxEvents, MaxTime <- Q_MaxTime, LastEvent <- Q_LastEvent, MaxFaults <- Q_MaxFaults,
    clock <- q_clock, up <- q_up, once <- q_once, enabled <- q_enabled, queue <- q_queue, disk <- q_disk,
    pc <- q_pc, snap <- q_snap, results <- q_results, got <- q_got, put <- q_put, kept <- q_kept,
    given <- q_given, faults <- q_faults

q_vars == <<q_clock, q_up, q_once, q_enabled, q_queue, q_disk, q_pc, q_snap, q_results,
            q_got, q_put, q_kept, q_given, q_faults>>
all    == <<part, vars, q_vars>>

BackInit ==
    /\ part \in {"updaters", "queue"}
    /\ Init
    /\ Q!Init /\ (part # "queue" => q_enabled = (CHOOSE s \in Q_Setups : TRUE))

InUpdaters == part = "updaters" /\ UNCHANGED <<part, q_vars>>
InQueue    == part = "queue" /\ UNCHANGED <<part, vars>>

\* The clock of the queue ends; the updaters are never stuck.
Rest == part = "queue" /\ UNCHANGED all

BackNext == (InUpdaters /\ Next) \/ (InQueue /\ Q!Next) \/ Rest

\* The fairness of each part, for the behaviours that are of it.
BackSpec ==
    /\ BackInit /\ [][BackNext]_all
    /\ \A p \in Procs : WF_all(InUpdaters /\ Step(p))
    /\ WF_all(InQueue /\ Q!Flush) /\ WF_all(InQueue /\ Q!Finish) /\ WF_all(InQueue /\ Q!Tick)

-----------------------------------------------------------------------------
\* The properties of the updaters are Updater's own; what this one says is told in NotifyQueue.

\* A process that stays up gets rid of every event: delivered, or given up after a day.
Drains == Q!Drains
=============================================================================
