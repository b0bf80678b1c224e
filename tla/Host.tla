-------------------------------- MODULE Host --------------------------------
(* The models that share no variable with another, side by side: the        *)
(* commands on the files and processes of a host, the mail channel, the     *)
(* texts of alerts and the loading of a configuration.  A behaviour is one  *)
(* of one of them, while the others stay as they are at first: what is true *)
(* of a part depends on nothing the others do.                              *)
EXTENDS Naturals

\* The constants of the parts, by the letter of the part.
CONSTANTS
    C_Procs, C_IPs, C_Others, C_DefaultOther,
    H_SecureProcs, H_KeepProcs, H_Body, H_Begin, H_End, H_Edits, H_Invalid, H_Originals, H_Crews,
    R_Scans, R_NoScan, R_Keep, R_MaxTries,
    P_MaxPid, P_Names, P_Payloads, P_Suspicious, P_DirectKill,
    M_Recipients, M_Presets, M_PresetHost, M_Hosts, M_NoHost, M_Ports, M_ImplicitTLS, M_MaxFaults,
    A_MaxFaults,
    T_MaxItems, T_TextLimit, T_DetailLimit,
    L_Files, L_Spelled, L_Alike, L_Locations,
    Absent, Torn, Nothing, Empty, Garbled  \* what is in place of a text, whichever the part

VARIABLES
    part,  \* the part this behaviour is one of
    c_config, c_backup, c_pc, c_job, c_asked,
    h_main, h_tmp, h_backup, h_dropin, h_sshd, h_pc, h_job,
    r_order, r_file, r_pc, r_job, r_kills,
    p_proc, p_mode, p_kill, p_pc, p_pid, p_seen, p_fresh, p_signals,
    m_cfg, m_host, m_port, m_pc, m_secure, m_accepted, m_copies, m_exposed, m_state, m_faults,
    a_platform, a_file, a_loaded, a_boot, a_on, a_op, a_report, a_clean, a_faults,
    t_dryRun, t_batching, t_batch, t_last,
    l_file, l_pc, l_cfg, l_i, l_left

C == INSTANCE ConfigStore WITH
    Procs <- C_Procs, IPs <- C_IPs, Others <- C_Others, DefaultOther <- C_DefaultOther,
    Absent <- Absent, Torn <- Torn, None <- Nothing,
    config <- c_config, backup <- c_backup, pc <- c_pc, job <- c_job,
    asked <- c_asked

H == INSTANCE Hardening WITH
    SecureProcs <- H_SecureProcs, KeepProcs <- H_KeepProcs, Body <- H_Body,
    Begin <- H_Begin, End <- H_End, Edits <- H_Edits, Invalid <- H_Invalid,
    Originals <- H_Originals, Absent <- Absent, Empty <- Empty, Garbled <- Garbled, Crews <- H_Crews,
    main <- h_main, tmp <- h_tmp, backup <- h_backup, dropin <- h_dropin, sshd <- h_sshd,
    pc <- h_pc, job <- h_job

R == INSTANCE ReportStore WITH
    Scans <- R_Scans, NoScan <- R_NoScan, Keep <- R_Keep, MaxTries <- R_MaxTries,
    order <- r_order, file <- r_file, pc <- r_pc, job <- r_job, kills <- r_kills

P == INSTANCE ProcessScan WITH
    MaxPid <- P_MaxPid, Names <- P_Names, Payloads <- P_Payloads,
    Suspicious <- P_Suspicious, DirectKill <- P_DirectKill,
    proc <- p_proc, mode <- p_mode, kill <- p_kill, pc <- p_pc, pid <- p_pid, seen <- p_seen,
    fresh <- p_fresh, signals <- p_signals

M == INSTANCE MailDelivery WITH
    Recipients <- M_Recipients, Presets <- M_Presets,
    PresetHost <- M_PresetHost, Hosts <- M_Hosts, NoHost <- M_NoHost,
    Ports <- M_Ports, ImplicitTLS <- M_ImplicitTLS, MaxFaults <- M_MaxFaults,
    cfg <- m_cfg, host <- m_host, port <- m_port, pc <- m_pc, secure <- m_secure,
    accepted <- m_accepted, copies <- m_copies, exposed <- m_exposed, state <- m_state,
    faults <- m_faults

A == INSTANCE Autostart WITH
    MaxFaults <- A_MaxFaults,
    platform <- a_platform, file <- a_file, loaded <- a_loaded, boot <- a_boot, on <- a_on,
    op <- a_op, report <- a_report, clean <- a_clean, faults <- a_faults

T == INSTANCE AlertContent WITH
    MaxItems <- T_MaxItems, TextLimit <- T_TextLimit, DetailLimit <- T_DetailLimit,
    dryRun <- t_dryRun, batching <- t_batching, batch <- t_batch, last <- t_last

L == INSTANCE ConfigLoad WITH
    Absent <- Absent, Files <- L_Files, Spelled <- L_Spelled, Alike <- L_Alike, Locations <- L_Locations,
    file <- l_file, pc <- l_pc, cfg <- l_cfg, i <- l_i, left <- l_left

ASSUME HostAssumption ==
    /\ C!ConfigAssumption
    /\ H!HardeningAssumption
    /\ R!ReportAssumption
    /\ P!ScanAssumption
    /\ M!MailAssumption
    /\ A!AutostartAssumption
    /\ T!AlertAssumption
    /\ L!ConfigAssumption

c_vars == <<c_config, c_backup, c_pc, c_job, c_asked>>
h_vars == <<h_main, h_tmp, h_backup, h_dropin, h_sshd, h_pc, h_job>>
r_vars == <<r_order, r_file, r_pc, r_job, r_kills>>
p_vars == <<p_proc, p_mode, p_kill, p_pc, p_pid, p_seen, p_fresh, p_signals>>
m_vars == <<m_cfg, m_host, m_port, m_pc, m_secure, m_accepted, m_copies, m_exposed, m_state, m_faults>>
a_vars == <<a_platform, a_file, a_loaded, a_boot, a_on, a_op, a_report, a_clean, a_faults>>
t_vars == <<t_dryRun, t_batching, t_batch, t_last>>
l_vars == <<l_file, l_pc, l_cfg, l_i, l_left>>
all    == <<part, c_vars, h_vars, r_vars, p_vars, m_vars, a_vars, t_vars, l_vars>>

OnlyC == part = "config" /\ UNCHANGED <<part, h_vars, r_vars, p_vars, m_vars, a_vars, t_vars, l_vars>>
OnlyH == part = "sshd" /\ UNCHANGED <<part, c_vars, r_vars, p_vars, m_vars, a_vars, t_vars, l_vars>>
OnlyR == part = "reports" /\ UNCHANGED <<part, c_vars, h_vars, p_vars, m_vars, a_vars, t_vars, l_vars>>
OnlyP == part = "processes" /\ UNCHANGED <<part, c_vars, h_vars, r_vars, m_vars, a_vars, t_vars, l_vars>>
OnlyM == part = "mail" /\ UNCHANGED <<part, c_vars, h_vars, r_vars, p_vars, a_vars, t_vars, l_vars>>
OnlyA == part = "autostart" /\ UNCHANGED <<part, c_vars, h_vars, r_vars, p_vars, m_vars, t_vars, l_vars>>
OnlyT == part = "texts" /\ UNCHANGED <<part, c_vars, h_vars, r_vars, p_vars, m_vars, a_vars, l_vars>>
OnlyL == part = "load" /\ UNCHANGED <<part, c_vars, h_vars, r_vars, p_vars, m_vars, a_vars, t_vars>>

\* What a part that stays as it is has at first.
FirstSettings == CHOOSE c \in M!Settings : TRUE
FirstFile     == CHOOSE f \in L_Files : TRUE

HostInit ==
    /\ part \in {"config", "sshd", "reports", "processes", "mail", "autostart", "texts", "load"}
    /\ C!Init /\ (part # "config" => c_config = Absent)
    /\ H!Init
    /\ R!Init
    /\ P!Init /\ (part # "processes" => \A n \in DOMAIN p_proc : p_proc[n] = P!Gone)
    /\ M!Init /\ (part # "mail" => m_cfg = FirstSettings)
    /\ A!Init /\ (part # "autostart" => a_platform = "linux")
    /\ T!Init /\ (part # "texts" => ~t_dryRun /\ ~t_batching)
    /\ L!Init /\ (part # "load" => l_file = FirstFile)

\* A message is sent, a configuration loaded: nothing comes after; the other parts are never stuck.
Rest == part \in {"mail", "load"} /\ UNCHANGED all

HostNext ==
    \/ OnlyC /\ C!Next
    \/ OnlyH /\ H!Next
    \/ OnlyR /\ R!Next
    \/ OnlyP /\ P!Next
    \/ OnlyM /\ M!Next
    \/ OnlyA /\ A!Next
    \/ OnlyT /\ T!Next
    \/ OnlyL /\ L!Next
    \/ Rest

HostSpec == HostInit /\ [][HostNext]_all

-----------------------------------------------------------------------------
\* The properties of the parts; what each conjunct says of the code is told in its module.

\* Every part is of its type.
HostTypeOK ==
    CASE part = "config" -> C!TypeOK
      [] part = "sshd" -> H!TypeOK
      [] part = "reports" -> R!TypeOK
      [] part = "processes" -> P!TypeOK
      [] part = "mail" -> M!TypeOK
      [] part = "autostart" -> A!TypeOK
      [] part = "texts" -> T!TypeOK
      [] part = "load" -> L!TypeOK

\* Whatever commands rewrite the configuration, overlapping, killed and torn: the daemon bans for
\* real only when somebody has asked for it (runEnableProduction).
ProductionOnRequest == part = "config" => C!ProductionOnRequest

\* whitelist, enable-production, safe-ssh, init-config: a command that runs alone changes its own
\* settings only, and safe-ssh leaves the original in the file or in the backup wherever it stops.
ConfigKept == C!ChangesItsPartOnly /\ C!OriginalKept

\* secure-ssh and keepalive: one managed block, between the operator's lines, with a backup; a
\* command that runs alone never reloads sshd onto files that sshd -t rejects.
SshdKept == []H!BlockSettles /\ H!OwnLinesStay /\ H!SshdStaysUp

\* WriteReport and PruneReports: no report is overwritten, the newest stay, and scans that all
\* finished leave no more than report_keep.
ReportsKept == []R!Bounded /\ R!NothingOverwritten /\ R!NewestStay

\* scanProcesses: only a payload that has not changed since the last look is terminated, and by
\* a manual scan only.
ProcessesSpared == part = "processes" => P!SparesOthers /\ P!AuditReadOnly

\* sendEmailContext: no password without TLS; all recipients or none; no copy beyond one for each
\* lost answer; no configured value replaced.
MailKept == part = "mail" => M!PasswordUnderTLS /\ M!AllOrNone /\ M!SentOnce /\ M!KeepsSettings

\* Enable, Disable, Schedule: what was enabled runs and comes back, what was left half done can be
\* enabled again, updates that were disabled stay off.
AutostartKept == part = "autostart" => A!OnStays /\ A!EnableRepairs /\ A!UpdatesStayOff

\* Batches, audits and their texts: a simulated ban is never announced as a real one, every text
\* fits its channel, and none is cut in silence.
AlertsTrue == part = "texts" => T!BannedIsReal /\ T!TextsFit /\ T!CutsShow

\* Load and Normalize: state and queue are two files, rules are told apart and have thresholds,
\* none inherits from the default rule, and overlapping regions give the most forgiving threshold.
LoadedAsMeant == part = "load" => L!FilesApart /\ L!RulesApart /\ L!EntriesStandAlone /\ L!MostForgiving
=============================================================================
