----------------------------- MODULE HostProofs -----------------------------
(* Theorems about Host for every value of the constants of its parts,      *)
(* checked by TLAPS.                                                       *)
EXTENDS Host, Integers, Sequences, FiniteSets, FiniteSetTheorems, WellFoundedInduction, NaturalsInduction,
        TLAPS

\* What is proved of the configuration file, for the part of Host that is one.
CS == INSTANCE ConfigStoreProofs WITH
    Procs <- C_Procs, IPs <- C_IPs, Others <- C_Others, DefaultOther <- C_DefaultOther,
    Absent <- Absent, Torn <- Torn, None <- Nothing,
    config <- c_config, backup <- c_backup, pc <- c_pc, job <- c_job, asked <- c_asked

\* A step of the whole is one of one part, or none.
LEMMA StepsOfHost ==
  ASSUME [HostNext]_all
  PROVE  /\ C!Next \/ UNCHANGED c_vars
         /\ H!Next \/ UNCHANGED h_vars
         /\ R!Next \/ UNCHANGED r_vars
         /\ P!Next \/ UNCHANGED p_vars
         /\ M!Next \/ UNCHANGED m_vars
         /\ A!Next \/ UNCHANGED a_vars
         /\ T!Next \/ UNCHANGED t_vars
         /\ L!Next \/ UNCHANGED l_vars
BY DEF HostNext, OnlyC, OnlyH, OnlyR, OnlyP, OnlyM, OnlyA, OnlyT, OnlyL, Rest, all

-----------------------------------------------------------------------------
\* Numbers.

\* A set of numbers that is not empty has a least one.
LEMMA LeastExists ==
  ASSUME NEW S, S \subseteq Nat, S # {}
  PROVE  \E x \in S : \A y \in S : x <= y
<1> DEFINE Less == OpToRel(<, Nat)
<1>1. IsWellFoundedOn(Less, Nat)
  BY NatLessThanWellFounded
<1>2. \A a, b \in Nat : a < b => <<a, b>> \in Less
  BY DEF OpToRel
<1> HIDE DEF Less
<1>3. PICK x \in S : \A y \in S : ~ (<<y, x>> \in Less)
  BY <1>1, WFMin
<1>4. \A y \in S : x <= y
  <2> SUFFICES ASSUME NEW y \in S PROVE x <= y
    OBVIOUS
  <2>1. x \in Nat /\ y \in Nat /\ ~ (y < x)
    BY <1>2, <1>3
  <2> QED BY <2>1
<1> QED BY <1>4

\* The numbers of a function on 1..n, and zero, have a greatest one.
LEMMA GreatestExists ==
  ASSUME NEW n \in Nat, NEW f, \A i \in 1..n : f[i] \in Nat
  PROVE  \E m \in {f[i] : i \in 1..n} \cup {0} : \A i \in 1..n : f[i] <= m
<1> DEFINE Has(k) == \E m \in {f[i] : i \in 1..k} \cup {0} : \A i \in 1..k : f[i] <= m
           Lacks == {k \in 0..n : ~Has(k)}
<1>1. SUFFICES ASSUME Lacks # {} PROVE FALSE
  <2>1. n \in 0..n
    OBVIOUS
  <2> QED BY <1>1, <2>1
<1>2. Lacks \subseteq Nat
  OBVIOUS
<1>3. PICK k \in Lacks : \A l \in Lacks : k <= l
  <2> HIDE DEF Lacks
  <2> QED BY <1>1, <1>2, LeastExists
<1>4. k # 0
  <2>1. Has(0)
    OBVIOUS
  <2> QED BY <2>1
<1>5. k - 1 \in 0..n /\ ~(k <= k - 1) /\ k \in 1..n
  BY <1>4
<1>6. Has(k - 1)
  <2> HIDE DEF Has
  <2> QED BY <1>3, <1>5
<1>7. PICK m \in {f[i] : i \in 1..(k - 1)} \cup {0} : \A i \in 1..(k - 1) : f[i] <= m
  BY <1>6
<1>8. m \in Nat /\ f[k] \in Nat
  BY <1>5
<1>9. \A i \in 1..k : i = k \/ i \in 1..(k - 1)
  BY <1>5
<1>10. m \in {f[i] : i \in 1..k} \cup {0} /\ f[k] \in {f[i] : i \in 1..k} \cup {0}
  BY <1>5
<1>11. Has(k)
  <2>1. CASE f[k] <= m
    <3>1. \A i \in 1..k : f[i] <= m
      BY <1>7, <1>9, <2>1
    <3> QED BY <1>10, <3>1
  <2>2. CASE m <= f[k]
    <3>1. \A i \in 1..k : f[i] <= f[k]
      BY <1>5, <1>7, <1>8, <1>9, <2>2
    <3> QED BY <1>10, <3>1
  <2> QED BY <1>8, <2>1, <2>2
<1> QED BY <1>11

-----------------------------------------------------------------------------
\* The configuration file.

LEMMA ConfigIsStore == HostSpec => CS!Spec
<1>1. HostInit => CS!Init
  BY DEF HostInit, C!Init, CS!Init, C!NoJob, CS!NoJob
<1>2. [HostNext]_all => [CS!Next]_(CS!vars)
  <2>1. C!Next => CS!Next
    BY DEF C!Next, CS!Next, C!Step, CS!Step, C!Stop, CS!Stop, C!Begin, CS!Begin, C!Rename, CS!Rename,
       C!OpenBackup, CS!OpenBackup, C!WriteBackup, CS!WriteBackup, C!Open, CS!Open, C!Write, CS!Write,
       C!Commands, CS!Commands, C!Idle, CS!Idle, C!Leave, CS!Leave, C!NoJob, CS!NoJob, C!Out, CS!Out,
       C!Effect, CS!Effect, C!Default, CS!Default, C!AllIdleBut, CS!AllIdleBut, C!FirstStep, CS!FirstStep,
       C!Accepts, CS!Accepts, C!Parses, CS!Parses, C!Documents, CS!Documents
  <2>2. UNCHANGED c_vars => UNCHANGED CS!vars
    BY DEF c_vars, CS!vars
  <2> QED BY <2>1, <2>2, StepsOfHost
<1> QED BY <1>1, <1>2, PTL DEF HostSpec, CS!Spec

LEMMA StoreAssumption == CS!ConfigAssumption
BY HostAssumption DEF C!ConfigAssumption, CS!ConfigAssumption, C!Documents, CS!Documents

\* However many commands rewrite the configuration, overlapping, killed and torn: a daemon that starts
\* at any moment bans for real only when somebody has asked for it (runEnableProduction).
THEOREM ProductionOnRequestHolds == HostSpec => []ProductionOnRequest
<1>1. CS!ProductionOnRequest => ProductionOnRequest
  BY DEF CS!ProductionOnRequest, ProductionOnRequest, C!ProductionOnRequest, CS!Mode, C!Mode, CS!Parses, C!Parses,
     C!Documents, CS!Documents
<1>2. HostSpec => []CS!ProductionOnRequest
  BY ConfigIsStore, StoreAssumption, CS!ProductionOnRequestHolds, PTL
<1> QED BY <1>1, <1>2, PTL

\* A command that runs alone changes its own settings or nothing, whatever it is and wherever it is
\* killed, and safe-ssh keeps the original in the file or in the backup.
THEOREM ConfigKeptHolds == HostSpec => ConfigKept
<1> DEFINE
      Part == \A p \in C_Procs : C!Ends(p) /\ c_job[p].alone =>
                \/ c_config' = c_job[p].read
                \/ c_config' \in C!Documents /\ C!OnlyItsPart(c_job[p].cmd, c_job[p].read, c_config')
                \/ c_config' = Torn /\ c_job[p].cmd.name # "whitelist"
      PartOfStore == \A p \in C_Procs : CS!Ends(p) /\ c_job[p].alone =>
                \/ c_config' = c_job[p].read
                \/ c_config' \in CS!Documents /\ CS!OnlyItsPart(c_job[p].cmd, c_job[p].read, c_config')
                \/ c_config' = Torn /\ c_job[p].cmd.name # "whitelist"
      Kept == \A p \in C_Procs : C!Ends(p) /\ c_job[p].alone /\ c_job[p].cmd.name = "safe" =>
                c_config' = c_job[p].read \/ c_backup' = c_job[p].read
      KeptOfStore == \A p \in C_Procs : CS!Ends(p) /\ c_job[p].alone /\ c_job[p].cmd.name = "safe" =>
                c_config' = c_job[p].read \/ c_backup' = c_job[p].read
<1>1. [PartOfStore]_(CS!vars) => [Part]_(C!vars)
  BY DEF CS!Ends, C!Ends, CS!Documents, C!Documents, CS!OnlyItsPart, C!OnlyItsPart, CS!Default, C!Default,
     CS!vars, C!vars
<1>2. [KeptOfStore]_(CS!vars) => [Kept]_(C!vars)
  BY DEF CS!Ends, C!Ends, CS!vars, C!vars
<1>3. HostSpec => CS!ChangesItsPartOnly /\ CS!OriginalKept
  BY ConfigIsStore, StoreAssumption, CS!ChangesItsPartOnlyHolds, CS!OriginalKeptHolds
<1> QED BY <1>1, <1>2, <1>3, PTL DEF ConfigKept, C!ChangesItsPartOnly, C!OriginalKept, CS!ChangesItsPartOnly,
          CS!OriginalKept

-----------------------------------------------------------------------------
\* The scan of the processes.

\* What is about to be terminated was recognised as a payload, by a manual scan; if it has not changed
\* since its executable was read again, it is one.
Judged ==
    /\ p_proc \in [P!Pids -> P!Programs \cup {P!Gone}] /\ p_pid \in P!Pids
    /\ p_mode \in {"idle", "manual", "audit"} /\ (p_kill => p_mode # "audit")
    /\ p_pc \in {"recmd", "reexe", "kill"} => p_seen.exe \in P_Payloads
    /\ p_pc = "kill" => p_kill /\ (p_fresh => p_proc[p_pid].exe = p_seen.exe)

ScanInv == Judged /\ P!SparesOthers /\ P!AuditReadOnly

LEMMA FirstPid == 1 \in P!Pids
<1>1. P_MaxPid \in Nat /\ P_MaxPid # 0
  BY HostAssumption DEF P!ScanAssumption
<1> QED BY <1>1 DEF P!Pids

LEMMA ScanInvNext ==
  ASSUME ScanInv, P!Next \/ UNCHANGED p_vars PROVE ScanInv'
<1> USE DEF ScanInv
<1>0. 1 \in P!Pids
  BY FirstPid
<1>1. ASSUME P!NextProcess PROVE p_pid' \in P!Pids /\ p_mode' \in {p_mode, "idle"} /\ p_pc' \in {"cmdline", "start"}
  <2>1. P_MaxPid \in Nat
    BY HostAssumption DEF P!ScanAssumption
  <2> QED BY <1>1, <2>1 DEF P!NextProcess, P!Pids, Judged
<1>2. ASSUME NEW m \in {"manual", "audit"}, NEW flag \in BOOLEAN, P!Start(m, flag) PROVE ScanInv'
  <2>1. p_pid' \in P!Pids /\ p_mode' = m /\ p_pc' = "cmdline" /\ UNCHANGED <<p_proc, p_seen, p_fresh, p_signals>>
    BY <1>0, <1>2 DEF P!Start
  <2>2. p_kill' => p_mode' # "audit"
    BY <1>2 DEF P!Start, P!KillOption
  <2> QED BY <2>1, <2>2 DEF Judged, P!SparesOthers, P!AuditReadOnly
<1>3. ASSUME P!ReadCmdline \/ P!ReadExe PROVE ScanInv'
  BY <1>3 DEF P!ReadCmdline, P!ReadExe, Judged, P!SparesOthers, P!AuditReadOnly
<1>4. ASSUME P!Judge PROVE ScanInv'
  BY <1>1, <1>4 DEF P!Judge, P!Qualifies, Judged, P!SparesOthers, P!AuditReadOnly
<1>5. ASSUME P!RecheckCmdline PROVE ScanInv'
  BY <1>1, <1>5 DEF P!RecheckCmdline, Judged, P!SparesOthers, P!AuditReadOnly
<1>6. ASSUME P!RecheckExe PROVE ScanInv'
  BY <1>1, <1>6 DEF P!RecheckExe, P!SameExe, Judged, P!SparesOthers, P!AuditReadOnly
<1>7. ASSUME P!Terminate PROVE ScanInv'
  <2>1. p_mode # "audit" /\ (p_fresh => p_proc[p_pid].exe \in P_Payloads)
    BY <1>7 DEF P!Terminate, Judged
  <2>2. /\ p_signals' = p_signals
           \/ p_signals' = [mode |-> p_mode, victim |-> p_proc[p_pid], fresh |-> p_fresh]
        /\ p_proc' = [p_proc EXCEPT ![p_pid] = P!Gone] /\ p_kill' = p_kill
    BY <1>7 DEF P!Terminate
  <2>3. P!SparesOthers' /\ P!AuditReadOnly'
    BY <2>1, <2>2 DEF P!SparesOthers, P!AuditReadOnly
  <2> QED BY <1>1, <1>7, <2>2, <2>3 DEF P!Terminate, Judged
<1>8. ASSUME NEW p \in P!Pids, NEW program \in P!Programs \cup {P!Gone}, P!Change(p, program) PROVE ScanInv'
  BY <1>8 DEF P!Change, Judged, P!SparesOthers, P!AuditReadOnly
<1>9. ASSUME UNCHANGED p_vars PROVE ScanInv'
  BY <1>9 DEF p_vars, Judged, P!SparesOthers, P!AuditReadOnly
<1> QED BY <1>2, <1>3, <1>4, <1>5, <1>6, <1>7, <1>8, <1>9 DEF P!Next

LEMMA ScanHolds == HostSpec => []ScanInv
<1>1. HostInit => ScanInv
  <2> SUFFICES ASSUME P!Init PROVE ScanInv
    BY DEF HostInit
  <2> QED BY FirstPid DEF P!Init, ScanInv, Judged, P!SparesOthers, P!AuditReadOnly, P!None
<1>2. ScanInv /\ [HostNext]_all => ScanInv'
  BY ScanInvNext, StepsOfHost
<1> QED BY <1>1, <1>2, PTL DEF HostSpec

\* However processes start, exit, execute and hand their numbers on between the reads of scanProcesses:
\* a process that has not changed since the last look is terminated only if it is a payload, and by a
\* manual scan only.
THEOREM ProcessesSparedHolds == HostSpec => []ProcessesSpared
<1>1. ScanInv => ProcessesSpared
  BY DEF ScanInv, ProcessesSpared
<1> QED BY <1>1, ScanHolds, PTL DEF HostSpec

-----------------------------------------------------------------------------
\* The mail channel.

\* Where a session is, and what is known of it there.
Session ==
    /\ m_pc \in {"idle", "handshake", "hello", "auth", "rcpt", "quit"}
    /\ m_pc \in {"auth", "rcpt", "quit"} => m_secure
    /\ m_state # "queued" => m_pc = "idle"
    /\ m_state \in {"queued", "done", "refused"}

\* A copy beyond the lost answers is one the session, or the last one, has sent.
Copies ==
    /\ m_copies \in [M!ToAll -> Nat] /\ m_faults \in Nat
    /\ \A r \in M!ToAll : m_copies[r] <= m_faults + (IF m_pc = "quit" \/ m_state = "done" THEN 1 ELSE 0)
    /\ m_pc = "quit" \/ m_state = "done" => \A r \in M!ToAll : m_copies[r] >= 1

MailInv == Session /\ Copies /\ M!PasswordUnderTLS /\ M!AllOrNone /\ M!KeepsSettings

LEMMA MailInvNext ==
  ASSUME MailInv, M!Next \/ UNCHANGED m_vars PROVE MailInv'
<1> USE DEF MailInv
<1>1. ASSUME M!Refuse PROVE MailInv'
  BY <1>1 DEF M!Refuse, M!session, Session, Copies, M!PasswordUnderTLS, M!AllOrNone, M!KeepsSettings
<1>2. ASSUME M!Dial PROVE MailInv'
  <2>1. M!KeepsSettings'
    BY <1>2 DEF M!Dial, M!Infer, M!KeepsSettings
  <2> QED BY <1>2, <2>1 DEF M!Dial, Session, Copies, M!PasswordUnderTLS, M!AllOrNone
<1>3. ASSUME M!Handshake \/ \E offers \in BOOLEAN : M!Hello(offers) PROVE MailInv'
  BY <1>3 DEF M!Handshake, M!Hello, Session, Copies, M!PasswordUnderTLS, M!AllOrNone, M!KeepsSettings
<1>4. ASSUME M!Auth PROVE MailInv'
  BY <1>4 DEF M!Auth, M!session, Session, Copies, M!PasswordUnderTLS, M!AllOrNone, M!KeepsSettings
<1>5. ASSUME M!Rcpt PROVE MailInv'
  BY <1>5 DEF M!Rcpt, Session, Copies, M!PasswordUnderTLS, M!AllOrNone, M!KeepsSettings
<1>6. ASSUME M!Data PROVE MailInv'
  <2>1. /\ m_copies' = [r \in M!ToAll |-> m_copies[r] + 1] /\ m_pc = "rcpt" /\ m_pc' = "quit"
        /\ UNCHANGED <<m_cfg, m_host, m_port, m_secure, m_accepted, m_exposed, m_state, m_faults>>
    BY <1>6 DEF M!Data, M!Ready, M!session
  <2>2. \A r \in M!ToAll : m_copies[r] \in Nat /\ m_copies[r] <= m_faults /\ m_copies'[r] = m_copies[r] + 1
    BY <2>1 DEF Session, Copies
  <2>3. Copies'
    BY <2>1, <2>2 DEF Copies
  <2>4. M!AllOrNone'
    BY <2>1, <2>2 DEF M!AllOrNone
  <2> QED BY <2>1, <2>3, <2>4 DEF Session, M!PasswordUnderTLS, M!KeepsSettings
<1>7. ASSUME M!AnswerLost PROVE MailInv'
  BY <1>7 DEF M!AnswerLost, M!session, Session, Copies, M!PasswordUnderTLS, M!AllOrNone, M!KeepsSettings
<1>8. ASSUME M!Quit PROVE MailInv'
  BY <1>8 DEF M!Quit, M!session, Session, Copies, M!PasswordUnderTLS, M!AllOrNone, M!KeepsSettings
<1>9. ASSUME M!Break PROVE MailInv'
  BY <1>9 DEF M!Break, M!Fail, M!session, Session, Copies, M!PasswordUnderTLS, M!AllOrNone, M!KeepsSettings
<1>10. ASSUME UNCHANGED m_vars PROVE MailInv'
  BY <1>10 DEF m_vars, Session, Copies, M!PasswordUnderTLS, M!AllOrNone, M!KeepsSettings
<1> QED BY <1>1, <1>2, <1>3, <1>4, <1>5, <1>6, <1>7, <1>8, <1>9, <1>10 DEF M!Next

LEMMA MailHolds == HostSpec => []MailInv
<1>1. HostInit => MailInv
  BY DEF HostInit, M!Init, MailInv, Session, Copies, M!PasswordUnderTLS, M!AllOrNone, M!KeepsSettings
<1>2. MailInv /\ [HostNext]_all => MailInv'
  BY MailInvNext, StepsOfHost
<1> QED BY <1>1, <1>2, PTL DEF HostSpec

\* Whatever the server refuses and wherever a session breaks off (sendEmailContext): no password without
\* TLS; all recipients or none; no copy beyond one for each lost answer; no configured value replaced.
THEOREM MailKeptHolds == HostSpec => []MailKept
<1>1. MailInv => MailKept
  BY DEF MailInv, MailKept, M!SentOnce, Copies
<1> QED BY <1>1, MailHolds, PTL DEF HostSpec

-----------------------------------------------------------------------------
\* Starting at boot.

Unit   == a_op.unit
Action == a_op.action
Active == a_op # A!NoOp

Scripts ==
    /\ a_platform \in A!Platforms /\ a_clean \in BOOLEAN
    /\ Active => /\ a_op \in [unit : A!Units, action : {"enable", "disable"}, at : Nat \ {0}]
                 /\ a_op.at <= Len(A!Script(Unit, Action)) /\ a_report[Unit] = A!NoReport
    /\ \A u \in A!Units : a_report[u] = A!NoReport \/
         a_report[u] \in [by : {"enable", "disable"}, said : {"ok", "error"}, clean : BOOLEAN]
    /\ DOMAIN a_report = A!Units

\* What the steps so far have brought about; without a fault, enough for the next one to work.
Enabling ==
    Active /\ Action = "enable" =>
        /\ a_op.at >= 2 => Unit \in a_file /\ (a_platform # "linux" => Unit \in a_boot)
        /\ a_clean /\ a_op.at = 3 => (a_platform = "linux" <=> Unit \in a_loaded)
        /\ a_clean /\ a_op.at = 4 => Unit \in a_loaded
Disabling ==
    Active /\ Action = "disable" /\ Unit = "update" /\ a_op.at >= 2 =>
        Unit \notin a_on /\ (a_platform = "linux" => Unit \notin a_boot)

BootInv == Scripts /\ Enabling /\ Disabling /\ A!OnStays /\ A!EnableRepairs /\ A!UpdatesStayOff

\* The scripts, written out.
LEMMA ScriptsAre ==
  ASSUME a_platform \in A!Platforms, NEW u \in A!Units, NEW action \in {"enable", "disable"}
  PROVE  A!Script(u, action) =
           IF action = "enable"
           THEN CASE a_platform = "linux"   -> <<A!Must("write"), A!Must("reload"), A!Must("enable --now")>>
                  [] a_platform = "darwin"  ->
                       IF u = "daemon"
                       THEN <<A!Must("write"), A!Ignore("bootout"), A!Must("bootstrap"), A!Must("kickstart")>>
                       ELSE <<A!Must("write"), A!Ignore("bootout"), A!Must("bootstrap")>>
                  [] a_platform = "windows" ->
                       IF u = "daemon" THEN <<A!Must("create"), A!Must("run")>> ELSE <<A!Must("create")>>
           ELSE CASE a_platform = "linux"   ->
                       IF u = "daemon" THEN <<A!Ignore("disable --now"), A!Ignore("remove"), A!Must("reload")>>
                       ELSE <<A!Must("disable --now"), A!Ignore("remove"), A!Must("reload")>>
                  [] a_platform = "darwin"  ->
                       IF u = "daemon" THEN <<A!Ignore("bootout"), A!Ignore("remove")>>
                       ELSE <<A!Must("bootout"), A!Must("remove")>>
                  [] a_platform = "windows" ->
                       IF u = "daemon" THEN <<A!Ignore("end"), A!Must("delete")>> ELSE <<A!Must("delete")>>
BY DEF A!Script, A!DaemonScript, A!UpdateScript, A!Platforms, A!Units

LEMMA PlacesOfThree == \A x, y, z : DOMAIN <<x, y, z>> = 1..3
OBVIOUS

LEMMA ScriptIsList ==
  ASSUME a_platform \in A!Platforms, NEW u \in A!Units, NEW action \in {"enable", "disable"}
  PROVE  /\ Len(A!Script(u, action)) \in Nat \ {0}
         /\ DOMAIN A!Script(u, action) = 1..Len(A!Script(u, action))
<1>1. PICK s : s = A!Script(u, action)
  OBVIOUS
<1>2. CASE action = "enable" /\ a_platform = "linux"
  <2>1. s = <<A!Must("write"), A!Must("reload"), A!Must("enable --now")>>
    BY <1>1, <1>2, ScriptsAre
  <2>2. DOMAIN s = 1..3
    BY <2>1, PlacesOfThree
  <2>3. Len(s) = 3
    BY <2>1
  <2> QED BY <1>1, <2>2, <2>3
<1>3. CASE action = "enable" /\ a_platform = "darwin" /\ u = "daemon"
  <2>1. s = <<A!Must("write"), A!Ignore("bootout"), A!Must("bootstrap"), A!Must("kickstart")>>
    BY <1>1, <1>3, ScriptsAre
  <2>2. Len(s) = 4 /\ DOMAIN s = 1..4
    BY <2>1
  <2> QED BY <1>1, <2>2
<1>4. CASE action = "enable" /\ a_platform = "darwin" /\ u # "daemon"
  <2>1. s = <<A!Must("write"), A!Ignore("bootout"), A!Must("bootstrap")>>
    BY <1>1, <1>4, ScriptsAre
  <2>2. DOMAIN s = 1..3
    BY <2>1, PlacesOfThree
  <2>3. Len(s) = 3
    BY <2>1
  <2> QED BY <1>1, <2>2, <2>3
<1>5. CASE action = "enable" /\ a_platform = "windows" /\ u = "daemon"
  <2>1. s = <<A!Must("create"), A!Must("run")>>
    BY <1>1, <1>5, ScriptsAre
  <2>2. Len(s) = 2 /\ DOMAIN s = 1..2
    BY <2>1
  <2> QED BY <1>1, <2>2
<1>6. CASE action = "enable" /\ a_platform = "windows" /\ u # "daemon"
  <2>1. s = <<A!Must("create")>>
    BY <1>1, <1>6, ScriptsAre
  <2>2. Len(s) = 1 /\ DOMAIN s = 1..1
    BY <2>1
  <2> QED BY <1>1, <2>2
<1>7. CASE action = "disable" /\ a_platform = "linux" /\ u = "daemon"
  <2>1. s = <<A!Ignore("disable --now"), A!Ignore("remove"), A!Must("reload")>>
    BY <1>1, <1>7, ScriptsAre
  <2>2. DOMAIN s = 1..3
    BY <2>1, PlacesOfThree
  <2>3. Len(s) = 3
    BY <2>1
  <2> QED BY <1>1, <2>2, <2>3
<1>8. CASE action = "disable" /\ a_platform = "linux" /\ u # "daemon"
  <2>1. s = <<A!Must("disable --now"), A!Ignore("remove"), A!Must("reload")>>
    BY <1>1, <1>8, ScriptsAre
  <2>2. DOMAIN s = 1..3
    BY <2>1, PlacesOfThree
  <2>3. Len(s) = 3
    BY <2>1
  <2> QED BY <1>1, <2>2, <2>3
<1>9. CASE action = "disable" /\ a_platform = "darwin" /\ u = "daemon"
  <2>1. s = <<A!Ignore("bootout"), A!Ignore("remove")>>
    BY <1>1, <1>9, ScriptsAre
  <2>2. Len(s) = 2 /\ DOMAIN s = 1..2
    BY <2>1
  <2> QED BY <1>1, <2>2
<1>10. CASE action = "disable" /\ a_platform = "darwin" /\ u # "daemon"
  <2>1. s = <<A!Must("bootout"), A!Must("remove")>>
    BY <1>1, <1>10, ScriptsAre
  <2>2. Len(s) = 2 /\ DOMAIN s = 1..2
    BY <2>1
  <2> QED BY <1>1, <2>2
<1>11. CASE action = "disable" /\ a_platform = "windows" /\ u = "daemon"
  <2>1. s = <<A!Ignore("end"), A!Must("delete")>>
    BY <1>1, <1>11, ScriptsAre
  <2>2. Len(s) = 2 /\ DOMAIN s = 1..2
    BY <2>1
  <2> QED BY <1>1, <2>2
<1>12. CASE action = "disable" /\ a_platform = "windows" /\ u # "daemon"
  <2>1. s = <<A!Must("delete")>>
    BY <1>1, <1>12, ScriptsAre
  <2>2. Len(s) = 1 /\ DOMAIN s = 1..1
    BY <2>1
  <2> QED BY <1>1, <2>2
<1> QED BY <1>2, <1>3, <1>4, <1>5, <1>6, <1>7, <1>8, <1>9, <1>10, <1>11, <1>12 DEF A!Platforms

\* The step at hand.
LEMMA StepIs ==
  ASSUME Scripts, Active
  PROVE  /\ Unit \in A!Units /\ Action \in {"enable", "disable"}
         /\ Action = "enable" /\ a_platform = "linux" =>
              /\ Len(A!Script(Unit, Action)) = 3 /\ A!Step.must
              /\ A!Step.cmd = IF a_op.at = 1 THEN "write" ELSE IF a_op.at = 2 THEN "reload" ELSE "enable --now"
         /\ Action = "enable" /\ a_platform = "darwin" =>
              /\ Len(A!Script(Unit, Action)) = IF Unit = "daemon" THEN 4 ELSE 3
              /\ A!Step.must <=> a_op.at # 2
              /\ A!Step.cmd = IF a_op.at = 1 THEN "write" ELSE IF a_op.at = 2 THEN "bootout"
                              ELSE IF a_op.at = 3 THEN "bootstrap" ELSE "kickstart"
         /\ Action = "enable" /\ a_platform = "windows" =>
              /\ Len(A!Script(Unit, Action)) = IF Unit = "daemon" THEN 2 ELSE 1
              /\ A!Step.must /\ A!Step.cmd = IF a_op.at = 1 THEN "create" ELSE "run"
         /\ Action = "disable" /\ Unit = "update" /\ a_platform = "linux" =>
              /\ Len(A!Script(Unit, Action)) = 3 /\ (A!Step.must <=> a_op.at # 2)
              /\ A!Step.cmd = IF a_op.at = 1 THEN "disable --now" ELSE IF a_op.at = 2 THEN "remove" ELSE "reload"
         /\ Action = "disable" /\ Unit = "update" /\ a_platform = "darwin" =>
              /\ Len(A!Script(Unit, Action)) = 2 /\ A!Step.must
              /\ A!Step.cmd = IF a_op.at = 1 THEN "bootout" ELSE "remove"
         /\ Action = "disable" /\ Unit = "update" /\ a_platform = "windows" =>
              Len(A!Script(Unit, Action)) = 1 /\ A!Step.must /\ A!Step.cmd = "delete"
<1>1. /\ a_op.at \in Nat \ {0} /\ a_op.at <= Len(A!Script(Unit, Action))
      /\ Unit \in A!Units /\ Action \in {"enable", "disable"} /\ a_platform \in {"linux", "darwin", "windows"}
  BY DEF Scripts, Unit, Action, A!Platforms
<1>2. A!Step = A!Script(Unit, Action)[a_op.at]
  BY DEF A!Step, Unit, Action
<1>3. \A c : A!Must(c).cmd = c /\ A!Must(c).must /\ A!Ignore(c).cmd = c /\ ~A!Ignore(c).must
  BY DEF A!Must, A!Ignore
<1>4. PICK s : s = A!Script(Unit, Action)
  OBVIOUS
<1>5. PICK k : k = a_op.at
  OBVIOUS
<1>6. k \in Nat \ {0} /\ k <= Len(s) /\ A!Step = s[k]
  BY <1>1, <1>2, <1>4, <1>5
<1>7. CASE Action = "enable" /\ a_platform = "linux"
  <2>1. s = <<A!Must("write"), A!Must("reload"), A!Must("enable --now")>>
    BY <1>1, <1>4, <1>7, ScriptsAre DEF A!Platforms
  <2>2. Len(s) = 3
    BY <2>1
  <2>3. k \in {1, 2, 3}
    BY <1>6, <2>2
  <2>4. s[1] = A!Must("write") /\ s[2] = A!Must("reload") /\ s[3] = A!Must("enable --now")
    BY <2>1
  <2>5. (k = 1 => A!Step = A!Must("write")) /\ (k = 2 => A!Step = A!Must("reload")) /\ (k = 3 => A!Step = A!Must("enable --now"))
    BY <1>6, <2>4
  <2> HIDE DEF Unit, Action
  <2> QED BY <1>1, <1>3, <1>4, <1>5, <1>7, <2>2, <2>3, <2>5
<1>8. CASE Action = "enable" /\ a_platform = "darwin" /\ Unit = "daemon"
  <2>1. s = <<A!Must("write"), A!Ignore("bootout"), A!Must("bootstrap"), A!Must("kickstart")>>
    BY <1>1, <1>4, <1>8, ScriptsAre DEF A!Platforms
  <2>2. Len(s) = 4
    BY <2>1
  <2>3. k \in {1, 2, 3, 4}
    BY <1>6, <2>2
  <2>4. s[1] = A!Must("write") /\ s[2] = A!Ignore("bootout") /\ s[3] = A!Must("bootstrap") /\ s[4] = A!Must("kickstart")
    BY <2>1
  <2>5. (k = 1 => A!Step = A!Must("write")) /\ (k = 2 => A!Step = A!Ignore("bootout")) /\ (k = 3 => A!Step = A!Must("bootstrap")) /\ (k = 4 => A!Step = A!Must("kickstart"))
    BY <1>6, <2>4
  <2> HIDE DEF Unit, Action
  <2> QED BY <1>1, <1>3, <1>4, <1>5, <1>8, <2>2, <2>3, <2>5
<1>9. CASE Action = "enable" /\ a_platform = "darwin" /\ Unit # "daemon"
  <2>1. s = <<A!Must("write"), A!Ignore("bootout"), A!Must("bootstrap")>>
    BY <1>1, <1>4, <1>9, ScriptsAre DEF A!Platforms
  <2>2. Len(s) = 3
    BY <2>1
  <2>3. k \in {1, 2, 3}
    BY <1>6, <2>2
  <2>4. s[1] = A!Must("write") /\ s[2] = A!Ignore("bootout") /\ s[3] = A!Must("bootstrap")
    BY <2>1
  <2>5. (k = 1 => A!Step = A!Must("write")) /\ (k = 2 => A!Step = A!Ignore("bootout")) /\ (k = 3 => A!Step = A!Must("bootstrap"))
    BY <1>6, <2>4
  <2> HIDE DEF Unit, Action
  <2> QED BY <1>1, <1>3, <1>4, <1>5, <1>9, <2>2, <2>3, <2>5
<1>10. CASE Action = "enable" /\ a_platform = "windows" /\ Unit = "daemon"
  <2>1. s = <<A!Must("create"), A!Must("run")>>
    BY <1>1, <1>4, <1>10, ScriptsAre DEF A!Platforms
  <2>2. Len(s) = 2
    BY <2>1
  <2>3. k \in {1, 2}
    BY <1>6, <2>2
  <2>4. s[1] = A!Must("create") /\ s[2] = A!Must("run")
    BY <2>1
  <2>5. (k = 1 => A!Step = A!Must("create")) /\ (k = 2 => A!Step = A!Must("run"))
    BY <1>6, <2>4
  <2> HIDE DEF Unit, Action
  <2> QED BY <1>1, <1>3, <1>4, <1>5, <1>10, <2>2, <2>3, <2>5
<1>11. CASE Action = "enable" /\ a_platform = "windows" /\ Unit # "daemon"
  <2>1. s = <<A!Must("create")>>
    BY <1>1, <1>4, <1>11, ScriptsAre DEF A!Platforms
  <2>2. Len(s) = 1
    BY <2>1
  <2>3. k \in {1}
    BY <1>6, <2>2
  <2>4. s[1] = A!Must("create")
    BY <2>1
  <2>5. (k = 1 => A!Step = A!Must("create"))
    BY <1>6, <2>4
  <2> HIDE DEF Unit, Action
  <2> QED BY <1>1, <1>3, <1>4, <1>5, <1>11, <2>2, <2>3, <2>5
<1>12. CASE Action = "disable" /\ Unit = "update" /\ a_platform = "linux"
  <2>1. s = <<A!Must("disable --now"), A!Ignore("remove"), A!Must("reload")>>
    BY <1>1, <1>4, <1>12, ScriptsAre DEF A!Platforms
  <2>2. Len(s) = 3
    BY <2>1
  <2>3. k \in {1, 2, 3}
    BY <1>6, <2>2
  <2>4. s[1] = A!Must("disable --now") /\ s[2] = A!Ignore("remove") /\ s[3] = A!Must("reload")
    BY <2>1
  <2>5. (k = 1 => A!Step = A!Must("disable --now")) /\ (k = 2 => A!Step = A!Ignore("remove")) /\ (k = 3 => A!Step = A!Must("reload"))
    BY <1>6, <2>4
  <2> HIDE DEF Unit, Action
  <2> QED BY <1>1, <1>3, <1>4, <1>5, <1>12, <2>2, <2>3, <2>5
<1>13. CASE Action = "disable" /\ Unit = "update" /\ a_platform = "darwin"
  <2>1. s = <<A!Must("bootout"), A!Must("remove")>>
    BY <1>1, <1>4, <1>13, ScriptsAre DEF A!Platforms
  <2>2. Len(s) = 2
    BY <2>1
  <2>3. k \in {1, 2}
    BY <1>6, <2>2
  <2>4. s[1] = A!Must("bootout") /\ s[2] = A!Must("remove")
    BY <2>1
  <2>5. (k = 1 => A!Step = A!Must("bootout")) /\ (k = 2 => A!Step = A!Must("remove"))
    BY <1>6, <2>4
  <2> HIDE DEF Unit, Action
  <2> QED BY <1>1, <1>3, <1>4, <1>5, <1>13, <2>2, <2>3, <2>5
<1>14. CASE Action = "disable" /\ Unit = "update" /\ a_platform = "windows"
  <2>1. s = <<A!Must("delete")>>
    BY <1>1, <1>4, <1>14, ScriptsAre DEF A!Platforms
  <2>2. Len(s) = 1
    BY <2>1
  <2>3. k \in {1}
    BY <1>6, <2>2
  <2>4. s[1] = A!Must("delete")
    BY <2>1
  <2>5. (k = 1 => A!Step = A!Must("delete"))
    BY <1>6, <2>4
  <2> HIDE DEF Unit, Action
  <2> QED BY <1>1, <1>3, <1>4, <1>5, <1>14, <2>2, <2>3, <2>5
<1>15. CASE Action = "disable" /\ Unit # "update"
  BY <1>1, <1>15
<1> QED BY <1>1, <1>7, <1>8, <1>9, <1>10, <1>11, <1>12, <1>13, <1>14, <1>15

\* A step is about the unit of its command.
Others ==
    \A v \in A!Units \ {Unit} :
        (v \in a_file' <=> v \in a_file) /\ (v \in a_boot' <=> v \in a_boot) /\ (v \in a_on' <=> v \in a_on)

LEMMA OthersStay ==
  ASSUME NEW c, A!Does(c, Unit) \/ A!DoesHalf(c, Unit) PROVE Others
BY DEF A!Does, A!DoesHalf, A!With, A!Without, A!units, Others

\* What each command does to its unit.
LEMMA CommandEffect ==
  ASSUME NEW c, NEW u, A!Does(c, u)
  PROVE  /\ c = "write" => u \in a_file' /\ (a_platform = "darwin" => u \in a_boot') /\ a_loaded' = a_loaded
         /\ c = "create" => u \in a_file' /\ u \in a_boot' /\ (u = "update" => u \in a_on')
         /\ c = "enable --now" => u \in a_on' /\ u \in a_boot' /\ a_file' = a_file
         /\ c = "run" => u \in a_on' /\ a_boot' = a_boot /\ a_file' = a_file
         /\ c = "reload" => /\ a_file' = a_file /\ a_boot' = a_boot /\ a_on' = a_on
                            /\ (u \in a_loaded' <=> u \in a_file)
         /\ c = "bootout" => a_file' = a_file /\ a_boot' = a_boot /\ u \notin a_loaded' /\ u \notin a_on'
         /\ c = "bootstrap" => a_file' = a_file /\ a_boot' = a_boot /\ u \in a_loaded' /\ u \in a_on'
         /\ c = "kickstart" => a_file' = a_file /\ a_boot' = a_boot /\ u \in a_on'
         /\ c = "disable --now" => u \notin a_on' /\ u \notin a_boot'
         /\ c = "remove" => u \notin a_file' /\ a_on' = a_on /\ (u \in a_boot' => u \in a_boot)
         /\ c = "delete" => u \notin a_file' /\ (u = "update" => u \notin a_on')
<1> USE DEF A!With, A!Without
<1>1. c \in {"write", "create"} => u \in a_file'
  BY DEF A!Does
<1>2. c \in {"remove", "delete"} => u \notin a_file'
  BY DEF A!Does
<1>3. c \notin {"write", "create", "remove", "delete"} => a_file' = a_file
  BY DEF A!Does
<1>4. /\ c \in {"enable --now", "create"} => u \in a_boot'
      /\ c = "write" /\ a_platform = "darwin" => u \in a_boot'
  BY DEF A!Does
<1>5. c = "disable --now" => u \notin a_boot'
  BY DEF A!Does
<1>6. c = "remove" => (u \in a_boot' => u \in a_boot)
  BY DEF A!Does
<1>7. c \in {"run", "reload", "bootout", "bootstrap", "kickstart"} => a_boot' = a_boot
  BY DEF A!Does
<1>8. c \in {"enable --now", "bootstrap", "kickstart", "run"} => u \in a_on'
  BY DEF A!Does
<1>9. c \in {"disable --now", "bootout"} => u \notin a_on'
  BY DEF A!Does
<1>10. (c = "create" /\ u = "update" => u \in a_on') /\ (c = "delete" /\ u = "update" => u \notin a_on')
  BY DEF A!Does
<1>11. c \in {"reload", "remove"} => a_on' = a_on
  BY DEF A!Does
<1>12. /\ c = "write" => a_loaded' = a_loaded
       /\ c = "bootout" => u \notin a_loaded'
       /\ c = "bootstrap" => u \in a_loaded'
       /\ c = "reload" => (u \in a_loaded' <=> u \in a_file)
  BY DEF A!Does
<1> QED BY <1>1, <1>2, <1>3, <1>4, <1>5, <1>6, <1>7, <1>8, <1>9, <1>10, <1>11, <1>12

\* What a step does that succeeds.
LEMMA DoneStep ==
  ASSUME Scripts, Active, Enabling, Disabling, A!Works(A!Step.cmd, Unit), A!Does(A!Step.cmd, Unit)
  PROVE  /\ Action = "enable" /\ A!Last => Unit \in a_on' /\ Unit \in a_boot' /\ Unit \in a_file'
         /\ Action = "enable" /\ ~A!Last => Unit \in a_file' /\ (a_platform # "linux" => Unit \in a_boot')
         /\ Action = "enable" /\ ~A!Last /\ a_op.at = 2 => (a_platform = "linux" <=> Unit \in a_loaded')
         /\ Action = "enable" /\ ~A!Last /\ a_op.at = 3 => Unit \in a_loaded'
         /\ Action = "disable" /\ Unit = "update" =>
              /\ Unit \notin a_on' /\ (A!Last /\ Unit \in a_boot' => Unit \notin a_file')
              /\ ~A!Last /\ a_platform = "linux" => Unit \notin a_boot'
<1>1. PICK n : n = Len(A!Script(Unit, Action))
  OBVIOUS
<1>2. PICK k : k = a_op.at
  OBVIOUS
<1>3. PICK c : c = A!Step.cmd
  OBVIOUS
<1>4. PICK u : u = Unit
  OBVIOUS
<1>5. /\ a_platform \in {"linux", "darwin", "windows"} /\ Action \in {"enable", "disable"}
      /\ u \in {"daemon", "update"} /\ (A!Last <=> k = n)
  BY <1>1, <1>2, <1>4, StepIs DEF Scripts, A!Platforms, A!Units, A!Last, Unit, Action
<1>6. k \in Nat \ {0} /\ k <= n
  BY <1>1, <1>2 DEF Scripts, Unit, Action
<1>7. A!Works(c, u) /\ A!Does(c, u)
  BY <1>3, <1>4
<1>8. /\ k >= 2 /\ Action = "enable" => u \in a_file /\ (a_platform # "linux" => u \in a_boot)
      /\ k >= 2 /\ Action = "disable" /\ u = "update" =>
           u \notin a_on /\ (a_platform = "linux" => u \notin a_boot)
  BY <1>2, <1>4 DEF Enabling, Disabling
<1>9. CASE Action = "enable" /\ a_platform = "linux"
  <2>1. n = 3
    BY <1>1, <1>4, <1>9, StepIs
  <2>2. k = 1 => c = "write"
    BY <1>2, <1>3, <1>4, <1>9, StepIs
  <2>3. k = 2 => c = "reload"
    BY <1>2, <1>3, <1>4, <1>9, StepIs
  <2>4. k = 3 => c = "enable --now"
    <3> SUFFICES ASSUME k = 3 PROVE c = "enable --now"
      OBVIOUS
    <3>1. a_op.at # 1 /\ a_op.at # 2
      BY <1>2
    <3> QED BY <1>3, <1>9, <3>1, StepIs
  <2>5. k \in {1, 2, 3}
    BY <1>6, <2>1
  <2>6. CASE k = 1
    <3>1. u \in a_file' /\ (a_platform = "darwin" => u \in a_boot') /\ a_loaded' = a_loaded
      BY <1>7, <2>2, <2>6, CommandEffect
    <3> QED BY <1>2, <1>4, <1>5, <1>8, <1>9, <2>1, <2>6, <3>1
  <2>7. CASE k = 2
    <3>1. a_file' = a_file /\ a_boot' = a_boot /\ a_on' = a_on /\ (u \in a_loaded' <=> u \in a_file)
      BY <1>7, <2>3, <2>7, CommandEffect
    <3> QED BY <1>2, <1>4, <1>5, <1>8, <1>9, <2>1, <2>7, <3>1
  <2>8. CASE k = 3
    <3>1. u \in a_on' /\ u \in a_boot' /\ a_file' = a_file
      BY <1>7, <2>4, <2>8, CommandEffect
    <3> QED BY <1>2, <1>4, <1>5, <1>8, <1>9, <2>1, <2>8, <3>1
  <2> QED BY <2>5, <2>6, <2>7, <2>8
<1>10. CASE Action = "enable" /\ a_platform = "darwin"
  <2>1. n \in {3, 4}
    BY <1>1, <1>4, <1>10, StepIs
  <2>2. k = 1 => c = "write"
    BY <1>2, <1>3, <1>4, <1>10, StepIs
  <2>3. k = 2 => c = "bootout"
    BY <1>2, <1>3, <1>4, <1>10, StepIs
  <2>4. k = 3 => c = "bootstrap"
    BY <1>2, <1>3, <1>4, <1>10, StepIs
  <2>5. k = 4 => c = "kickstart"
    BY <1>2, <1>3, <1>4, <1>10, StepIs
  <2>6. k \in {1, 2, 3, 4}
    BY <1>6, <2>1
  <2>7. CASE k = 1
    <3>1. u \in a_file' /\ (a_platform = "darwin" => u \in a_boot') /\ a_loaded' = a_loaded
      BY <1>7, <2>2, <2>7, CommandEffect
    <3> QED BY <1>2, <1>4, <1>5, <1>8, <1>10, <2>1, <2>7, <3>1
  <2>8. CASE k = 2
    <3>1. a_file' = a_file /\ a_boot' = a_boot /\ u \notin a_loaded' /\ u \notin a_on'
      BY <1>7, <2>3, <2>8, CommandEffect
    <3> QED BY <1>2, <1>4, <1>5, <1>8, <1>10, <2>1, <2>8, <3>1
  <2>9. CASE k = 3
    <3>1. a_file' = a_file /\ a_boot' = a_boot /\ u \in a_loaded' /\ u \in a_on'
      BY <1>7, <2>4, <2>9, CommandEffect
    <3> QED BY <1>2, <1>4, <1>5, <1>8, <1>10, <2>1, <2>9, <3>1
  <2>10. CASE k = 4
    <3>1. a_file' = a_file /\ a_boot' = a_boot /\ u \in a_on'
      BY <1>7, <2>5, <2>10, CommandEffect
    <3> QED BY <1>2, <1>4, <1>5, <1>8, <1>10, <2>1, <2>10, <3>1
  <2> QED BY <2>6, <2>7, <2>8, <2>9, <2>10
<1>11. CASE Action = "enable" /\ a_platform = "windows"
  <2>1. n = (IF u = "daemon" THEN 2 ELSE 1)
    BY <1>1, <1>4, <1>11, StepIs
  <2>2. k = 1 => c = "create"
    BY <1>2, <1>3, <1>4, <1>11, StepIs
  <2>3. k = 2 => c = "run"
    BY <1>2, <1>3, <1>4, <1>11, StepIs
  <2>4. k \in {1, 2}
    BY <1>5, <1>6, <2>1
  <2>5. CASE k = 1
    <3>1. u \in a_file' /\ u \in a_boot' /\ (u = "update" => u \in a_on')
      BY <1>7, <2>2, <2>5, CommandEffect
    <3> QED BY <1>2, <1>4, <1>5, <1>8, <1>11, <2>1, <2>5, <3>1
  <2>6. CASE k = 2
    <3>1. u \in a_on' /\ a_boot' = a_boot /\ a_file' = a_file
      BY <1>7, <2>3, <2>6, CommandEffect
    <3> QED BY <1>2, <1>4, <1>5, <1>6, <1>8, <1>11, <2>1, <2>6, <3>1
  <2> QED BY <2>4, <2>5, <2>6
<1>12. CASE Action = "disable" /\ u = "update" /\ a_platform = "linux"
  <2>1. n = 3
    BY <1>1, <1>4, <1>12, StepIs
  <2>2. k = 1 => c = "disable --now"
    BY <1>2, <1>3, <1>4, <1>12, StepIs
  <2>3. k = 2 => c = "remove"
    BY <1>2, <1>3, <1>4, <1>12, StepIs
  <2>4. k = 3 => c = "reload"
    BY <1>2, <1>3, <1>4, <1>12, StepIs
  <2>5. k \in {1, 2, 3}
    BY <1>6, <2>1
  <2>6. CASE k = 1
    <3>1. u \notin a_on' /\ u \notin a_boot'
      BY <1>7, <2>2, <2>6, CommandEffect
    <3> QED BY <1>2, <1>4, <1>5, <1>8, <1>12, <2>1, <2>6, <3>1
  <2>7. CASE k = 2
    <3>1. u \notin a_file' /\ a_on' = a_on /\ (u \in a_boot' => u \in a_boot)
      BY <1>7, <2>3, <2>7, CommandEffect
    <3> QED BY <1>2, <1>4, <1>5, <1>8, <1>12, <2>1, <2>7, <3>1
  <2>8. CASE k = 3
    <3>1. a_file' = a_file /\ a_boot' = a_boot /\ a_on' = a_on /\ (u \in a_loaded' <=> u \in a_file)
      BY <1>7, <2>4, <2>8, CommandEffect
    <3> QED BY <1>2, <1>4, <1>5, <1>8, <1>12, <2>1, <2>8, <3>1
  <2> QED BY <2>5, <2>6, <2>7, <2>8
<1>13. CASE Action = "disable" /\ u = "update" /\ a_platform = "darwin"
  <2>1. n = 2
    BY <1>1, <1>4, <1>13, StepIs
  <2>2. k = 1 => c = "bootout"
    BY <1>2, <1>3, <1>4, <1>13, StepIs
  <2>3. k = 2 => c = "remove"
    BY <1>2, <1>3, <1>4, <1>13, StepIs
  <2>4. k \in {1, 2}
    BY <1>6, <2>1
  <2>5. CASE k = 1
    <3>1. a_file' = a_file /\ a_boot' = a_boot /\ u \notin a_loaded' /\ u \notin a_on'
      BY <1>7, <2>2, <2>5, CommandEffect
    <3> QED BY <1>2, <1>4, <1>5, <1>8, <1>13, <2>1, <2>5, <3>1
  <2>6. CASE k = 2
    <3>1. u \notin a_file' /\ a_on' = a_on /\ (u \in a_boot' => u \in a_boot)
      BY <1>7, <2>3, <2>6, CommandEffect
    <3> QED BY <1>2, <1>4, <1>5, <1>8, <1>13, <2>1, <2>6, <3>1
  <2> QED BY <2>4, <2>5, <2>6
<1>14. CASE Action = "disable" /\ u = "update" /\ a_platform = "windows"
  <2>1. n = 1
    BY <1>1, <1>4, <1>14, StepIs
  <2>2. k = 1 => c = "delete"
    BY <1>2, <1>3, <1>4, <1>14, StepIs
  <2>3. k \in {1}
    BY <1>6, <2>1
  <2>4. CASE k = 1
    <3>1. u \notin a_file' /\ (u = "update" => u \notin a_on')
      BY <1>7, <2>2, <2>4, CommandEffect
    <3> QED BY <1>2, <1>4, <1>5, <1>8, <1>14, <2>1, <2>4, <3>1
  <2> QED BY <2>3, <2>4
<1> QED BY <1>4, <1>5, <1>9, <1>10, <1>11, <1>12, <1>13, <1>14

\* A step that may fail is one that the next steps do not need.
LEMMA MayFail ==
  ASSUME Scripts, Active, ~A!Step.must
  PROVE  /\ Action = "enable" => a_platform = "darwin" /\ a_op.at = 2 /\ A!Step.cmd = "bootout" /\ ~A!Last
         /\ Action = "disable" /\ Unit = "update" =>
              a_platform = "linux" /\ a_op.at = 2 /\ A!Step.cmd = "remove" /\ ~A!Last
<1>1. a_platform \in {"linux", "darwin", "windows"} /\ Action \in {"enable", "disable"}
  BY StepIs DEF Scripts, A!Platforms
<1>2. A!Last <=> a_op.at = Len(A!Script(Unit, Action))
  BY DEF A!Last, Unit, Action
<1>3. CASE Action = "enable"
  <2>1. a_platform = "darwin" /\ a_op.at = 2
    BY <1>1, <1>3, StepIs
  <2>2. A!Step.cmd = "bootout"
    BY <1>3, <2>1, StepIs
  <2>3. Len(A!Script(Unit, Action)) = IF Unit = "daemon" THEN 4 ELSE 3
    BY <1>3, <2>1, StepIs
  <2> QED BY <1>2, <1>3, <2>1, <2>2, <2>3
<1>4. CASE Action = "disable" /\ Unit = "update"
  <2>1. a_platform = "linux" /\ a_op.at = 2
    BY <1>1, <1>4, StepIs
  <2>2. A!Step.cmd = "remove"
    BY <1>4, <2>1, StepIs
  <2>3. Len(A!Script(Unit, Action)) = 3
    BY <1>4, <2>1, StepIs
  <2> QED BY <1>2, <1>4, <2>1, <2>2, <2>3
<1> QED BY <1>1, <1>3, <1>4

\* Without a fault, what must not be refused is not.
LEMMA CleanWorks ==
  ASSUME Scripts, Active, Enabling, a_clean, Action = "enable", ~A!Works(A!Step.cmd, Unit)
  PROVE  ~A!Step.must /\ Unit \notin a_loaded
<1>1. PICK k : k = a_op.at
  OBVIOUS
<1>2. PICK c : c = A!Step.cmd
  OBVIOUS
<1>3. PICK u : u = Unit
  OBVIOUS
<1>4. PICK n : n = Len(A!Script(Unit, Action))
  OBVIOUS
<1>5. a_platform \in {"linux", "darwin", "windows"} /\ ~A!Works(c, u)
  BY <1>2, <1>3 DEF Scripts, A!Platforms
<1>6. k \in Nat \ {0} /\ k <= n
  BY <1>1, <1>4 DEF Scripts, Unit, Action
<1>7. /\ k >= 2 => u \in a_file
      /\ k = 3 => (a_platform = "linux" <=> u \in a_loaded)
      /\ k = 4 => u \in a_loaded
  BY <1>1, <1>3 DEF Enabling
<1>8. /\ c \notin {"write", "reload", "create"}
      /\ c = "enable --now" => u \notin a_file \/ u \notin a_loaded
      /\ c = "run" => u \notin a_file
      /\ c \in {"bootout", "kickstart"} => u \notin a_loaded
      /\ c = "bootstrap" => u \notin a_file \/ u \in a_loaded
  BY <1>5 DEF A!Works
<1>9. CASE a_platform = "linux"
  <2>1. n = 3
    BY <1>4, <1>9, StepIs
  <2>2. c = IF k = 1 THEN "write" ELSE IF k = 2 THEN "reload" ELSE "enable --now"
    BY <1>1, <1>2, <1>9, StepIs
  <2>3. k \in {1, 2, 3}
    BY <1>6, <2>1
  <2>4. k = 3
    BY <1>8, <2>2, <2>3
  <2>5. c = "enable --now"
    <3>1. a_op.at # 1 /\ a_op.at # 2
      BY <1>1, <2>4
    <3> QED BY <1>2, <1>9, <3>1, StepIs
  <2>6. u \in a_file /\ u \in a_loaded
    BY <1>7, <1>9, <2>4
  <2> QED BY <1>8, <2>5, <2>6
<1>10. CASE a_platform = "darwin"
  <2>1. n \in {3, 4}
    BY <1>4, <1>10, StepIs
  <2>2. c = IF k = 1 THEN "write" ELSE IF k = 2 THEN "bootout" ELSE IF k = 3 THEN "bootstrap" ELSE "kickstart"
    BY <1>1, <1>2, <1>10, StepIs
  <2>3. k \in {1, 2, 3, 4}
    BY <1>6, <2>1
  <2>4. k = 2 => ~A!Step.must
    BY <1>1, <1>10, StepIs
  <2>5. k = 2
    BY <1>7, <1>8, <1>10, <2>2, <2>3
  <2>6. c = "bootout"
    BY <2>2, <2>5
  <2> QED BY <1>3, <1>8, <2>4, <2>5, <2>6
<1>11. CASE a_platform = "windows"
  <2>1. n \in {1, 2}
    BY <1>4, <1>11, StepIs
  <2>2. c = IF k = 1 THEN "create" ELSE "run"
    BY <1>1, <1>2, <1>11, StepIs
  <2>3. k \in {1, 2}
    BY <1>6, <2>1
  <2> QED BY <1>7, <1>8, <1>11, <2>2, <2>3
<1> QED BY <1>5, <1>9, <1>10, <1>11

\* The end of a command: what its report says is true.
LEMMA CommandEnds ==
  ASSUME BootInv, Active, NEW said \in {"ok", "error"}, A!Returns(said), Others,
         a_platform' = a_platform, a_clean' \in BOOLEAN,
         Action = "enable" /\ said = "ok" => Unit \in a_on' /\ Unit \in a_boot' /\ Unit \in a_file',
         Action = "enable" /\ a_clean' => said = "ok",
         Action = "disable" /\ Unit = "update" /\ said = "ok" =>
           Unit \notin a_on' /\ (Unit \in a_boot' => Unit \notin a_file')
  PROVE  BootInv'
<1> DEFINE new == [by |-> Action, said |-> said, clean |-> a_clean']
<1>1. /\ Unit \in A!Units /\ Action \in {"enable", "disable"} /\ ~Active'
      /\ a_report' = [a_report EXCEPT ![Unit] = new]
  BY StepIs DEF BootInv, Scripts, A!Returns, Active, Unit, Action
<1>2. DOMAIN a_report' = A!Units /\ a_report'[Unit] = new /\ \A v \in A!Units \ {Unit} : a_report'[v] = a_report[v]
  BY <1>1 DEF BootInv, Scripts
<1>3. Scripts' /\ Enabling' /\ Disabling'
  <2>1. new \in [by : {"enable", "disable"}, said : {"ok", "error"}, clean : BOOLEAN]
    BY <1>1
  <2>2. \A u \in A!Units : a_report'[u] = A!NoReport \/
          a_report'[u] \in [by : {"enable", "disable"}, said : {"ok", "error"}, clean : BOOLEAN]
    BY <1>1, <1>2, <2>1 DEF BootInv, Scripts
  <2>3. a_platform' \in A!Platforms
    BY DEF BootInv, Scripts
  <2> QED BY <1>1, <1>2, <2>2, <2>3 DEF Scripts, Enabling, Disabling
<1>4. new.by = Action /\ new.said = said /\ new.clean = a_clean'
  OBVIOUS
<1> HIDE DEF new, Unit, Action
<1>5. A!OnStays'
  <2> SUFFICES ASSUME NEW v \in A!Units, a_report'[v].by = "enable", a_report'[v].said = "ok"
                PROVE  v \in a_on' /\ v \in a_boot' /\ v \in a_file'
    BY DEF A!OnStays, A!Said, A!AtBoot
  <2>1. CASE v = Unit
    BY <1>2, <1>4, <2>1
  <2>2. CASE v # Unit
    <3>1. v \in a_on /\ v \in a_boot /\ v \in a_file
      BY <1>2, <2>2 DEF BootInv, A!OnStays, A!Said, A!AtBoot
    <3> QED BY <2>2, <3>1 DEF Others
  <2> QED BY <2>1, <2>2
<1>6. A!EnableRepairs'
  <2> SUFFICES ASSUME NEW v \in A!Units, a_report'[v].by = "enable", a_report'[v].clean
                PROVE  a_report'[v].said = "ok"
    BY DEF A!EnableRepairs
  <2>1. CASE v = Unit
    BY <1>2, <1>4, <2>1
  <2>2. CASE v # Unit
    BY <1>2, <2>2 DEF BootInv, A!EnableRepairs
  <2> QED BY <2>1, <2>2
<1>7. A!UpdatesStayOff'
  <2> SUFFICES ASSUME a_report'["update"].by = "disable", a_report'["update"].said = "ok"
                PROVE  "update" \notin a_on' /\ ("update" \in a_boot' => "update" \notin a_file')
    BY DEF A!UpdatesStayOff, A!Said, A!Off, A!AtBoot
  <2>1. CASE Unit = "update"
    BY <1>2, <1>4, <2>1
  <2>2. CASE Unit # "update"
    <3>1. "update" \in A!Units \ {Unit}
      BY <2>2 DEF A!Units
    <3>2. "update" \notin a_on /\ ("update" \in a_boot => "update" \notin a_file)
      BY <1>2, <3>1 DEF BootInv, A!UpdatesStayOff, A!Said, A!Off, A!AtBoot
    <3> QED BY <3>1, <3>2 DEF Others
  <2> QED BY <2>1, <2>2
<1> QED BY <1>3, <1>5, <1>6, <1>7 DEF BootInv

\* The next step of a command: the commands before it stay as they were told of.
LEMMA CommandGoesOn ==
  ASSUME BootInv, Active, ~A!Last, a_op' = [a_op EXCEPT !.at = @ + 1], a_report' = a_report, Others,
         a_platform' = a_platform, a_clean' \in BOOLEAN, a_clean' => a_clean,
         Action = "enable" => Unit \in a_file' /\ (a_platform # "linux" => Unit \in a_boot'),
         Action = "enable" /\ a_clean' /\ a_op.at = 2 => (a_platform = "linux" <=> Unit \in a_loaded'),
         Action = "enable" /\ a_clean' /\ a_op.at = 3 => Unit \in a_loaded',
         Action = "disable" /\ Unit = "update" => Unit \notin a_on' /\ (a_platform = "linux" => Unit \notin a_boot')
  PROVE  BootInv'
<1>1. /\ a_op \in [unit : A!Units, action : {"enable", "disable"}, at : Nat \ {0}]
      /\ a_op.at <= Len(A!Script(Unit, Action)) /\ a_report[Unit] = A!NoReport
  BY DEF BootInv, Scripts
<1>2. Unit' = Unit /\ Action' = Action /\ a_op'.at = a_op.at + 1
  BY <1>1 DEF Unit, Action
<1>3. A!Script(Unit, Action)' = A!Script(Unit, Action)
  BY <1>2 DEF A!Script
<1>4. Len(A!Script(Unit, Action)) \in Nat
  <2>1. a_platform \in {"linux", "darwin", "windows"} /\ Unit \in A!Units /\ Action \in {"enable", "disable"}
    BY <1>1 DEF BootInv, Scripts, A!Platforms, Unit, Action
  <2> QED BY <2>1, ScriptIsList DEF A!Platforms
<1>5. Scripts'
  <2>1. a_op'.at \in Nat \ {0} /\ a_op'.at <= Len(A!Script(Unit, Action))'
    <3>1. a_op.at # Len(A!Script(Unit, Action))
      BY DEF A!Last, Unit, Action
    <3> HIDE DEF Unit, Action
    <3> QED BY <1>1, <1>2, <1>3, <1>4, <3>1
  <2>2. a_op' \in [unit : A!Units, action : {"enable", "disable"}, at : Nat \ {0}]
    BY <1>1, <2>1
  <2>3. a_report[Unit]' = A!NoReport
    BY <1>1, <1>2
  <2> QED BY <2>1, <2>2, <2>3 DEF BootInv, Scripts
<1>6. Enabling'
  <2> SUFFICES ASSUME Action = "enable"
                PROVE  /\ a_op'.at >= 2 => Unit \in a_file' /\ (a_platform' # "linux" => Unit \in a_boot')
                       /\ a_clean' /\ a_op'.at = 3 => (a_platform' = "linux" <=> Unit \in a_loaded')
                       /\ a_clean' /\ a_op'.at = 4 => Unit \in a_loaded'
    BY <1>2 DEF Enabling
  <2>1. a_op.at \in Nat
    BY <1>1
  <2> HIDE DEF Unit, Action
  <2>2. a_op'.at = 3 => a_op.at = 2
    BY <1>2, <2>1
  <2>3. a_op'.at = 4 => a_op.at = 3
    BY <1>2, <2>1
  <2> QED BY <2>2, <2>3
<1>7. Disabling'
  BY <1>2 DEF Disabling
<1>8. \A v \in A!Units : a_report[v].by # "none" => v # Unit
  BY <1>1 DEF A!NoReport
<1> HIDE DEF Unit, Action
<1>9. A!OnStays'
  <2> SUFFICES ASSUME NEW v \in A!Units, a_report[v].by = "enable", a_report[v].said = "ok"
                PROVE  v \in a_on' /\ v \in a_boot' /\ v \in a_file'
    BY DEF A!OnStays, A!Said, A!AtBoot
  <2>1. v \in a_on /\ v \in a_boot /\ v \in a_file
    BY DEF BootInv, A!OnStays, A!Said, A!AtBoot
  <2> QED BY <1>8, <2>1 DEF Others
<1>10. A!EnableRepairs'
  BY DEF BootInv, A!EnableRepairs
<1>11. A!UpdatesStayOff'
  <2> SUFFICES ASSUME a_report["update"].by = "disable", a_report["update"].said = "ok"
                PROVE  "update" \notin a_on' /\ ("update" \in a_boot' => "update" \notin a_file')
    BY DEF A!UpdatesStayOff, A!Said, A!Off, A!AtBoot
  <2>1. "update" \notin a_on /\ ("update" \in a_boot => "update" \notin a_file)
    BY DEF BootInv, A!UpdatesStayOff, A!Said, A!Off, A!AtBoot
  <2>2. "update" \in A!Units \ {Unit}
    BY <1>8 DEF A!Units
  <2> QED BY <2>1, <2>2 DEF Others
<1> QED BY <1>5, <1>6, <1>7, <1>9, <1>10, <1>11 DEF BootInv

LEMMA BootInvNext == BootInv /\ (A!Next \/ UNCHANGED a_vars) => BootInv'
<1> SUFFICES ASSUME BootInv, A!Next \/ UNCHANGED a_vars PROVE BootInv'
  OBVIOUS
<1>1. ASSUME NEW u \in A!Units, NEW action \in {"enable", "disable"}, A!Run(u, action) PROVE BootInv'
  <2>1. /\ ~Active /\ a_platform' = a_platform /\ a_clean' = TRUE
        /\ a_op' = [unit |-> u, action |-> action, at |-> 1]
        /\ a_report' = [a_report EXCEPT ![u] = A!NoReport]
        /\ a_file' = a_file /\ a_boot' = a_boot /\ a_on' = a_on
    BY <1>1 DEF A!Run, Active, A!units
  <2>2. DOMAIN a_report' = A!Units /\ a_report'[u] = A!NoReport /\ \A v \in A!Units \ {u} : a_report'[v] = a_report[v]
    BY <2>1 DEF BootInv, Scripts
  <2>3. Unit' = u /\ Action' = action /\ a_op'.at = 1
    BY <2>1 DEF Unit, Action
  <2>4. 1 <= Len(A!Script(Unit, Action))'
    <3>2. PICK s : s = A!Script(u, action)
      OBVIOUS
    <3>3. A!Script(Unit, Action)' = s
      BY <2>1, <2>3, <3>2 DEF A!Script
    <3>4. a_platform \in A!Platforms
      BY DEF BootInv, Scripts
    <3>5. Len(s) \in Nat \ {0}
      BY <1>1, <3>2, <3>4, ScriptIsList
    <3> QED BY <3>3, <3>5
  <2>5. Scripts'
    <3>1. \A v \in A!Units : a_report'[v] = A!NoReport \/
            a_report'[v] \in [by : {"enable", "disable"}, said : {"ok", "error"}, clean : BOOLEAN]
      BY <2>2 DEF BootInv, Scripts
    <3>2. a_op' \in [unit : A!Units, action : {"enable", "disable"}, at : Nat \ {0}]
      BY <1>1, <2>1
    <3>3. a_platform' \in A!Platforms /\ a_clean' \in BOOLEAN /\ a_report[Unit]' = A!NoReport
      BY <2>1, <2>2, <2>3 DEF BootInv, Scripts
    <3> QED BY <2>2, <2>3, <2>4, <3>1, <3>2, <3>3 DEF Scripts
  <2>6. Enabling' /\ Disabling'
    BY <2>3 DEF Enabling, Disabling
  <2>7. A!NoReport.by = "none"
    BY DEF A!NoReport
  <2>8. A!OnStays' /\ A!EnableRepairs'
    BY <2>1, <2>2, <2>7 DEF BootInv, A!OnStays, A!EnableRepairs, A!Said, A!AtBoot
  <2>9. A!UpdatesStayOff'
    BY <2>1, <2>2, <2>7 DEF BootInv, A!UpdatesStayOff, A!Said, A!AtBoot, A!Off, A!Units
  <2> QED BY <2>5, <2>6, <2>8, <2>9 DEF BootInv
<1>2. CASE A!StepDone
  <2>1. /\ Active /\ a_platform' = a_platform /\ a_clean' = a_clean /\ a_clean \in BOOLEAN
        /\ A!Works(A!Step.cmd, Unit) /\ A!Does(A!Step.cmd, Unit) /\ A!GoOn(FALSE)
    BY <1>2 DEF A!StepDone, Active, Unit, BootInv, Scripts
  <2>2. Others
    BY <2>1, OthersStay
  <2>3. Scripts /\ Enabling /\ Disabling
    BY DEF BootInv
  <2>4. CASE A!Last
    <3>1. A!Returns("ok")
      BY <2>1, <2>4 DEF A!GoOn
    <3> QED BY <2>1, <2>2, <2>3, <2>4, <3>1, DoneStep, CommandEnds
  <2>5. CASE ~A!Last
    <3>1. a_op' = [a_op EXCEPT !.at = @ + 1] /\ a_report' = a_report
      BY <2>1, <2>5 DEF A!GoOn
    <3> QED BY <2>1, <2>2, <2>3, <2>5, <3>1, DoneStep, CommandGoesOn
  <2> QED BY <2>4, <2>5
<1>3. CASE A!StepRefused
  <2>1. /\ Active /\ a_platform' = a_platform /\ a_clean' = a_clean /\ a_clean \in BOOLEAN
        /\ ~A!Works(A!Step.cmd, Unit) /\ A!GoOn(TRUE)
        /\ a_file' = a_file /\ a_loaded' = a_loaded /\ a_boot' = a_boot /\ a_on' = a_on
    BY <1>3 DEF A!StepRefused, Active, Unit, A!units, BootInv, Scripts
  <2>2. Others
    BY <2>1 DEF Others
  <2>3. Scripts /\ Enabling /\ Disabling
    BY DEF BootInv
  <2>4. CASE A!Step.must
    <3>1. A!Returns("error")
      BY <2>1, <2>4 DEF A!GoOn
    <3>2. ~(Action = "enable" /\ a_clean)
      BY <2>1, <2>3, <2>4, CleanWorks
    <3> QED BY <2>1, <2>2, <3>1, <3>2, CommandEnds
  <2>5. CASE ~A!Step.must /\ A!Last
    <3>1. A!Returns("ok")
      BY <2>1, <2>5 DEF A!GoOn
    <3>2. Action # "enable" /\ ~(Action = "disable" /\ Unit = "update")
      BY <2>1, <2>3, <2>5, MayFail
    <3> QED BY <2>1, <2>2, <3>1, <3>2, CommandEnds
  <2>6. CASE ~A!Step.must /\ ~A!Last
    <3>1. a_op' = [a_op EXCEPT !.at = @ + 1] /\ a_report' = a_report
      BY <2>1, <2>6 DEF A!GoOn
    <3>2. /\ Action = "enable" => a_platform = "darwin" /\ a_op.at = 2
          /\ Action = "disable" /\ Unit = "update" => a_platform = "linux" /\ a_op.at = 2
      BY <2>1, <2>3, <2>6, MayFail
    <3>3. Action = "enable" => Unit \in a_file /\ Unit \in a_boot /\ (a_clean => Unit \notin a_loaded)
      BY <2>1, <2>3, <3>2, CleanWorks DEF Enabling
    <3>4. Action = "disable" /\ Unit = "update" => Unit \notin a_on /\ Unit \notin a_boot
      BY <2>1, <2>3, <3>2 DEF Disabling
    <3> QED BY <2>1, <2>2, <2>6, <3>1, <3>2, <3>3, <3>4, CommandGoesOn
  <2> QED BY <2>4, <2>5, <2>6
<1>4. CASE A!StepFails
  <2>1. /\ Active /\ a_platform' = a_platform /\ a_clean' = FALSE /\ A!DoesHalf(A!Step.cmd, Unit) /\ A!GoOn(TRUE)
    BY <1>4 DEF A!StepFails, A!Fault, Active, Unit
  <2>2. Others
    BY <2>1, OthersStay
  <2>3. Scripts /\ Enabling /\ Disabling
    BY DEF BootInv
  <2>4. CASE A!Step.must
    <3>1. A!Returns("error")
      BY <2>1, <2>4 DEF A!GoOn
    <3> QED BY <2>1, <2>2, <3>1, CommandEnds
  <2>5. CASE ~A!Step.must /\ A!Last
    <3>1. A!Returns("ok")
      BY <2>1, <2>5 DEF A!GoOn
    <3>2. Action # "enable" /\ ~(Action = "disable" /\ Unit = "update")
      BY <2>1, <2>3, <2>5, MayFail
    <3> QED BY <2>1, <2>2, <3>1, <3>2, CommandEnds
  <2>6. CASE ~A!Step.must /\ ~A!Last
    <3>1. a_op' = [a_op EXCEPT !.at = @ + 1] /\ a_report' = a_report
      BY <2>1, <2>6 DEF A!GoOn
    <3>2. /\ Action = "enable" => a_platform = "darwin" /\ a_op.at = 2 /\ A!Step.cmd = "bootout"
          /\ Action = "disable" /\ Unit = "update" => a_platform = "linux" /\ a_op.at = 2 /\ A!Step.cmd = "remove"
      BY <2>1, <2>3, <2>6, MayFail
    <3>3. Action = "enable" \/ (Action = "disable" /\ Unit = "update") =>
            a_file' = a_file /\ a_boot' = a_boot /\ a_on' = a_on
      BY <2>1, <3>2 DEF A!DoesHalf, A!units
    <3>4. Action = "enable" => Unit \in a_file /\ Unit \in a_boot
      BY <2>1, <2>3, <3>2 DEF Enabling
    <3>5. Action = "disable" /\ Unit = "update" => Unit \notin a_on /\ Unit \notin a_boot
      BY <2>1, <2>3, <3>2 DEF Disabling
    <3> QED BY <2>1, <2>2, <2>6, <3>1, <3>2, <3>3, <3>4, <3>5, CommandGoesOn
  <2> QED BY <2>4, <2>5, <2>6
<1>5. CASE A!Kill
  <2>1. /\ ~Active' /\ a_platform' = a_platform /\ a_clean' = FALSE /\ a_report' = a_report
        /\ a_file' = a_file /\ a_boot' = a_boot /\ a_on' = a_on
    BY <1>5 DEF A!Kill, A!Fault, Active, A!units
  <2> QED BY <2>1 DEF BootInv, Scripts, Enabling, Disabling, A!OnStays, A!EnableRepairs, A!UpdatesStayOff, A!Said,
                      A!AtBoot, A!Off
<1>6. CASE A!Reboot
  <2>1. /\ ~Active' /\ a_platform' = a_platform /\ a_clean' = a_clean /\ a_report' = a_report
        /\ a_file' = a_file /\ a_boot' = a_boot /\ a_on' = a_boot \cap a_file
    BY <1>6 DEF A!Reboot, Active, A!AtBoot
  <2>2. A!OnStays'
    BY <2>1 DEF BootInv, A!OnStays, A!Said, A!AtBoot
  <2>3. A!UpdatesStayOff'
    BY <2>1 DEF BootInv, A!UpdatesStayOff, A!Said, A!AtBoot, A!Off
  <2> QED BY <2>1, <2>2, <2>3 DEF BootInv, Scripts, Enabling, Disabling, A!EnableRepairs
<1>7. CASE UNCHANGED a_vars
  BY <1>7 DEF a_vars, BootInv, Scripts, Enabling, Disabling, Active, Unit, Action, A!OnStays, A!EnableRepairs,
     A!UpdatesStayOff, A!Said, A!AtBoot, A!Off, A!Script, A!DaemonScript, A!UpdateScript
<1> QED BY <1>1, <1>2, <1>3, <1>4, <1>5, <1>6, <1>7 DEF A!Next

LEMMA BootHolds == HostSpec => []BootInv
<1>1. HostInit => BootInv
  <2> SUFFICES ASSUME HostInit PROVE BootInv
    OBVIOUS
  <2>1. a_platform \in A!Platforms /\ a_clean = TRUE /\ a_op = A!NoOp /\ a_report = [u \in A!Units |-> A!NoReport]
    BY DEF HostInit, A!Init
  <2>2. ~Active /\ A!NoReport.by = "none" /\ DOMAIN a_report = A!Units /\ \A u \in A!Units : a_report[u] = A!NoReport
    BY <2>1 DEF Active, A!NoReport
  <2>3. "update" \in A!Units
    BY DEF A!Units
  <2> QED BY <2>1, <2>2, <2>3 DEF BootInv, Scripts, Enabling, Disabling, A!OnStays, A!EnableRepairs, A!UpdatesStayOff,
                                  A!Said
<1>2. BootInv /\ [HostNext]_all => BootInv'
  BY BootInvNext, StepsOfHost
<1> QED BY <1>1, <1>2, PTL DEF HostSpec

\* Whatever step of a command fails, in part, is refused or is never reached, and whatever the host
\* reboots into: what Enable reported as enabled runs and comes back, an unhindered Enable succeeds
\* on what an earlier command left, and updates that Schedule disabled stay off.
THEOREM AutostartKeptHolds == HostSpec => []AutostartKept
<1>1. BootInv => AutostartKept
  BY DEF BootInv, AutostartKept
<1> QED BY <1>1, BootHolds, PTL DEF HostSpec

-----------------------------------------------------------------------------
\* The texts of alerts.

\* An event of a dry run is marked as one, and what waits in a batch is a ban, real or simulated.
Alerts ==
    /\ t_dryRun \in BOOLEAN /\ t_batching \in BOOLEAN
    /\ t_batch \in Seq(T!Events) /\ Len(t_batch) < T_MaxItems
    /\ \A i \in DOMAIN t_batch : t_batch[i].action # "notify" /\ (t_batch[i].action = "dry-run" => t_batch[i].dry)
    /\ t_last.items \in Seq(T!Events \cup {T!Audit}) /\ T!BannedIsReal
    /\ T!AlertOK(t_last) /\ (t_last.kind = "ban_batch" => Len(t_last.items) > 1)

\* The alert of one event, and of a batch of at least two.
LEMMA AlertOfEvent ==
  ASSUME NEW e \in T!Events, e.action = "dry-run" => e.dry
  PROVE  LET a == T!AlertFromEvent(e) IN
         /\ a.items \in Seq(T!Events \cup {T!Audit}) /\ T!AlertOK(a) /\ a.kind # "ban_batch"
         /\ T!Colour(a) = "red" => \A i \in DOMAIN a.items : a.items[i].action = "nft"
<1> DEFINE a == T!AlertFromEvent(e)
<1>1. e.action \in {"nft", "dry-run", "notify"} /\ e.dry \in BOOLEAN
  BY DEF T!Events
<1>2. a.items = <<e>> /\ a.dry = e.dry
      /\ a.kind = IF e.rule = "audit" THEN "audit" ELSE IF e.action = "notify" THEN "notify" ELSE "ban"
  BY <1>1 DEF T!AlertFromEvent
<1> HIDE DEF a
<1>3. DOMAIN a.items = {1} /\ a.items[1] = e
  BY <1>2
<1>4. a.items \in Seq(T!Events \cup {T!Audit})
  BY <1>2
<1>5. T!AlertOK(a) /\ a.kind # "ban_batch"
  BY <1>1, <1>2, <1>3 DEF T!AlertOK
<1>6. T!Colour(a) = "red" => e.action = "nft"
  BY <1>1, <1>2 DEF T!Colour
<1> QED BY <1>3, <1>4, <1>5, <1>6 DEF a

LEMMA AlertOfBatch ==
  ASSUME NEW batch \in Seq(T!Events), Len(batch) # 0,
         \A i \in DOMAIN batch : batch[i].action # "notify" /\ (batch[i].action = "dry-run" => batch[i].dry)
  PROVE  LET a == T!AlertFrom(batch) IN
         /\ a.items \in Seq(T!Events \cup {T!Audit}) /\ T!AlertOK(a) /\ (a.kind = "ban_batch" => Len(a.items) > 1)
         /\ T!Colour(a) = "red" => \A i \in DOMAIN a.items : a.items[i].action = "nft"
<1>1. CASE Len(batch) = 1
  <2>1. batch[1] \in T!Events /\ 1 \in DOMAIN batch
    BY <1>1
  <2>2. T!AlertFrom(batch) = T!AlertFromEvent(batch[1])
    BY <1>1 DEF T!AlertFrom
  <2> QED BY <2>1, <2>2, AlertOfEvent
<1>2. CASE Len(batch) # 1
  <2> DEFINE a == T!AlertFrom(batch)
  <2>1. a.items = batch /\ a.dry = T!DryAny(batch) /\ a.kind = "ban_batch"
    BY <1>2 DEF T!AlertFrom, T!AlertFromBanBatch
  <2> HIDE DEF a
  <2>2. \A i \in DOMAIN batch : batch[i] \in T!Events
    OBVIOUS
  <2>3. T!DryAny(batch) \in BOOLEAN
    BY DEF T!DryAny
  <2>4. T!AlertOK(a)
    BY <2>1, <2>2, <2>3 DEF T!AlertOK
  <2>5. Len(batch) > 1
    <3>1. PICK n \in Nat : n = Len(batch)
      OBVIOUS
    <3>2. n # 0 /\ n # 1
      BY <1>2, <3>1
    <3>3. n > 1
      BY <3>2
    <3> QED BY <3>1, <3>3
  <2>6. ASSUME T!Colour(a) = "red", NEW i \in DOMAIN batch PROVE batch[i].action = "nft"
    <3>1. ~T!DryAny(batch)
      BY <2>1, <2>6 DEF T!Colour
    <3>2. ~batch[i].dry
      BY <2>6, <3>1 DEF T!DryAny
    <3>3. batch[i].action \in {"nft", "dry-run", "notify"}
      BY <2>2, <2>6 DEF T!Events
    <3> QED BY <2>6, <3>2, <3>3
  <2>7. batch \in Seq(T!Events \cup {T!Audit})
    OBVIOUS
  <2> QED BY <2>1, <2>4, <2>5, <2>6, <2>7 DEF a
<1> QED BY <1>1, <1>2

LEMMA AlertsNext == Alerts /\ (T!Next \/ UNCHANGED t_vars) => Alerts'
<1> SUFFICES ASSUME Alerts, T!Next \/ UNCHANGED t_vars PROVE Alerts'
  OBVIOUS
<1>0. T_MaxItems \in Nat \ {0}
  BY HostAssumption DEF T!AlertAssumption
<1>1. ASSUME NEW e \in T!Events, T!NotifyBan(e) PROVE Alerts'
  <2>1. e.action = "dry-run" => e.dry
    BY <1>1 DEF T!NotifyBan, T!EventNow
  <2>2. UNCHANGED <<t_dryRun, t_batching>>
    BY <1>1 DEF T!NotifyBan
  <2>3. CASE ~t_batching \/ e.action = "notify"
    <3>1. t_last' = T!AlertFromEvent(e) /\ t_batch' = t_batch
      BY <1>1, <2>3 DEF T!NotifyBan
    <3> QED BY <2>1, <2>2, <3>1, AlertOfEvent DEF Alerts, T!BannedIsReal
  <2>4. CASE t_batching /\ e.action # "notify"
    <3> DEFINE joined == Append(t_batch, e)
    <3>1. joined \in Seq(T!Events) /\ Len(joined) = Len(t_batch) + 1
      BY DEF Alerts
    <3>2. \A i \in DOMAIN joined : joined[i].action # "notify" /\ (joined[i].action = "dry-run" => joined[i].dry)
      <4> SUFFICES ASSUME NEW i \in DOMAIN joined
                    PROVE  joined[i].action # "notify" /\ (joined[i].action = "dry-run" => joined[i].dry)
        OBVIOUS
      <4>1. joined[i] = e \/ (i \in DOMAIN t_batch /\ joined[i] = t_batch[i])
        BY DEF Alerts
      <4> QED BY <2>1, <2>4, <4>1 DEF Alerts
    <3>3. CASE T!BatchFull(joined)
      <4>1. t_last' = T!AlertFrom(joined) /\ t_batch' = << >>
        BY <1>1, <2>4, <3>3 DEF T!NotifyBan
      <4>2. Len(joined) # 0
        BY <3>1 DEF Alerts
      <4>3. t_batch' \in Seq(T!Events) /\ Len(t_batch') < T_MaxItems /\ DOMAIN t_batch' = {}
        BY <1>0, <4>1
      <4> HIDE DEF joined
      <4> QED BY <2>2, <3>1, <3>2, <4>1, <4>2, <4>3, AlertOfBatch DEF Alerts, T!BannedIsReal
    <3>4. CASE ~T!BatchFull(joined)
      <4>1. t_last' = t_last /\ t_batch' = joined
        BY <1>1, <2>4, <3>4 DEF T!NotifyBan
      <4>2. Len(joined) < T_MaxItems
        BY <1>0, <3>1, <3>4 DEF T!BatchFull, Alerts
      <4> HIDE DEF joined
      <4> QED BY <2>2, <3>1, <3>2, <4>1, <4>2 DEF Alerts, T!BannedIsReal
    <3> QED BY <3>3, <3>4
  <2> QED BY <2>3, <2>4 DEF Alerts
<1>2. ASSUME NEW n \in 1..T_MaxItems, T!NotifyAudit(n) PROVE Alerts'
  <2> DEFINE e == [T!Audit EXCEPT !.dry = t_dryRun]
             items == [i \in 1..n |-> T!Audit]
  <2>1. e.rule = "audit" /\ e.dry = t_dryRun
    BY DEF T!Audit
  <2>2. t_last' = [kind |-> "audit", dry |-> t_dryRun, items |-> items] /\ UNCHANGED <<t_dryRun, t_batching, t_batch>>
    BY <1>2, <2>1 DEF T!NotifyAudit, T!AlertFromEvent
  <2>3. n \in Nat
    BY <1>0
  <2>4. items \in Seq(T!Events \cup {T!Audit}) /\ \A i \in DOMAIN items : items[i] = T!Audit
    BY <2>3
  <2>5. t_last'.kind = "audit" /\ t_last'.dry = t_dryRun /\ t_last'.items = items
    BY <2>2
  <2> HIDE DEF items
  <2>6. T!AlertOK(t_last')
    BY <2>4, <2>5 DEF Alerts, T!AlertOK
  <2>7. T!Colour(t_last') # "red"
    BY <2>5 DEF T!Colour
  <2> QED BY <2>2, <2>4, <2>5, <2>6, <2>7 DEF Alerts, T!BannedIsReal
<1>3. CASE T!BatchToQueue
  <2>1. t_last' = T!AlertFrom(t_batch) /\ t_batch' = << >> /\ t_batch # << >> /\ UNCHANGED <<t_dryRun, t_batching>>
    BY <1>3 DEF T!BatchToQueue
  <2>2. Len(t_batch) # 0
    BY <2>1 DEF Alerts
  <2>3. t_batch' \in Seq(T!Events) /\ Len(t_batch') < T_MaxItems /\ DOMAIN t_batch' = {}
    BY <1>0, <2>1
  <2> QED BY <2>1, <2>2, <2>3, AlertOfBatch DEF Alerts, T!BannedIsReal
<1>4. CASE T!Restart
  BY <1>4 DEF T!Restart, Alerts, T!BannedIsReal
<1>5. CASE UNCHANGED t_vars
  BY <1>5 DEF t_vars, Alerts, T!BannedIsReal
<1> QED BY <1>1, <1>2, <1>3, <1>4, <1>5 DEF T!Next

\* The units of a text: none, and of a text with one more character.
LEMMA UnitsOf ==
  ASSUME NEW S, NEW s \in Seq(S)
  PROVE  /\ T!Units(s) \in Nat
         /\ s = << >> => T!Units(s) = 0
         /\ \A c : c.width = 1 => T!Units(Append(s, c)) = T!Units(s) + 1
<1> DEFINE W(t) == {i \in DOMAIN t : t[i].width = 2}
<1>0. \A t : T!Units(t) = Len(t) + Cardinality(W(t))
  <2>1. \A X : T!Cardinality(X) = Cardinality(X)
    BY DEF T!Cardinality, Cardinality
  <2> QED BY <2>1 DEF T!Units
<1>1. IsFiniteSet(1..Len(s))
  BY FS_Interval
<1>2. IsFiniteSet(W(s))
  BY <1>1, FS_Subset
<1>3. T!Units(s) = Len(s) + Cardinality(W(s))
  BY <1>0
<1>4. Cardinality(W(s)) \in Nat
  BY <1>2, FS_CardinalityType
<1>5. s = << >> => W(s) = {}
  OBVIOUS
<1>6. Cardinality({}) = 0
  BY FS_EmptySet
<1>7. ASSUME NEW c, c.width = 1 PROVE T!Units(Append(s, c)) = T!Units(s) + 1
  <2>1. /\ DOMAIN Append(s, c) = 1..Len(s) + 1 /\ Len(Append(s, c)) = Len(s) + 1
        /\ Append(s, c)[Len(s) + 1] = c /\ \A i \in 1..Len(s) : Append(s, c)[i] = s[i]
    <3>1. s \in Seq(S \cup {c}) /\ Append(s, c) \in Seq(S \cup {c})
      OBVIOUS
    <3> QED BY <3>1
  <2>2. W(Append(s, c)) = W(s)
    BY <1>7, <2>1
  <2>3. T!Units(Append(s, c)) = Len(Append(s, c)) + Cardinality(W(Append(s, c)))
    BY <1>0
  <2> HIDE DEF W
  <2> QED BY <1>3, <1>4, <2>1, <2>2, <2>3
<1>8. s = << >> => Len(s) = 0
  OBVIOUS
<1>9. Len(s) \in Nat
  OBVIOUS
<1> HIDE DEF W
<1>10. T!Units(s) \in Nat
  BY <1>3, <1>4, <1>9
<1>11. ASSUME s = << >> PROVE T!Units(s) = 0
  BY <1>3, <1>5, <1>6, <1>8, <1>11
<1> QED BY <1>7, <1>10, <1>11

\* What truncate leaves fits, and shows that it is cut.
LEMMA TruncateFits ==
  ASSUME NEW S, NEW s \in Seq(S), NEW limit \in Nat \ {0}
  PROVE  T!Units(T!Truncate(s, limit)) <= limit /\ T!Marked(T!Truncate(s, limit), s)
<1> DEFINE over == {i \in DOMAIN s : T!Units(SubSeq(s, 1, i)) > limit - 1}
<1>1. \A i \in 0..Len(s) : SubSeq(s, 1, i) \in Seq(S)
  OBVIOUS
<1>2. SubSeq(s, 1, Len(s)) = s /\ SubSeq(s, 1, 0) = << >>
  OBVIOUS
<1>3. \A i \in 0..Len(s) : T!Units(SubSeq(s, 1, i)) \in Nat
  BY <1>1, UnitsOf
<1>4. T!Units(SubSeq(s, 1, 0)) = 0
  <2>1. << >> \in Seq(S)
    OBVIOUS
  <2> QED BY <1>2, <2>1, UnitsOf
<1>5. CASE over = {}
  <2>1. T!Truncate(s, limit) = s
    BY <1>5 DEF T!Truncate
  <2>2. T!Units(SubSeq(s, 1, Len(s))) <= limit - 1
    <3>1. CASE Len(s) = 0
      BY <1>4, <3>1
    <3>2. CASE Len(s) # 0
      <4>1. Len(s) \in DOMAIN s /\ Len(s) \in 0..Len(s)
        BY <3>2
      <4> QED BY <1>3, <1>5, <4>1
    <3> QED BY <3>1, <3>2
  <2>3. T!Units(s) <= limit - 1 /\ T!Units(s) \in Nat
    BY <1>2, <2>2, UnitsOf
  <2> QED BY <2>1, <2>3 DEF T!Marked
<1>6. CASE over # {}
  <2>1. over \in SUBSET Nat
    OBVIOUS
  <2>2. PICK m \in over : m = T!Least(over) /\ \A k \in over : m <= k
    BY <1>6, <2>1, LeastExists DEF T!Least
  <2> DEFINE head == SubSeq(s, 1, m - 1)
  <2>3. m \in 1..Len(s) /\ m - 1 \in 0..Len(s) /\ m - 1 \notin over
    <3>1. m \in 1..Len(s)
      OBVIOUS
    <3>2. m - 1 < m
      BY <3>1
    <3> HIDE DEF over
    <3> QED BY <2>2, <3>1, <3>2
  <2>4. T!Units(head) <= limit - 1
    <3>1. CASE m = 1
      BY <1>4, <3>1
    <3>2. CASE m # 1
      <4>1. m - 1 \in DOMAIN s
        BY <2>3, <3>2
      <4> QED BY <1>3, <2>3, <4>1
    <3> QED BY <3>1, <3>2
  <2>5. T!Truncate(s, limit) = Append(head, T!Mark)
    BY <1>6, <2>2 DEF T!Truncate
  <2>6. head \in Seq(S) /\ T!Mark.width = 1
    BY <1>1, <2>3 DEF T!Mark, T!Char
  <2> HIDE DEF head
  <2>7. T!Units(Append(head, T!Mark)) = T!Units(head) + 1 /\ T!Units(head) \in Nat
    BY <2>6, UnitsOf
  <2>8. T!Marked(Append(head, T!Mark), s)
    <3>1. head \in Seq(S \cup {T!Mark})
      BY <2>6
    <3>2. Append(head, T!Mark) # << >> /\ Append(head, T!Mark)[Len(Append(head, T!Mark))] = T!Mark
      BY <3>1
    <3> QED BY <3>2 DEF T!Marked
  <2> QED BY <2>4, <2>5, <2>7, <2>8
<1> QED BY <1>5, <1>6

\* The texts are sequences of characters.
LEMMA TextsAreSequences ==
  ASSUME Alerts
  PROVE  \E S : T!Detail(t_last) \in Seq(S) /\ T!PlainText(t_last) \in Seq(S)
<1> DEFINE n == Len(t_last.items)
           e(c) == T!Line(t_last, (c + 1) \div 2)[2 - (c % 2)]
           S == {e(c) : c \in 1..2 * n} \cup {T!Char(0, 1)}
<1>1. n \in Nat
  BY DEF Alerts
<1>2. [c \in 1..2 * n |-> e(c)] \in Seq(S)
  <2>1. PICK k \in Nat : k = 2 * n
    BY <1>1
  <2>2. \A c \in 1..k : e(c) \in S
    BY <2>1
  <2> HIDE DEF e, S, n
  <2> QED BY <2>1, <2>2
<1>3. T!Detail(t_last) \in Seq(S)
  <2>1. PICK d : d = [c \in 1..2 * n |-> e(c)]
    OBVIOUS
  <2>2. T!Detail(t_last) = << >> \/ T!Detail(t_last) = d
    BY <2>1 DEF T!Detail
  <2>3. d \in Seq(S)
    BY <1>2, <2>1
  <2>4. << >> \in Seq(S)
    OBVIOUS
  <2>5. CASE T!Detail(t_last) = << >>
    BY <2>4, <2>5
  <2>6. CASE T!Detail(t_last) = d
    BY <2>3, <2>6
  <2> QED BY <2>2, <2>5, <2>6
<1>4. <<T!Char(0, 1)>> \in Seq(S)
  OBVIOUS
<1> HIDE DEF S
<1>5. T!PlainText(t_last) \in Seq(S)
  BY <1>3, <1>4 DEF T!PlainText, T!Header, T!Footer
<1> QED BY <1>3, <1>5

LEMMA AlertsHolds == HostSpec => []Alerts
<1>1. HostInit => Alerts
  BY HostAssumption DEF HostInit, T!Init, T!AlertAssumption, Alerts, T!NoAlert, T!BannedIsReal, T!AlertOK, T!Colour
<1>2. Alerts /\ [HostNext]_all => Alerts'
  BY AlertsNext, StepsOfHost
<1> QED BY <1>1, <1>2, PTL DEF HostSpec

\* Whatever was waiting in a batch when the mode changed: no simulated ban is announced as a real one
\* (banTitle), every text fits its channel (truncate), wide characters included, and shows that it is cut.
THEOREM AlertsTrueHolds == HostSpec => []AlertsTrue
<1>1. Alerts => AlertsTrue
  <2> SUFFICES ASSUME Alerts PROVE T!BannedIsReal /\ T!TextsFit /\ T!CutsShow
    BY DEF AlertsTrue
  <2>1. PICK S : T!Detail(t_last) \in Seq(S) /\ T!PlainText(t_last) \in Seq(S)
    BY TextsAreSequences
  <2>2. T_TextLimit \in Nat \ {0} /\ T_DetailLimit \in Nat \ {0}
    BY HostAssumption DEF T!AlertAssumption
  <2> QED BY <2>1, <2>2, TruncateFits DEF Alerts, T!TextsFit, T!CutsShow, T!Telegram, T!Discord
<1> QED BY <1>1, AlertsHolds, PTL DEF HostSpec

-----------------------------------------------------------------------------
\* Loading a configuration.

PlaceKeys == [place : STRING \cup {"home"}, pad : {"none", "left", "right", "both"}]
Regions   == UNION {[D -> Int] : D \in SUBSET PlaceKeys}
RuleNames == STRING \cup {"rule", "ssh-auth-failure", L!Blank}
RuleTypes == [name : RuleNames, attempts : Int, reset : BOOLEAN, regions : Regions]
PathNames == STRING \cup {L!Blank, L!DefaultState} \cup {L!OwnQueue(s) : s \in L!StatePaths}
Configs   == [state : PathNames, queue : PathNames, rules : Seq(RuleTypes)]

\* What the range over the regions has made of those of the file, e, when the keys left are still to
\* visit: those are as they were, the others trimmed.
Ranged(e, m, left) ==
    /\ left \subseteq DOMAIN e
    /\ \A k \in left : k \in DOMAIN m /\ m[k] = e[k]
    /\ \A k \in DOMAIN e \ left : k.place # L!Blank /\ e[k] > 0 => L!Trim(k) \in DOMAIN m /\ m[L!Trim(k)] = e[k]

\* No two regions of a rule are one place, padded differently.
DistinctPlaces(e) == \A k, l \in DOMAIN e : k.place = l.place => k = l

LEMMA RegionsAre ==
  ASSUME NEW m \in Regions
  PROVE  DOMAIN m \subseteq PlaceKeys /\ m \in [DOMAIN m -> Int]
BY DEF Regions

LEMMA DropIs ==
  ASSUME NEW m \in Regions, NEW k, IsFiniteSet(DOMAIN m)
  PROVE  /\ L!Drop(m, k) \in Regions /\ DOMAIN L!Drop(m, k) = DOMAIN m \ {k} /\ IsFiniteSet(DOMAIN L!Drop(m, k))
         /\ \A x \in DOMAIN m \ {k} : L!Drop(m, k)[x] = m[x]
<1>1. DOMAIN m \subseteq PlaceKeys /\ m \in [DOMAIN m -> Int]
  BY RegionsAre
<1>2. DOMAIN L!Drop(m, k) = DOMAIN m \ {k} /\ \A x \in DOMAIN m \ {k} : L!Drop(m, k)[x] = m[x]
  BY DEF L!Drop
<1>3. L!Drop(m, k) \in [DOMAIN m \ {k} -> Int]
  BY <1>1 DEF L!Drop
<1>4. (DOMAIN m \ {k}) \in SUBSET PlaceKeys
  BY <1>1
<1>5. L!Drop(m, k) \in Regions
  BY <1>3, <1>4 DEF Regions
<1>6. IsFiniteSet(DOMAIN m \ {k})
  BY FS_RemoveElement
<1> QED BY <1>2, <1>5, <1>6

LEMMA PutIs ==
  ASSUME NEW m \in Regions, NEW k \in PlaceKeys, NEW v \in Int, IsFiniteSet(DOMAIN m)
  PROVE  /\ L!Put(m, k, v) \in Regions /\ DOMAIN L!Put(m, k, v) = DOMAIN m \cup {k}
         /\ IsFiniteSet(DOMAIN L!Put(m, k, v))
         /\ \A x \in DOMAIN m \ {k} : L!Put(m, k, v)[x] = m[x]
         /\ L!Put(m, k, v)[k] = v
<1>1. DOMAIN m \subseteq PlaceKeys /\ m \in [DOMAIN m -> Int]
  BY RegionsAre
<1>2. /\ DOMAIN L!Put(m, k, v) = DOMAIN m \cup {k} /\ L!Put(m, k, v)[k] = v
      /\ \A x \in DOMAIN m \ {k} : L!Put(m, k, v)[x] = m[x]
  BY DEF L!Put
<1>3. L!Put(m, k, v) \in [DOMAIN m \cup {k} -> Int]
  BY <1>1 DEF L!Put
<1>4. (DOMAIN m \cup {k}) \in SUBSET PlaceKeys
  BY <1>1
<1>5. L!Put(m, k, v) \in Regions
  BY <1>3, <1>4 DEF Regions
<1>6. IsFiniteSet(DOMAIN m \cup {k})
  BY FS_AddElement
<1> QED BY <1>2, <1>5, <1>6

LEMMA TrimIs ==
  ASSUME NEW k \in PlaceKeys PROVE L!Trim(k) \in PlaceKeys /\ L!Trim(k).place = k.place
BY DEF PlaceKeys, L!Trim

\* One round of the range, in whatever order it goes.
LEMMA RegionVisited ==
  ASSUME NEW m \in Regions, IsFiniteSet(DOMAIN m), NEW e, DOMAIN e \subseteq PlaceKeys, DistinctPlaces(e),
         NEW left, NEW k \in left, Ranged(e, m, left),
         NEW new, new = IF k.place = L!Blank \/ m[k] <= 0 THEN L!Drop(m, k)
                        ELSE IF L!Trim(k) # k THEN L!Put(L!Drop(m, k), L!Trim(k), m[k]) ELSE m
  PROVE  Ranged(e, new, left \ {k})
<1>1. k \in DOMAIN e /\ k \in PlaceKeys /\ k \in DOMAIN m /\ m[k] = e[k] /\ m[k] \in Int
  BY RegionsAre DEF Ranged
<1>2. PICK t : t = L!Trim(k)
  OBVIOUS
<1>3. t \in PlaceKeys /\ t.place = k.place
  BY <1>1, <1>2, TrimIs
<1>4. /\ L!Drop(m, k) \in Regions /\ DOMAIN L!Drop(m, k) = DOMAIN m \ {k} /\ IsFiniteSet(DOMAIN L!Drop(m, k))
      /\ \A x \in DOMAIN m \ {k} : L!Drop(m, k)[x] = m[x]
  BY DropIs
<1>5. /\ DOMAIN L!Put(L!Drop(m, k), t, m[k]) = (DOMAIN m \ {k}) \cup {t}
      /\ L!Put(L!Drop(m, k), t, m[k])[t] = m[k]
      /\ \A x \in DOMAIN m \ {k, t} : L!Put(L!Drop(m, k), t, m[k])[x] = m[x]
  <2>1. PICK d : d = L!Drop(m, k)
    OBVIOUS
  <2>2. d \in Regions /\ DOMAIN d = DOMAIN m \ {k} /\ IsFiniteSet(DOMAIN d) /\ \A x \in DOMAIN m \ {k} : d[x] = m[x]
    BY <1>4, <2>1
  <2>3. /\ DOMAIN L!Put(d, t, m[k]) = DOMAIN d \cup {t} /\ L!Put(d, t, m[k])[t] = m[k]
        /\ \A x \in DOMAIN d \ {t} : L!Put(d, t, m[k])[x] = d[x]
    <3>1. PICK v \in Int : v = m[k]
      BY <1>1
    <3>2. t \in PlaceKeys /\ d \in Regions /\ IsFiniteSet(DOMAIN d)
      BY <1>3, <2>2
    <3>3. /\ DOMAIN L!Put(d, t, v) = DOMAIN d \cup {t} /\ L!Put(d, t, v)[t] = v
          /\ \A x \in DOMAIN d \ {t} : L!Put(d, t, v)[x] = d[x]
      BY <3>2, PutIs
    <3> QED BY <3>1, <3>3
  <2> QED BY <2>1, <2>2, <2>3
<1>6. ASSUME NEW l \in left \ {k} PROVE l \in DOMAIN new /\ new[l] = e[l]
  <2>1. l \in DOMAIN e /\ l \in DOMAIN m /\ m[l] = e[l]
    BY DEF Ranged
  <2>2. l # t
    BY <1>1, <1>3, <2>1 DEF DistinctPlaces
  <2> QED BY <1>2, <1>4, <1>5, <2>1, <2>2
<1>7. ASSUME NEW l \in DOMAIN e \ (left \ {k}), l.place # L!Blank, e[l] > 0
      PROVE  L!Trim(l) \in DOMAIN new /\ new[L!Trim(l)] = e[l]
  <2>1. CASE l = k
    <3>1. CASE t # k
      BY <1>1, <1>2, <1>5, <1>7, <2>1, <3>1
    <3>2. CASE t = k
      BY <1>1, <1>2, <1>7, <2>1, <3>2
    <3> QED BY <3>1, <3>2
  <2>2. CASE l # k
    <3>1. PICK s : s = L!Trim(l)
      OBVIOUS
    <3>2. s \in DOMAIN m /\ m[s] = e[l]
      BY <1>7, <2>2, <3>1 DEF Ranged
    <3>3. s # k /\ s # t
      <4>1. s.place = l.place
        BY <3>1, TrimIs
      <4>2. l.place # k.place
        BY <1>1, <2>2 DEF DistinctPlaces
      <4> QED BY <1>3, <4>1, <4>2
    <3> QED BY <1>2, <1>4, <1>5, <3>1, <3>2, <3>3
  <2> QED BY <2>1, <2>2
<1>8. left \ {k} \subseteq DOMAIN e
  BY DEF Ranged
<1> HIDE DEF DistinctPlaces
<1> QED BY <1>6, <1>7, <1>8 DEF Ranged

\* The rules that have their fields, and the keys that are left of a rule's regions.
Touched    == {n \in DOMAIN l_cfg.rules : n < l_i \/ (n = l_i /\ l_pc = "regions")}
LeftOf(n)  == IF n = l_i /\ l_pc = "regions" THEN l_left ELSE {}
PathsApart == /\ l_cfg.state # L!Blank /\ l_cfg.queue # L!Blank
              /\ L!Clean(l_cfg.queue) # L!Clean(l_cfg.state)

LoadTyped ==
    /\ l_file \in L_Files /\ l_cfg \in Configs
    /\ \A n \in DOMAIN l_cfg.rules : IsFiniteSet(DOMAIN l_cfg.rules[n].regions)
    /\ l_i \in Nat \ {0}

\* Where the walk over the rules is.
LoadWalk ==
    /\ l_pc \in {"read", "head", "rule", "regions", "accepted", "rejected"}
    /\ l_pc = "read" => l_cfg = L!Defaults
    /\ l_pc \in {"read", "head"} => l_i = 1 /\ l_cfg.state \in L!StatePaths
    /\ l_i <= Len(l_cfg.rules) + 1
    /\ l_pc = "accepted" => l_i > Len(l_cfg.rules)
    /\ IF l_pc = "regions" THEN l_i <= Len(l_cfg.rules) /\ l_left \subseteq DOMAIN l_cfg.rules[l_i].regions ELSE l_left = {}
    /\ l_pc \in {"rule", "regions", "accepted"} => PathsApart

\* What the rules are compared with the file under: the list of rules has its name in lower case, and no rule gives one
\* place twice.
AsWritten ==
    /\ \A f \in L_Files : f.key # "Rules"
    /\ \A f \in L_Files : \A n \in DOMAIN f.rules :
         f.rules[n].regions # Absent => DistinctPlaces(f.rules[n].regions)

\* What it has made of them.
RulesTouched ==
    /\ \A n \in Touched : l_cfg.rules[n].name # L!Blank /\ l_cfg.rules[n].attempts > 0
    /\ \A m, n \in Touched : l_cfg.rules[m].name = l_cfg.rules[n].name => m = n
RulesFromFile ==
    AsWritten /\ l_file.key # Absent /\ l_pc # "read" =>
        /\ Len(l_cfg.rules) = Len(l_file.rules)
        /\ \A n \in DOMAIN l_cfg.rules :
             LET e == l_file.rules[n]  r == l_cfg.rules[n] IN
             IF n \notin Touched THEN r = L!DecodeRule(e, L!ZeroRule)
             ELSE L!Said(e, r) /\ (e.regions # Absent => Ranged(e.regions, r.regions, LeftOf(n)))

LoadInv == LoadTyped /\ LoadWalk /\ RulesTouched /\ RulesFromFile

\* A configuration with another rule in the place of one.
LEMMA RuleReplaced ==
  ASSUME NEW c \in Configs, NEW j \in 1..Len(c.rules), NEW r \in RuleTypes, NEW new,
         new = [c EXCEPT !.rules = [c.rules EXCEPT ![j] = r]]
  PROVE  /\ new \in Configs /\ new.state = c.state /\ new.queue = c.queue
         /\ Len(new.rules) = Len(c.rules) /\ DOMAIN new.rules = DOMAIN c.rules
         /\ new.rules[j] = r /\ \A n \in DOMAIN c.rules : n # j => new.rules[n] = c.rules[n]
<1>1. c.rules \in Seq(RuleTypes) /\ c.state \in PathNames /\ c.queue \in PathNames
  BY DEF Configs
<1>2. PICK s : s = c.rules
  OBVIOUS
<1>3. PICK t : t = [s EXCEPT ![j] = r]
  OBVIOUS
<1>4. s \in Seq(RuleTypes) /\ j \in 1..Len(s)
  BY <1>1, <1>2
<1>5. /\ t \in Seq(RuleTypes) /\ Len(t) = Len(s) /\ DOMAIN t = DOMAIN s /\ t[j] = r
      /\ \A n \in DOMAIN s : n # j => t[n] = s[n]
  BY <1>3, <1>4
<1>6. new.rules = t /\ new.state = c.state /\ new.queue = c.queue /\ new \in Configs
  BY <1>1, <1>2, <1>3, <1>5 DEF Configs
<1> QED BY <1>2, <1>5, <1>6

\* What a file's rule is decoded to, over a rule that is empty.
LEMMA DecodedRule ==
  ASSUME NEW f \in L_Files, NEW n \in DOMAIN f.rules
  PROVE  LET e == f.rules[n]  r == L!DecodeRule(e, L!ZeroRule) IN
         /\ r \in RuleTypes /\ IsFiniteSet(DOMAIN r.regions)
         /\ e.reset = Absent => ~r.reset
         /\ e.regions = Absent => r.regions = L!NoRegions
         /\ e.attempts = Absent => r.attempts = 0
         /\ e.name = Absent => r.name = L!Blank
         /\ e.regions # Absent => r.regions = e.regions /\ DOMAIN e.regions \subseteq PlaceKeys
<1>1. PICK e : e = f.rules[n]
  OBVIOUS
<1>2. L!EntryOK(e)
  BY <1>1, HostAssumption DEF L!ConfigAssumption, L!FileOK
<1>3. PICK z : z = L!ZeroRule
  OBVIOUS
<1>4. z = [name |-> L!Blank, attempts |-> 0, reset |-> FALSE, regions |-> <<>>]
  BY <1>3 DEF L!ZeroRule, L!NoRegions
<1>5. PICK g : g = IF e.regions = Absent THEN <<>> ELSE e.regions
  OBVIOUS
<1>6. e.regions # Absent => DOMAIN e.regions \subseteq PlaceKeys /\ IsFiniteSet(DOMAIN e.regions)
                            /\ e.regions \in [DOMAIN e.regions -> Int]
  BY <1>2 DEF L!EntryOK, L!RegionsOK, PlaceKeys, L!IsFiniteSet, IsFiniteSet
<1>7. g \in Regions /\ IsFiniteSet(DOMAIN g)
  <2>1. CASE e.regions = Absent
    <3>1. DOMAIN << >> = {} /\ << >> \in [{} -> Int]
      OBVIOUS
    <3> QED BY <1>5, <2>1, <3>1, FS_EmptySet DEF Regions
  <2>2. CASE e.regions # Absent
    BY <1>5, <1>6, <2>2 DEF Regions
  <2> QED BY <2>1, <2>2
<1>8. (IF e.regions = Absent THEN z.regions
       ELSE [k \in DOMAIN e.regions \cup DOMAIN z.regions |->
               IF k \in DOMAIN e.regions THEN e.regions[k] ELSE z.regions[k]]) = g
  <2>1. z.regions = << >> /\ DOMAIN << >> = {}
    BY <1>4
  <2>2. PICK m : m = e.regions
    OBVIOUS
  <2>3. CASE e.regions # Absent
    <3>1. [k \in DOMAIN m \cup {} |-> IF k \in DOMAIN m THEN m[k] ELSE z.regions[k]] = m
      <4>1. m \in [DOMAIN m -> Int]
        BY <1>6, <2>2, <2>3
      <4> QED BY <4>1
    <3> QED BY <1>5, <2>1, <2>2, <2>3, <3>1
  <2> QED BY <1>5, <2>1, <2>3
<1>9. PICK r : r = L!DecodeRule(e, z)
  OBVIOUS
<1>10. r = [name |-> L!Over(e.name, L!Blank), attempts |-> L!Over(e.attempts, 0), reset |-> L!Over(e.reset, FALSE),
            regions |-> g]
  BY <1>4, <1>8, <1>9 DEF L!DecodeRule
<1>11. /\ L!Over(e.name, L!Blank) \in RuleNames /\ L!Over(e.attempts, 0) \in Int /\ L!Over(e.reset, FALSE) \in BOOLEAN
  <2>1. e.name \in STRING \cup {Absent} /\ e.attempts \in Int \cup {Absent} /\ e.reset \in BOOLEAN \cup {Absent}
    BY <1>2 DEF L!EntryOK, L!Field
  <2>2. \A S, v, old : v \in S \cup {Absent} /\ old \in S => L!Over(v, old) \in S
    BY DEF L!Over
  <2>3. e.name \in RuleNames \cup {Absent} /\ L!Blank \in RuleNames
    BY <2>1 DEF RuleNames
  <2>4. FALSE \in BOOLEAN /\ 0 \in Int
    OBVIOUS
  <2>5. L!Over(e.name, L!Blank) \in RuleNames
    BY <2>2, <2>3
  <2>6. L!Over(e.attempts, 0) \in Int
    BY <2>1, <2>2, <2>4
  <2>7. L!Over(e.reset, FALSE) \in BOOLEAN
    <3> HIDE DEF L!Over
    <3> QED BY <2>1, <2>2, <2>4, Zenon
  <2> QED BY <2>5, <2>6, <2>7
<1>12. r \in RuleTypes
  BY <1>7, <1>10, <1>11 DEF RuleTypes
<1> QED BY <1>1, <1>3, <1>5, <1>6, <1>7, <1>9, <1>10, <1>12 DEF L!Over, L!NoRegions

LEMMA DefaultsTyped ==
  /\ L!Defaults \in Configs /\ L!Defaults.rules = <<L!DefaultRule>> /\ Len(L!Defaults.rules) = 1
  /\ \A n \in DOMAIN L!Defaults.rules : IsFiniteSet(DOMAIN L!Defaults.rules[n].regions)
<1>1. L!HomeRegion \in PlaceKeys
  BY DEF L!HomeRegion, PlaceKeys
<1>2. PICK h : h = L!HomeRegion
  OBVIOUS
<1>3. [k \in {h} |-> 100] \in [{h} -> Int] /\ {h} \in SUBSET PlaceKeys
  BY <1>1, <1>2
<1>4. [k \in {h} |-> 100] \in Regions
  BY <1>3 DEF Regions
<1>5. PICK g : g = [k \in {h} |-> 100]
  OBVIOUS
<1>6. IsFiniteSet(DOMAIN g)
  BY <1>5, FS_Singleton
<1>7. PICK r : r = L!DefaultRule
  OBVIOUS
<1>8. r = [name |-> "ssh-auth-failure", attempts |-> 5, reset |-> TRUE, regions |-> g]
  BY <1>2, <1>5, <1>7 DEF L!DefaultRule
<1>9. r \in RuleTypes
  BY <1>4, <1>5, <1>8 DEF RuleTypes, RuleNames
<1>10. L!Defaults = [state |-> L!DefaultState, queue |-> L!Blank, rules |-> <<r>>]
  BY <1>7 DEF L!Defaults
<1>11. <<r>> \in Seq(RuleTypes) /\ Len(<<r>>) = 1 /\ DOMAIN <<r>> = {1} /\ <<r>>[1] = r
  BY <1>9
<1>12. L!Defaults \in Configs
  BY <1>10, <1>11 DEF Configs, PathNames
<1>13. IsFiniteSet(DOMAIN r.regions)
  BY <1>6, <1>8
<1> QED BY <1>7, <1>10, <1>11, <1>12, <1>13

LEMMA FileTyped ==
  ASSUME NEW f \in L_Files
  PROVE  /\ f.state \in STRING \cup {Absent} /\ f.queue \in STRING \cup {Absent} /\ f.key \in {Absent, "rules", "Rules"}
         /\ DOMAIN f.rules = 1..Len(f.rules) /\ Len(f.rules) \in Nat
BY HostAssumption DEF L!ConfigAssumption, L!FileOK, L!Field

\* What a file's rule is decoded to, whatever it is decoded over.
LEMMA DecodedOver ==
  ASSUME NEW f \in L_Files, NEW n \in DOMAIN f.rules, NEW old \in RuleTypes, IsFiniteSet(DOMAIN old.regions)
  PROVE  LET r == L!DecodeRule(f.rules[n], old) IN r \in RuleTypes /\ IsFiniteSet(DOMAIN r.regions)
<1>1. PICK e : e = f.rules[n]
  OBVIOUS
<1>2. L!EntryOK(e)
  BY <1>1, HostAssumption DEF L!ConfigAssumption, L!FileOK
<1>3. PICK m : m = old.regions
  OBVIOUS
<1>4. m \in Regions /\ IsFiniteSet(DOMAIN m) /\ m \in [DOMAIN m -> Int] /\ DOMAIN m \subseteq PlaceKeys
  BY <1>3, RegionsAre DEF RuleTypes
<1>5. e.regions # Absent => DOMAIN e.regions \subseteq PlaceKeys /\ IsFiniteSet(DOMAIN e.regions)
                            /\ e.regions \in [DOMAIN e.regions -> Int]
  BY <1>2 DEF L!EntryOK, L!RegionsOK, PlaceKeys, L!IsFiniteSet, IsFiniteSet
<1>6. PICK g : g = IF e.regions = Absent THEN m
                   ELSE [k \in DOMAIN e.regions \cup DOMAIN m |-> IF k \in DOMAIN e.regions THEN e.regions[k] ELSE m[k]]
  OBVIOUS
<1>7. g \in Regions /\ IsFiniteSet(DOMAIN g)
  <2>1. CASE e.regions = Absent
    BY <1>4, <1>6, <2>1
  <2>2. CASE e.regions # Absent
    <3>1. PICK d : d = e.regions
      OBVIOUS
    <3>2. PICK D : D = DOMAIN d \cup DOMAIN m
      OBVIOUS
    <3>3. D \subseteq PlaceKeys /\ IsFiniteSet(D)
      BY <1>4, <1>5, <2>2, <3>1, <3>2, FS_Union
    <3>4. g = [k \in D |-> IF k \in DOMAIN d THEN d[k] ELSE m[k]]
      BY <1>6, <2>2, <3>1, <3>2
    <3>5. \A k \in D : (IF k \in DOMAIN d THEN d[k] ELSE m[k]) \in Int
      BY <1>4, <1>5, <2>2, <3>1, <3>2
    <3>6. g \in [D -> Int] /\ DOMAIN g = D
      BY <3>4, <3>5
    <3> QED BY <3>3, <3>6 DEF Regions
  <2> QED BY <2>1, <2>2
<1>8. PICK r : r = L!DecodeRule(e, old)
  OBVIOUS
<1>9. r = [name |-> L!Over(e.name, old.name), attempts |-> L!Over(e.attempts, old.attempts),
           reset |-> L!Over(e.reset, old.reset), regions |-> g]
  BY <1>3, <1>6, <1>8 DEF L!DecodeRule
<1>10. /\ L!Over(e.name, old.name) \in RuleNames /\ L!Over(e.attempts, old.attempts) \in Int
       /\ L!Over(e.reset, old.reset) \in BOOLEAN
  <2>1. e.name \in RuleNames \cup {Absent} /\ e.attempts \in Int \cup {Absent} /\ e.reset \in BOOLEAN \cup {Absent}
    BY <1>2 DEF L!EntryOK, L!Field, RuleNames
  <2>2. \A S, v, w : v \in S \cup {Absent} /\ w \in S => L!Over(v, w) \in S
    BY DEF L!Over
  <2>3. old.name \in RuleNames /\ old.attempts \in Int /\ old.reset \in BOOLEAN
    BY DEF RuleTypes
  <2> HIDE DEF L!Over
  <2> QED BY <2>1, <2>2, <2>3, Zenon
<1>11. r \in RuleTypes /\ r.regions = g
  BY <1>7, <1>9, <1>10 DEF RuleTypes
<1> QED BY <1>1, <1>7, <1>8, <1>11

\* The decoder puts the file's rules in the place of the default ones.
LEMMA DecodedRules ==
  ASSUME NEW f \in L_Files
  PROVE  LET rules == L!DecodeRules(f) IN
         /\ rules \in Seq(RuleTypes) /\ \A n \in DOMAIN rules : IsFiniteSet(DOMAIN rules[n].regions)
         /\ f.key # Absent /\ f.key = "rules" =>
              /\ Len(rules) = Len(f.rules)
              /\ \A n \in DOMAIN rules : rules[n] = L!DecodeRule(f.rules[n], L!ZeroRule)
<1>1. CASE f.key = Absent
  <2>1. L!DecodeRules(f) = L!Defaults.rules
    BY <1>1 DEF L!DecodeRules
  <2>2. L!Defaults.rules \in Seq(RuleTypes)
    BY DefaultsTyped DEF Configs
  <2> QED BY <1>1, <2>1, <2>2, DefaultsTyped
<1>2. CASE f.key # Absent
  <2>1. PICK z : z = L!ZeroRule
    OBVIOUS
  <2>2. PICK N \in Nat : N = Len(f.rules) /\ DOMAIN f.rules = 1..N
    BY FileTyped
  <2>3. z \in RuleTypes /\ IsFiniteSet(DOMAIN z.regions)
    <3>1. z = [name |-> L!Blank, attempts |-> 0, reset |-> FALSE, regions |-> <<>>]
      BY <2>1 DEF L!ZeroRule, L!NoRegions
    <3>2. PICK g : g = <<>>
      OBVIOUS
    <3>3. DOMAIN g = {} /\ g \in [{} -> Int]
      BY <3>2
    <3>4. g \in Regions /\ IsFiniteSet(DOMAIN g)
      BY <3>3, FS_EmptySet DEF Regions
    <3>5. z = [name |-> L!Blank, attempts |-> 0, reset |-> FALSE, regions |-> g] /\ L!Blank \in RuleNames
      BY <3>1, <3>2 DEF RuleNames
    <3> QED BY <3>4, <3>5 DEF RuleTypes
  <2>4. PICK t : t = L!Template(f)
    OBVIOUS
  <2>5. \A n \in 1..N : n <= Len(t) => t[n] \in RuleTypes /\ IsFiniteSet(DOMAIN t[n].regions)
    <3>1. CASE f.key = "rules"
      <4>1. t = <<>> /\ Len(t) = 0
        BY <2>4, <3>1 DEF L!Template
      <4> QED BY <4>1
    <3>2. CASE f.key # "rules"
      <4>1. PICK d \in Seq(RuleTypes) : d = L!Defaults.rules
        BY DefaultsTyped DEF Configs
      <4>2. t = d /\ Len(d) = 1 /\ DOMAIN d = {1} /\ \A n \in DOMAIN d : IsFiniteSet(DOMAIN d[n].regions)
        BY <2>4, <3>2, <4>1, DefaultsTyped DEF L!Template
      <4> QED BY <4>1, <4>2
    <3> QED BY <3>1, <3>2
  <2>6. PICK g : g = [n \in 1..N |-> L!DecodeRule(f.rules[n], IF n <= Len(t) THEN t[n] ELSE z)]
    OBVIOUS
  <2>7. ASSUME NEW n \in 1..N PROVE g[n] \in RuleTypes /\ IsFiniteSet(DOMAIN g[n].regions)
    <3>1. PICK old : old = IF n <= Len(t) THEN t[n] ELSE z
      OBVIOUS
    <3>2. old \in RuleTypes /\ IsFiniteSet(DOMAIN old.regions)
      BY <2>3, <2>5, <3>1
    <3>3. n \in DOMAIN f.rules /\ g[n] = L!DecodeRule(f.rules[n], old)
      BY <2>2, <2>6, <3>1
    <3> QED BY <3>2, <3>3, DecodedOver
  <2>8. g \in [1..N -> RuleTypes] /\ DOMAIN g = 1..N
    BY <2>6, <2>7
  <2>9. g \in Seq(RuleTypes) /\ Len(g) = N
    BY <2>8
  <2>10. L!DecodeRules(f) = g
    BY <1>2, <2>1, <2>2, <2>4, <2>6 DEF L!DecodeRules
  <2>11. f.key = "rules" => \A n \in 1..N : g[n] = L!DecodeRule(f.rules[n], z)
    <3> SUFFICES ASSUME f.key = "rules", NEW n \in 1..N PROVE g[n] = L!DecodeRule(f.rules[n], z)
      OBVIOUS
    <3>1. Len(t) = 0
      BY <2>4 DEF L!Template
    <3>2. ~(n <= Len(t))
      BY <3>1
    <3> QED BY <2>6, <3>2
  <2> QED BY <2>1, <2>2, <2>7, <2>8, <2>9, <2>10, <2>11
<1> QED BY <1>1, <1>2

LEMMA LoadDecode ==
  ASSUME LoadInv, L!Decode PROVE LoadInv'
<1>1. PICK f \in L_Files : f = l_file
  BY DEF LoadInv, LoadTyped
<1>2. PICK rules : rules = L!DecodeRules(f)
  OBVIOUS
<1>3. /\ rules \in Seq(RuleTypes) /\ \A n \in DOMAIN rules : IsFiniteSet(DOMAIN rules[n].regions)
      /\ AsWritten /\ f.key # Absent =>
           /\ Len(rules) = Len(f.rules)
           /\ \A n \in DOMAIN rules : rules[n] = L!DecodeRule(f.rules[n], L!ZeroRule)
  BY <1>1, <1>2, DecodedRules, FileTyped DEF AsWritten
<1>4. /\ l_pc = "read" /\ l_pc' = "head" /\ l_i = 1 /\ l_i' = l_i /\ l_left = {} /\ l_left' = l_left /\ l_file' = f
  BY <1>1 DEF LoadInv, LoadWalk, L!Decode
<1>5. PICK s, q : s = L!Over(f.state, L!DefaultState) /\ q = L!Over(f.queue, L!Blank)
  OBVIOUS
<1>6. l_cfg' = [state |-> s, queue |-> q, rules |-> rules]
  BY <1>1, <1>2, <1>5 DEF L!Decode, L!Defaults
<1>7. s \in L!StatePaths /\ s \in PathNames /\ q \in PathNames
  <2>1. f.state \in STRING \cup {Absent} /\ f.queue \in STRING \cup {Absent}
    BY FileTyped
  <2>2. s \in L!StatePaths
    BY <1>5 DEF L!Over, L!StatePaths
  <2> QED BY <1>5, <2>1, <2>2 DEF L!Over, PathNames
<1>8. l_cfg' \in Configs /\ l_cfg'.rules = rules /\ l_cfg'.state = s
  BY <1>3, <1>6, <1>7 DEF Configs
<1>9. Touched' = {}
  BY <1>3, <1>4, <1>8 DEF Touched
<1>10. Len(rules) \in Nat
  BY <1>3
<1>11. LoadTyped'
  BY <1>1, <1>3, <1>4, <1>8 DEF LoadTyped, LoadInv
<1>12. LoadWalk'
  BY <1>4, <1>7, <1>8, <1>10 DEF LoadWalk
<1>13. RulesTouched'
  BY <1>9 DEF RulesTouched
<1>14. RulesFromFile'
  BY <1>3, <1>4, <1>8, <1>9 DEF RulesFromFile
<1> QED BY <1>11, <1>12, <1>13, <1>14 DEF LoadInv

LEMMA LoadPaths ==
  ASSUME LoadInv, L!Paths PROVE LoadInv'
<1>1. /\ l_pc = "head" /\ l_i = 1 /\ l_i' = l_i /\ l_left = {} /\ l_left' = l_left /\ l_file' = l_file
      /\ l_cfg \in Configs /\ l_cfg.state \in L!StatePaths
  BY DEF LoadInv, LoadWalk, LoadTyped, L!Paths
<1>2. Touched = {} /\ Len(l_cfg.rules) \in Nat
  BY <1>1 DEF Touched, Configs
<1>3. ASSUME l_cfg'.rules = l_cfg.rules, l_cfg' \in Configs, l_pc' \in {"rule", "rejected"}, l_pc' = "rule" => PathsApart'
      PROVE  LoadInv'
  <2>1. Touched' = {}
    BY <1>1, <1>2, <1>3 DEF Touched, Configs
  <2>2. LoadTyped'
    BY <1>1, <1>3 DEF LoadTyped, LoadInv
  <2>3. LoadWalk'
    BY <1>1, <1>2, <1>3 DEF LoadWalk
  <2>4. RulesTouched' /\ RulesFromFile'
    BY <1>1, <1>2, <1>3, <2>1 DEF RulesTouched, RulesFromFile, LoadInv
  <2> QED BY <2>2, <2>3, <2>4 DEF LoadInv
<1>4. CASE L!Clash(l_cfg) \/ ~l_file.sound
  <2>1. l_pc' = "rejected" /\ l_cfg' = l_cfg
    BY <1>4 DEF L!Paths
  <2> QED BY <1>1, <1>3, <2>1
<1>5. CASE ~(L!Clash(l_cfg) \/ ~l_file.sound)
  <2>1. PICK s, q : s = L!StateOf(l_cfg) /\ q = IF l_cfg.queue = L!Blank THEN L!OwnQueue(s) ELSE l_cfg.queue
    OBVIOUS
  <2>2. l_pc' = "rule" /\ l_cfg' = [l_cfg EXCEPT !.state = s, !.queue = q]
    <3>1. l_cfg' = [l_cfg EXCEPT !.state = L!StateOf(l_cfg),
                                 !.queue = IF l_cfg.queue = L!Blank THEN L!OwnQueue(L!StateOf(l_cfg)) ELSE l_cfg.queue]
      BY <1>1, <1>5 DEF L!Paths, Configs
    <3> QED BY <1>5, <2>1, <3>1 DEF L!Paths
  <2>3. s \in L!StatePaths /\ s # L!Blank
    BY <1>1, <2>1 DEF L!StateOf, L!StatePaths, L!Defaults, L!DefaultState, L!Blank
  <2>4. L!OwnQueue(s) # L!Blank /\ L!Clean(L!OwnQueue(s)) # L!Clean(s)
    BY <2>3, HostAssumption DEF L!ConfigAssumption
  <2>5. q # L!Blank /\ L!Clean(q) # L!Clean(s)
    BY <1>5, <2>1, <2>4 DEF L!Clash
  <2>6. s \in PathNames /\ q \in PathNames
    <3>1. l_cfg.state \in PathNames /\ l_cfg.queue \in PathNames
      BY <1>1 DEF Configs
    <3>2. s \in PathNames
      BY <2>1, <3>1 DEF L!StateOf, PathNames, L!Defaults
    <3> QED BY <2>1, <2>3, <3>1, <3>2 DEF PathNames
  <2>7. l_cfg'.rules = l_cfg.rules /\ l_cfg'.state = s /\ l_cfg'.queue = q /\ l_cfg' \in Configs
    BY <1>1, <2>2, <2>6 DEF Configs
  <2>8. PathsApart'
    BY <2>3, <2>5, <2>7 DEF PathsApart
  <2> QED BY <1>1, <1>3, <2>2, <2>7, <2>8
<1> QED BY <1>4, <1>5

LEMMA LoadRuleFields ==
  ASSUME LoadInv, L!RuleFields PROVE LoadInv'
<1>1. PICK j : j = l_i
  OBVIOUS
<1>2. /\ l_pc = "rule" /\ l_i' = j /\ l_left = {} /\ l_file' = l_file /\ l_cfg \in Configs /\ PathsApart /\ l_file \in L_Files
      /\ j \in Nat \ {0} /\ j <= Len(l_cfg.rules)
  BY <1>1 DEF LoadInv, LoadWalk, LoadTyped, L!RuleFields
<1>3. PICK N \in Nat : N = Len(l_cfg.rules) /\ DOMAIN l_cfg.rules = 1..N
  BY <1>2 DEF Configs
<1>4. Touched = 1..(j - 1) /\ j \in 1..N
  BY <1>1, <1>2, <1>3 DEF Touched
<1>5. CASE L!Taken(L!Rule)
  <2>1. l_pc' = "rejected" /\ l_cfg' = l_cfg /\ l_left' = l_left
    BY <1>5 DEF L!RuleFields
  <2>2. Touched' = Touched
    BY <1>1, <1>2, <2>1 DEF Touched
  <2>3. \A n \in Touched : LeftOf(n)' = LeftOf(n)
    BY <1>2, <2>1 DEF LeftOf
  <2>4. LoadTyped'
    BY <1>1, <1>2, <2>1 DEF LoadTyped, LoadInv
  <2>5. LoadWalk'
    BY <1>1, <1>2, <1>3, <2>1 DEF LoadWalk
  <2>6. RulesTouched'
    BY <2>1, <2>2 DEF RulesTouched, LoadInv
  <2>7. RulesFromFile'
    BY <1>2, <2>1, <2>2, <2>3 DEF RulesFromFile, LoadInv
  <2> QED BY <2>4, <2>5, <2>6, <2>7 DEF LoadInv
<1>6. CASE ~L!Taken(L!Rule)
  <2>1. PICK r : r = l_cfg.rules[j]
    OBVIOUS
  <2>2. PICK name, attempts : name = L!Named(r.name) /\ attempts = L!Attempts(r.attempts)
    OBVIOUS
  <2>3. r \in RuleTypes /\ IsFiniteSet(DOMAIN r.regions)
    <3>1. l_cfg.rules \in Seq(RuleTypes)
      BY <1>2 DEF Configs
    <3>2. r \in RuleTypes
      BY <1>3, <1>4, <2>1, <3>1
    <3> QED BY <1>3, <1>4, <2>1, <3>2 DEF LoadInv, LoadTyped
  <2>4. name \in RuleNames /\ name # L!Blank /\ attempts \in Int /\ attempts > 0
    <3>1. r.name \in RuleNames /\ r.attempts \in Int
      BY <2>3 DEF RuleTypes
    <3>2. attempts \in Int /\ attempts > 0
      BY <2>2, <3>1 DEF L!Attempts
    <3>3. name \in RuleNames
      BY <2>2, <3>1 DEF L!Named, RuleNames
    <3>4. name # L!Blank
      BY <2>2 DEF L!Named, L!Blank
    <3> QED BY <3>2, <3>3, <3>4
  <2>5. PICK s : s = [r EXCEPT !.name = name, !.attempts = attempts]
    OBVIOUS
  <2>6. s \in RuleTypes /\ s.name = name /\ s.attempts = attempts /\ s.regions = r.regions /\ s.reset = r.reset
    BY <2>3, <2>4, <2>5 DEF RuleTypes
  <2>7. l_cfg' = [l_cfg EXCEPT !.rules = [l_cfg.rules EXCEPT ![j] = s]]
    <3>1. l_cfg' = [l_cfg EXCEPT !.rules[j].name = L!Named(@), !.rules[j].attempts = L!Attempts(@)]
      BY <1>1, <1>6 DEF L!RuleFields
    <3>2. l_cfg.rules \in Seq(RuleTypes)
      BY <1>2 DEF Configs
    <3> QED BY <1>2, <1>3, <1>4, <2>1, <2>2, <2>3, <2>5, <3>1, <3>2 DEF Configs, RuleTypes
  <2>8. PICK new : new = l_cfg'
    OBVIOUS
  <2>9. /\ new \in Configs /\ new.state = l_cfg.state /\ new.queue = l_cfg.queue
        /\ Len(new.rules) = N /\ DOMAIN new.rules = 1..N
        /\ new.rules[j] = s /\ \A n \in 1..N : n # j => new.rules[n] = l_cfg.rules[n]
    BY <1>2, <1>3, <1>4, <2>6, <2>7, <2>8, RuleReplaced
  <2>10. l_pc' = "regions" /\ l_left' = DOMAIN r.regions
    BY <1>1, <1>6, <2>1 DEF L!RuleFields, L!Rule
  <2>11. Touched' = 1..j
    BY <1>2, <1>3, <1>4, <2>8, <2>9, <2>10 DEF Touched
  <2>12. LoadTyped'
    <3>1. \A n \in 1..N : IsFiniteSet(DOMAIN new.rules[n].regions)
      BY <1>3, <2>3, <2>6, <2>9 DEF LoadInv, LoadTyped
    <3> QED BY <1>2, <2>8, <2>9, <3>1 DEF LoadTyped
  <2>13. LoadWalk'
    <3>1. PathsApart'
      BY <1>2, <2>8, <2>9 DEF PathsApart
    <3> QED BY <1>2, <1>3, <1>4, <2>6, <2>8, <2>9, <2>10, <3>1 DEF LoadWalk
  <2>14. RulesTouched'
    <3>1. \A n \in 1..(j - 1) : l_cfg.rules[n].name # name
      BY <1>1, <1>6, <2>1, <2>2 DEF L!Taken, L!Rule
    <3>2. \A n \in 1..j : n = j \/ (n \in 1..(j - 1) /\ n # j /\ n \in 1..N)
      BY <1>4
    <3>3. \A n \in 1..j : new.rules[n].name # L!Blank /\ new.rules[n].attempts > 0
      BY <1>4, <2>4, <2>6, <2>9, <3>2 DEF LoadInv, RulesTouched
    <3>4. \A m, n \in 1..j : new.rules[m].name = new.rules[n].name => m = n
      BY <1>4, <2>6, <2>9, <3>1, <3>2 DEF LoadInv, RulesTouched
    <3> QED BY <2>8, <2>11, <3>3, <3>4 DEF RulesTouched
  <2>15. RulesFromFile'
    <3> SUFFICES ASSUME AsWritten, l_file.key # Absent PROVE RulesFromFile'
      BY <1>2 DEF RulesFromFile
    <3>1. Len(l_file.rules) = N /\ DOMAIN l_file.rules = 1..N
      BY <1>2, <1>3, FileTyped DEF LoadInv, RulesFromFile
    <3>2. ASSUME NEW n \in 1..N, n # j
          PROVE  LET e == l_file.rules[n]  q == new.rules[n] IN
                 IF n \notin 1..j THEN q = L!DecodeRule(e, L!ZeroRule)
                 ELSE L!Said(e, q) /\ (e.regions # Absent => Ranged(e.regions, q.regions, {}))
      <4>1. (n \in 1..j) <=> (n \in 1..(j - 1))
        BY <1>4, <3>2
      <4>2. LeftOf(n) = {}
        BY <1>2 DEF LeftOf
      <4>3. LET e == l_file.rules[n]  q == l_cfg.rules[n] IN
                 IF n \notin Touched THEN q = L!DecodeRule(e, L!ZeroRule)
                 ELSE L!Said(e, q) /\ (e.regions # Absent => Ranged(e.regions, q.regions, LeftOf(n)))
        BY <1>2, <1>3 DEF LoadInv, RulesFromFile
      <4> QED BY <1>4, <2>9, <3>2, <4>1, <4>2, <4>3
    <3>3. PICK e : e = l_file.rules[j]
      OBVIOUS
    <3>4. r = L!DecodeRule(e, L!ZeroRule)
      <4>1. j \notin Touched
        BY <1>4
      <4> QED BY <1>2, <1>3, <1>4, <2>1, <3>3, <4>1 DEF LoadInv, RulesFromFile
    <3>5. /\ e.reset = Absent => ~r.reset
          /\ e.regions = Absent => r.regions = L!NoRegions
          /\ e.attempts = Absent => r.attempts = 0
          /\ e.name = Absent => r.name = L!Blank
          /\ e.regions # Absent => r.regions = e.regions
      BY <1>2, <1>4, <3>1, <3>3, <3>4, DecodedRule
    <3>6. L!Said(e, s)
      BY <2>2, <2>6, <3>5 DEF L!Said, L!Named
    <3>7. e.regions # Absent => Ranged(e.regions, s.regions, DOMAIN r.regions)
      BY <2>6, <3>5 DEF Ranged
    <3>8. ASSUME NEW n \in 1..N
          PROVE  LET d == l_file.rules[n]  q == new.rules[n] IN
                 IF n \notin 1..j THEN q = L!DecodeRule(d, L!ZeroRule)
                 ELSE L!Said(d, q) /\ (d.regions # Absent => Ranged(d.regions, q.regions, LeftOf(n)'))
      <4>1. CASE n = j
        <5>1. LeftOf(n)' = DOMAIN r.regions /\ n \in 1..j
          BY <1>2, <1>4, <2>10, <4>1 DEF LeftOf
        <5> QED BY <2>9, <3>3, <3>6, <3>7, <4>1, <5>1
      <4>2. CASE n # j
        <5>1. LeftOf(n)' = {}
          BY <1>2, <4>2 DEF LeftOf
        <5> QED BY <3>2, <4>2, <5>1
      <4> QED BY <4>1, <4>2
    <3> HIDE DEF L!Said, L!DecodeRule
    <3>9. /\ Len(new.rules) = Len(l_file'.rules)
          /\ \A n \in 1..N : LET d == l_file'.rules[n]  q == new.rules[n] IN
                 IF n \notin Touched' THEN q = L!DecodeRule(d, L!ZeroRule)
                 ELSE L!Said(d, q) /\ (d.regions # Absent => Ranged(d.regions, q.regions, LeftOf(n)'))
      BY <1>2, <2>9, <2>11, <3>1, <3>8
    <3> QED BY <2>8, <2>9, <3>9 DEF RulesFromFile
  <2> QED BY <2>12, <2>13, <2>14, <2>15 DEF LoadInv
<1> QED BY <1>5, <1>6

LEMMA LoadRegion ==
  ASSUME LoadInv, NEW k, L!Region(k) PROVE LoadInv'
<1>1. PICK j : j = l_i
  OBVIOUS
<1>2. /\ l_pc = "regions" /\ l_pc' = l_pc /\ l_i' = j /\ l_file' = l_file /\ l_cfg \in Configs /\ PathsApart
      /\ l_file \in L_Files /\ j \in Nat \ {0} /\ j <= Len(l_cfg.rules) /\ k \in l_left /\ l_left' = l_left \ {k}
      /\ l_left \subseteq DOMAIN l_cfg.rules[j].regions
  BY <1>1 DEF LoadInv, LoadWalk, LoadTyped, L!Region
<1>3. PICK N \in Nat : N = Len(l_cfg.rules) /\ DOMAIN l_cfg.rules = 1..N
  BY <1>2 DEF Configs
<1>4. Touched = 1..j /\ j \in 1..N
  BY <1>1, <1>2, <1>3 DEF Touched
<1>5. PICK r : r = l_cfg.rules[j]
  OBVIOUS
<1>6. r \in RuleTypes /\ IsFiniteSet(DOMAIN r.regions)
  <2>1. l_cfg.rules \in Seq(RuleTypes)
    BY <1>2 DEF Configs
  <2>2. r \in RuleTypes
    BY <1>3, <1>4, <1>5, <2>1
  <2> QED BY <1>3, <1>4, <1>5, <2>2 DEF LoadInv, LoadTyped
<1>7. PICK m : m = r.regions
  OBVIOUS
<1>8. m \in Regions /\ IsFiniteSet(DOMAIN m) /\ k \in DOMAIN m /\ DOMAIN m \subseteq PlaceKeys /\ m[k] \in Int
  <2>1. m \in Regions /\ IsFiniteSet(DOMAIN m) /\ k \in DOMAIN m
    BY <1>2, <1>5, <1>6, <1>7 DEF RuleTypes
  <2> QED BY <2>1, RegionsAre
<1>9. PICK to : to = IF k.place = L!Blank \/ m[k] <= 0 THEN L!Drop(m, k)
                     ELSE IF L!Trim(k) # k THEN L!Put(L!Drop(m, k), L!Trim(k), m[k]) ELSE m
  OBVIOUS
<1>10. to \in Regions /\ IsFiniteSet(DOMAIN to) /\ l_left \ {k} \subseteq DOMAIN to
  <2>1. PICK d : d = L!Drop(m, k)
    OBVIOUS
  <2>2. d \in Regions /\ IsFiniteSet(DOMAIN d) /\ DOMAIN d = DOMAIN m \ {k}
    BY <1>8, <2>1, DropIs
  <2>3. PICK v \in Int, t \in PlaceKeys : v = m[k] /\ t = L!Trim(k)
    BY <1>8, TrimIs
  <2>4. L!Put(d, t, v) \in Regions /\ IsFiniteSet(DOMAIN L!Put(d, t, v)) /\ DOMAIN L!Put(d, t, v) = DOMAIN d \cup {t}
    BY <2>2, <2>3, PutIs
  <2> QED BY <1>2, <1>5, <1>7, <1>8, <1>9, <2>1, <2>2, <2>3, <2>4
<1>11. PICK s : s = [r EXCEPT !.regions = to]
  OBVIOUS
<1>12. s \in RuleTypes /\ s.regions = to /\ s.name = r.name /\ s.attempts = r.attempts /\ s.reset = r.reset
  BY <1>6, <1>10, <1>11 DEF RuleTypes
<1>13. l_cfg' = [l_cfg EXCEPT !.rules = [l_cfg.rules EXCEPT ![j] = s]]
  <2>1. l_cfg' = [l_cfg EXCEPT !.rules[j].regions =
                     IF k.place = L!Blank \/ m[k] <= 0 THEN L!Drop(m, k)
                     ELSE IF L!Trim(k) # k THEN L!Put(L!Drop(m, k), L!Trim(k), m[k])
                     ELSE @]
    BY <1>1, <1>5, <1>7 DEF L!Region, L!Rule
  <2> QED BY <1>5, <1>7, <1>9, <1>11, <2>1
<1>14. PICK new : new = l_cfg'
  OBVIOUS
<1>15. /\ new \in Configs /\ new.state = l_cfg.state /\ new.queue = l_cfg.queue
       /\ Len(new.rules) = N /\ DOMAIN new.rules = 1..N
       /\ new.rules[j] = s /\ \A n \in 1..N : n # j => new.rules[n] = l_cfg.rules[n]
  BY <1>2, <1>3, <1>4, <1>12, <1>13, <1>14, RuleReplaced
<1>16. Touched' = 1..j
  BY <1>2, <1>3, <1>4, <1>14, <1>15 DEF Touched
<1>17. LoadTyped'
  <2>1. \A n \in 1..N : IsFiniteSet(DOMAIN new.rules[n].regions)
    BY <1>3, <1>10, <1>12, <1>15 DEF LoadInv, LoadTyped
  <2> QED BY <1>2, <1>14, <1>15, <2>1 DEF LoadTyped
<1>18. LoadWalk'
  <2>1. PathsApart'
    BY <1>2, <1>14, <1>15 DEF PathsApart
  <2>2. new.rules[j].regions = to
    BY <1>12, <1>15
  <2> QED BY <1>2, <1>3, <1>4, <1>10, <1>14, <1>15, <2>1, <2>2 DEF LoadWalk
<1>19. RulesTouched'
  <2>1. \A n \in 1..N : new.rules[n].name = l_cfg.rules[n].name /\ new.rules[n].attempts = l_cfg.rules[n].attempts
    BY <1>5, <1>12, <1>15
  <2>2. \A n \in 1..j : n \in 1..N
    BY <1>4
  <2> QED BY <1>4, <1>14, <1>16, <2>1, <2>2 DEF RulesTouched, LoadInv
<1>20. RulesFromFile'
  <2> SUFFICES ASSUME AsWritten, l_file.key # Absent PROVE RulesFromFile'
    BY <1>2 DEF RulesFromFile
  <2>1. Len(l_file.rules) = N /\ DOMAIN l_file.rules = 1..N
    BY <1>2, <1>3, FileTyped DEF LoadInv, RulesFromFile
  <2>2. ASSUME NEW n \in 1..N
        PROVE LET d == l_file.rules[n]  q == l_cfg.rules[n] IN
              IF n \notin 1..j THEN q = L!DecodeRule(d, L!ZeroRule)
              ELSE L!Said(d, q) /\ (d.regions # Absent => Ranged(d.regions, q.regions, LeftOf(n)))
    BY <1>2, <1>3, <1>4 DEF LoadInv, RulesFromFile
  <2>3. PICK e : e = l_file.rules[j]
    OBVIOUS
  <2>4. L!Said(e, r) /\ (e.regions # Absent => Ranged(e.regions, m, l_left))
    <3>1. LeftOf(j) = l_left /\ j \in 1..j
      BY <1>1, <1>2 DEF LeftOf
    <3> QED BY <1>4, <1>5, <1>7, <2>2, <2>3, <3>1
  <2>5. e.regions # Absent
    <3>1. e.regions = Absent => m = L!NoRegions
      BY <1>7, <2>4 DEF L!Said
    <3> QED BY <1>8, <3>1 DEF L!NoRegions
  <2>6. L!Said(e, s)
    BY <1>12, <2>4, <2>5 DEF L!Said
  <2>7. Ranged(e.regions, to, l_left \ {k})
    <3>1. PICK er : er = e.regions
      OBVIOUS
    <3>2. DistinctPlaces(er)
      BY <1>2, <1>4, <2>1, <2>3, <2>5, <3>1 DEF AsWritten
    <3>3. DOMAIN er \subseteq PlaceKeys
      BY <1>2, <1>4, <2>1, <2>3, <2>5, <3>1, DecodedRule
    <3>4. Ranged(er, m, l_left)
      BY <2>4, <2>5, <3>1
    <3>5. Ranged(er, to, l_left \ {k})
      BY <1>2, <1>8, <1>9, <3>2, <3>3, <3>4, RegionVisited
    <3> QED BY <3>1, <3>5
  <2>8. ASSUME NEW n \in 1..N
        PROVE  LET d == l_file.rules[n]  q == new.rules[n] IN
               IF n \notin 1..j THEN q = L!DecodeRule(d, L!ZeroRule)
               ELSE L!Said(d, q) /\ (d.regions # Absent => Ranged(d.regions, q.regions, LeftOf(n)'))
    <3>1. CASE n = j
      <4>1. LeftOf(n)' = l_left \ {k} /\ n \in 1..j
        BY <1>2, <1>4, <3>1 DEF LeftOf
      <4> QED BY <1>12, <1>15, <2>3, <2>6, <2>7, <3>1, <4>1
    <3>2. CASE n # j
      <4>1. LeftOf(n)' = {} /\ LeftOf(n) = {}
        BY <1>1, <1>2, <3>2 DEF LeftOf
      <4>2. new.rules[n] = l_cfg.rules[n]
        BY <1>15, <3>2
      <4> HIDE DEF L!Said, L!DecodeRule
      <4> QED BY <2>2, <4>1, <4>2
    <3> QED BY <3>1, <3>2
  <2> HIDE DEF L!Said, L!DecodeRule
  <2>9. /\ Len(new.rules) = Len(l_file'.rules)
        /\ \A n \in 1..N : LET d == l_file'.rules[n]  q == new.rules[n] IN
               IF n \notin Touched' THEN q = L!DecodeRule(d, L!ZeroRule)
               ELSE L!Said(d, q) /\ (d.regions # Absent => Ranged(d.regions, q.regions, LeftOf(n)'))
    BY <1>2, <1>15, <1>16, <2>1, <2>8
  <2> QED BY <1>14, <1>15, <2>9 DEF RulesFromFile
<1> QED BY <1>17, <1>18, <1>19, <1>20 DEF LoadInv

\* The rest of the walk changes nothing of the configuration.
LEMMA LoadGoesOn ==
  ASSUME LoadInv, L!NextRule \/ L!Accept \/ UNCHANGED l_vars PROVE LoadInv'
<1>1. l_cfg' = l_cfg /\ l_file' = l_file /\ l_left' = l_left /\ l_cfg \in Configs /\ l_i \in Nat \ {0} /\ Len(l_cfg.rules) \in Nat
  BY DEF LoadInv, LoadTyped, L!NextRule, L!Accept, l_vars, Configs
<1>2. PICK N \in Nat : N = Len(l_cfg.rules) /\ DOMAIN l_cfg.rules = 1..N
  BY <1>1 DEF Configs
<1>3. ASSUME LoadWalk', l_i' \in Nat \ {0}, Touched' = Touched, \A n \in DOMAIN l_cfg.rules : LeftOf(n)' = LeftOf(n),
             l_pc' # "read" => l_pc # "read"
      PROVE  LoadInv'
  <2>1. LoadTyped'
    BY <1>1, <1>3 DEF LoadTyped, LoadInv
  <2>2. RulesTouched'
    BY <1>1, <1>3 DEF RulesTouched, LoadInv
  <2>3. RulesFromFile'
    BY <1>1, <1>3 DEF RulesFromFile, LoadInv
  <2> QED BY <1>3, <2>1, <2>2, <2>3 DEF LoadInv
<1>4. CASE L!NextRule
  <2>1. l_pc = "regions" /\ l_pc' = "rule" /\ l_i' = l_i + 1 /\ l_left = {} /\ l_i <= Len(l_cfg.rules) /\ PathsApart
    BY <1>4 DEF L!NextRule, LoadInv, LoadWalk
  <2>2. LoadWalk'
    <3>1. PathsApart'
      BY <1>1, <2>1 DEF PathsApart
    <3> QED BY <1>1, <2>1, <3>1 DEF LoadWalk
  <2>3. Touched' = Touched
    BY <1>1, <1>2, <2>1 DEF Touched
  <2>4. \A n \in DOMAIN l_cfg.rules : LeftOf(n)' = LeftOf(n)
    BY <1>1, <2>1 DEF LeftOf
  <2> QED BY <1>1, <1>3, <2>1, <2>2, <2>3, <2>4
<1>5. CASE L!Accept
  <2>1. l_pc = "rule" /\ l_pc' = "accepted" /\ l_i' = l_i /\ l_left = {} /\ l_i > Len(l_cfg.rules) /\ PathsApart
        /\ l_i <= Len(l_cfg.rules) + 1
    BY <1>5 DEF L!Accept, LoadInv, LoadWalk
  <2>2. LoadWalk'
    <3>1. PathsApart'
      BY <1>1, <2>1 DEF PathsApart
    <3> QED BY <1>1, <2>1, <3>1 DEF LoadWalk
  <2>3. Touched' = Touched
    BY <1>1, <1>2, <2>1 DEF Touched
  <2>4. \A n \in DOMAIN l_cfg.rules : LeftOf(n)' = LeftOf(n)
    BY <1>1, <2>1 DEF LeftOf
  <2> QED BY <1>1, <1>3, <2>1, <2>2, <2>3, <2>4
<1>6. CASE UNCHANGED l_vars
  <2>1. l_pc' = l_pc /\ l_i' = l_i
    BY <1>6 DEF l_vars
  <2>2. LoadWalk'
    <3>1. PathsApart' <=> PathsApart
      BY <1>1 DEF PathsApart
    <3> QED BY <1>1, <2>1, <3>1 DEF LoadWalk, LoadInv
  <2>3. Touched' = Touched /\ \A n \in DOMAIN l_cfg.rules : LeftOf(n)' = LeftOf(n)
    BY <1>1, <2>1 DEF Touched, LeftOf
  <2> QED BY <1>1, <1>3, <2>1, <2>2, <2>3
<1> QED BY <1>4, <1>5, <1>6

\* The threshold of a place is one of its regions', and none of them is greater.
LEMMA LargestRegion ==
  ASSUME NEW m \in Regions, IsFiniteSet(DOMAIN m), NEW location, NEW k \in DOMAIN m, L!Meets(k, location)
  PROVE  L!MatchRegion(m, location) \in Int /\ L!MatchRegion(m, location) >= m[k]
<1>1. PICK K : K = {x \in DOMAIN m : L!Meets(x, location)}
  OBVIOUS
<1>2. IsFiniteSet(K) /\ k \in K /\ \A x \in K : m[x] \in Int
  BY <1>1, FS_Subset, RegionsAre
<1>3. PICK n \in Nat : ExistsSurjection(1..n, K)
  BY <1>2, FS_NatSurjection
<1>4. PICK f \in [1..n -> K] : \A x \in K : \E j \in 1..n : f[j] = x
  BY <1>3 DEF ExistsSurjection, Surjection
<1>5. PICK g : g = [j \in 1..n |-> IF m[f[j]] > 0 THEN m[f[j]] ELSE 0]
  OBVIOUS
<1>6. \A j \in 1..n : g[j] \in Nat /\ m[f[j]] <= g[j] /\ (g[j] = m[f[j]] \/ g[j] = 0)
  BY <1>2, <1>4, <1>5
<1>7. PICK top \in {g[j] : j \in 1..n} \cup {0} : \A j \in 1..n : g[j] <= top
  BY <1>6, GreatestExists
<1>8. PICK S : S = {0} \cup {m[x] : x \in K}
  OBVIOUS
<1>9. top \in S /\ top \in Nat
  BY <1>4, <1>6, <1>7, <1>8
<1>10. \A y \in S : y \in Int /\ y <= top
  <2> SUFFICES ASSUME NEW y \in S PROVE y \in Int /\ y <= top
    OBVIOUS
  <2>1. CASE y = 0
    BY <1>9, <2>1
  <2>2. CASE y # 0
    <3>1. PICK x \in K : y = m[x]
      BY <1>8, <2>2
    <3>2. PICK j \in 1..n : f[j] = x
      BY <1>4
    <3>3. y <= g[j] /\ g[j] <= top /\ g[j] \in Nat /\ y \in Int
      BY <1>2, <1>6, <1>7, <3>1, <3>2
    <3> QED BY <1>9, <3>3
  <2> QED BY <2>1, <2>2
<1>11. L!Largest(S) \in S /\ \A y \in S : y <= L!Largest(S)
  BY <1>9, <1>10 DEF L!Largest
<1>12. L!MatchRegion(m, location) = L!Largest(S)
  BY <1>1, <1>8 DEF L!MatchRegion
<1> QED BY <1>2, <1>8, <1>10, <1>11, <1>12

LEMMA LoadInvNext ==
  ASSUME LoadInv, L!Next \/ UNCHANGED l_vars PROVE LoadInv'
BY LoadDecode, LoadPaths, LoadRuleFields, LoadRegion, LoadGoesOn DEF L!Next

LEMMA LoadInvHolds == HostSpec => []LoadInv
<1>1. HostInit => LoadInv
  <2> SUFFICES ASSUME L!Init PROVE LoadInv
    BY DEF HostInit
  <2>1. l_file \in L_Files /\ l_pc = "read" /\ l_cfg = L!Defaults /\ l_i = 1 /\ l_left = {}
    BY DEF L!Init
  <2>2. l_cfg.state \in L!StatePaths
    BY <2>1 DEF L!Defaults, L!StatePaths
  <2>3. Touched = {}
    BY <2>1, DefaultsTyped DEF Touched
  <2>4. LoadTyped
    BY <2>1, DefaultsTyped DEF LoadTyped
  <2>5. LoadWalk
    BY <2>1, <2>2, DefaultsTyped DEF LoadWalk
  <2> QED BY <2>1, <2>3, <2>4, <2>5 DEF LoadInv, RulesTouched, RulesFromFile
<1>2. LoadInv /\ [HostNext]_all => LoadInv'
  BY LoadInvNext, StepsOfHost
<1> QED BY <1>1, <1>2, PTL DEF HostSpec

\* When the walk has ended, all rules were touched.
LEMMA AllTouched ==
  ASSUME LoadInv, l_pc = "accepted"
  PROVE  /\ Touched = DOMAIN l_cfg.rules /\ \A n \in DOMAIN l_cfg.rules : LeftOf(n) = {}
         /\ L!FilesApart /\ L!RulesApart
<1>1. PICK N \in Nat : N = Len(l_cfg.rules) /\ DOMAIN l_cfg.rules = 1..N
  BY DEF LoadInv, LoadTyped, Configs
<1>2. Touched = 1..N /\ \A n \in 1..N : LeftOf(n) = {}
  BY <1>1 DEF LoadInv, LoadTyped, LoadWalk, Touched, LeftOf
<1>3. L!FilesApart
  BY DEF LoadInv, LoadWalk, PathsApart, L!FilesApart
<1>4. L!RulesApart
  BY <1>1, <1>2 DEF LoadInv, RulesTouched, L!RulesApart
<1> QED BY <1>1, <1>2, <1>3, <1>4

\* Whatever the file is, Rules spelled in any case and places given twice: a configuration that is
\* accepted keeps its state and its queue in two files, and its rules have names of their own and
\* thresholds (Normalize).
THEOREM LoadedApartHolds == HostSpec => [](L!FilesApart /\ L!RulesApart)
<1>1. LoadInv => L!FilesApart /\ L!RulesApart
  <2> SUFFICES ASSUME LoadInv, l_pc = "accepted" PROVE L!FilesApart /\ L!RulesApart
    BY DEF L!FilesApart, L!RulesApart, L!Accepted
  <2> QED BY AllTouched
<1> QED BY <1>1, LoadInvHolds, PTL

\* A configuration that is accepted: its state and queue are two files, however their paths are spelled
\* and defaulted; its rules are told apart; no rule takes a field from the default rule; and a place gets
\* the most forgiving of its thresholds, in whatever order the range visits the regions.
THEOREM LoadedAsMeantHolds ==
  ASSUME AsWritten PROVE HostSpec => []LoadedAsMeant
<1>1. LoadInv => LoadedAsMeant
  <2> SUFFICES ASSUME LoadInv, l_pc = "accepted"
               PROVE  L!FilesApart /\ L!RulesApart /\ L!EntriesStandAlone /\ L!MostForgiving
    BY DEF LoadedAsMeant, L!FilesApart, L!RulesApart, L!EntriesStandAlone, L!MostForgiving, L!Accepted
  <2>1. PICK N \in Nat : N = Len(l_cfg.rules) /\ DOMAIN l_cfg.rules = 1..N
    BY DEF LoadInv, LoadTyped, Configs
  <2>2. Touched = 1..N /\ \A n \in 1..N : LeftOf(n) = {}
    BY <2>1, AllTouched
  <2>3. L!FilesApart
    BY AllTouched
  <2>4. L!RulesApart
    BY AllTouched
  <2>5. l_file.key # Absent =>
          \A n \in 1..N :
             /\ L!Said(l_file.rules[n], l_cfg.rules[n])
             /\ l_file.rules[n].regions # Absent => Ranged(l_file.rules[n].regions, l_cfg.rules[n].regions, {})
    BY <2>1, <2>2 DEF LoadInv, RulesFromFile
  <2>6. L!EntriesStandAlone
    BY <2>1, <2>5 DEF L!EntriesStandAlone
  <2>7. L!MostForgiving
    <3> SUFFICES ASSUME l_file.key # Absent, NEW n \in 1..N, NEW location \in L_Locations,
                        l_file.rules[n].regions # Absent, NEW v \in L!Written(l_file.rules[n], location)
                 PROVE  L!Threshold(l_cfg.rules[n], location) >= v
      BY <2>1 DEF L!MostForgiving
    <3>1. PICK e, r : e = l_file.rules[n].regions /\ r = l_cfg.rules[n]
      OBVIOUS
    <3>2. PICK k \in DOMAIN e : L!Meets(k, location) /\ e[k] > 0 /\ v = e[k]
      BY <3>1 DEF L!Written
    <3>3. k \in PlaceKeys /\ n \in DOMAIN l_file.rules
      <4>1. n \in DOMAIN l_file.rules
        BY <2>1, FileTyped DEF LoadInv, LoadTyped, RulesFromFile
      <4> QED BY <3>1, <3>2, <4>1, DecodedRule DEF LoadInv, LoadTyped
    <3>4. PICK t : t = L!Trim(k)
      OBVIOUS
    <3>5. t.place = k.place
      BY <3>3, <3>4, TrimIs
    <3>6. k.place # L!Blank /\ L!Meets(t, location)
      BY <3>2, <3>5 DEF L!Meets
    <3>7. t \in DOMAIN r.regions /\ r.regions[t] = v
      BY <2>5, <3>1, <3>2, <3>4, <3>6 DEF Ranged
    <3>8. r \in RuleTypes /\ IsFiniteSet(DOMAIN r.regions)
      <4>1. l_cfg.rules \in Seq(RuleTypes)
        BY DEF LoadInv, LoadTyped, Configs
      <4> QED BY <2>1, <3>1, <4>1 DEF LoadInv, LoadTyped
    <3>9. PICK m : m = r.regions
      OBVIOUS
    <3>10. m \in Regions /\ IsFiniteSet(DOMAIN m) /\ t \in DOMAIN m /\ m[t] = v
      BY <3>7, <3>8, <3>9 DEF RuleTypes
    <3>11. PICK most : most = L!MatchRegion(m, location)
      OBVIOUS
    <3>12. most \in Int /\ most >= v
      BY <3>6, <3>10, <3>11, LargestRegion
    <3>13. v \in Int /\ v > 0
      BY <3>2, <3>10, RegionsAre
    <3>14. most > 0
      BY <3>12, <3>13
    <3>15. L!Threshold(r, location) = most
      BY <3>9, <3>11, <3>14 DEF L!Threshold
    <3> QED BY <3>1, <3>12, <3>15
  <2> QED BY <2>3, <2>4, <2>6, <2>7
<1> QED BY <1>1, LoadInvHolds, PTL

-----------------------------------------------------------------------------
\* The reports of the malware scan.

\* A name out of a directory without repetitions: the others stay in their order, and those before it
\* where they are.
LEMMA WithoutIs ==
  ASSUME NEW S, NEW s \in Seq(S), R!IsInjective(s), NEW n, r_order = s, NEW w, w = R!Without(n)
  PROVE  /\ w \in Seq(S) /\ R!IsInjective(w) /\ R!ToSet(w) = R!ToSet(s) \ {n} /\ Len(w) <= Len(s)
         /\ \A j \in 1..Len(s) : (\A l \in 1..j : s[l] # n) => j <= Len(w) /\ w[j] = s[j]
<1>1. CASE ~ R!Exists(n)
  <2>1. w = s /\ n \notin R!ToSet(s)
    BY <1>1 DEF R!Without, R!Exists
  <2> QED BY <2>1
<1>2. CASE R!Exists(n)
  <2>1. PICK k : k = CHOOSE l \in DOMAIN s : s[l] = n
    OBVIOUS
  <2>2. k \in DOMAIN s /\ s[k] = n
    BY <1>2, <2>1 DEF R!Exists, R!ToSet
  <2>3. PICK N \in Nat : N = Len(s) /\ DOMAIN s = 1..N
    OBVIOUS
  <2>4. w = SubSeq(s, 1, k - 1) \o SubSeq(s, k + 1, N)
    BY <1>2, <2>1, <2>3 DEF R!Without, R!RemoveAt
  <2>5. /\ w \in Seq(S) /\ Len(w) = N - 1
        /\ \A j \in 1..(N - 1) : w[j] = IF j < k THEN s[j] ELSE s[j + 1]
    <3>1. PICK a, b : a = SubSeq(s, 1, k - 1) /\ b = SubSeq(s, k + 1, N)
      OBVIOUS
    <3>2. a \in Seq(S) /\ Len(a) = k - 1 /\ \A j \in 1..(k - 1) : a[j] = s[j]
      BY <2>2, <2>3, <3>1
    <3>3. b \in Seq(S) /\ Len(b) = N - k /\ \A j \in 1..(N - k) : b[j] = s[k + j]
      BY <2>2, <2>3, <3>1
    <3>4. w = a \o b
      BY <2>4, <3>1
    <3>5. w \in Seq(S) /\ Len(w) = N - 1
      BY <2>2, <2>3, <3>2, <3>3, <3>4
    <3>6. ASSUME NEW j \in 1..(N - 1) PROVE w[j] = IF j < k THEN s[j] ELSE s[j + 1]
      <4>1. CASE j < k
        <5>1. w[j] = a[j] /\ j \in 1..(k - 1)
          BY <2>2, <2>3, <3>2, <3>3, <3>4, <4>1
        <5> QED BY <3>2, <4>1, <5>1
      <4>2. CASE ~(j < k)
        <5>1. w[j] = b[j - (k - 1)]
          BY <2>2, <2>3, <3>2, <3>3, <3>4, <4>2
        <5>2. j - (k - 1) \in 1..(N - k) /\ k + (j - (k - 1)) = j + 1
          BY <2>2, <2>3, <4>2
        <5> QED BY <3>3, <4>2, <5>1, <5>2
      <4> QED BY <4>1, <4>2
    <3> QED BY <3>5, <3>6
  <2>6. \A j, l \in 1..N : s[j] = s[l] => j = l
    BY <2>3 DEF R!IsInjective
  <2>7. DOMAIN w = 1..(N - 1)
    BY <2>3, <2>5
  <2>8. R!IsInjective(w)
    BY <2>2, <2>3, <2>5, <2>6, <2>7 DEF R!IsInjective
  <2>9. R!ToSet(w) \subseteq R!ToSet(s) \ {n}
    BY <2>2, <2>3, <2>5, <2>6, <2>7 DEF R!ToSet
  <2>10. ASSUME NEW x \in R!ToSet(s) \ {n} PROVE x \in R!ToSet(w)
    <3>1. PICK j \in 1..N : s[j] = x
      BY <2>3 DEF R!ToSet
    <3>2. CASE j < k
      <4>1. j \in 1..(N - 1) /\ w[j] = x
        BY <2>2, <2>3, <2>5, <3>1, <3>2
      <4> QED BY <2>7, <4>1 DEF R!ToSet
    <3>3. CASE ~(j < k)
      <4>1. j # k
        BY <2>2, <3>1
      <4>2. j - 1 \in 1..(N - 1) /\ ~(j - 1 < k) /\ j - 1 + 1 = j
        BY <2>2, <2>3, <3>3, <4>1
      <4>3. w[j - 1] = x
        BY <2>5, <3>1, <4>2
      <4> QED BY <2>7, <4>2, <4>3 DEF R!ToSet
    <3> QED BY <3>2, <3>3
  <2>11. ASSUME NEW j \in 1..N, \A l \in 1..j : s[l] # n PROVE j <= N - 1 /\ w[j] = s[j]
    <3>1. j < k
      BY <2>2, <2>3, <2>11
    <3> QED BY <2>2, <2>3, <2>5, <3>1
  <2> QED BY <2>3, <2>5, <2>8, <2>9, <2>10, <2>11
<1> QED BY <1>1, <1>2

\* The reports among the last modified that are kept, and those that a scan is about to remove.
Newest  == {r_order[j] : j \in 1..(IF Len(r_order) < R_Keep THEN Len(r_order) ELSE R_Keep)}
Pruning == {q \in R_Scans : r_pc[q] = "prune"}
Cleared == UNION {R!ToSet(r_job[q].doomed) : q \in Pruning}
Left    == R!ToSet(r_order) \ Cleared

ReportTyped ==
    /\ r_order \in Seq(R!Names) /\ R!IsInjective(r_order)
    /\ r_file \in [R!Names -> [by : R_Scans \cup {R_NoScan}, text : {"none", "part", "full"}]]
    /\ r_pc \in [R_Scans -> {"idle", "try", "write", "list", "prune"}]
    /\ r_job \in [R_Scans -> [name : R!Names, doomed : Seq(R!Names), alone : BOOLEAN]]
    /\ r_kills \in BOOLEAN
\* What is in the directory, and who writes it.
Written ==
    /\ \A n \in R!Names : r_file[n].text = "none" <=> n \notin R!ToSet(r_order)
    /\ \A n \in R!Names : r_file[n].by # R_NoScan => r_file[n].text = "part"
\* A scan on its own, and what it removes.
OnItsOwn ==
    /\ \A p \in R_Scans : r_pc[p] = "idle" => ~r_job[p].alone
    /\ \A p, q \in R_Scans : r_job[p].alone /\ q # p => r_pc[q] = "idle"
    /\ \A p \in R_Scans : r_job[p].alone /\ r_pc[p] = "prune" => R!ToSet(r_job[p].doomed) \cap Newest = {}
\* As long as no scan was killed, or when one is at work again on its own, the reports that are not
\* about to be removed are no more than are kept; but for those a scan is still to list.
Settled ==
    /\ ~r_kills \/ \E p \in R_Scans : r_job[p].alone /\ r_pc[p] = "prune"
    /\ \A p \in R_Scans : r_pc[p] \notin {"write", "list"}
FewLeft == Settled => IsFiniteSet(Left) /\ Cardinality(Left) <= R_Keep

Reports == ReportTyped /\ Written /\ OnItsOwn /\ FewLeft

LEMMA KeepIs == R_Keep \in Nat \ {0} /\ R_MaxTries \in Nat \ {0} /\ R_NoScan \notin R_Scans /\ 1 \in R!Names
BY HostAssumption DEF R!ReportAssumption, R!Names

\* A file that is written moves to the front.
LEMMA TouchIs ==
  ASSUME ReportTyped, NEW n \in R!Names, R!Touch(n)
  PROVE  r_order' \in Seq(R!Names) /\ R!IsInjective(r_order)' /\ R!ToSet(r_order)' = R!ToSet(r_order) \cup {n}
<1>1. PICK s : s = r_order
  OBVIOUS
<1>2. PICK w : w = R!Without(n)
  OBVIOUS
<1>3. s \in Seq(R!Names) /\ R!IsInjective(s)
  BY <1>1 DEF ReportTyped
<1>4. w \in Seq(R!Names) /\ R!IsInjective(w) /\ R!ToSet(w) = R!ToSet(s) \ {n}
  BY <1>1, <1>2, <1>3, WithoutIs
<1>5. PICK t : t = <<n>> \o w
  OBVIOUS
<1>6. PICK N \in Nat : N = Len(w) /\ DOMAIN w = 1..N
  BY <1>4
<1>7. t \in Seq(R!Names) /\ DOMAIN t = 1..(N + 1) /\ t[1] = n /\ \A j \in 1..N : t[j + 1] = w[j]
  BY <1>4, <1>5, <1>6
<1>8. \A j \in 1..(N + 1) : j = 1 \/ (j - 1 \in 1..N /\ t[j] = w[j - 1])
  <2> SUFFICES ASSUME NEW j \in 1..(N + 1), j # 1 PROVE j - 1 \in 1..N /\ t[j] = w[j - 1]
    OBVIOUS
  <2>1. j - 1 \in 1..N /\ (j - 1) + 1 = j
    OBVIOUS
  <2> QED BY <1>7, <2>1
<1>9. \A j \in 1..N : w[j] # n /\ w[j] \in R!ToSet(w)
  BY <1>4, <1>6 DEF R!ToSet
<1>10. R!IsInjective(t)
  <2> SUFFICES ASSUME NEW j \in 1..(N + 1), NEW l \in 1..(N + 1), t[j] = t[l] PROVE j = l
    BY <1>7 DEF R!IsInjective
  <2>1. CASE j = 1 \/ l = 1
    BY <1>7, <1>8, <1>9, <2>1
  <2>2. CASE j # 1 /\ l # 1
    <3>1. j - 1 \in 1..N /\ l - 1 \in 1..N /\ w[j - 1] = w[l - 1]
      BY <1>8, <2>2
    <3>2. j - 1 = l - 1
      BY <1>4, <1>6, <3>1 DEF R!IsInjective
    <3> QED BY <3>2
  <2> QED BY <2>1, <2>2
<1>11. R!ToSet(t) = R!ToSet(w) \cup {n}
  <2>1. R!ToSet(t) = {t[j] : j \in 1..(N + 1)} /\ R!ToSet(w) = {w[j] : j \in 1..N}
    BY <1>6, <1>7 DEF R!ToSet
  <2>2. \A j \in 1..N : j + 1 \in 1..(N + 1)
    BY <1>6
  <2>3. 1 \in 1..(N + 1)
    BY <1>6
  <2> QED BY <1>7, <1>8, <2>1, <2>2, <2>3
<1>12. r_order' = t
  BY <1>2, <1>5 DEF R!Touch
<1>13. R!IsInjective(r_order)' = R!IsInjective(r_order') /\ R!ToSet(r_order)' = R!ToSet(r_order')
  BY DEF R!IsInjective, R!ToSet
<1> QED BY <1>1, <1>4, <1>7, <1>10, <1>11, <1>12, <1>13

\* The newest are in the directory, and no more than are kept.
LEMMA NewestFew ==
  ASSUME ReportTyped PROVE IsFiniteSet(Newest) /\ Cardinality(Newest) <= R_Keep /\ Newest \subseteq R!ToSet(r_order)
<1>1. PICK N \in Nat : N = Len(r_order) /\ DOMAIN r_order = 1..N
  BY DEF ReportTyped
<1>2. PICK m \in Nat : m = (IF N < R_Keep THEN N ELSE R_Keep) /\ m <= R_Keep /\ m <= N
  BY <1>1, KeepIs
<1>3. Newest = {r_order[j] : j \in 1..m}
  BY <1>1, <1>2 DEF Newest
<1>4. PICK f : f = [j \in 1..m |-> r_order[j]]
  OBVIOUS
<1>5. f \in Surjection(1..m, Newest)
  BY <1>3, <1>4 DEF Surjection
<1>6. ExistsSurjection(1..m, Newest)
  BY <1>5 DEF ExistsSurjection
<1>7. IsFiniteSet(Newest) /\ Cardinality(Newest) <= m /\ Cardinality(Newest) \in Nat
  BY <1>6, FS_NatSurjection, FS_SurjCardinalityBound, FS_CardinalityType
<1>8. Newest \subseteq R!ToSet(r_order)
  BY <1>1, <1>2, <1>3 DEF R!ToSet
<1> QED BY <1>2, <1>7, <1>8, KeepIs

\* What a scan lists for removal, and what it does not.
LEMMA DoomedIs ==
  ASSUME ReportTyped
  PROVE  R!Doomed \in Seq(R!Names) /\ R!ToSet(R!Doomed) \cap Newest = {} /\ R!ToSet(r_order) \ R!ToSet(R!Doomed) \subseteq Newest
<1>1. PICK s \in Seq(R!Names) : s = r_order /\ R!IsInjective(s)
  BY DEF ReportTyped
<1>2. PICK N \in Nat : N = Len(s)
  OBVIOUS
<1>3. DOMAIN s = 1..N
  BY <1>2
<1>4. \A j, l \in 1..N : s[j] = s[l] => j = l
  BY <1>1, <1>3 DEF R!IsInjective
<1>5. PICK k \in Nat \ {0} : k = R_Keep
  BY KeepIs
<1>6. PICK d : d = SubSeq(s, k + 1, N)
  OBVIOUS
<1>7. d \in Seq(R!Names) /\ Len(d) = IF k < N THEN N - k ELSE 0
  BY <1>2, <1>4, <1>6
<1>8. \A j \in 1..Len(d) : d[j] = s[k + j] /\ k + j \in 1..N
  BY <1>2, <1>4, <1>6, <1>7
<1>9. R!ToSet(d) = {d[j] : j \in 1..Len(d)}
  BY <1>7 DEF R!ToSet
<1>10. Newest = {s[j] : j \in 1..(IF N < k THEN N ELSE k)}
  BY <1>1, <1>2, <1>5 DEF Newest
<1>11. R!ToSet(d) \cap Newest = {}
  <2> SUFFICES ASSUME NEW x, x \in R!ToSet(d), x \in Newest PROVE FALSE
    OBVIOUS
  <2>1. PICK j \in 1..Len(d) : x = s[k + j] /\ k + j \in 1..N
    BY <1>8, <1>9
  <2>2. PICK l \in 1..(IF N < k THEN N ELSE k) : x = s[l]
    BY <1>10
  <2>3. l \in 1..N /\ l <= k /\ l # k + j
    BY <1>2, <2>1, <2>2
  <2> QED BY <1>4, <2>1, <2>2, <2>3
<1>12. ASSUME NEW x \in R!ToSet(s) \ R!ToSet(d) PROVE x \in Newest
  <2>1. PICK j \in 1..N : x = s[j]
    BY <1>3 DEF R!ToSet
  <2>2. CASE j <= k
    <3>1. j \in 1..(IF N < k THEN N ELSE k)
      BY <2>2
    <3> QED BY <1>10, <2>1, <3>1
  <2>3. CASE ~(j <= k)
    <3>1. j - k \in 1..Len(d) /\ k + (j - k) = j
      BY <1>2, <1>5, <1>7, <2>3
    <3> QED BY <1>8, <1>9, <2>1, <3>1
  <2> QED BY <2>2, <2>3
<1>13. R!Doomed = d
  BY <1>1, <1>2, <1>5, <1>6 DEF R!Doomed
<1> QED BY <1>1, <1>7, <1>11, <1>12, <1>13

\* Where a scan is, and what it has to remove.
LEMMA JobIs ==
  ASSUME ReportTyped, NEW p \in R_Scans
  PROVE  /\ r_pc[p] \in {"idle", "try", "write", "list", "prune"} /\ r_job[p].name \in R!Names
         /\ r_job[p].doomed \in Seq(R!Names) /\ r_job[p].alone \in BOOLEAN
         /\ r_job[p] \in [name : R!Names, doomed : Seq(R!Names), alone : BOOLEAN]
BY DEF ReportTyped

LEMMA FewLeftKept ==
  ASSUME FewLeft, Settled' => Settled, Left' \subseteq Left PROVE FewLeft'
<1> SUFFICES ASSUME Settled' PROVE IsFiniteSet(Left') /\ Cardinality(Left') <= R_Keep
  BY DEF FewLeft
<1>1. PICK S : S = Left
  OBVIOUS
<1>2. PICK S2 : S2 = Left'
  OBVIOUS
<1>3. IsFiniteSet(S) /\ Cardinality(S) <= R_Keep /\ S2 \subseteq S
  BY <1>1, <1>2 DEF FewLeft
<1>4. IsFiniteSet(S2) /\ Cardinality(S2) <= Cardinality(S) /\ Cardinality(S2) \in Nat /\ Cardinality(S) \in Nat
  BY <1>3, FS_Subset, FS_CardinalityType
<1>5. IsFiniteSet(S2) /\ Cardinality(S2) <= R_Keep
  BY <1>3, <1>4, KeepIs
<1> QED BY <1>2, <1>5

\* A step that leaves the directory alone.
LEMMA DirectoryStays ==
  ASSUME ReportTyped, r_order' = r_order
  PROVE  Newest' = Newest /\ R!ToSet(r_order)' = R!ToSet(r_order) /\ R!IsInjective(r_order)'
BY DEF Newest, R!ToSet, R!IsInjective, ReportTyped

LEMMA ClearedIs ==
  /\ \A x : x \in Cleared <=> \E q \in R_Scans : r_pc[q] = "prune" /\ x \in R!ToSet(r_job[q].doomed)
  /\ \A x : x \in Cleared' <=> \E q \in R_Scans : r_pc'[q] = "prune" /\ x \in R!ToSet(r_job'[q].doomed)
BY DEF Cleared, Pruning, R!ToSet

LEMMA ReportBegin ==
  ASSUME Reports, NEW p \in R_Scans, R!Begin(p) PROVE Reports'
<1>1. /\ r_pc[p] = "idle" /\ r_pc' = [r_pc EXCEPT ![p] = "try"] /\ r_order' = r_order /\ r_file' = r_file
      /\ r_kills' = r_kills /\ ReportTyped /\ Written /\ OnItsOwn /\ FewLeft
  BY DEF R!Begin, R!Goto, Reports
<1>2. r_pc' \in [R_Scans -> {"idle", "try", "write", "list", "prune"}] /\ r_pc'[p] = "try"
      /\ \A q \in R_Scans \ {p} : r_pc'[q] = r_pc[q]
  BY <1>1 DEF ReportTyped
<1>3. PICK a \in BOOLEAN : a = (\A q \in R_Scans \ {p} : r_pc[q] = "idle")
  OBVIOUS
<1>4. r_job' = [q \in R_Scans |-> IF q = p THEN [R!NoJob EXCEPT !.alone = a] ELSE [r_job[q] EXCEPT !.alone = FALSE]]
  BY <1>3 DEF R!Begin
<1>5. [R!NoJob EXCEPT !.alone = a] = [name |-> 1, doomed |-> <<>>, alone |-> a]
  BY DEF R!NoJob
<1>6. /\ r_job'[p] = [name |-> 1, doomed |-> <<>>, alone |-> a]
      /\ \A q \in R_Scans \ {p} : r_job'[q].doomed = r_job[q].doomed /\ ~r_job'[q].alone
      /\ r_job' \in [R_Scans -> [name : R!Names, doomed : Seq(R!Names), alone : BOOLEAN]]
  <2>1. r_job'[p] = [name |-> 1, doomed |-> <<>>, alone |-> a]
    BY <1>4, <1>5
  <2>2. \A q \in R_Scans \ {p} : r_job'[q] = [r_job[q] EXCEPT !.alone = FALSE]
    BY <1>4
  <2>3. \A r \in [name : R!Names, doomed : Seq(R!Names), alone : BOOLEAN] :
          LET s == [r EXCEPT !.alone = FALSE] IN
          s \in [name : R!Names, doomed : Seq(R!Names), alone : BOOLEAN] /\ s.doomed = r.doomed /\ ~s.alone
    OBVIOUS
  <2>4. \A q \in R_Scans \ {p} : /\ r_job'[q].doomed = r_job[q].doomed /\ ~r_job'[q].alone
                                 /\ r_job'[q] \in [name : R!Names, doomed : Seq(R!Names), alone : BOOLEAN]
    BY <1>1, <2>2, <2>3, JobIs
  <2>5. r_job'[p] \in [name : R!Names, doomed : Seq(R!Names), alone : BOOLEAN]
    BY <2>1, KeepIs
  <2>6. DOMAIN r_job' = R_Scans /\ r_job' = [q \in R_Scans |-> r_job'[q]]
    BY <1>4
  <2>7. r_job' \in [R_Scans -> [name : R!Names, doomed : Seq(R!Names), alone : BOOLEAN]]
    BY <2>4, <2>5, <2>6
  <2> QED BY <2>1, <2>4, <2>7
<1>7. ReportTyped'
  BY <1>1, <1>2, <1>6, DirectoryStays DEF ReportTyped
<1>8. Written'
  BY <1>1, DirectoryStays DEF Written
<1>9. OnItsOwn'
  BY <1>1, <1>2, <1>3, <1>6 DEF OnItsOwn
<1>10. FewLeft'
  <2>1. Settled' => Settled
    BY <1>1, <1>2, <1>6 DEF Settled
  <2>2. \A q \in R_Scans : r_pc'[q] = "prune" <=> r_pc[q] = "prune" /\ q # p
    BY <1>1, <1>2
  <2>3. \A q \in R_Scans : q # p => R!ToSet(r_job'[q].doomed) = R!ToSet(r_job[q].doomed)
    BY <1>6
  <2>4. \A x : x \in Cleared' <=> x \in Cleared
    BY <1>1, <2>2, <2>3, ClearedIs
  <2>5. Left' = Left
    BY <1>1, <2>4, DirectoryStays DEF Left
  <2> QED BY <1>1, <2>1, <2>5, FewLeftKept
<1> QED BY <1>7, <1>8, <1>9, <1>10 DEF Reports

LEMMA ReportCreate ==
  ASSUME Reports, NEW p \in R_Scans, R!Create(p) PROVE Reports'
<1>1. PICK n : n = r_job[p].name
  OBVIOUS
<1>2. /\ r_pc[p] = "try" /\ r_pc' = [r_pc EXCEPT ![p] = "write"] /\ R!Touch(n) /\ n \notin R!ToSet(r_order)
      /\ r_file' = [r_file EXCEPT ![n] = [by |-> p, text |-> "part"]] /\ r_job' = r_job
      /\ r_kills' = r_kills /\ ReportTyped /\ Written /\ OnItsOwn /\ FewLeft
  BY <1>1 DEF R!Create, R!Goto, R!Free, R!Exists, Reports
<1>3. n \in R!Names
  BY <1>1, <1>2, JobIs
<1>4. r_order' \in Seq(R!Names) /\ R!IsInjective(r_order)' /\ R!ToSet(r_order)' = R!ToSet(r_order) \cup {n}
  BY <1>2, <1>3, TouchIs
<1>5. r_pc' \in [R_Scans -> {"idle", "try", "write", "list", "prune"}] /\ r_pc'[p] = "write"
      /\ \A q \in R_Scans \ {p} : r_pc'[q] = r_pc[q]
  BY <1>2 DEF ReportTyped
<1>6. /\ r_file' \in [R!Names -> [by : R_Scans \cup {R_NoScan}, text : {"none", "part", "full"}]]
      /\ r_file'[n] = [by |-> p, text |-> "part"] /\ \A m \in R!Names \ {n} : r_file'[m] = r_file[m]
  BY <1>2, <1>3 DEF ReportTyped
<1>7. ReportTyped'
  BY <1>2, <1>4, <1>5, <1>6 DEF ReportTyped
<1>8. Written'
  BY <1>2, <1>4, <1>6 DEF Written
<1>9. OnItsOwn'
  <2>1. \A q \in R_Scans : r_pc'[q] = "idle" <=> r_pc[q] = "idle"
    BY <1>2, <1>5
  <2>2. \A q \in R_Scans : ~(r_job'[q].alone /\ r_pc'[q] = "prune")
    BY <1>2, <1>5 DEF OnItsOwn
  <2> QED BY <1>2, <2>1, <2>2 DEF OnItsOwn
<1>10. FewLeft'
  BY <1>5 DEF FewLeft, Settled
<1> QED BY <1>7, <1>8, <1>9, <1>10 DEF Reports

LEMMA LeaveIs ==
  ASSUME ReportTyped, NEW p \in R_Scans, R!Leave(p)
  PROVE  /\ r_pc' \in [R_Scans -> {"idle", "try", "write", "list", "prune"}] /\ r_pc'[p] = "idle"
         /\ \A q \in R_Scans : q # p => r_pc'[q] = r_pc[q]
         /\ r_job' \in [R_Scans -> [name : R!Names, doomed : Seq(R!Names), alone : BOOLEAN]]
         /\ ~r_job'[p].alone /\ \A q \in R_Scans : q # p => r_job'[q] = r_job[q]
<1>1. R!NoJob \in [name : R!Names, doomed : Seq(R!Names), alone : BOOLEAN] /\ ~R!NoJob.alone
  BY KeepIs DEF R!NoJob
<1>2. PICK none : none = R!NoJob
  OBVIOUS
<1>3. r_pc' = [r_pc EXCEPT ![p] = "idle"] /\ r_job' = [r_job EXCEPT ![p] = none]
  BY <1>2 DEF R!Leave, R!Goto
<1> QED BY <1>1, <1>2, <1>3 DEF ReportTyped

\* A scan that ends and leaves the directory as it is: killed or with a report it could not remove, or
\* with nothing left to remove.
LEMMA ReportLeaves ==
  ASSUME Reports, NEW p \in R_Scans, r_pc[p] # "idle", R!Leave(p), r_order' = r_order, r_kills' \in BOOLEAN,
         r_file' \in [R!Names -> [by : R_Scans \cup {R_NoScan}, text : {"none", "part", "full"}]], Written',
         r_kills' \/ ((r_pc[p] = "prune" => r_job[p].doomed = <<>>) /\ (Settled' => Settled))
  PROVE  Reports'
<1>1. ReportTyped /\ Written /\ OnItsOwn /\ FewLeft
  BY DEF Reports
<1>2. /\ r_pc' \in [R_Scans -> {"idle", "try", "write", "list", "prune"}] /\ r_pc'[p] = "idle"
      /\ \A q \in R_Scans : q # p => r_pc'[q] = r_pc[q]
      /\ r_job' \in [R_Scans -> [name : R!Names, doomed : Seq(R!Names), alone : BOOLEAN]]
      /\ ~r_job'[p].alone /\ \A q \in R_Scans : q # p => r_job'[q] = r_job[q]
  BY <1>1, LeaveIs
<1>3. ReportTyped'
  BY <1>1, <1>2, DirectoryStays DEF ReportTyped
<1>4. OnItsOwn'
  <2>1. \A q \in R_Scans : q # p => ~r_job[q].alone
    BY <1>1 DEF OnItsOwn
  <2>2. \A q \in R_Scans : ~r_job'[q].alone
    BY <1>2, <2>1
  <2> QED BY <2>2 DEF OnItsOwn
<1>5. FewLeft'
  <2>1. CASE r_kills'
    <3>1. \A q \in R_Scans : ~(r_job'[q].alone /\ r_pc'[q] = "prune")
      BY <1>1, <1>2 DEF OnItsOwn
    <3> QED BY <2>1, <3>1 DEF FewLeft, Settled
  <2>2. CASE (r_pc[p] = "prune" => r_job[p].doomed = <<>>) /\ (Settled' => Settled)
    <3>1. r_pc[p] = "prune" => R!ToSet(r_job[p].doomed) = {}
      BY <2>2 DEF R!ToSet
    <3>2. \A x : x \in Cleared => x \in Cleared'
      BY <1>2, <3>1, ClearedIs
    <3>3. Left' \subseteq Left
      BY <1>1, <3>2, DirectoryStays DEF Left
    <3> QED BY <1>1, <2>2, <3>3, FewLeftKept
  <2> QED BY <2>1, <2>2
<1> QED BY <1>3, <1>4, <1>5 DEF Reports

LEMMA ReportFinish ==
  ASSUME Reports, NEW p \in R_Scans, R!Finish(p) PROVE Reports'
<1>1. r_pc[p] = "prune" /\ R!Leave(p) /\ r_order' = r_order /\ r_file' = r_file /\ ReportTyped /\ Written /\ OnItsOwn
  BY DEF R!Finish, Reports
<1>2. Written'
  BY <1>1, DirectoryStays DEF Written
<1>3. CASE r_job[p].doomed = <<>>
  <2>1. r_kills' = (r_kills /\ ~r_job[p].alone)
    BY <1>3 DEF R!Finish
  <2>2. Settled' => Settled
    <3>1. /\ r_pc'[p] = "idle" /\ ~r_job'[p].alone
          /\ \A q \in R_Scans : q # p => r_pc'[q] = r_pc[q] /\ r_job'[q] = r_job[q]
      BY <1>1, LeaveIs
    <3>2. \A q \in R_Scans : q # p => ~r_job[q].alone
      BY <1>1 DEF OnItsOwn
    <3>3. Settled' => ~r_kills'
      BY <3>1, <3>2 DEF Settled
    <3>4. Settled' => ~r_kills \/ r_job[p].alone
      BY <2>1, <3>3, JobIs, <1>1 DEF ReportTyped
    <3>5. Settled' => \A q \in R_Scans : r_pc[q] \notin {"write", "list"}
      BY <1>1, <3>1 DEF Settled
    <3> QED BY <1>1, <3>4, <3>5 DEF Settled
  <2>3. r_kills' \in BOOLEAN
    BY <2>1
  <2>4. r_file' \in [R!Names -> [by : R_Scans \cup {R_NoScan}, text : {"none", "part", "full"}]]
    BY <1>1 DEF ReportTyped
  <2> QED BY <1>1, <1>2, <1>3, <2>2, <2>3, <2>4, ReportLeaves
<1>4. CASE r_job[p].doomed # <<>>
  <2>1. r_kills' = TRUE
    BY <1>4 DEF R!Finish
  <2>2. r_file' \in [R!Names -> [by : R_Scans \cup {R_NoScan}, text : {"none", "part", "full"}]]
    BY <1>1 DEF ReportTyped
  <2> QED BY <1>1, <1>2, <2>1, <2>2, ReportLeaves
<1> QED BY <1>3, <1>4

LEMMA ReportKill ==
  ASSUME Reports, NEW p \in R_Scans, R!Kill(p) PROVE Reports'
<1>1. /\ r_pc[p] # "idle" /\ R!Leave(p) /\ r_order' = r_order /\ r_kills' = TRUE /\ ReportTyped /\ Written
      /\ r_file' = [n \in R!Names |-> IF r_file[n].by = p THEN [r_file[n] EXCEPT !.by = R_NoScan] ELSE r_file[n]]
  BY DEF R!Kill, Reports
<1>2. \A n \in R!Names : /\ r_file'[n] \in [by : R_Scans \cup {R_NoScan}, text : {"none", "part", "full"}]
                         /\ r_file'[n].text = r_file[n].text
                         /\ r_file'[n].by # R_NoScan => r_file'[n].by = r_file[n].by
  <2> SUFFICES ASSUME NEW n \in R!Names
               PROVE  /\ r_file'[n] \in [by : R_Scans \cup {R_NoScan}, text : {"none", "part", "full"}]
                      /\ r_file'[n].text = r_file[n].text
                      /\ r_file'[n].by # R_NoScan => r_file'[n].by = r_file[n].by
    OBVIOUS
  <2>1. PICK f \in [by : R_Scans \cup {R_NoScan}, text : {"none", "part", "full"}] : f = r_file[n]
    BY <1>1 DEF ReportTyped
  <2> QED BY <1>1, <2>1
<1>3. r_file' \in [R!Names -> [by : R_Scans \cup {R_NoScan}, text : {"none", "part", "full"}]]
  BY <1>1, <1>2
<1>4. Written'
  BY <1>1, <1>2, DirectoryStays DEF Written
<1> QED BY <1>1, <1>3, <1>4, ReportLeaves

LEMMA ReportTaken ==
  ASSUME Reports, NEW p \in R_Scans, R!Taken(p) PROVE Reports'
<1>1. /\ r_pc[p] = "try" /\ r_order' = r_order /\ r_file' = r_file /\ r_kills' = r_kills
      /\ ReportTyped /\ Written /\ OnItsOwn /\ FewLeft
  BY DEF R!Taken, Reports
<1>2. Written'
  BY <1>1, DirectoryStays DEF Written
<1>3. CASE ~(r_job[p].name < R_MaxTries)
  <2>1. R!Leave(p)
    BY <1>3 DEF R!Taken
  <2>2. /\ r_pc'[p] = "idle" /\ ~r_job'[p].alone
        /\ \A q \in R_Scans : q # p => r_pc'[q] = r_pc[q] /\ r_job'[q] = r_job[q]
    BY <1>1, <2>1, LeaveIs
  <2>3. Settled' => Settled
    BY <1>1, <2>2 DEF Settled
  <2>4. r_file' \in [R!Names -> [by : R_Scans \cup {R_NoScan}, text : {"none", "part", "full"}]] /\ r_kills' \in BOOLEAN
    BY <1>1 DEF ReportTyped
  <2> QED BY <1>1, <1>2, <2>1, <2>3, <2>4, ReportLeaves
<1>4. CASE r_job[p].name < R_MaxTries
  <2>1. r_job' = [r_job EXCEPT ![p].name = @ + 1] /\ r_pc' = r_pc
    BY <1>4 DEF R!Taken
  <2>2. r_job[p].name + 1 \in R!Names
    BY <1>1, <1>4, KeepIs, JobIs DEF R!Names
  <2>3. r_job' \in [R_Scans -> [name : R!Names, doomed : Seq(R!Names), alone : BOOLEAN]]
        /\ \A q \in R_Scans : r_job'[q].doomed = r_job[q].doomed /\ r_job'[q].alone = r_job[q].alone
    <3>1. PICK r \in [name : R!Names, doomed : Seq(R!Names), alone : BOOLEAN] : r = r_job[p]
      BY <1>1, JobIs
    <3>2. PICK s : s = [r EXCEPT !.name = r.name + 1]
      OBVIOUS
    <3>3. s \in [name : R!Names, doomed : Seq(R!Names), alone : BOOLEAN] /\ s.doomed = r.doomed /\ s.alone = r.alone
      BY <2>2, <3>1, <3>2
    <3>4. r_job' = [r_job EXCEPT ![p] = s]
      BY <2>1, <3>1, <3>2
    <3> QED BY <1>1, <3>1, <3>3, <3>4 DEF ReportTyped
  <2>4. ReportTyped'
    BY <1>1, <2>1, <2>3, DirectoryStays DEF ReportTyped
  <2>5. \A q \in R_Scans : R!ToSet(r_job'[q].doomed) = R!ToSet(r_job[q].doomed)
    BY <2>3
  <2>6. OnItsOwn'
    <3>1. \A q \in R_Scans : r_job'[q].alone /\ r_pc'[q] = "prune" => R!ToSet(r_job'[q].doomed) \cap Newest' = {}
      BY <1>1, <2>1, <2>3, <2>5, DirectoryStays DEF OnItsOwn
    <3>2. \A q \in R_Scans : R!ToSet(r_job[q].doomed)' = R!ToSet(r_job'[q].doomed)
      BY DEF R!ToSet
    <3> QED BY <1>1, <2>1, <2>3, <3>1, <3>2 DEF OnItsOwn
  <2>7. FewLeft'
    <3>1. Settled' => Settled
      BY <1>1, <2>1, <2>3 DEF Settled
    <3>2. \A x : x \in Cleared <=> x \in Cleared'
      BY <2>1, <2>5, ClearedIs
    <3>3. Left' \subseteq Left
      BY <1>1, <3>2, DirectoryStays DEF Left
    <3> QED BY <1>1, <3>1, <3>3, FewLeftKept
  <2> QED BY <1>2, <2>4, <2>6, <2>7 DEF Reports
<1> QED BY <1>3, <1>4

LEMMA ReportWrite ==
  ASSUME Reports, NEW p \in R_Scans, R!Write(p) PROVE Reports'
<1>1. PICK n : n = r_job[p].name
  OBVIOUS
<1>2. /\ r_pc[p] = "write" /\ r_pc' = [r_pc EXCEPT ![p] = "list"] /\ r_job' = r_job /\ r_kills' = r_kills
      /\ ReportTyped /\ Written /\ OnItsOwn /\ FewLeft
      /\ IF r_file[n].by = p THEN R!Touch(n) /\ r_file' = [r_file EXCEPT ![n].text = "full", ![n].by = R_NoScan]
         ELSE r_order' = r_order /\ r_file' = r_file
  BY <1>1 DEF R!Write, R!Goto, Reports
<1>3. n \in R!Names
  BY <1>1, <1>2, JobIs
<1>4. r_pc' \in [R_Scans -> {"idle", "try", "write", "list", "prune"}] /\ r_pc'[p] = "list"
      /\ \A q \in R_Scans \ {p} : r_pc'[q] = r_pc[q]
  BY <1>2 DEF ReportTyped
<1>5. ReportTyped' /\ Written'
  <2>1. CASE r_file[n].by = p
    <3>1. PICK f \in [by : R_Scans \cup {R_NoScan}, text : {"none", "part", "full"}] : f = r_file[n]
      BY <1>2, <1>3 DEF ReportTyped
    <3>2. PICK g : g = [f EXCEPT !.text = "full", !.by = R_NoScan]
      OBVIOUS
    <3>3. g \in [by : R_Scans \cup {R_NoScan}, text : {"none", "part", "full"}] /\ g.text = "full" /\ g.by = R_NoScan
      BY <3>1, <3>2
    <3>4. r_file' = [r_file EXCEPT ![n] = g]
      BY <1>2, <2>1, <3>1, <3>2
    <3>5. /\ r_file' \in [R!Names -> [by : R_Scans \cup {R_NoScan}, text : {"none", "part", "full"}]]
          /\ r_file'[n] = g /\ \A m \in R!Names \ {n} : r_file'[m] = r_file[m]
      BY <1>2, <1>3, <3>3, <3>4 DEF ReportTyped
    <3>6. r_order' \in Seq(R!Names) /\ R!IsInjective(r_order)' /\ R!ToSet(r_order)' = R!ToSet(r_order) \cup {n}
      BY <1>2, <1>3, <2>1, TouchIs
    <3>7. ReportTyped'
      BY <1>2, <1>4, <3>5, <3>6 DEF ReportTyped
    <3>8. Written'
      BY <1>2, <3>3, <3>5, <3>6 DEF Written
    <3> QED BY <3>7, <3>8
  <2>2. CASE r_file[n].by # p
    <3>1. r_order' = r_order /\ r_file' = r_file
      BY <1>2, <2>2
    <3>2. ReportTyped'
      BY <1>2, <1>4, <3>1, DirectoryStays DEF ReportTyped
    <3>3. Written'
      BY <1>2, <3>1, DirectoryStays DEF Written
    <3> QED BY <3>2, <3>3
  <2> QED BY <2>1, <2>2
<1>6. OnItsOwn'
  <2>1. \A q \in R_Scans : r_pc'[q] = "idle" <=> r_pc[q] = "idle"
    BY <1>2, <1>4
  <2>2. \A q \in R_Scans : ~(r_job'[q].alone /\ r_pc'[q] = "prune")
    BY <1>2, <1>4 DEF OnItsOwn
  <2> QED BY <1>2, <2>1, <2>2 DEF OnItsOwn
<1>7. FewLeft'
  BY <1>4 DEF FewLeft, Settled
<1> QED BY <1>5, <1>6, <1>7 DEF Reports

\* What the job of a scan is with another list of names to remove.
LEMMA DoomedReplaced ==
  ASSUME ReportTyped, NEW p \in R_Scans, NEW d \in Seq(R!Names), r_job' = [r_job EXCEPT ![p].doomed = d]
  PROVE  /\ r_job' \in [R_Scans -> [name : R!Names, doomed : Seq(R!Names), alone : BOOLEAN]]
         /\ r_job'[p].doomed = d /\ \A q \in R_Scans : r_job'[q].alone = r_job[q].alone
         /\ \A q \in R_Scans : q # p => r_job'[q] = r_job[q]
<1>1. PICK r \in [name : R!Names, doomed : Seq(R!Names), alone : BOOLEAN] : r = r_job[p]
  BY JobIs
<1>2. PICK s : s = [r EXCEPT !.doomed = d]
  OBVIOUS
<1>3. s \in [name : R!Names, doomed : Seq(R!Names), alone : BOOLEAN] /\ s.doomed = d /\ s.alone = r.alone
  BY <1>1, <1>2
<1>4. r_job' = [r_job EXCEPT ![p] = s]
  BY <1>1, <1>2
<1>5. PICK J : J = [name : R!Names, doomed : Seq(R!Names), alone : BOOLEAN]
  OBVIOUS
<1>6. r_job \in [R_Scans -> J] /\ s \in J
  BY <1>3, <1>5 DEF ReportTyped
<1>7. r_job' \in [R_Scans -> J] /\ r_job'[p] = s /\ \A q \in R_Scans : q # p => r_job'[q] = r_job[q]
  BY <1>4, <1>6
<1> QED BY <1>1, <1>3, <1>5, <1>7

LEMMA ReportList ==
  ASSUME Reports, NEW p \in R_Scans, R!List(p) PROVE Reports'
<1>1. PICK d : d = R!Doomed
  OBVIOUS
<1>2. /\ r_pc[p] = "list" /\ r_pc' = [r_pc EXCEPT ![p] = "prune"] /\ r_job' = [r_job EXCEPT ![p].doomed = d]
      /\ r_kills' = r_kills /\ r_order' = r_order /\ r_file' = r_file
      /\ ReportTyped /\ Written /\ OnItsOwn /\ FewLeft
  BY <1>1 DEF R!List, R!Goto, Reports
<1>3. d \in Seq(R!Names) /\ R!ToSet(d) \cap Newest = {} /\ R!ToSet(r_order) \ R!ToSet(d) \subseteq Newest
  BY <1>1, <1>2, DoomedIs
<1>4. r_pc' \in [R_Scans -> {"idle", "try", "write", "list", "prune"}] /\ r_pc'[p] = "prune"
      /\ \A q \in R_Scans : q # p => r_pc'[q] = r_pc[q]
  BY <1>2 DEF ReportTyped
<1>5. /\ r_job' \in [R_Scans -> [name : R!Names, doomed : Seq(R!Names), alone : BOOLEAN]]
      /\ r_job'[p].doomed = d /\ \A q \in R_Scans : r_job'[q].alone = r_job[q].alone
      /\ \A q \in R_Scans : q # p => r_job'[q] = r_job[q]
  BY <1>2, <1>3, DoomedReplaced
<1>6. ReportTyped'
  BY <1>2, <1>4, <1>5, DirectoryStays DEF ReportTyped
<1>7. Written'
  BY <1>2, DirectoryStays DEF Written
<1>8. OnItsOwn'
  <2>1. \A q \in R_Scans : r_pc'[q] = "idle" <=> r_pc[q] = "idle"
    BY <1>2, <1>4
  <2>2. \A q \in R_Scans : r_job'[q].alone /\ r_pc'[q] = "prune" => R!ToSet(r_job'[q].doomed) \cap Newest' = {}
    BY <1>2, <1>3, <1>4, <1>5, DirectoryStays DEF OnItsOwn
  <2>3. \A q \in R_Scans : R!ToSet(r_job[q].doomed)' = R!ToSet(r_job'[q].doomed)
    BY DEF R!ToSet
  <2> QED BY <1>2, <1>5, <2>1, <2>2, <2>3 DEF OnItsOwn
<1>9. FewLeft'
  <2>1. R!ToSet(d) \subseteq Cleared'
    BY <1>4, <1>5, ClearedIs
  <2>2. Left' \subseteq Newest
    BY <1>2, <1>3, <2>1, DirectoryStays DEF Left
  <2>3. PICK S, S2 : S = Newest /\ S2 = Left'
    OBVIOUS
  <2>4. IsFiniteSet(S) /\ Cardinality(S) <= R_Keep /\ S2 \subseteq S
    BY <1>2, <2>2, <2>3, NewestFew
  <2>5. IsFiniteSet(S2) /\ Cardinality(S2) <= Cardinality(S) /\ Cardinality(S2) \in Nat /\ Cardinality(S) \in Nat
    BY <2>4, FS_Subset, FS_CardinalityType
  <2>6. Cardinality(S2) <= R_Keep
    BY <2>4, <2>5, KeepIs
  <2> QED BY <2>3, <2>5, <2>6 DEF FewLeft
<1> QED BY <1>6, <1>7, <1>8, <1>9 DEF Reports

\* A name that is not among the newest is taken out: the newest stay what they are.
LEMMA NewestRemain ==
  ASSUME ReportTyped, NEW n, n \notin Newest, r_order' = R!Without(n)
  PROVE  Newest' = Newest
<1>1. PICK s \in Seq(R!Names) : s = r_order /\ R!IsInjective(s)
  BY DEF ReportTyped
<1>2. PICK w \in Seq(R!Names) : /\ w = R!Without(n) /\ Len(w) <= Len(s)
                                /\ \A j \in 1..Len(s) : (\A l \in 1..j : s[l] # n) => j <= Len(w) /\ w[j] = s[j]
  BY <1>1, WithoutIs
<1>3. PICK N \in Nat, N2 \in Nat : N = Len(s) /\ N2 = Len(w)
  BY <1>1, <1>2
<1>4. PICK m \in Nat : m = (IF N < R_Keep THEN N ELSE R_Keep) /\ m <= N
  BY <1>3, KeepIs
<1>5. Newest = {s[j] : j \in 1..m}
  BY <1>1, <1>3, <1>4 DEF Newest
<1>6. \A l \in 1..m : s[l] # n
  BY <1>5
<1>7. ASSUME NEW j \in 1..m PROVE j <= N2 /\ w[j] = s[j]
  <2>1. j \in 1..Len(s) /\ \A l \in 1..j : l \in 1..m
    BY <1>3, <1>4
  <2> QED BY <1>2, <1>3, <1>6, <2>1
<1>8. m <= N2
  <2>1. CASE m = 0
    BY <1>3, <2>1
  <2>2. CASE m # 0
    <3>1. m \in 1..m
      BY <1>4, <2>2
    <3> QED BY <1>7, <3>1
  <2> QED BY <2>1, <2>2
<1>9. N2 <= N
  BY <1>2, <1>3
<1>10. m = (IF N2 < R_Keep THEN N2 ELSE R_Keep)
  BY <1>3, <1>4, <1>8, <1>9, KeepIs
<1>11. Newest' = {w[j] : j \in 1..m}
  BY <1>2, <1>3, <1>10 DEF Newest
<1> QED BY <1>5, <1>7, <1>11

LEMMA ReportPrune ==
  ASSUME Reports, NEW p \in R_Scans, R!Prune(p) PROVE Reports'
<1>1. PICK d, n : d = r_job[p].doomed /\ n = Head(d)
  OBVIOUS
<1>2. /\ r_pc[p] = "prune" /\ r_pc' = r_pc /\ r_job' = [r_job EXCEPT ![p].doomed = Tail(d)]
      /\ r_kills' = r_kills /\ r_order' = R!Without(n) /\ r_file' = [r_file EXCEPT ![n] = R!NoFile]
      /\ d # <<>> /\ ReportTyped /\ Written /\ OnItsOwn /\ FewLeft
  BY <1>1 DEF R!Prune, Reports
<1>3. d \in Seq(R!Names)
  BY <1>1, <1>2, JobIs
<1>4. n \in R!Names /\ Tail(d) \in Seq(R!Names) /\ R!ToSet(d) = {n} \cup R!ToSet(Tail(d))
  <2>1. PICK N \in Nat \ {0} : N = Len(d) /\ DOMAIN d = 1..N
    BY <1>2, <1>3
  <2>2. PICK t : t = Tail(d)
    OBVIOUS
  <2>3. t \in Seq(R!Names) /\ DOMAIN t = 1..(N - 1) /\ \A j \in 1..(N - 1) : t[j] = d[j + 1]
    BY <1>2, <1>3, <2>1, <2>2
  <2>4. n = d[1] /\ n \in R!Names
    BY <1>1, <1>3, <2>1
  <2>5. R!ToSet(d) = {d[j] : j \in 1..N} /\ R!ToSet(t) = {t[j] : j \in 1..(N - 1)}
    BY <2>1, <2>3 DEF R!ToSet
  <2>6. \A j \in 1..N : j = 1 \/ (j - 1 \in 1..(N - 1) /\ t[j - 1] = d[j])
    <3> SUFFICES ASSUME NEW j \in 1..N, j # 1 PROVE j - 1 \in 1..(N - 1) /\ t[j - 1] = d[j]
      OBVIOUS
    <3>1. j - 1 \in 1..(N - 1) /\ (j - 1) + 1 = j
      BY <2>1
    <3> QED BY <2>3, <3>1
  <2>7. \A j \in 1..(N - 1) : j + 1 \in 1..N
    BY <2>1
  <2>8. 1 \in 1..N
    BY <2>1
  <2>9. \A j \in 1..N : d[j] \in {n} \cup R!ToSet(t)
    BY <2>4, <2>5, <2>6
  <2>10. \A j \in 1..(N - 1) : t[j] \in R!ToSet(d)
    BY <2>3, <2>5, <2>7
  <2>11. R!ToSet(d) = {n} \cup R!ToSet(t)
    BY <2>4, <2>5, <2>8, <2>9, <2>10
  <2> QED BY <2>2, <2>3, <2>4, <2>11
<1>5. /\ r_job' \in [R_Scans -> [name : R!Names, doomed : Seq(R!Names), alone : BOOLEAN]]
      /\ r_job'[p].doomed = Tail(d) /\ \A q \in R_Scans : r_job'[q].alone = r_job[q].alone
      /\ \A q \in R_Scans : q # p => r_job'[q] = r_job[q]
  BY <1>2, <1>4, DoomedReplaced
<1>6. r_order' \in Seq(R!Names) /\ R!IsInjective(r_order)' /\ R!ToSet(r_order)' = R!ToSet(r_order) \ {n}
  <2>1. PICK s \in Seq(R!Names) : s = r_order /\ R!IsInjective(s)
    BY <1>2 DEF ReportTyped
  <2>2. PICK w : w = R!Without(n)
    OBVIOUS
  <2>3. w \in Seq(R!Names) /\ R!IsInjective(w) /\ R!ToSet(w) = R!ToSet(s) \ {n}
    BY <2>1, <2>2, WithoutIs
  <2>4. R!IsInjective(r_order)' = R!IsInjective(r_order') /\ R!ToSet(r_order)' = R!ToSet(r_order')
    BY DEF R!IsInjective, R!ToSet
  <2> QED BY <1>2, <2>1, <2>2, <2>3, <2>4
<1>7. /\ r_file' \in [R!Names -> [by : R_Scans \cup {R_NoScan}, text : {"none", "part", "full"}]]
      /\ r_file'[n] = [by |-> R_NoScan, text |-> "none"] /\ \A m \in R!Names \ {n} : r_file'[m] = r_file[m]
  BY <1>2, <1>4 DEF ReportTyped, R!NoFile
<1>8. ReportTyped'
  BY <1>2, <1>5, <1>6, <1>7 DEF ReportTyped
<1>9. Written'
  BY <1>2, <1>6, <1>7 DEF Written
<1>10. OnItsOwn'
  <2>1. ASSUME NEW q \in R_Scans, r_job'[q].alone, r_pc'[q] = "prune" PROVE R!ToSet(r_job'[q].doomed) \cap Newest' = {}
    <3>1. r_job[q].alone /\ q = p
      BY <1>2, <1>5, <2>1 DEF OnItsOwn
    <3>2. R!ToSet(d) \cap Newest = {}
      BY <1>1, <1>2, <3>1 DEF OnItsOwn
    <3>3. Newest' = Newest
      BY <1>2, <1>4, <3>2, NewestRemain
    <3> QED BY <1>4, <1>5, <3>1, <3>2, <3>3
  <2>2. \A q \in R_Scans : R!ToSet(r_job[q].doomed)' = R!ToSet(r_job'[q].doomed)
    BY DEF R!ToSet
  <2> QED BY <1>2, <1>5, <2>1, <2>2 DEF OnItsOwn
<1>11. FewLeft'
  <2>1. Settled' => Settled
    BY <1>2, <1>5 DEF Settled
  <2>2. ASSUME NEW x \in Left' PROVE x \in Left
    <3>1. x \in R!ToSet(r_order) /\ x # n /\ x \notin Cleared'
      BY <1>6, <2>2 DEF Left
    <3>2. x \notin R!ToSet(Tail(d)) /\ \A q \in R_Scans : q # p /\ r_pc[q] = "prune" => x \notin R!ToSet(r_job[q].doomed)
      BY <1>2, <1>5, <3>1, ClearedIs
    <3>3. \A q \in R_Scans : r_pc[q] = "prune" => x \notin R!ToSet(r_job[q].doomed)
      BY <1>1, <1>4, <3>1, <3>2
    <3>4. x \notin Cleared
      BY <3>3, ClearedIs
    <3> QED BY <3>1, <3>4 DEF Left
  <2>3. Left' \subseteq Left
    BY <2>2
  <2> QED BY <1>2, <2>1, <2>3, FewLeftKept
<1> QED BY <1>8, <1>9, <1>10, <1>11 DEF Reports

LEMMA ReportsNext == Reports /\ (R!Next \/ UNCHANGED r_vars) => Reports'
<1>1. ASSUME Reports, UNCHANGED r_vars PROVE Reports'
  <2>1. r_order' = r_order /\ r_file' = r_file /\ r_pc' = r_pc /\ r_job' = r_job /\ r_kills' = r_kills
    BY <1>1 DEF r_vars
  <2>2. ReportTyped'
    BY <1>1, <2>1 DEF Reports, ReportTyped, R!IsInjective
  <2>3. Written'
    BY <1>1, <2>1 DEF Reports, Written, R!ToSet
  <2>4. OnItsOwn'
    <3>1. Newest' = Newest /\ \A q \in R_Scans : R!ToSet(r_job[q].doomed)' = R!ToSet(r_job[q].doomed)
      BY <1>1, <2>1, DirectoryStays DEF Reports, R!ToSet
    <3> QED BY <1>1, <2>1, <3>1 DEF Reports, OnItsOwn
  <2>5. FewLeft'
    BY <1>1, <2>1 DEF Reports, FewLeft, Settled, Left, R!ToSet, Cleared, Pruning
  <2> QED BY <2>2, <2>3, <2>4, <2>5 DEF Reports
<1> QED BY <1>1, ReportBegin, ReportCreate, ReportTaken, ReportWrite, ReportList, ReportPrune, ReportFinish, ReportKill
        DEF R!Next

LEMMA ReportsHolds == HostSpec => []Reports
<1>1. HostInit => Reports
  <2> SUFFICES ASSUME R!Init PROVE Reports
    BY DEF HostInit
  <2>1. /\ r_order = <<>> /\ r_file = [n \in R!Names |-> R!NoFile] /\ r_pc = [p \in R_Scans |-> "idle"]
        /\ r_job = [p \in R_Scans |-> R!NoJob] /\ r_kills = FALSE
    BY DEF R!Init
  <2>2. R!NoJob \in [name : R!Names, doomed : Seq(R!Names), alone : BOOLEAN] /\ ~R!NoJob.alone
    BY KeepIs DEF R!NoJob
  <2>3. R!NoFile = [by |-> R_NoScan, text |-> "none"]
    BY DEF R!NoFile
  <2>4. r_order \in Seq(R!Names) /\ R!ToSet(r_order) = {} /\ R!IsInjective(r_order)
    BY <2>1 DEF R!ToSet, R!IsInjective
  <2>5. ReportTyped
    BY <2>1, <2>2, <2>3, <2>4 DEF ReportTyped
  <2>6. Written
    BY <2>1, <2>3, <2>4 DEF Written
  <2>7. OnItsOwn
    BY <2>1, <2>2 DEF OnItsOwn
  <2>8. Left = {}
    BY <2>4 DEF Left
  <2>9. FewLeft
    BY <2>8, FS_EmptySet, KeepIs DEF FewLeft
  <2> QED BY <2>5, <2>6, <2>7, <2>9 DEF Reports
<1>2. Reports /\ [HostNext]_all => Reports'
  BY ReportsNext, StepsOfHost
<1> QED BY <1>1, <1>2, PTL DEF HostSpec

\* However many scans write and prune at once: when none was killed and the last of them is done, no more
\* reports are left than are kept; no scan writes into the report of another; and a scan on its own removes
\* none of the newest, whatever earlier scans that were killed have left behind.
THEOREM ReportsKeptHolds == HostSpec => ReportsKept
<1> DEFINE
      Same == \A n \in R!Names : R!Exists(n) /\ R!Exists(n)' =>
                r_file'[n] = r_file[n] \/ (r_file[n].text = "part" /\ r_file[n].by # R_NoScan
                                           /\ (r_file'[n].text = "full" \/ r_file'[n].by = R_NoScan))
      Stay == \A p \in R_Scans : r_job[p].alone /\ r_pc[p] \in {"try", "write", "list", "prune"} =>
                \A n \in R!ToSet(SubSeq(r_order, 1, IF Len(r_order) < R_Keep THEN Len(r_order) ELSE R_Keep)) :
                  R!Exists(n)'
<1>1. Reports => R!Bounded
  <2> SUFFICES ASSUME Reports, \A p \in R_Scans : r_pc[p] = "idle", ~r_kills PROVE Len(r_order) <= R_Keep
    BY DEF R!Bounded
  <2>1. Settled
    BY DEF Settled
  <2>2. Left = R!ToSet(r_order)
    <3>1. Cleared = {}
      BY DEF Cleared, Pruning
    <3> QED BY <3>1 DEF Left
  <2>3. PICK s \in Seq(R!Names) : s = r_order /\ R!IsInjective(s)
    BY DEF Reports, ReportTyped
  <2>4. PICK N \in Nat : N = Len(s) /\ DOMAIN s = 1..N
    BY <2>3
  <2>5. PICK S : S = R!ToSet(s)
    OBVIOUS
  <2>6. IsFiniteSet(S) /\ Cardinality(S) <= R_Keep
    BY <2>1, <2>2, <2>3, <2>5 DEF Reports, FewLeft
  <2>7. s \in Bijection(1..N, S)
    BY <2>3, <2>4, <2>5 DEF Bijection, Injection, Surjection, IsInjective, R!IsInjective, R!ToSet
  <2>8. Cardinality(S) = N
    BY <2>7, FS_CountingElements DEF ExistsBijection
  <2> QED BY <2>3, <2>4, <2>6, <2>8
<1>2. Reports /\ [HostNext]_all => [Same]_(R!vars)
  <2> SUFFICES ASSUME Reports, R!Next, NEW n \in R!Names, R!Exists(n), R!Exists(n)', r_file'[n] # r_file[n]
               PROVE  /\ r_file[n].text = "part" /\ r_file[n].by # R_NoScan
                      /\ r_file'[n].text = "full" \/ r_file'[n].by = R_NoScan
    BY StepsOfHost DEF r_vars, R!vars
  <2>1. PICK p \in R_Scans : R!Create(p) \/ R!Write(p) \/ R!Prune(p) \/ R!Kill(p)
    BY DEF R!Next, R!Begin, R!Taken, R!List, R!Finish
  <2>2. ReportTyped /\ Written /\ p # R_NoScan
    BY KeepIs DEF Reports
  <2>3. r_file[n] \in [by : R_Scans \cup {R_NoScan}, text : {"none", "part", "full"}] /\ DOMAIN r_file = R!Names
    BY <2>2 DEF ReportTyped
  <2>4. ~R!Create(p)
    BY <2>2, <2>3 DEF R!Create, R!Free, R!Exists, ReportTyped
  <2>5. CASE R!Write(p)
    <3>1. n = r_job[p].name /\ r_file[n].by = p /\ r_file' = [r_file EXCEPT ![n].text = "full", ![n].by = R_NoScan]
      BY <2>3, <2>5 DEF R!Write
    <3>2. r_file'[n].by = R_NoScan
      BY <2>3, <3>1
    <3> QED BY <2>2, <3>1, <3>2 DEF Written
  <2>6. CASE R!Prune(p)
    <3>1. PICK m : m = Head(r_job[p].doomed)
      OBVIOUS
    <3>2. r_file' = [r_file EXCEPT ![m] = R!NoFile] /\ r_order' = R!Without(m)
      BY <2>6, <3>1 DEF R!Prune
    <3>3. m = n
      BY <2>3, <3>2
    <3>4. PICK s \in Seq(R!Names) : s = r_order /\ R!IsInjective(s)
      BY <2>2 DEF ReportTyped
    <3>5. PICK w : w = R!Without(n) /\ R!ToSet(w) = R!ToSet(s) \ {n}
      BY <3>4, WithoutIs
    <3>6. n \in R!ToSet(w)
      BY <3>2, <3>3, <3>5 DEF R!Exists, R!ToSet
    <3> QED BY <3>5, <3>6
  <2>7. CASE R!Kill(p)
    <3>1. r_file' = [k \in R!Names |-> IF r_file[k].by = p THEN [r_file[k] EXCEPT !.by = R_NoScan] ELSE r_file[k]]
      BY <2>7 DEF R!Kill
    <3>2. r_file[n].by = p /\ r_file'[n].by = R_NoScan
      BY <2>3, <3>1
    <3> QED BY <2>2, <3>2 DEF Written
  <2> QED BY <2>1, <2>4, <2>5, <2>6, <2>7
<1>3. Reports /\ [HostNext]_all => [Stay]_(R!vars)
  <2> SUFFICES ASSUME Reports, R!Next, NEW q \in R_Scans, r_job[q].alone, r_pc[q] # "idle",
                      NEW n \in R!ToSet(SubSeq(r_order, 1, IF Len(r_order) < R_Keep THEN Len(r_order) ELSE R_Keep))
               PROVE  n \in R!ToSet(r_order)'
    BY StepsOfHost DEF r_vars, R!vars, R!Exists
  <2>1. ReportTyped /\ OnItsOwn
    BY DEF Reports
  <2>2. n \in Newest /\ n \in R!ToSet(r_order)
    <3>1. PICK s \in Seq(R!Names) : s = r_order
      BY <2>1 DEF ReportTyped
    <3>2. PICK m \in Nat : m = (IF Len(s) < R_Keep THEN Len(s) ELSE R_Keep) /\ m <= Len(s)
      BY <3>1, KeepIs
    <3>3. PICK f : f = SubSeq(s, 1, m)
      OBVIOUS
    <3>4. DOMAIN f = 1..m /\ \A j \in 1..m : f[j] = s[j]
      BY <3>1, <3>2, <3>3
    <3>5. n \in R!ToSet(f)
      BY <3>1, <3>2, <3>3
    <3>6. n \in Newest
      BY <3>1, <3>2, <3>4, <3>5 DEF Newest, R!ToSet
    <3> QED BY <2>1, <3>6, NewestFew
  <2>3. CASE r_order' = r_order
    BY <2>1, <2>2, <2>3, DirectoryStays
  <2>4. CASE r_order' # r_order
    <3>1. PICK p \in R_Scans : R!Create(p) \/ R!Write(p) \/ R!Prune(p)
      BY <2>4 DEF R!Next, R!Begin, R!Taken, R!List, R!Finish, R!Kill
    <3>2. CASE R!Create(p) \/ R!Write(p)
      <4>1. PICK m : m = r_job[p].name
        OBVIOUS
      <4>2. R!Touch(m) /\ m \in R!Names
        BY <2>1, <2>4, <3>2, <4>1, JobIs DEF R!Create, R!Write
      <4> QED BY <2>1, <2>2, <4>2, TouchIs
    <3>3. CASE R!Prune(p)
      <4>1. PICK d, m : d = r_job[p].doomed /\ m = Head(d)
        OBVIOUS
      <4>2. r_pc[p] = "prune" /\ d # <<>> /\ r_order' = R!Without(m)
        BY <3>3, <4>1 DEF R!Prune
      <4>3. p = q /\ R!ToSet(d) \cap Newest = {}
        BY <2>1, <4>1, <4>2 DEF OnItsOwn
      <4>4. d \in Seq(R!Names)
        BY <2>1, <4>1, JobIs
      <4>5. m \in R!ToSet(d)
        <5>1. 1 \in DOMAIN d /\ m = d[1]
          BY <4>1, <4>2, <4>4
        <5> QED BY <5>1 DEF R!ToSet
      <4>6. n # m
        BY <2>2, <4>3, <4>5
      <4>7. PICK s \in Seq(R!Names) : s = r_order /\ R!IsInjective(s)
        BY <2>1 DEF ReportTyped
      <4>8. PICK w : w = R!Without(m) /\ R!ToSet(w) = R!ToSet(s) \ {m}
        BY <4>7, WithoutIs
      <4>9. n \in R!ToSet(r_order')
        BY <2>2, <4>2, <4>6, <4>7, <4>8
      <4> QED BY <4>9 DEF R!ToSet
    <3> QED BY <3>1, <3>2, <3>3
  <2> QED BY <2>3, <2>4
<1> QED BY <1>1, <1>2, <1>3, ReportsHolds, PTL DEF HostSpec, ReportsKept, R!NothingOverwritten, R!NewestStay

-----------------------------------------------------------------------------
\* sshd_config.

\* The lines that are not the marks of the block, and what the block is between: the lines before and after.
PlainLines == H!Lines \ {H_Begin, H_End}
Block(before, body, after) == before \o <<H_Begin, body, H_End>> \o after

LEMMA LinesAre ==
  /\ H_Begin # H_End /\ H_Begin \in H!Lines /\ H_End \in H!Lines
  /\ \A p \in H_SecureProcs : H_Body[p] \in PlainLines
  /\ \A f \in H!Damaged : f \notin Seq(H!Lines)
  /\ Absent # Empty /\ Absent # Garbled /\ Empty # Garbled
<1>1. /\ H_Begin # H_End /\ Cardinality(H!Damaged) = 3 /\ \A f \in H!Damaged : f \notin Seq(H!Lines)
      /\ {H_Begin, H_End} \cap (H_Edits \cup {H_Body[p] : p \in H_SecureProcs}) = {}
  BY HostAssumption DEF H!HardeningAssumption, H!Cardinality, Cardinality
<1>2. H_Begin \in H!Lines /\ H_End \in H!Lines /\ \A p \in H_SecureProcs : H_Body[p] \in PlainLines
  BY <1>1 DEF H!Lines, PlainLines
<1>3. Absent # Empty /\ Absent # Garbled /\ Empty # Garbled
  <2>1. ASSUME NEW a, NEW b, H!Damaged = {a, b} PROVE FALSE
    <3>1. IsFiniteSet({b}) /\ Cardinality({b}) = 1
      BY FS_Singleton
    <3>2. Cardinality({b} \cup {a}) = IF a \in {b} THEN 1 ELSE 2
      BY <3>1, FS_AddElement
    <3>3. {b} \cup {a} = {a, b}
      OBVIOUS
    <3>4. H!Damaged = {b} \cup {a}
      BY <2>1, <3>3
    <3>5. Cardinality({b} \cup {a}) # 3
      BY <3>2
    <3>6. Cardinality({b} \cup {a}) = 3
      BY <1>1, <3>4
    <3> QED BY <3>5, <3>6
  <2>2. CASE Absent = Empty
    <3>1. H!Damaged = {Empty, Garbled}
      BY <2>2 DEF H!Damaged
    <3> QED BY <2>1, <3>1
  <2>3. CASE Absent = Garbled
    <3>1. H!Damaged = {Empty, Garbled}
      BY <2>3 DEF H!Damaged
    <3> QED BY <2>1, <3>1
  <2>4. CASE Empty = Garbled
    <3>1. H!Damaged = {Absent, Garbled}
      BY <2>4 DEF H!Damaged
    <3> QED BY <2>1, <3>1
  <2> QED BY <2>2, <2>3, <2>4
<1> QED BY <1>1, <1>2, <1>3

\* Where a line is for the first time.
LEMMA FirstIs ==
  ASSUME NEW S, NEW f \in Seq(S), NEW i \in 1..Len(f), NEW line, f[i] = line, \A j \in 1..Len(f) : f[j] = line => j = i
  PROVE  H!FirstOf(f, line) = i
<1>1. PICK N \in Nat : N = Len(f) /\ DOMAIN f = 1..N
  OBVIOUS
<1>2. line \in H!ToSet(f)
  BY <1>1 DEF H!ToSet
<1>3. PICK k : k = CHOOSE l \in DOMAIN f : f[l] = line /\ \A j \in 1..(l - 1) : f[j] # line
  OBVIOUS
<1>4. i \in DOMAIN f /\ f[i] = line /\ \A j \in 1..(i - 1) : f[j] # line
  <2>1. \A j \in 1..(i - 1) : j \in 1..N /\ j # i
    BY <1>1
  <2> QED BY <1>1, <2>1
<1>5. k \in DOMAIN f /\ f[k] = line
  BY <1>3, <1>4
<1>6. k = i
  BY <1>1, <1>5
<1> QED BY <1>2, <1>3, <1>6 DEF H!FirstOf

\* How often a line is there.
LEMMA CountIs ==
  ASSUME NEW S, NEW f \in Seq(S), NEW line
  PROVE  /\ H!Count(f, line) = 0 <=> \A j \in 1..Len(f) : f[j] # line
         /\ H!Count(f, line) = 1 => \E i \in 1..Len(f) : f[i] = line /\ \A j \in 1..Len(f) : f[j] = line => j = i
         /\ (\E i \in 1..Len(f) : f[i] = line /\ \A j \in 1..Len(f) : f[j] = line => j = i) => H!Count(f, line) = 1
<1>1. PICK I : I = {i \in 1..Len(f) : f[i] = line}
  OBVIOUS
<1>2. H!Count(f, line) = Cardinality(I)
  BY <1>1 DEF H!Count, H!Cardinality, Cardinality
<1>3. IsFiniteSet(I)
  <2>1. 1 \in Int /\ Len(f) \in Int
    OBVIOUS
  <2>2. IsFiniteSet(1..Len(f))
    BY <2>1, FS_Interval
  <2> QED BY <1>1, <2>2, FS_Subset
<1>4. Cardinality(I) = 0 <=> I = {}
  BY <1>3, FS_EmptySet
<1>5. Cardinality(I) = 1 <=> \E i : I = {i}
  BY <1>3, FS_Singleton
<1>6. (\E i \in 1..Len(f) : f[i] = line /\ \A j \in 1..Len(f) : f[j] = line => j = i) <=> \E i : I = {i}
  <2>1. ASSUME NEW i \in 1..Len(f), f[i] = line, \A j \in 1..Len(f) : f[j] = line => j = i PROVE I = {i}
    BY <1>1, <2>1
  <2>2. ASSUME NEW i, I = {i}
        PROVE  i \in 1..Len(f) /\ f[i] = line /\ \A j \in 1..Len(f) : f[j] = line => j = i
    BY <1>1, <2>2
  <2> QED BY <2>1, <2>2
<1> QED BY <1>1, <1>2, <1>4, <1>5, <1>6

\* Two sequences in a row.
LEMMA JoinIs ==
  ASSUME NEW S, NEW s \in Seq(S), NEW t \in Seq(S)
  PROVE  /\ s \o t \in Seq(S) /\ Len(s \o t) = Len(s) + Len(t)
         /\ \A j \in 1..Len(s) : (s \o t)[j] = s[j]
         /\ \A j \in 1..Len(t) : (s \o t)[Len(s) + j] = t[j]
<1>1. PICK n \in Nat, m \in Nat : n = Len(s) /\ m = Len(t)
  OBVIOUS
<1>2. PICK r : r = s \o t
  OBVIOUS
<1>3. r \in Seq(S) /\ Len(r) = n + m
  BY <1>1, <1>2
<1>4. ASSUME NEW j \in 1..n PROVE r[j] = s[j]
  BY <1>1, <1>2
<1>5. ASSUME NEW j \in 1..m PROVE r[n + j] = t[j]
  <2>1. n + j \in 1..(n + m) /\ ~(n + j <= n) /\ n + j - n = j
    BY <1>1
  <2>2. r[n + j] = t[n + j - n]
    BY <1>1, <1>2, <2>1
  <2> QED BY <2>1, <2>2
<1> QED BY <1>1, <1>2, <1>3, <1>4, <1>5

\* The parts of a sequence are found again.
LEMMA PartsOf ==
  ASSUME NEW S, NEW g \in Seq(S), NEW before \in Seq(S), NEW after \in Seq(S),
         Len(g) = Len(before) + 3 + Len(after),
         \A j \in 1..Len(before) : g[j] = before[j],
         \A j \in 1..Len(after) : g[Len(before) + 3 + j] = after[j]
  PROVE  SubSeq(g, 1, Len(before)) = before /\ SubSeq(g, Len(before) + 4, Len(g)) = after
<1>1. PICK b \in Nat, a \in Nat : b = Len(before) /\ a = Len(after)
  OBVIOUS
<1>2. PICK x : x = SubSeq(g, 1, b)
  OBVIOUS
<1>3. x \in Seq(S) /\ Len(x) = b /\ \A j \in 1..b : x[j] = g[j]
  BY <1>1, <1>2
<1>4. x = before
  <2>1. \A j \in 1..b : g[j] = before[j]
    BY <1>1
  <2>2. DOMAIN x = 1..b /\ DOMAIN before = 1..b /\ \A j \in 1..b : x[j] = before[j]
    BY <1>1, <1>3, <2>1
  <2> QED BY <1>3, <2>2
<1>5. PICK y : y = SubSeq(g, b + 4, b + 3 + a)
  OBVIOUS
<1>6. y \in Seq(S) /\ Len(y) = a /\ \A j \in 1..a : y[j] = g[b + 3 + j]
  BY <1>1, <1>5
<1>7. y = after
  <2>1. \A j \in 1..a : g[b + 3 + j] = after[j]
    BY <1>1
  <2>2. \A j \in 1..a : y[j] = after[j]
    BY <1>6, <2>1
  <2>3. DOMAIN y = 1..a /\ DOMAIN after = 1..a
    BY <1>1, <1>6
  <2>4. y = [j \in 1..a |-> y[j]] /\ after = [j \in 1..a |-> after[j]]
    BY <1>6, <2>3
  <2> QED BY <2>2, <2>4, Zenon
<1> QED BY <1>1, <1>2, <1>4, <1>5, <1>7

\* What replacing a block, and the operator's lines, come to.
LEMMA ReplaceIs ==
  ASSUME NEW f, H!FirstOf(f, H_Begin) > 0, H!FirstOf(f, H_End) > H!FirstOf(f, H_Begin),
         NEW before, before = SubSeq(f, 1, H!FirstOf(f, H_Begin) - 1),
         NEW after, after = SubSeq(f, H!FirstOf(f, H_End) + 1, Len(f))
  PROVE  /\ \A c : H!Replace(f, c) = Block(before, c, after)
         /\ H!Count(f, H_Begin) # 0 => H!Own(f) = before \o after
<1>1. ASSUME NEW c PROVE H!Replace(f, c) = Block(before, c, after)
  BY Zenon DEF H!Replace, H!Managed, Block
<1>2. H!Count(f, H_Begin) # 0 => H!Own(f) = before \o after
  BY Zenon DEF H!Own
<1> QED BY <1>1, <1>2

\* Where the marks of a block are, and the lines before and after.
LEMMA BlockFirst ==
  ASSUME NEW before \in Seq(PlainLines), NEW after \in Seq(PlainLines), NEW body \in PlainLines,
         NEW g, g = Block(before, body, after)
  PROVE  /\ g \in Seq(H!Lines) /\ g \notin H!Damaged
         /\ H!FirstOf(g, H_Begin) > 0 /\ H!FirstOf(g, H_End) > H!FirstOf(g, H_Begin)
         /\ H!Count(g, H_Begin) = 1 /\ H!Count(g, H_End) = 1
         /\ before = SubSeq(g, 1, H!FirstOf(g, H_Begin) - 1)
         /\ after = SubSeq(g, H!FirstOf(g, H_End) + 1, Len(g))
<1>1. PICK b \in Nat, a \in Nat : b = Len(before) /\ a = Len(after)
  OBVIOUS
<1>2. /\ g \in Seq(H!Lines) /\ Len(g) = b + 3 + a
      /\ g[b + 1] = H_Begin /\ g[b + 2] = body /\ g[b + 3] = H_End
      /\ \A j \in 1..b : g[j] = before[j] /\ before[j] \in PlainLines
      /\ \A j \in 1..a : g[b + 3 + j] = after[j] /\ after[j] \in PlainLines
      /\ \A j \in 1..Len(g) : \/ j \in 1..b \/ j = b + 1 \/ j = b + 2 \/ j = b + 3
                              \/ j - (b + 3) \in 1..a /\ b + 3 + (j - (b + 3)) = j
  <2>1. PICK m : m = <<H_Begin, body, H_End>>
    OBVIOUS
  <2>2. m \in Seq(H!Lines) /\ Len(m) = 3 /\ m[1] = H_Begin /\ m[2] = body /\ m[3] = H_End
    BY <2>1, LinesAre DEF PlainLines
  <2>3. before \in Seq(H!Lines) /\ after \in Seq(H!Lines)
    BY DEF PlainLines
  <2>4. PICK h : h = before \o m
    OBVIOUS
  <2>5. /\ h \in Seq(H!Lines) /\ Len(h) = b + 3
        /\ \A j \in 1..b : h[j] = before[j]
        /\ h[b + 1] = m[1] /\ h[b + 2] = m[2] /\ h[b + 3] = m[3]
    <3>1. PICK s \in Seq(H!Lines), t \in Seq(H!Lines) : s = before /\ t = m
      BY <2>2, <2>3
    <3>2. /\ s \o t \in Seq(H!Lines) /\ Len(s \o t) = Len(s) + Len(t)
          /\ \A j \in 1..Len(s) : (s \o t)[j] = s[j]
          /\ \A j \in 1..Len(t) : (s \o t)[Len(s) + j] = t[j]
      BY JoinIs
    <3>3. 1 \in 1..3 /\ 2 \in 1..3 /\ 3 \in 1..3
      OBVIOUS
    <3> QED BY <1>1, <2>2, <2>4, <3>1, <3>2, <3>3
  <2>6. g = h \o after
    BY <2>1, <2>4 DEF Block
  <2>7. /\ g \in Seq(H!Lines) /\ Len(g) = b + 3 + a
        /\ \A j \in 1..(b + 3) : g[j] = h[j]
        /\ \A j \in 1..a : g[b + 3 + j] = after[j]
    <3>1. PICK s \in Seq(H!Lines), t \in Seq(H!Lines) : s = h /\ t = after
      BY <2>3, <2>5
    <3>2. /\ s \o t \in Seq(H!Lines) /\ Len(s \o t) = Len(s) + Len(t)
          /\ \A j \in 1..Len(s) : (s \o t)[j] = s[j]
          /\ \A j \in 1..Len(t) : (s \o t)[Len(s) + j] = t[j]
      BY JoinIs
    <3> QED BY <1>1, <2>5, <2>6, <3>1, <3>2
  <2>8. b + 1 \in 1..(b + 3) /\ b + 2 \in 1..(b + 3) /\ b + 3 \in 1..(b + 3) /\ \A j \in 1..b : j \in 1..(b + 3)
    OBVIOUS
  <2>9. (\A j \in 1..b : before[j] \in PlainLines) /\ (\A j \in 1..a : after[j] \in PlainLines)
    BY <1>1
  <2>10. \A j \in 1..(b + 3 + a) : \/ j \in 1..b \/ j = b + 1 \/ j = b + 2 \/ j = b + 3
                                   \/ j - (b + 3) \in 1..a /\ b + 3 + (j - (b + 3)) = j
    OBVIOUS
  <2> QED BY <1>1, <2>2, <2>5, <2>7, <2>8, <2>9, <2>10
<1>3. ASSUME NEW j \in 1..Len(g) PROVE (g[j] = H_Begin => j = b + 1) /\ (g[j] = H_End => j = b + 3)
  <2>1. CASE j \in 1..b
    BY <1>2, <2>1 DEF PlainLines
  <2>2. CASE j = b + 1 \/ j = b + 2 \/ j = b + 3
    BY <1>2, <2>2, LinesAre DEF PlainLines
  <2>3. CASE j - (b + 3) \in 1..a /\ b + 3 + (j - (b + 3)) = j
    <3>1. PICK l \in 1..a : l = j - (b + 3) /\ b + 3 + l = j
      BY <2>3
    <3>2. g[j] \in PlainLines
      BY <1>2, <3>1
    <3> QED BY <3>2 DEF PlainLines
  <2> QED BY <1>2, <2>1, <2>2, <2>3
<1>4. b + 1 \in 1..Len(g) /\ b + 3 \in 1..Len(g) /\ DOMAIN g = 1..Len(g)
  BY <1>2
<1>5. PICK i \in 1..Len(g), k \in 1..Len(g) : i = b + 1 /\ k = b + 3
  BY <1>4
<1>6. g[i] = H_Begin /\ (\A j \in 1..Len(g) : g[j] = H_Begin => j = i)
      /\ g[k] = H_End /\ \A j \in 1..Len(g) : g[j] = H_End => j = k
  BY <1>2, <1>3, <1>5
<1>7. g \in Seq(H!Lines)
  BY <1>2
<1>8. H!FirstOf(g, H_Begin) = i
  BY <1>6, <1>7, FirstIs
<1>9. H!FirstOf(g, H_End) = k
  BY <1>6, <1>7, FirstIs
<1>10. H!Count(g, H_Begin) = 1 /\ H!Count(g, H_End) = 1
  <2>1. \E l \in 1..Len(g) : g[l] = H_Begin /\ \A j \in 1..Len(g) : g[j] = H_Begin => j = l
    BY <1>2, <1>3, <1>4
  <2>2. \E l \in 1..Len(g) : g[l] = H_End /\ \A j \in 1..Len(g) : g[j] = H_End => j = l
    BY <1>2, <1>3, <1>4
  <2>3. H!Count(g, H_Begin) = 1
    BY <1>7, <2>1, CountIs
  <2>4. H!Count(g, H_End) = 1
    BY <1>7, <2>2, CountIs
  <2> QED BY <2>3, <2>4
<1>11. /\ Len(g) = Len(before) + 3 + Len(after)
       /\ \A j \in 1..Len(before) : g[j] = before[j]
       /\ \A j \in 1..Len(after) : g[Len(before) + 3 + j] = after[j]
  BY <1>1, <1>2
<1>12. before \in Seq(H!Lines) /\ after \in Seq(H!Lines)
  BY DEF PlainLines
<1>13. SubSeq(g, 1, Len(before)) = before /\ SubSeq(g, Len(before) + 4, Len(g)) = after
  BY <1>7, <1>11, <1>12, PartsOf
<1>14. g \notin H!Damaged
  BY <1>2, LinesAre
<1>15. i - 1 = Len(before) /\ k + 1 = Len(before) + 4 /\ i > 0 /\ k > i
  BY <1>1, <1>5
<1> QED BY <1>2, <1>8, <1>9, <1>10, <1>13, <1>14, <1>15

\* A file with one block is well formed, and replacing touches what is between its lines only.
LEMMA BlockIs ==
  ASSUME NEW before \in Seq(PlainLines), NEW after \in Seq(PlainLines), NEW body \in PlainLines,
         NEW g, g = Block(before, body, after)
  PROVE  /\ g \in Seq(H!Lines) /\ H!WellFormed(g) /\ H!Own(g) = before \o after
         /\ \A c : H!Replace(g, c) = Block(before, c, after)
<1>1. PICK f : f = g
  OBVIOUS
<1>2. /\ f \in Seq(H!Lines) /\ f \notin H!Damaged
      /\ H!FirstOf(f, H_Begin) > 0 /\ H!FirstOf(f, H_End) > H!FirstOf(f, H_Begin)
      /\ H!Count(f, H_Begin) = 1 /\ H!Count(f, H_End) = 1
      /\ before = SubSeq(f, 1, H!FirstOf(f, H_Begin) - 1)
      /\ after = SubSeq(f, H!FirstOf(f, H_End) + 1, Len(f))
  BY <1>1, BlockFirst
<1>3. (\A c : H!Replace(f, c) = Block(before, c, after)) /\ (H!Count(f, H_Begin) # 0 => H!Own(f) = before \o after)
  BY <1>2, ReplaceIs, Zenon
<1>4. H!WellFormed(f)
  <2>1. H!FirstOf(f, H_Begin) < H!FirstOf(f, H_End)
    BY <1>2
  <2> QED BY <1>2, <2>1, Zenon DEF H!WellFormed
<1>5. H!Own(f) = before \o after
  <2>1. H!Count(f, H_Begin) # 0
    <3>1. H!Count(f, H_Begin) = 1
      BY <1>2
    <3>2. 1 # 0
      OBVIOUS
    <3> QED BY <3>1, <3>2, Zenon
  <2> QED BY <1>3, <2>1, Zenon
<1>6. f \in Seq(H!Lines) /\ H!WellFormed(f) /\ H!Own(f) = before \o after
  BY <1>2, <1>4, <1>5
<1>7. \A c : H!Replace(g, c) = Block(before, c, after)
  BY <1>1, <1>3, Zenon
<1>8. g \in Seq(H!Lines) /\ H!WellFormed(g) /\ H!Own(g) = before \o after
  BY <1>1, <1>6, Zenon
<1> QED BY <1>7, <1>8

\* A well formed file is the operator's lines, with a block between them or none.
LEMMA WellFormedIs ==
  ASSUME NEW f \in Seq(H!Lines), H!WellFormed(f)
  PROVE  \E before \in Seq(PlainLines), after \in Seq(PlainLines) :
           H!Own(f) = before \o after /\ \A c \in PlainLines : H!Replace(f, c) = Block(before, c, after)
<1>1. PICK N \in Nat : N = Len(f) /\ DOMAIN f = 1..N
  OBVIOUS
<1>2. \A j \in 1..N : f[j] \in H!Lines
  BY <1>1
<1>3. CASE H!Count(f, H_Begin) = 0 /\ H!Count(f, H_End) = 0
  <2>1. \A j \in 1..N : f[j] \in PlainLines
    BY <1>1, <1>2, <1>3, CountIs DEF PlainLines
  <2>2. f \in Seq(PlainLines) /\ <<>> \in Seq(PlainLines)
    BY <1>1, <2>1
  <2>3. H_Begin \notin H!ToSet(f)
    BY <1>1, <2>1 DEF H!ToSet, PlainLines
  <2>4. H!FirstOf(f, H_Begin) = 0
    BY <2>3 DEF H!FirstOf
  <2>5. ASSUME NEW c \in PlainLines PROVE H!Replace(f, c) = Block(f, c, <<>>)
    <3>1. PICK m : m = f \o <<H_Begin, c, H_End>>
      OBVIOUS
    <3>2. <<H_Begin, c, H_End>> \in Seq(H!Lines)
      BY LinesAre DEF PlainLines
    <3>3. m \in Seq(H!Lines)
      BY <3>1, <3>2
    <3>4. m \o <<>> = m
      BY <3>3
    <3> QED BY <2>4, <3>1, <3>4 DEF H!Replace, H!Managed, Block
  <2>6. H!Own(f) = f \o <<>>
    <3>1. f \o <<>> = f
      OBVIOUS
    <3> QED BY <1>3, <3>1 DEF H!Own
  <2> QED BY <2>2, <2>5, <2>6
<1>4. CASE ~(H!Count(f, H_Begin) = 0 /\ H!Count(f, H_End) = 0)
  <2>1. H!Count(f, H_Begin) = 1 /\ H!Count(f, H_End) = 1 /\ H!FirstOf(f, H_Begin) < H!FirstOf(f, H_End)
    BY <1>4 DEF H!WellFormed
  <2>2. PICK i \in 1..N : f[i] = H_Begin /\ \A j \in 1..N : f[j] = H_Begin => j = i
    BY <1>1, <2>1, CountIs
  <2>3. PICK k \in 1..N : f[k] = H_End /\ \A j \in 1..N : f[j] = H_End => j = k
    BY <1>1, <2>1, CountIs
  <2>4. H!FirstOf(f, H_Begin) = i
    BY <1>1, <2>2, FirstIs
  <2>5. H!FirstOf(f, H_End) = k
    BY <1>1, <2>3, FirstIs
  <2>6. i < k
    BY <2>1, <2>4, <2>5
  <2>7. PICK before : before = SubSeq(f, 1, i - 1)
    OBVIOUS
  <2>8. before \in Seq(PlainLines)
    <3>1. before \in Seq(H!Lines) /\ Len(before) = i - 1 /\ \A j \in 1..(i - 1) : before[j] = f[j]
      BY <1>1, <2>7
    <3>2. \A j \in 1..(i - 1) : j \in 1..N /\ j # i /\ j # k
      BY <2>6
    <3>3. \A j \in 1..(i - 1) : before[j] \in PlainLines
      BY <1>2, <2>2, <2>3, <3>1, <3>2 DEF PlainLines
    <3> QED BY <3>1, <3>3
  <2>9. PICK after : after = SubSeq(f, k + 1, N)
    OBVIOUS
  <2>10. after \in Seq(PlainLines)
    <3>1. after \in Seq(H!Lines) /\ Len(after) = N - k /\ \A j \in 1..(N - k) : after[j] = f[k + j]
      BY <1>1, <2>9
    <3>2. \A j \in 1..(N - k) : k + j \in 1..N /\ k + j # i /\ k + j # k
      BY <2>6
    <3>3. \A j \in 1..(N - k) : after[j] \in PlainLines
      BY <1>2, <2>2, <2>3, <3>1, <3>2 DEF PlainLines
    <3> QED BY <3>1, <3>3
  <2>11. H!FirstOf(f, H_Begin) > 0 /\ H!FirstOf(f, H_End) > H!FirstOf(f, H_Begin) /\ H!Count(f, H_Begin) # 0
    BY <2>1, <2>4, <2>5, <2>6
  <2>12. before = SubSeq(f, 1, H!FirstOf(f, H_Begin) - 1) /\ after = SubSeq(f, H!FirstOf(f, H_End) + 1, Len(f))
    BY <1>1, <2>4, <2>5, <2>7, <2>9
  <2>13. (\A c : H!Replace(f, c) = Block(before, c, after)) /\ H!Own(f) = before \o after
    BY <2>11, <2>12, ReplaceIs, Zenon
  <2> QED BY <2>8, <2>10, <2>13
<1> QED BY <1>3, <1>4

\* The first place of a line is among those of the file.
LEMMA FirstAmong ==
  ASSUME NEW S, NEW f \in Seq(S), NEW line
  PROVE  H!FirstOf(f, line) \in 0..Len(f) /\ (H!Contains(f, line) => H!FirstOf(f, line) \in 1..Len(f))
<1>1. PICK N \in Nat : N = Len(f) /\ DOMAIN f = 1..N
  OBVIOUS
<1>2. CASE line \notin H!ToSet(f)
  <2>1. H!FirstOf(f, line) = 0 /\ \A j \in 1..N : f[j] # line
    BY <1>1, <1>2 DEF H!FirstOf, H!ToSet
  <2> QED BY <1>1, <2>1 DEF H!Contains
<1>3. CASE line \in H!ToSet(f)
  <2>1. PICK S1 : S1 = {j \in 1..N : f[j] = line}
    OBVIOUS
  <2>2. PICK i \in S1 : \A j \in S1 : i <= j
    <3>1. S1 # {} /\ S1 \subseteq Nat
      BY <1>1, <1>3, <2>1 DEF H!ToSet
    <3> QED BY <3>1, LeastExists
  <2>3. i \in DOMAIN f /\ f[i] = line /\ \A j \in 1..(i - 1) : f[j] # line
    <3>1. i \in 1..N /\ f[i] = line
      BY <2>1
    <3>2. \A j \in 1..(i - 1) : j \in 1..N /\ ~(i <= j)
      BY <1>1, <3>1
    <3> QED BY <1>1, <2>1, <2>2, <3>1, <3>2
  <2>4. PICK k : k = CHOOSE l \in DOMAIN f : f[l] = line /\ \A j \in 1..(l - 1) : f[j] # line
    OBVIOUS
  <2>5. k \in DOMAIN f
    BY <2>3, <2>4
  <2> QED BY <1>1, <1>3, <2>4, <2>5 DEF H!FirstOf
<1> QED BY <1>2, <1>3

\* What is written in the place of a file: lines, so no file that is damaged.
LEMMA ReplaceTyped ==
  ASSUME NEW f \in Seq(H!Lines), NEW body \in PlainLines
  PROVE  H!Replace(f, body) \in Seq(H!Lines) /\ H!Replace(f, body) \notin H!Damaged
<1>1. PICK m : m = H!Managed(body)
  OBVIOUS
<1>2. m \in Seq(H!Lines)
  BY <1>1, LinesAre DEF H!Managed, PlainLines
<1>3. PICK i, k : i = H!FirstOf(f, H_Begin) /\ k = H!FirstOf(f, H_End)
  OBVIOUS
<1>4. i \in 0..Len(f) /\ k \in 0..Len(f)
  BY <1>3, FirstAmong
<1>5. CASE i > 0 /\ k > i
  <2>1. PICK before, after : before = SubSeq(f, 1, i - 1) /\ after = SubSeq(f, k + 1, Len(f))
    OBVIOUS
  <2>2. before \in Seq(H!Lines) /\ after \in Seq(H!Lines)
    BY <1>4, <1>5, <2>1
  <2>3. H!Replace(f, body) = Block(before, body, after)
    <3>1. H!FirstOf(f, H_Begin) > 0 /\ H!FirstOf(f, H_End) > H!FirstOf(f, H_Begin)
      BY <1>3, <1>5
    <3>2. before = SubSeq(f, 1, H!FirstOf(f, H_Begin) - 1) /\ after = SubSeq(f, H!FirstOf(f, H_End) + 1, Len(f))
      BY <1>3, <2>1
    <3> QED BY <3>1, <3>2, ReplaceIs, Zenon
  <2>4. before \o m \o after \in Seq(H!Lines)
    BY <1>2, <2>2
  <2> QED BY <1>1, <2>3, <2>4, LinesAre DEF Block, H!Managed
<1>6. CASE ~(i > 0 /\ k > i)
  <2>1. f \o m \in Seq(H!Lines)
    BY <1>2
  <2>2. H!Replace(f, body) = f \o m
    BY <1>1, <1>3, <1>6 DEF H!Replace
  <2> QED BY <2>1, <2>2, LinesAre
<1> QED BY <1>5, <1>6

-----------------------------------------------------------------------------
\* What is in a file: lines, or no text that was written whole.
Texts == Seq(H!Lines) \cup H!Damaged
Sound == Seq(H!Lines) \cup {Empty}

SshdSteps == {"idle", "backup", "copy", "open", "fill", "test", "rename", "reload", "dropin", "check"}
SshdJob   == [orig : Texts, fd : {"none", "tmp", "main", "gone"}, alone : BOOLEAN]

FilesTyped ==
  /\ h_main \in Texts /\ h_main # Absent /\ h_tmp \in Texts /\ h_backup \in Texts
  /\ h_dropin \in H!Damaged \cup {"written"} /\ h_sshd \in {"up", "down"}

SshdTyped == FilesTyped /\ h_pc \in [H!Procs -> SshdSteps] /\ h_job \in [H!Procs -> SshdJob]

\* What a command has at each of its steps.
HasJob(p) ==
  /\ h_pc[p] = "idle" => h_job[p] = H!NoJob
  /\ h_pc[p] \in {"backup", "copy", "open", "fill"} => h_job[p].orig \in Sound
  /\ h_pc[p] \in {"backup", "copy", "open", "fill", "test", "rename"} => p \in H_SecureProcs
  /\ h_job[p].fd # "none" <=> h_pc[p] = "fill"

\* What is in the place of the file when the block of p is in it.
WithBlock(p) == H!Replace(IF h_main = Empty THEN <<>> ELSE h_main, H_Body[p])

\* A command that is alone has read what the file still is, and the files that follow are its own.
HostItsOwn(p) ==
  /\ \A q \in H!Procs : q # p => h_pc[q] = "idle"
  /\ h_pc[p] \in {"backup", "copy", "open", "fill"} => h_job[p].orig = h_main
  /\ h_pc[p] \in {"open", "fill", "test", "rename"} => h_backup = h_main
  /\ h_pc[p] = "fill" => h_job[p].fd = "tmp" /\ h_tmp = Empty
  /\ h_pc[p] \in {"test", "rename"} => h_tmp = WithBlock(p)
  /\ h_pc[p] = "rename" => H!Passes(h_tmp)
  /\ h_pc[p] = "reload" => H!Passes(h_main)

Sshd ==
  /\ SshdTyped
  /\ \A p \in H!Procs : HasJob(p)
  /\ \A p \in H!Procs : h_job[p].alone => HostItsOwn(p)

LEMMA ProcsAre ==
  /\ H!Procs = H_SecureProcs \cup H_KeepProcs /\ H_SecureProcs \cap H_KeepProcs = {}
  /\ H!NoJob \in SshdJob /\ H!NoJob.orig = Absent /\ H!NoJob.fd = "none" /\ ~H!NoJob.alone
<1>1. H_SecureProcs \cap H_KeepProcs = {}
  BY HostAssumption DEF H!HardeningAssumption
<1>2. H!NoJob = [orig |-> Absent, fd |-> "none", alone |-> FALSE]
  BY DEF H!NoJob
<1> QED BY <1>1, <1>2 DEF H!Procs, SshdJob, Texts, H!Damaged

\* What the others have stays, but for the names of the files they have open.
JobsStay(p) ==
  \A q \in H!Procs \ {p} :
    /\ h_job'[q].orig = h_job[q].orig /\ h_job'[q].alone = h_job[q].alone
    /\ h_job'[q].fd = "none" <=> h_job[q].fd = "none"
    /\ h_job[q] = H!NoJob => h_job'[q] = H!NoJob

\* A step of a command at work: what is left to show is about that command.
LEMMA SshdStep ==
  ASSUME Sshd, NEW p \in H!Procs, NEW to \in SshdSteps, h_pc[p] # "idle", h_pc' = [h_pc EXCEPT ![p] = to],
         FilesTyped', h_job' \in [H!Procs -> SshdJob], JobsStay(p),
         HasJob(p)', h_job'[p].alone => HostItsOwn(p)'
  PROVE  Sshd'
<1>1. h_pc \in [H!Procs -> SshdSteps] /\ h_pc' \in [H!Procs -> SshdSteps]
  BY DEF Sshd, SshdTyped
<1>2. ASSUME NEW q \in H!Procs, q # p PROVE HasJob(q)' /\ ~h_job'[q].alone
  <2>1. h_pc'[q] = h_pc[q]
    BY <1>1, <1>2
  <2>2. /\ h_job'[q].orig = h_job[q].orig /\ h_job'[q].alone = h_job[q].alone
        /\ h_job'[q].fd = "none" <=> h_job[q].fd = "none"
        /\ h_job[q] = H!NoJob => h_job'[q] = H!NoJob
    BY <1>2 DEF JobsStay
  <2>3. HasJob(q) /\ (h_job[q].alone => HostItsOwn(q))
    BY DEF Sshd
  <2>4. HasJob(q)'
    BY <2>1, <2>2, <2>3 DEF HasJob
  <2>5. ~h_job[q].alone
    BY <1>2, <2>3 DEF HostItsOwn
  <2> QED BY <2>2, <2>4, <2>5
<1>3. SshdTyped'
  BY <1>1 DEF SshdTyped
<1>4. \A q \in H!Procs : HasJob(q)' /\ (h_job'[q].alone => HostItsOwn(q)')
  BY <1>2
<1> QED BY <1>3, <1>4 DEF Sshd

\* A command begins: what the others read need not be true any longer.
LEMMA EnterIs ==
  ASSUME Sshd, NEW p \in H!Procs, NEW to, NEW orig \in Texts, H!Enter(p, to, orig)
  PROVE  /\ h_pc[p] = "idle" /\ h_pc' = [h_pc EXCEPT ![p] = to]
         /\ h_job' \in [H!Procs -> SshdJob] /\ h_job'[p].orig = orig /\ h_job'[p].fd = "none"
         /\ h_job'[p].alone => \A q \in H!Procs : q # p => h_pc[q] = "idle"
         /\ \A q \in H!Procs : q # p =>
              /\ h_job'[q].orig = h_job[q].orig /\ h_job'[q].fd = h_job[q].fd /\ ~h_job'[q].alone
              /\ h_job[q] = H!NoJob => h_job'[q] = H!NoJob
<1>1. h_job \in [H!Procs -> SshdJob]
  BY DEF Sshd, SshdTyped
<1>2. PICK b \in BOOLEAN : b <=> \A r \in H!Procs \ {p} : h_pc[r] = "idle"
  OBVIOUS
<1>3. /\ h_pc[p] = "idle" /\ h_pc' = [h_pc EXCEPT ![p] = to]
      /\ h_job' = [q \in H!Procs |->
                     IF q = p THEN [H!NoJob EXCEPT !.orig = orig, !.alone = \A r \in H!Procs \ {p} : h_pc[r] = "idle"]
                     ELSE [h_job[q] EXCEPT !.alone = FALSE]]
  BY DEF H!Enter, H!Goto
<1>4. h_job'[p] = [orig |-> orig, fd |-> "none", alone |-> \A r \in H!Procs \ {p} : h_pc[r] = "idle"]
  BY <1>3 DEF H!NoJob
<1>5. h_job'[p].orig = orig /\ h_job'[p].fd = "none" /\ h_job'[p].alone = \A r \in H!Procs \ {p} : h_pc[r] = "idle"
  BY <1>4
<1>6. h_job'[p] \in SshdJob
  BY <1>4 DEF SshdJob
<1>7. ASSUME NEW q \in H!Procs, q # p
      PROVE  /\ h_job'[q].orig = h_job[q].orig /\ h_job'[q].fd = h_job[q].fd /\ h_job'[q].alone = FALSE
             /\ h_job'[q] \in SshdJob
             /\ h_job[q] = H!NoJob => h_job'[q] = H!NoJob
  <2>1. h_job'[q] = [h_job[q] EXCEPT !.alone = FALSE] /\ h_job[q] \in SshdJob
    BY <1>1, <1>3, <1>7
  <2>2. h_job'[q] = [orig |-> h_job[q].orig, fd |-> h_job[q].fd, alone |-> FALSE]
    BY <2>1 DEF SshdJob
  <2>3. h_job'[q].orig = h_job[q].orig /\ h_job'[q].fd = h_job[q].fd /\ h_job'[q].alone = FALSE
    BY <2>2
  <2>4. h_job'[q] \in SshdJob
    BY <2>1, <2>2 DEF SshdJob
  <2>5. ASSUME h_job[q] = H!NoJob PROVE h_job'[q] = H!NoJob
    <3>1. h_job[q].orig = Absent /\ h_job[q].fd = "none"
      BY <2>5, ProcsAre
    <3> QED BY <2>2, <3>1 DEF H!NoJob
  <2> QED BY <2>3, <2>4, <2>5
<1>8. h_job' \in [H!Procs -> SshdJob]
  BY <1>3, <1>6, <1>7
<1> QED BY <1>3, <1>5, <1>7, <1>8

LEMMA SshdRead ==
  ASSUME Sshd, NEW p \in H_SecureProcs, H!Read(p)
  PROVE  Sshd'
<1>1. p \in H!Procs /\ h_main \in Texts /\ h_main # Absent /\ h_main # Garbled
  BY ProcsAre DEF Sshd, SshdTyped, FilesTyped, H!Read
<1>2. h_main \in Sound
  BY <1>1 DEF Texts, Sound, H!Damaged
<1>3. H!Enter(p, "backup", h_main) /\ UNCHANGED <<h_main, h_tmp, h_backup, h_dropin, h_sshd>>
  BY DEF H!Read
<1>4. /\ h_pc[p] = "idle" /\ h_pc' = [h_pc EXCEPT ![p] = "backup"]
      /\ h_job' \in [H!Procs -> SshdJob] /\ h_job'[p].orig = h_main /\ h_job'[p].fd = "none"
      /\ h_job'[p].alone => \A q \in H!Procs : q # p => h_pc[q] = "idle"
      /\ \A q \in H!Procs : q # p =>
           /\ h_job'[q].orig = h_job[q].orig /\ h_job'[q].fd = h_job[q].fd /\ ~h_job'[q].alone
           /\ h_job[q] = H!NoJob => h_job'[q] = H!NoJob
  BY <1>1, <1>3, EnterIs
<1>5. h_pc \in [H!Procs -> SshdSteps] /\ h_pc' \in [H!Procs -> SshdSteps] /\ h_pc'[p] = "backup"
      /\ \A q \in H!Procs : q # p => h_pc'[q] = h_pc[q]
  BY <1>1, <1>4 DEF Sshd, SshdTyped, SshdSteps
<1>6. SshdTyped'
  BY <1>3, <1>4, <1>5 DEF Sshd, SshdTyped, FilesTyped
<1>7. HasJob(p)'
  BY <1>2, <1>4, <1>5 DEF HasJob
<1>8. ASSUME NEW q \in H!Procs, q # p PROVE HasJob(q)' /\ ~h_job'[q].alone
  <2>1. HasJob(q)
    BY DEF Sshd
  <2> QED BY <1>4, <1>5, <1>8, <2>1 DEF HasJob
<1>9. h_job'[p].alone => HostItsOwn(p)'
  BY <1>3, <1>4, <1>5 DEF HostItsOwn
<1> QED BY <1>6, <1>7, <1>8, <1>9 DEF Sshd

LEMMA SshdOpenDropin ==
  ASSUME Sshd, NEW p \in H_KeepProcs, H!OpenDropin(p)
  PROVE  Sshd'
<1>1. p \in H!Procs /\ p \notin H_SecureProcs /\ Absent \in Texts
  BY ProcsAre DEF Texts, H!Damaged
<1>2. H!Enter(p, "dropin", Absent) /\ h_dropin' = Empty /\ UNCHANGED <<h_main, h_tmp, h_backup, h_sshd>>
  BY DEF H!OpenDropin
<1>3. /\ h_pc[p] = "idle" /\ h_pc' = [h_pc EXCEPT ![p] = "dropin"]
      /\ h_job' \in [H!Procs -> SshdJob] /\ h_job'[p].orig = Absent /\ h_job'[p].fd = "none"
      /\ h_job'[p].alone => \A q \in H!Procs : q # p => h_pc[q] = "idle"
      /\ \A q \in H!Procs : q # p =>
           /\ h_job'[q].orig = h_job[q].orig /\ h_job'[q].fd = h_job[q].fd /\ ~h_job'[q].alone
           /\ h_job[q] = H!NoJob => h_job'[q] = H!NoJob
  BY <1>1, <1>2, EnterIs
<1>4. h_pc \in [H!Procs -> SshdSteps] /\ h_pc' \in [H!Procs -> SshdSteps] /\ h_pc'[p] = "dropin"
      /\ \A q \in H!Procs : q # p => h_pc'[q] = h_pc[q]
  BY <1>1, <1>3 DEF Sshd, SshdTyped, SshdSteps
<1>5. SshdTyped'
  BY <1>2, <1>3, <1>4 DEF Sshd, SshdTyped, FilesTyped, H!Damaged
<1>6. HasJob(p)'
  BY <1>3, <1>4 DEF HasJob
<1>7. ASSUME NEW q \in H!Procs, q # p PROVE HasJob(q)' /\ ~h_job'[q].alone
  <2>1. HasJob(q)
    BY DEF Sshd
  <2> QED BY <1>3, <1>4, <1>7, <2>1 DEF HasJob
<1>8. h_job'[p].alone => HostItsOwn(p)'
  BY <1>2, <1>3, <1>4 DEF HostItsOwn
<1> QED BY <1>5, <1>6, <1>7, <1>8 DEF Sshd

\* The steps that leave the job as it is, but for what it has open or has read.
LEMMA SshdAtWork ==
  ASSUME Sshd, NEW p \in H!Procs
  PROVE  /\ FilesTyped /\ h_pc \in [H!Procs -> SshdSteps] /\ h_job \in [H!Procs -> SshdJob]
         /\ h_job[p] \in SshdJob /\ HasJob(p)
         /\ h_job[p].alone => HostItsOwn(p)
  BY DEF Sshd, SshdTyped

LEMMA SshdBackup ==
  ASSUME Sshd, NEW p \in H_SecureProcs, H!OpenBackup(p) \/ H!Copy(p)
  PROVE  Sshd'
<1>1. p \in H!Procs
  BY ProcsAre
<1>2. /\ FilesTyped /\ h_pc \in [H!Procs -> SshdSteps] /\ h_job \in [H!Procs -> SshdJob]
      /\ h_job[p] \in SshdJob /\ HasJob(p) /\ (h_job[p].alone => HostItsOwn(p))
  BY <1>1, SshdAtWork
<1>3. PICK to : /\ \/ h_pc[p] = "backup" /\ to = "copy" /\ h_backup' = Empty
                   \/ h_pc[p] = "copy" /\ to = "open" /\ h_backup' = h_job[p].orig
                /\ h_pc' = [h_pc EXCEPT ![p] = to] /\ UNCHANGED <<h_main, h_tmp, h_dropin, h_sshd, h_job>>
  BY DEF H!OpenBackup, H!Copy, H!Goto
<1>4. to \in SshdSteps /\ h_pc[p] # "idle" /\ h_pc'[p] = to
  BY <1>1, <1>2, <1>3 DEF SshdSteps
<1>5. FilesTyped'
  BY <1>2, <1>3 DEF FilesTyped, HasJob, Sound, Texts, H!Damaged
<1>6. HasJob(p)'
  BY <1>2, <1>3, <1>4 DEF HasJob
<1>7. h_job'[p].alone => HostItsOwn(p)'
  <2>1. SUFFICES ASSUME h_job[p].alone PROVE HostItsOwn(p)'
    BY <1>3
  <2>2. \A q \in H!Procs : q # p => h_pc'[q] = "idle"
    BY <1>2, <1>3, <2>1 DEF HostItsOwn
  <2> QED BY <1>2, <1>3, <1>4, <2>1, <2>2 DEF HostItsOwn
<1>8. JobsStay(p)
  BY <1>3 DEF JobsStay
<1>9. h_job' \in [H!Procs -> SshdJob]
  BY <1>2, <1>3
<1> QED BY <1>1, <1>3, <1>4, <1>5, <1>6, <1>7, <1>8, <1>9, SshdStep

LEMMA SshdOpenTmp ==
  ASSUME Sshd, NEW p \in H_SecureProcs, H!OpenTmp(p)
  PROVE  Sshd'
<1>1. p \in H!Procs
  BY ProcsAre
<1>2. /\ FilesTyped /\ h_pc \in [H!Procs -> SshdSteps] /\ h_job \in [H!Procs -> SshdJob]
      /\ h_job[p] \in SshdJob /\ HasJob(p) /\ (h_job[p].alone => HostItsOwn(p))
  BY <1>1, SshdAtWork
<1>3. /\ h_pc[p] = "open" /\ h_pc' = [h_pc EXCEPT ![p] = "fill"] /\ h_tmp' = Empty
      /\ h_job' = [h_job EXCEPT ![p].fd = "tmp"] /\ UNCHANGED <<h_main, h_backup, h_dropin, h_sshd>>
  BY DEF H!OpenTmp, H!Goto
<1>4. /\ h_job' \in [H!Procs -> SshdJob] /\ h_job'[p].fd = "tmp" /\ h_job'[p].orig = h_job[p].orig
      /\ h_job'[p].alone = h_job[p].alone /\ \A q \in H!Procs : q # p => h_job'[q] = h_job[q]
  BY <1>1, <1>2, <1>3 DEF SshdJob
<1>5. "fill" \in SshdSteps /\ h_pc[p] # "idle" /\ h_pc'[p] = "fill"
  BY <1>1, <1>2, <1>3 DEF SshdSteps
<1>6. FilesTyped'
  BY <1>2, <1>3 DEF FilesTyped, Texts, H!Damaged
<1>7. HasJob(p)'
  BY <1>2, <1>3, <1>4, <1>5 DEF HasJob
<1>8. h_job'[p].alone => HostItsOwn(p)'
  <2>1. SUFFICES ASSUME h_job[p].alone PROVE HostItsOwn(p)'
    BY <1>4
  <2>2. \A q \in H!Procs : q # p => h_pc'[q] = "idle"
    BY <1>2, <1>3, <2>1 DEF HostItsOwn
  <2> QED BY <1>2, <1>3, <1>4, <1>5, <2>1, <2>2 DEF HostItsOwn
<1>9. JobsStay(p)
  BY <1>4 DEF JobsStay
<1> QED BY <1>1, <1>3, <1>4, <1>5, <1>6, <1>7, <1>8, <1>9, SshdStep
\* The text that is written in the place of what was read.
LEMMA TextIs ==
  ASSUME NEW orig \in Sound, NEW p \in H_SecureProcs
  PROVE  LET next == H!Replace(IF orig = Empty THEN <<>> ELSE orig, H_Body[p])
         IN  next \in Seq(H!Lines) /\ next \notin H!Damaged
<1>1. H_Body[p] \in PlainLines
  BY LinesAre
<1>2. PICK f \in Seq(H!Lines) : f = (IF orig = Empty THEN <<>> ELSE orig)
  <2>1. <<>> \in Seq(H!Lines)
    OBVIOUS
  <2> QED BY <2>1 DEF Sound
<1>3. H!Replace(f, H_Body[p]) \in Seq(H!Lines) /\ H!Replace(f, H_Body[p]) \notin H!Damaged
  BY <1>1, <1>2, ReplaceTyped
<1> QED BY <1>2, <1>3

LEMMA SshdFill ==
  ASSUME Sshd, NEW p \in H_SecureProcs, H!Fill(p)
  PROVE  Sshd'
<1>1. p \in H!Procs
  BY ProcsAre
<1>2. /\ FilesTyped /\ h_pc \in [H!Procs -> SshdSteps] /\ h_job \in [H!Procs -> SshdJob]
      /\ h_job[p] \in SshdJob /\ HasJob(p) /\ (h_job[p].alone => HostItsOwn(p))
  BY <1>1, SshdAtWork
<1>3. PICK next : next = H!Replace(IF h_job[p].orig = Empty THEN <<>> ELSE h_job[p].orig, H_Body[p])
  OBVIOUS
<1>4. /\ h_pc[p] = "fill" /\ h_pc' = [h_pc EXCEPT ![p] = "test"]
      /\ CASE h_job[p].fd = "tmp"  -> h_tmp' \in (IF h_tmp = Empty THEN {next} ELSE {next, Garbled}) /\ UNCHANGED h_main
           [] h_job[p].fd = "main" -> h_main' \in (IF h_main = Empty THEN {next} ELSE {next, Garbled}) /\ UNCHANGED h_tmp
           [] h_job[p].fd = "gone" -> UNCHANGED <<h_main, h_tmp>>
      /\ h_job' = [h_job EXCEPT ![p].fd = "none", ![p].orig = Absent] /\ UNCHANGED <<h_backup, h_dropin, h_sshd>>
  BY <1>3, Zenon DEF H!Fill, H!Goto
<1>5. h_job[p].orig \in Sound /\ h_job[p].fd \in {"tmp", "main", "gone"}
  BY <1>2, <1>4 DEF HasJob, SshdJob
<1>6. next \in Texts /\ next # Absent /\ Garbled \in Texts /\ Garbled # Absent
  <2>1. next \in Seq(H!Lines) /\ next \notin H!Damaged
    BY <1>3, <1>5, TextIs
  <2> QED BY <2>1, LinesAre DEF Texts, H!Damaged
<1>7. \/ h_job[p].fd = "tmp" /\ h_tmp' \in {next, Garbled} /\ (h_tmp = Empty => h_tmp' = next) /\ h_main' = h_main
      \/ h_job[p].fd # "tmp" /\ h_main' \in {h_main, next, Garbled} /\ h_tmp' = h_tmp
  BY <1>4, <1>5
<1>8. /\ h_job' \in [H!Procs -> SshdJob] /\ h_job'[p].fd = "none" /\ h_job'[p].orig = Absent
      /\ h_job'[p].alone = h_job[p].alone /\ \A q \in H!Procs : q # p => h_job'[q] = h_job[q]
  BY <1>1, <1>2, <1>4 DEF SshdJob, Texts, H!Damaged
<1>9. "test" \in SshdSteps /\ h_pc[p] # "idle" /\ h_pc'[p] = "test"
  BY <1>1, <1>2, <1>4 DEF SshdSteps
<1>10. FilesTyped'
  BY <1>2, <1>4, <1>6, <1>7 DEF FilesTyped
<1>11. HasJob(p)'
  BY <1>8, <1>9 DEF HasJob
<1>12. h_job'[p].alone => HostItsOwn(p)'
  <2>1. SUFFICES ASSUME h_job[p].alone PROVE HostItsOwn(p)'
    BY <1>8
  <2>2. /\ \A q \in H!Procs : q # p => h_pc[q] = "idle"
        /\ h_job[p].orig = h_main /\ h_backup = h_main /\ h_job[p].fd = "tmp" /\ h_tmp = Empty
    BY <1>2, <1>4, <2>1 DEF HostItsOwn
  <2>3. \A q \in H!Procs : q # p => h_pc'[q] = "idle"
    BY <1>2, <1>4, <2>2
  <2>4. h_tmp' = next /\ h_main' = h_main
    BY <1>7, <2>2
  <2>5. h_tmp' = WithBlock(p)'
    BY <1>3, <2>2, <2>4 DEF WithBlock
  <2> QED BY <1>4, <1>9, <2>2, <2>3, <2>4, <2>5 DEF HostItsOwn
<1>13. JobsStay(p)
  BY <1>8 DEF JobsStay
<1> QED BY <1>1, <1>4, <1>8, <1>9, <1>10, <1>11, <1>12, <1>13, SshdStep

\* Files that change their names do so under those that have them open, and nothing else changes.
LEMMA MovedIs ==
  ASSUME Sshd, NEW p \in H!Procs, NEW to, to \in [{"none", "tmp", "main", "gone"} -> {"none", "tmp", "main", "gone"}],
         \A fd \in {"none", "tmp", "main", "gone"} : to[fd] = "none" <=> fd = "none"
  PROVE  /\ H!Moved(p, to) \in [H!Procs -> SshdJob] /\ H!Moved(p, to)[p] = h_job[p]
         /\ \A q \in H!Procs : q # p =>
              /\ H!Moved(p, to)[q].orig = h_job[q].orig /\ H!Moved(p, to)[q].alone = h_job[q].alone
              /\ H!Moved(p, to)[q].fd = "none" <=> h_job[q].fd = "none"
              /\ h_job[q] = H!NoJob => H!Moved(p, to)[q] = H!NoJob
<1>1. h_job \in [H!Procs -> SshdJob]
  BY DEF Sshd, SshdTyped
<1>2. PICK m : m = H!Moved(p, to)
  OBVIOUS
<1>3. m = [q \in H!Procs |-> IF q = p THEN h_job[q] ELSE [h_job[q] EXCEPT !.fd = to[h_job[q].fd]]]
  BY <1>2 DEF H!Moved
<1>4. m[p] = h_job[p] /\ m[p] \in SshdJob
  BY <1>1, <1>3
<1>5. ASSUME NEW q \in H!Procs, q # p
      PROVE  /\ m[q] \in SshdJob /\ m[q].orig = h_job[q].orig /\ m[q].alone = h_job[q].alone
             /\ m[q].fd = "none" <=> h_job[q].fd = "none"
             /\ h_job[q] = H!NoJob => m[q] = H!NoJob
  <2>1. m[q] = [h_job[q] EXCEPT !.fd = to[h_job[q].fd]] /\ h_job[q] \in SshdJob
    BY <1>1, <1>3, <1>5
  <2>2. m[q] = [orig |-> h_job[q].orig, fd |-> to[h_job[q].fd], alone |-> h_job[q].alone]
    BY <2>1 DEF SshdJob
  <2>3. h_job[q].fd \in {"none", "tmp", "main", "gone"}
    BY <2>1 DEF SshdJob
  <2>4. m[q].orig = h_job[q].orig /\ m[q].alone = h_job[q].alone /\ m[q].fd = to[h_job[q].fd]
    BY <2>2
  <2>5. m[q] \in SshdJob
    BY <2>1, <2>2, <2>3 DEF SshdJob
  <2>6. ASSUME h_job[q] = H!NoJob PROVE m[q] = H!NoJob
    <3>1. h_job[q].orig = Absent /\ h_job[q].fd = "none" /\ h_job[q].alone = FALSE
      BY <2>6 DEF H!NoJob
    <3>2. to[h_job[q].fd] = "none"
      BY <2>3, <3>1
    <3> QED BY <2>2, <3>1, <3>2 DEF H!NoJob
  <2> QED BY <2>3, <2>4, <2>5, <2>6
<1>6. m \in [H!Procs -> SshdJob]
  BY <1>3, <1>4, <1>5
<1> QED BY <1>2, <1>4, <1>5, <1>6
\* A command is over: it has no job.
LEMMA SshdOver ==
  ASSUME Sshd, NEW p \in H!Procs, h_pc[p] # "idle", h_pc' = [h_pc EXCEPT ![p] = "idle"],
         FilesTyped', h_job' \in [H!Procs -> SshdJob], h_job'[p] = H!NoJob, JobsStay(p)
  PROVE  Sshd'
<1>1. h_pc'[p] = "idle" /\ "idle" \in SshdSteps
  BY DEF Sshd, SshdTyped, SshdSteps
<1>2. h_job'[p].fd = "none" /\ ~h_job'[p].alone
  BY ProcsAre
<1>3. HasJob(p)'
  BY <1>1, <1>2 DEF HasJob, H!NoJob
<1>4. h_job'[p].alone => HostItsOwn(p)'
  BY <1>2
<1> QED BY <1>1, <1>3, <1>4, SshdStep

LEMMA LeaveTyped ==
  ASSUME Sshd, NEW p \in H!Procs, H!Leave(p)
  PROVE  /\ h_pc' = [h_pc EXCEPT ![p] = "idle"] /\ h_job' \in [H!Procs -> SshdJob] /\ h_job'[p] = H!NoJob
         /\ JobsStay(p)
<1>1. h_job \in [H!Procs -> SshdJob]
  BY DEF Sshd, SshdTyped
<1>2. h_pc' = [h_pc EXCEPT ![p] = "idle"] /\ h_job' = [h_job EXCEPT ![p] = H!NoJob]
  BY DEF H!Leave, H!Goto
<1>3. h_job' \in [H!Procs -> SshdJob] /\ h_job'[p] = H!NoJob
  BY <1>1, <1>2, ProcsAre
<1>4. \A q \in H!Procs : q # p => h_job'[q] = h_job[q]
  BY <1>1, <1>2
<1>5. JobsStay(p)
  BY <1>4 DEF JobsStay
<1> QED BY <1>2, <1>3, <1>5

LEMMA SshdTest ==
  ASSUME Sshd, NEW p \in H_SecureProcs, H!Test(p)
  PROVE  Sshd'
<1>1. p \in H!Procs
  BY ProcsAre
<1>2. /\ FilesTyped /\ h_pc \in [H!Procs -> SshdSteps] /\ h_job \in [H!Procs -> SshdJob]
      /\ h_job[p] \in SshdJob /\ HasJob(p) /\ (h_job[p].alone => HostItsOwn(p))
  BY <1>1, SshdAtWork
<1>3. h_pc[p] = "test" /\ UNCHANGED <<h_main, h_backup, h_dropin, h_sshd>>
  BY DEF H!Test
<1>4. CASE H!Passes(h_tmp)
  <2>1. h_pc' = [h_pc EXCEPT ![p] = "rename"] /\ UNCHANGED <<h_tmp, h_job>>
    BY <1>4 DEF H!Test, H!Goto
  <2>2. "rename" \in SshdSteps /\ h_pc'[p] = "rename" /\ h_pc[p] # "idle"
    BY <1>1, <1>2, <1>3, <2>1 DEF SshdSteps
  <2>3. FilesTyped' /\ h_job' \in [H!Procs -> SshdJob] /\ JobsStay(p)
    BY <1>2, <1>3, <2>1 DEF FilesTyped, JobsStay
  <2>4. HasJob(p)'
    BY <1>2, <1>3, <2>1, <2>2 DEF HasJob
  <2>5. h_job'[p].alone => HostItsOwn(p)'
    <3>1. SUFFICES ASSUME h_job[p].alone PROVE HostItsOwn(p)'
      BY <2>1
    <3>2. (\A q \in H!Procs : q # p => h_pc[q] = "idle") /\ h_backup = h_main /\ h_tmp = WithBlock(p)
      BY <1>2, <1>3, <3>1 DEF HostItsOwn
    <3>3. \A q \in H!Procs : q # p => h_pc'[q] = "idle"
      BY <1>2, <2>1, <3>2
    <3>4. h_tmp' = WithBlock(p)' /\ H!Passes(h_tmp)'
      BY <1>3, <1>4, <2>1, <3>2 DEF WithBlock, H!Passes
    <3> QED BY <1>3, <2>1, <2>2, <3>2, <3>3, <3>4 DEF HostItsOwn
  <2> QED BY <1>1, <2>1, <2>2, <2>3, <2>4, <2>5, SshdStep
<1>5. CASE ~H!Passes(h_tmp)
  <2>1. PICK to : to = [none |-> "none", tmp |-> "gone", main |-> "main", gone |-> "gone"]
    OBVIOUS
  <2>2. h_tmp' = Absent /\ h_pc' = [h_pc EXCEPT ![p] = "idle"] /\ h_job' = [H!Moved(p, to) EXCEPT ![p] = H!NoJob]
    BY <1>5, <2>1 DEF H!Test, H!Goto
  <2>3. /\ to \in [{"none", "tmp", "main", "gone"} -> {"none", "tmp", "main", "gone"}]
        /\ \A fd \in {"none", "tmp", "main", "gone"} : to[fd] = "none" <=> fd = "none"
    BY <2>1
  <2>4. /\ H!Moved(p, to) \in [H!Procs -> SshdJob] /\ H!Moved(p, to)[p] = h_job[p]
        /\ \A q \in H!Procs : q # p =>
             /\ H!Moved(p, to)[q].orig = h_job[q].orig /\ H!Moved(p, to)[q].alone = h_job[q].alone
             /\ H!Moved(p, to)[q].fd = "none" <=> h_job[q].fd = "none"
             /\ h_job[q] = H!NoJob => H!Moved(p, to)[q] = H!NoJob
    BY <1>1, <2>3, MovedIs
  <2>5. h_job' \in [H!Procs -> SshdJob] /\ h_job'[p] = H!NoJob
    BY <1>1, <2>2, <2>4, ProcsAre
  <2>6. \A q \in H!Procs : q # p => h_job'[q] = H!Moved(p, to)[q]
    BY <2>2, <2>4
  <2>7. JobsStay(p)
    BY <2>4, <2>6 DEF JobsStay
  <2>8. FilesTyped'
    BY <1>2, <1>3, <2>2 DEF FilesTyped, Texts, H!Damaged
  <2>9. h_pc[p] # "idle"
    BY <1>3
  <2> QED BY <1>1, <2>2, <2>5, <2>7, <2>8, <2>9, SshdOver
<1> QED BY <1>4, <1>5

LEMMA SshdRename ==
  ASSUME Sshd, NEW p \in H_SecureProcs, H!Rename(p)
  PROVE  Sshd'
<1>1. p \in H!Procs
  BY ProcsAre
<1>2. /\ FilesTyped /\ h_pc \in [H!Procs -> SshdSteps] /\ h_job \in [H!Procs -> SshdJob]
      /\ h_job[p] \in SshdJob /\ HasJob(p) /\ (h_job[p].alone => HostItsOwn(p))
  BY <1>1, SshdAtWork
<1>3. h_pc[p] = "rename" /\ UNCHANGED <<h_backup, h_dropin, h_sshd>>
  BY DEF H!Rename
<1>4. CASE h_tmp = Absent
  <2>1. H!Leave(p) /\ UNCHANGED <<h_main, h_tmp>>
    BY <1>4 DEF H!Rename
  <2>2. /\ h_pc' = [h_pc EXCEPT ![p] = "idle"] /\ h_job' \in [H!Procs -> SshdJob] /\ h_job'[p] = H!NoJob
        /\ JobsStay(p)
    BY <1>1, <2>1, LeaveTyped
  <2>3. FilesTyped' /\ h_pc[p] # "idle"
    BY <1>2, <1>3, <2>1 DEF FilesTyped
  <2> QED BY <1>1, <2>2, <2>3, SshdOver
<1>5. CASE h_tmp # Absent
  <2>1. PICK to : to = [none |-> "none", tmp |-> "main", main |-> "gone", gone |-> "gone"]
    OBVIOUS
  <2>2. /\ h_main' = h_tmp /\ h_tmp' = Absent /\ h_pc' = [h_pc EXCEPT ![p] = "reload"]
        /\ h_job' = H!Moved(p, to)
    BY <1>5, <2>1 DEF H!Rename, H!Goto
  <2>3. /\ to \in [{"none", "tmp", "main", "gone"} -> {"none", "tmp", "main", "gone"}]
        /\ \A fd \in {"none", "tmp", "main", "gone"} : to[fd] = "none" <=> fd = "none"
    BY <2>1
  <2>4. /\ h_job' \in [H!Procs -> SshdJob] /\ h_job'[p] = h_job[p]
        /\ \A q \in H!Procs : q # p =>
             /\ h_job'[q].orig = h_job[q].orig /\ h_job'[q].alone = h_job[q].alone
             /\ h_job'[q].fd = "none" <=> h_job[q].fd = "none"
             /\ h_job[q] = H!NoJob => h_job'[q] = H!NoJob
    BY <1>1, <2>2, <2>3, MovedIs
  <2>5. JobsStay(p)
    BY <2>4 DEF JobsStay
  <2>6. "reload" \in SshdSteps /\ h_pc'[p] = "reload" /\ h_pc[p] # "idle"
    BY <1>1, <1>2, <1>3, <2>2 DEF SshdSteps
  <2>7. FilesTyped'
    BY <1>2, <1>3, <1>5, <2>2 DEF FilesTyped, Texts, H!Damaged
  <2>8. HasJob(p)'
    BY <1>2, <1>3, <2>4, <2>6 DEF HasJob
  <2>9. h_job'[p].alone => HostItsOwn(p)'
    <3>1. SUFFICES ASSUME h_job[p].alone PROVE HostItsOwn(p)'
      BY <2>4
    <3>2. (\A q \in H!Procs : q # p => h_pc[q] = "idle") /\ H!Passes(h_tmp)
      BY <1>2, <1>3, <3>1 DEF HostItsOwn
    <3>3. \A q \in H!Procs : q # p => h_pc'[q] = "idle"
      BY <1>2, <2>2, <3>2
    <3>4. H!Passes(h_main)'
      BY <1>3, <2>2, <3>2 DEF H!Passes
    <3> QED BY <2>6, <3>3, <3>4 DEF HostItsOwn
  <2> QED BY <1>1, <2>2, <2>4, <2>5, <2>6, <2>7, <2>8, <2>9, SshdStep
<1> QED BY <1>4, <1>5
LEMMA SshdReload ==
  ASSUME Sshd, NEW p \in H!Procs, H!Reload(p) \/ H!Kill(p)
  PROVE  Sshd'
<1>1. FilesTyped
  BY DEF Sshd, SshdTyped
<1>2. H!Leave(p) /\ h_pc[p] # "idle"
  BY DEF H!Reload, H!Kill
<1>3. /\ h_pc' = [h_pc EXCEPT ![p] = "idle"] /\ h_job' \in [H!Procs -> SshdJob] /\ h_job'[p] = H!NoJob
      /\ JobsStay(p)
  BY <1>2, LeaveTyped
<1>4. CASE H!Reload(p)
  <2>1. UNCHANGED <<h_main, h_tmp, h_backup, h_dropin>> /\ h_sshd' \in {h_sshd, "down"}
    BY <1>4 DEF H!Reload
  <2>2. FilesTyped'
    BY <1>1, <2>1 DEF FilesTyped
  <2> QED BY <1>2, <1>3, <2>2, SshdOver
<1>5. CASE H!Kill(p)
  <2>1. /\ h_tmp' \in {h_tmp, Garbled} /\ h_main' \in {h_main, Garbled} /\ h_dropin' \in {h_dropin, Garbled}
        /\ UNCHANGED <<h_backup, h_sshd>>
    BY <1>5 DEF H!Kill
  <2>2. FilesTyped'
    BY <1>1, <2>1, LinesAre DEF FilesTyped, Texts, H!Damaged
  <2> QED BY <1>2, <1>3, <2>2, SshdOver
<1> QED BY <1>4, <1>5

LEMMA SshdKeepalive ==
  ASSUME Sshd, NEW p \in H_KeepProcs, H!WriteDropin(p) \/ H!Check(p)
  PROVE  Sshd'
<1>1. p \in H!Procs
  BY ProcsAre
<1>2. /\ FilesTyped /\ h_pc \in [H!Procs -> SshdSteps] /\ h_job \in [H!Procs -> SshdJob]
      /\ h_job[p] \in SshdJob /\ HasJob(p) /\ (h_job[p].alone => HostItsOwn(p))
  BY <1>1, SshdAtWork
<1>3. /\ UNCHANGED <<h_main, h_tmp, h_backup, h_sshd>>
      /\ \/ h_pc[p] = "dropin" /\ h_dropin' = "written"
         \/ h_pc[p] = "check" /\ h_dropin' = h_dropin
  BY DEF H!WriteDropin, H!Check
<1>4. FilesTyped' /\ h_pc[p] # "idle"
  BY <1>2, <1>3 DEF FilesTyped
<1>5. CASE H!Leave(p)
  <2>1. /\ h_pc' = [h_pc EXCEPT ![p] = "idle"] /\ h_job' \in [H!Procs -> SshdJob] /\ h_job'[p] = H!NoJob
        /\ JobsStay(p)
    BY <1>1, <1>5, LeaveTyped
  <2> QED BY <1>1, <1>4, <2>1, SshdOver
<1>6. CASE ~H!Leave(p)
  <2>1. PICK to : /\ to = "check" \/ (to = "reload" /\ H!Passes(h_main) /\ h_dropin' = h_dropin)
                  /\ h_pc' = [h_pc EXCEPT ![p] = to] /\ h_job' = h_job
    BY <1>6 DEF H!WriteDropin, H!Check, H!Goto
  <2>2. to \in SshdSteps /\ h_pc'[p] = to
    BY <1>1, <1>2, <2>1 DEF SshdSteps
  <2>3. JobsStay(p) /\ h_job' \in [H!Procs -> SshdJob]
    BY <1>2, <2>1 DEF JobsStay
  <2>4. HasJob(p)'
    BY <1>2, <1>3, <2>1, <2>2 DEF HasJob
  <2>5. h_job'[p].alone => HostItsOwn(p)'
    <3>1. SUFFICES ASSUME h_job[p].alone PROVE HostItsOwn(p)'
      BY <2>1
    <3>2. \A q \in H!Procs : q # p => h_pc'[q] = "idle"
      BY <1>2, <2>1, <3>1 DEF HostItsOwn
    <3>3. to = "reload" => H!Passes(h_main)'
      BY <1>3, <2>1 DEF H!Passes
    <3> QED BY <2>1, <2>2, <3>2, <3>3 DEF HostItsOwn
  <2> QED BY <1>1, <1>4, <2>1, <2>2, <2>3, <2>4, <2>5, SshdStep
<1> QED BY <1>5, <1>6

\* A line that is taken out, or added.
LEMMA EditIs ==
  ASSUME NEW f \in Seq(H!Lines), NEW line \in H!Lines
  PROVE  /\ Append(f, line) \in Seq(H!Lines)
         /\ H!Contains(f, line) => H!RemoveAt(f, H!FirstOf(f, line)) \in Seq(H!Lines)
<1>1. ASSUME H!Contains(f, line) PROVE H!RemoveAt(f, H!FirstOf(f, line)) \in Seq(H!Lines)
  <2>1. PICK i \in 1..Len(f) : i = H!FirstOf(f, line)
    BY <1>1, FirstAmong
  <2>2. PICK s, t : s = SubSeq(f, 1, i - 1) /\ t = SubSeq(f, i + 1, Len(f))
    OBVIOUS
  <2>3. s \in Seq(H!Lines) /\ t \in Seq(H!Lines)
    BY <2>1, <2>2
  <2>4. s \o t \in Seq(H!Lines)
    BY <2>3
  <2> QED BY <2>1, <2>2, <2>4 DEF H!RemoveAt
<1> QED BY <1>1

LEMMA SshdEdit ==
  ASSUME Sshd, NEW line \in H_Edits, H!Edit(line)
  PROVE  Sshd'
<1>1. FilesTyped /\ h_pc \in [H!Procs -> SshdSteps] /\ h_job \in [H!Procs -> SshdJob]
  BY DEF Sshd, SshdTyped
<1>2. h_main \in Seq(H!Lines) /\ line \in H!Lines
  BY <1>1 DEF FilesTyped, Texts, H!Edit, H!Lines
<1>3. /\ h_main' = IF H!Contains(h_main, line) THEN H!RemoveAt(h_main, H!FirstOf(h_main, line)) ELSE Append(h_main, line)
      /\ h_job' = [q \in H!Procs |-> [h_job[q] EXCEPT !.alone = FALSE]]
      /\ UNCHANGED <<h_tmp, h_backup, h_dropin, h_sshd, h_pc>>
  BY DEF H!Edit
<1>4. h_main' \in Seq(H!Lines)
  BY <1>2, <1>3, EditIs
<1>5. FilesTyped'
  BY <1>1, <1>3, <1>4, LinesAre DEF FilesTyped, Texts, H!Damaged
<1>6. ASSUME NEW q \in H!Procs PROVE h_job'[q] \in SshdJob /\ HasJob(q)' /\ ~h_job'[q].alone
  <2>1. h_job'[q] = [h_job[q] EXCEPT !.alone = FALSE] /\ h_job[q] \in SshdJob
    BY <1>1, <1>3
  <2>2. h_job'[q] = [orig |-> h_job[q].orig, fd |-> h_job[q].fd, alone |-> FALSE]
    BY <2>1 DEF SshdJob
  <2>3. h_job'[q].orig = h_job[q].orig /\ h_job'[q].fd = h_job[q].fd /\ h_job'[q].alone = FALSE
    BY <2>2
  <2>4. h_job[q] = H!NoJob => h_job'[q] = H!NoJob
    BY <2>2 DEF H!NoJob
  <2>5. h_job'[q] \in SshdJob
    BY <2>1, <2>2 DEF SshdJob
  <2>6. HasJob(q)'
    BY <1>3, <2>3, <2>4 DEF HasJob, Sshd
  <2> QED BY <2>3, <2>5, <2>6
<1>7. h_job' \in [H!Procs -> SshdJob]
  BY <1>3, <1>6
<1>8. SshdTyped'
  BY <1>1, <1>3, <1>5, <1>7 DEF SshdTyped
<1> QED BY <1>6, <1>8 DEF Sshd

LEMMA SshdStays == Sshd /\ UNCHANGED h_vars => Sshd'
<1> SUFFICES ASSUME Sshd, UNCHANGED h_vars PROVE Sshd'
  OBVIOUS
<1>1. UNCHANGED <<h_main, h_tmp, h_backup, h_dropin, h_sshd, h_pc, h_job>>
  BY DEF h_vars
<1>2. SshdTyped'
  BY <1>1 DEF Sshd, SshdTyped, FilesTyped
<1>3. ASSUME NEW p \in H!Procs PROVE HasJob(p)' /\ (h_job'[p].alone => HostItsOwn(p)')
  <2>1. HasJob(p) /\ (h_job[p].alone => HostItsOwn(p))
    BY DEF Sshd
  <2> QED BY <1>1, <2>1 DEF HasJob, HostItsOwn, WithBlock, H!Passes
<1> QED BY <1>2, <1>3 DEF Sshd

LEMMA SshdNext == Sshd /\ (H!Next \/ UNCHANGED h_vars) => Sshd'
<1> SUFFICES ASSUME Sshd, H!Next PROVE Sshd'
  BY SshdStays
<1>1. ASSUME NEW p \in H_SecureProcs,
             \/ H!Read(p) \/ H!OpenBackup(p) \/ H!Copy(p) \/ H!OpenTmp(p) \/ H!Fill(p) \/ H!Test(p) \/ H!Rename(p)
      PROVE  Sshd'
  BY <1>1, SshdRead, SshdBackup, SshdOpenTmp, SshdFill, SshdTest, SshdRename
<1>2. ASSUME NEW p \in H_KeepProcs, H!OpenDropin(p) \/ H!WriteDropin(p) \/ H!Check(p) PROVE Sshd'
  BY <1>2, SshdOpenDropin, SshdKeepalive
<1>3. ASSUME NEW p \in H!Procs, H!Reload(p) \/ H!Kill(p) PROVE Sshd'
  BY <1>3, SshdReload
<1>4. ASSUME NEW line \in H_Edits, H!Edit(line) PROVE Sshd'
  BY <1>4, SshdEdit
<1> QED BY <1>1, <1>2, <1>3, <1>4 DEF H!Next
\* Replacing the block again, with the same or other settings, replaces it and adds no second.
LEMMA SettlesIs ==
  ASSUME NEW f \in Seq(H!Lines), H!WellFormed(f), NEW p \in H_SecureProcs
  PROVE  /\ H!WellFormed(H!Replace(f, H_Body[p])) /\ H!Own(H!Replace(f, H_Body[p])) = H!Own(f)
         /\ \A q \in H_SecureProcs : H!Replace(H!Replace(f, H_Body[p]), H_Body[q]) = H!Replace(f, H_Body[q])
<1>1. PICK before \in Seq(PlainLines), after \in Seq(PlainLines) :
        H!Own(f) = before \o after /\ \A c \in PlainLines : H!Replace(f, c) = Block(before, c, after)
  BY WellFormedIs
<1>2. \A q \in H_SecureProcs : H_Body[q] \in PlainLines
  BY LinesAre
<1>3. PICK body \in PlainLines : body = H_Body[p]
  BY <1>2
<1>4. PICK g : g = Block(before, body, after)
  OBVIOUS
<1>5. H!WellFormed(g) /\ H!Own(g) = before \o after /\ \A c : H!Replace(g, c) = Block(before, c, after)
  BY <1>4, BlockIs
<1>6. H!Replace(f, H_Body[p]) = g
  BY <1>1, <1>3, <1>4
<1>7. H!WellFormed(g) /\ H!Own(g) = H!Own(f)
  BY <1>1, <1>5
<1>8. \A q \in H_SecureProcs : H!Replace(g, H_Body[q]) = H!Replace(f, H_Body[q])
  BY <1>1, <1>2, <1>5
<1> QED BY <1>6, <1>7, <1>8

LEMMA SshdHolds == HostSpec => []Sshd
<1>1. HostInit => Sshd
  <2> SUFFICES ASSUME H!Init PROVE Sshd
    BY DEF HostInit
  <2>1. /\ h_main \in H_Originals /\ h_tmp = Absent /\ h_backup = Absent /\ h_dropin = Absent /\ h_sshd = "up"
        /\ h_pc = [p \in H!Procs |-> "idle"] /\ h_job = [p \in H!Procs |-> H!NoJob]
    BY DEF H!Init
  <2>2. h_main \in Seq(H!Lines) \cup {Empty, Garbled}
    BY <2>1, HostAssumption DEF H!HardeningAssumption
  <2>3. FilesTyped
    BY <2>1, <2>2, LinesAre DEF FilesTyped, Texts, H!Damaged
  <2>4. h_pc \in [H!Procs -> SshdSteps] /\ h_job \in [H!Procs -> SshdJob]
    BY <2>1, ProcsAre DEF SshdSteps
  <2>5. \A p \in H!Procs : h_pc[p] = "idle" /\ h_job[p] = H!NoJob
    BY <2>1
  <2>6. \A p \in H!Procs : HasJob(p) /\ ~h_job[p].alone
    BY <2>5, ProcsAre DEF HasJob
  <2> QED BY <2>3, <2>4, <2>6 DEF Sshd, SshdTyped
<1>2. Sshd /\ [HostNext]_all => Sshd'
  BY SshdNext, StepsOfHost
<1> QED BY <1>1, <1>2, PTL DEF HostSpec

\* Running secure-ssh again settles; a secure-ssh that is alone keeps the operator's lines in place,
\* has their backup, and installs what sshd -t accepts; a command that is alone never takes sshd down.
THEOREM SshdKeptHolds == HostSpec => SshdKept
<1> DEFINE
      Installs == \A p \in H_SecureProcs : H!Renames(p) /\ h_job[p].alone /\ H!WellFormed(h_main) =>
                    /\ H!WellFormed(h_main') /\ H!Own(h_main') = H!Own(h_main)
                    /\ h_backup = h_main
                    /\ H!Passes(h_main')
      Reloads == \A p \in H!Procs : h_pc[p] = "reload" /\ h_pc'[p] = "idle" /\ h_job[p].alone => h_sshd' = h_sshd
<1>1. Sshd => H!BlockSettles
  <2> SUFFICES ASSUME Sshd, H!WellFormed(h_main), NEW p \in H_SecureProcs, NEW q \in H_SecureProcs
               PROVE  H!Replace(H!Replace(h_main, H_Body[p]), H_Body[q]) = H!Replace(h_main, H_Body[q])
    BY DEF H!BlockSettles
  <2>1. h_main \in Seq(H!Lines)
    BY DEF Sshd, SshdTyped, FilesTyped, Texts, H!WellFormed
  <2> QED BY <2>1, SettlesIs
<1>2. Sshd /\ [HostNext]_all => [Installs]_(H!vars)
  <2> SUFFICES ASSUME Sshd, H!Next, NEW p \in H_SecureProcs, h_pc[p] = "rename", h_pc'[p] = "reload",
                      h_job[p].alone, H!WellFormed(h_main)
               PROVE  /\ H!WellFormed(h_main') /\ H!Own(h_main') = H!Own(h_main)
                      /\ h_backup = h_main
                      /\ H!Passes(h_main')
    BY StepsOfHost DEF h_vars, H!vars, H!Renames
  <2>1. p \in H!Procs /\ h_pc \in [H!Procs -> SshdSteps] /\ HostItsOwn(p)
    BY ProcsAre DEF Sshd, SshdTyped
  <2>2. /\ \A q \in H!Procs : q # p => h_pc[q] = "idle"
        /\ h_backup = h_main /\ h_tmp = WithBlock(p) /\ H!Passes(h_tmp)
    BY <2>1 DEF HostItsOwn
  <2>3. H!Rename(p)
    <3>1. ASSUME NEW q \in H!Procs, NEW to, H!Goto(q, to) PROVE q = p /\ to = "reload"
      <4>1. h_pc' = [h_pc EXCEPT ![q] = to]
        BY <3>1 DEF H!Goto
      <4> QED BY <2>1, <4>1
    <3>2. ASSUME NEW q \in H_SecureProcs,
                 H!Read(q) \/ H!OpenBackup(q) \/ H!Copy(q) \/ H!OpenTmp(q) \/ H!Fill(q) \/ H!Test(q)
          PROVE  FALSE
      <4>1. q \in H!Procs
        BY ProcsAre
      <4>2. PICK to : H!Goto(q, to) /\ to \in {"backup", "copy", "open", "fill", "test", "rename", "idle"}
        BY <3>2 DEF H!Read, H!Enter, H!OpenBackup, H!Copy, H!OpenTmp, H!Fill, H!Test
      <4> QED BY <3>1, <4>1, <4>2
    <3>3. ASSUME NEW q \in H_KeepProcs, H!OpenDropin(q) \/ H!WriteDropin(q) \/ H!Check(q) PROVE FALSE
      <4>1. q \in H!Procs
        BY ProcsAre
      <4>2. PICK to : H!Goto(q, to) /\ (to \in {"dropin", "check", "idle"} \/ h_pc[q] = "check")
        BY <3>3 DEF H!OpenDropin, H!Enter, H!WriteDropin, H!Check, H!Leave
      <4> QED BY <3>1, <4>1, <4>2
    <3>4. ASSUME NEW q \in H!Procs, H!Reload(q) \/ H!Kill(q) PROVE FALSE
      <4>1. H!Goto(q, "idle")
        BY <3>4 DEF H!Reload, H!Kill, H!Leave
      <4> QED BY <3>1, <4>1
    <3>5. \A line \in H_Edits : ~H!Edit(line)
      BY DEF H!Edit
    <3>6. PICK q \in H_SecureProcs : H!Rename(q)
      BY <3>2, <3>3, <3>4, <3>5 DEF H!Next
    <3>7. q \in H!Procs /\ \E to : H!Goto(q, to)
      BY <3>6, ProcsAre DEF H!Rename, H!Leave
    <3> QED BY <3>1, <3>6, <3>7
  <2>4. h_main' = h_tmp
    <3>1. ~H!Leave(p)
      BY <2>1 DEF H!Leave, H!Goto
    <3> QED BY <2>3, <3>1 DEF H!Rename
  <2>5. h_main \in Seq(H!Lines) /\ h_main # Empty
    BY LinesAre DEF Sshd, SshdTyped, FilesTyped, Texts, H!WellFormed, H!Damaged
  <2>6. h_main' = H!Replace(h_main, H_Body[p])
    BY <2>2, <2>4, <2>5 DEF WithBlock
  <2>7. /\ H!WellFormed(H!Replace(h_main, H_Body[p]))
        /\ H!Own(H!Replace(h_main, H_Body[p])) = H!Own(h_main)
    BY <2>5, SettlesIs
  <2>8. H!WellFormed(h_main') /\ H!Own(h_main') = H!Own(h_main)
    BY <2>6, <2>7
  <2>9. H!Passes(h_main')
    BY <2>2, <2>4
  <2> QED BY <2>2, <2>8, <2>9
<1>3. Sshd /\ [HostNext]_all => [Reloads]_(H!vars)
  <2> SUFFICES ASSUME Sshd, H!Next, NEW p \in H!Procs, h_pc[p] = "reload", h_pc'[p] = "idle", h_job[p].alone
               PROVE  h_sshd' = h_sshd
    BY StepsOfHost DEF h_vars, H!vars
  <2>1. HostItsOwn(p)
    BY DEF Sshd
  <2>2. H!Passes(h_main)
    BY <2>1 DEF HostItsOwn
  <2>3. ASSUME NEW q \in H!Procs, H!Reload(q) PROVE h_sshd' = h_sshd
    BY <2>2, <2>3 DEF H!Reload
  <2> QED BY <2>3 DEF H!Next, H!Read, H!OpenBackup, H!Copy, H!OpenTmp, H!Fill, H!Test, H!Rename, H!OpenDropin,
                      H!WriteDropin, H!Check, H!Kill, H!Edit
<1> QED BY <1>1, <1>2, <1>3, SshdHolds, PTL
        DEF HostSpec, SshdKept, H!OwnLinesStay, H!SshdStaysUp

-----------------------------------------------------------------------------
\* The types of the parts.

LEMMA ConfigTypes == HostSpec => []C!TypeOK
<1>1. CS!TypeOK => C!TypeOK
  BY DEF CS!TypeOK, C!TypeOK, CS!Documents, C!Documents, CS!NoJob, C!NoJob, CS!Commands, C!Commands, CS!Out, C!Out,
     CS!Effect, C!Effect, CS!Default, C!Default
<1> QED BY <1>1, ConfigIsStore, StoreAssumption, CS!TypeCorrect, PTL

LEMMA SshdTypes == HostSpec => []H!TypeOK
<1>1. Sshd => H!TypeOK
  BY DEF Sshd, SshdTyped, FilesTyped, HasJob, H!TypeOK
<1> QED BY <1>1, SshdHolds, PTL

LEMMA ReportTypes == HostSpec => []R!TypeOK
<1>1. Reports => R!TypeOK
  <2> SUFFICES ASSUME Reports PROVE R!TypeOK
    OBVIOUS
  <2>1. \A s : s \in Seq(R!Names) => R!ToSet(s) \subseteq R!Names
    BY DEF R!ToSet
  <2>2. R!IsInjective(r_order) /\ R!ToSet(r_order) \subseteq R!Names
    BY <2>1 DEF Reports, ReportTyped
  <2>3. \A n \in R!Names : r_file[n].text = "none" <=> ~R!Exists(n)
    BY DEF Reports, Written, R!Exists
  <2>4. \A p \in R_Scans : r_job[p].name \in R!Names /\ R!ToSet(r_job[p].doomed) \subseteq R!Names
    BY <2>1 DEF Reports, ReportTyped
  <2> QED BY <2>2, <2>3, <2>4 DEF R!TypeOK
<1> QED BY <1>1, ReportsHolds, PTL

LEMMA TextTypes == HostSpec => []T!TypeOK
<1>1. Alerts => T!TypeOK
  BY DEF Alerts, T!TypeOK
<1> QED BY <1>1, AlertsHolds, PTL

LEMMA LoadTypes == HostSpec => []L!TypeOK
<1>1. LoadInv => L!TypeOK
  BY DEF LoadInv, LoadTyped, LoadWalk, Configs, L!TypeOK, L!Rule
<1> QED BY <1>1, LoadInvHolds, PTL

\* What the scan has read so far.
ScanTyped ==
    /\ p_seen \in [cmd : P_Names \cup {""}, exe : P_Names \cup {""}] /\ p_kill \in BOOLEAN /\ p_fresh \in BOOLEAN
    /\ p_mode = "idle" <=> p_pc = "start"

LEMMA ScanTypes == HostSpec => []P!TypeOK
<1>1. HostInit => ScanTyped
  <2> SUFFICES ASSUME P!Init PROVE ScanTyped
    BY DEF HostInit
  <2>1. p_seen = P!Gone /\ p_kill = FALSE /\ p_fresh = FALSE /\ p_mode = "idle" /\ p_pc = "start"
    BY DEF P!Init
  <2> QED BY <2>1 DEF P!Gone, ScanTyped
<1>2. ASSUME ScanInv, ScanTyped, P!Next \/ UNCHANGED p_vars PROVE ScanTyped'
  <2>1. P!Gone \in [cmd : P_Names \cup {""}, exe : P_Names \cup {""}]
    BY DEF P!Gone
  <2>2. p_proc[p_pid] \in [cmd : P_Names \cup {""}, exe : P_Names \cup {""}]
    BY <1>2, <2>1 DEF ScanInv, Judged, P!Programs
  <2>3. ASSUME NEW m \in {"manual", "audit"}, NEW flag \in BOOLEAN, P!Start(m, flag) PROVE ScanTyped'
    BY <1>2, <2>3 DEF P!Start, P!KillOption, ScanTyped
  <2>4. ASSUME P!ReadCmdline PROVE ScanTyped'
    BY <1>2, <2>2, <2>4 DEF P!ReadCmdline, ScanTyped
  <2>5. ASSUME P!ReadExe PROVE ScanTyped'
    BY <1>2, <2>2, <2>5 DEF P!ReadExe, ScanTyped
  <2>6. ASSUME P!Judge PROVE ScanTyped'
    BY <1>2, <2>1, <2>6 DEF P!Judge, P!NextProcess, ScanTyped
  <2>7. ASSUME P!RecheckCmdline PROVE ScanTyped'
    BY <1>2, <2>1, <2>7 DEF P!RecheckCmdline, P!NextProcess, ScanTyped
  <2>8. ASSUME P!RecheckExe PROVE ScanTyped'
    BY <1>2, <2>1, <2>8 DEF P!RecheckExe, P!NextProcess, ScanTyped
  <2>9. ASSUME P!Terminate PROVE ScanTyped'
    BY <1>2, <2>1, <2>9 DEF P!Terminate, P!NextProcess, ScanTyped
  <2>10. ASSUME NEW p \in P!Pids, NEW program \in P!Programs \cup {P!Gone}, P!Change(p, program) PROVE ScanTyped'
    BY <1>2, <2>10 DEF P!Change, ScanTyped
  <2>11. ASSUME UNCHANGED p_vars PROVE ScanTyped'
    BY <1>2, <2>11 DEF p_vars, ScanTyped
  <2> QED BY <1>2, <2>3, <2>4, <2>5, <2>6, <2>7, <2>8, <2>9, <2>10, <2>11 DEF P!Next
<1>3. ScanInv /\ ScanTyped /\ [HostNext]_all => ScanTyped'
  BY <1>2, StepsOfHost
<1>4. ScanInv /\ ScanTyped => P!TypeOK
  BY DEF ScanInv, Judged, ScanTyped, P!TypeOK
<1> QED BY <1>1, <1>3, <1>4, ScanHolds, PTL DEF HostSpec

\* What a session works with.
MailTyped ==
    /\ m_cfg \in M!Settings /\ m_host \in M_Hosts \cup {M_NoHost} \cup {M_PresetHost[d] : d \in DOMAIN M_Presets}
    /\ m_port \in Nat /\ m_secure \in BOOLEAN /\ m_exposed \in BOOLEAN
    /\ m_accepted \subseteq M!ToAll /\ m_faults <= M_MaxFaults

\* A recipient that is still to be accepted is one of those of the alert.
LEMMA NextOfRecipients ==
  ASSUME m_accepted \subseteq M!ToAll, m_accepted # M!ToAll PROVE M!NextRecipient \in M!ToAll
<1>1. PICK N \in Nat : N = Len(M_Recipients) /\ M_Recipients \in [1..N -> M!ToAll]
  BY HostAssumption DEF M!MailAssumption
<1>2. M!ToAll = {M_Recipients[j] : j \in 1..N}
  BY <1>1 DEF M!ToAll
<1>3. M_Recipients \in Surjection(1..N, M!ToAll)
  BY <1>1, <1>2 DEF Surjection
<1>4. IsFiniteSet(M!ToAll)
  BY <1>1, <1>3, FS_Interval, FS_Surjection
<1>5. M!Cardinality(M!ToAll) = N
  BY <1>1, HostAssumption DEF M!MailAssumption
<1>6. \A S : M!Cardinality(S) = Cardinality(S)
  BY DEF M!Cardinality, Cardinality, M!IsFiniteSet, IsFiniteSet
<1>7. Cardinality(m_accepted) \in Nat /\ Cardinality(m_accepted) < N
  BY <1>4, <1>5, <1>6, FS_Subset, FS_CardinalityType
<1>8. Cardinality(m_accepted) + 1 \in 1..N
  BY <1>7
<1> QED BY <1>1, <1>6, <1>8 DEF M!NextRecipient

LEMMA MailTypedNext ==
  ASSUME MailInv, MailTyped, M!Next \/ UNCHANGED m_vars PROVE MailTyped'
<1>1. ASSUME M!Refuse PROVE MailTyped'
  BY <1>1 DEF M!Refuse, M!session, MailTyped
<1>2. ASSUME M!Dial PROVE MailTyped'
  <2>1. /\ m_cfg.domain \in DOMAIN M_Presets \cup {"other"} /\ m_cfg.host \in M_Hosts \cup {M_NoHost}
        /\ m_cfg.port \in M_Ports
    BY DEF MailTyped, M!Settings, M!Domains
  <2>2. (m_cfg.host = M_NoHost \/ m_cfg.port = 0) => m_cfg.domain \in DOMAIN M_Presets
    BY <1>2 DEF M!Dial, M!Known
  <2>3. m_cfg.port \in Nat /\ (m_cfg.domain \in DOMAIN M_Presets => M_Presets[m_cfg.domain] \in Nat)
    BY <2>1, HostAssumption DEF M!MailAssumption
  <2>4. m_host' \in M_Hosts \cup {M_NoHost} \cup {M_PresetHost[d] : d \in DOMAIN M_Presets}
    BY <1>2, <2>1, <2>2 DEF M!Dial, M!Infer
  <2>5. m_port' \in Nat
    BY <1>2, <2>2, <2>3 DEF M!Dial, M!Infer
  <2> QED BY <1>2, <2>4, <2>5 DEF M!Dial, MailTyped
<1>3. ASSUME M!Handshake \/ \E offers \in BOOLEAN : M!Hello(offers) PROVE MailTyped'
  BY <1>3 DEF M!Handshake, M!Hello, MailTyped
<1>4. ASSUME M!Auth PROVE MailTyped'
  BY <1>4 DEF M!Auth, M!session, MailTyped
<1>5. ASSUME M!Rcpt PROVE MailTyped'
  <2>1. M!NextRecipient \in M!ToAll
    BY <1>5, NextOfRecipients DEF M!Rcpt, MailTyped
  <2> QED BY <1>5, <2>1 DEF M!Rcpt, MailTyped
<1>6. ASSUME M!Data \/ M!Quit PROVE MailTyped'
  BY <1>6 DEF M!Data, M!Quit, M!session, MailTyped
<1>7. ASSUME M!AnswerLost PROVE MailTyped'
  <2>1. m_faults + 1 <= M_MaxFaults
    BY <1>7, HostAssumption DEF M!AnswerLost, M!MailAssumption, MailInv, Copies
  <2> QED BY <1>7, <2>1 DEF M!AnswerLost, M!session, MailTyped
<1>8. ASSUME M!Break PROVE MailTyped'
  BY <1>8 DEF M!Break, M!Fail, M!session, MailTyped
<1>9. ASSUME UNCHANGED m_vars PROVE MailTyped'
  BY <1>9 DEF m_vars, MailTyped
<1> QED BY <1>1, <1>2, <1>3, <1>4, <1>5, <1>6, <1>7, <1>8, <1>9 DEF M!Next

LEMMA MailTypes == HostSpec => []M!TypeOK
<1>1. HostInit => MailTyped
  <2> SUFFICES ASSUME M!Init PROVE MailTyped
    BY DEF HostInit
  <2>1. M_MaxFaults \in Nat
    BY HostAssumption DEF M!MailAssumption
  <2>2. /\ m_cfg \in M!Settings /\ m_host = M_NoHost /\ m_port = 0 /\ m_secure = FALSE /\ m_accepted = {}
        /\ m_exposed = FALSE /\ m_faults = 0
    BY DEF M!Init
  <2>3. m_host \in M_Hosts \cup {M_NoHost} \cup {M_PresetHost[d] : d \in DOMAIN M_Presets}
    BY <2>2
  <2>4. m_faults <= M_MaxFaults /\ m_port \in Nat
    BY <2>1, <2>2
  <2> QED BY <2>2, <2>3, <2>4 DEF MailTyped
<1>2. MailInv /\ MailTyped /\ [HostNext]_all => MailTyped'
  BY MailTypedNext, StepsOfHost
<1>3. MailInv /\ MailTyped => M!TypeOK
  <2> SUFFICES ASSUME MailInv, MailTyped PROVE M!TypeOK
    OBVIOUS
  <2>1. M_MaxFaults \in Nat
    BY HostAssumption DEF M!MailAssumption
  <2>2. \A r \in M!ToAll : m_copies[r] \in 0..(M_MaxFaults + 1)
    BY <2>1 DEF MailInv, Copies, MailTyped
  <2> QED BY <2>2 DEF MailInv, Session, Copies, MailTyped, M!TypeOK
<1> QED BY <1>1, <1>2, <1>3, MailHolds, PTL DEF HostSpec

\* The units that are installed, known, started at boot or running, and the faults so far.
UnitsTyped ==
    /\ a_file \subseteq A!Units /\ a_loaded \subseteq A!Units /\ a_boot \subseteq A!Units /\ a_on \subseteq A!Units
    /\ a_faults \in 0..A_MaxFaults

LEMMA UnitsTypedNext ==
  ASSUME BootInv, UnitsTyped, A!Next \/ UNCHANGED a_vars PROVE UnitsTyped'
<1> DEFINE Typed == a_file' \subseteq A!Units /\ a_loaded' \subseteq A!Units /\ a_boot' \subseteq A!Units /\ a_on' \subseteq A!Units
<1>1. Active => Unit \in A!Units
  BY DEF BootInv, Scripts, Unit
<1>2. ASSUME NEW u \in A!Units, NEW c, A!Does(c, u) PROVE Typed
  <2>1. \A S \in SUBSET A!Units : A!With(S, u) \in SUBSET A!Units /\ A!Without(S, u) \in SUBSET A!Units
    BY DEF A!With, A!Without
  <2>2. a_file' \in {a_file, A!With(a_file, u), A!Without(a_file, u)}
    BY <1>2 DEF A!Does
  <2>3. a_loaded' \in {a_loaded, A!With(a_loaded, u), A!Without(a_loaded, u)}
    BY <1>2 DEF A!Does
  <2>4. a_boot' \in {a_boot, A!With(a_boot, u), A!Without(a_boot, u)}
    BY <1>2 DEF A!Does
  <2>5. a_on' \in {a_on, A!With(a_on, u), A!Without(a_on, u)}
    BY <1>2 DEF A!Does
  <2> QED BY <2>1, <2>2, <2>3, <2>4, <2>5 DEF UnitsTyped
<1>3. ASSUME NEW u \in A!Units, NEW c, A!DoesHalf(c, u) PROVE Typed
  BY <1>3 DEF A!DoesHalf, A!With, A!Without, A!units, UnitsTyped
<1>4. ASSUME A!Fault PROVE a_faults' \in 0..A_MaxFaults
  BY <1>4, HostAssumption DEF A!Fault, A!AutostartAssumption, UnitsTyped
<1>5. ASSUME NEW u \in A!Units, NEW action \in {"enable", "disable"}, A!Run(u, action) PROVE UnitsTyped'
  BY <1>5 DEF A!Run, A!units, UnitsTyped
<1>6. ASSUME A!StepDone PROVE UnitsTyped'
  BY <1>1, <1>2, <1>6 DEF A!StepDone, Active, Unit, UnitsTyped
<1>7. ASSUME A!StepRefused PROVE UnitsTyped'
  BY <1>7 DEF A!StepRefused, A!units, UnitsTyped
<1>8. ASSUME A!StepFails PROVE UnitsTyped'
  BY <1>1, <1>3, <1>4, <1>8 DEF A!StepFails, Active, Unit, UnitsTyped
<1>9. ASSUME A!Kill PROVE UnitsTyped'
  BY <1>4, <1>9 DEF A!Kill, A!units, UnitsTyped
<1>10. ASSUME A!Reboot PROVE UnitsTyped'
  BY <1>10 DEF A!Reboot, A!AtBoot, UnitsTyped
<1>11. ASSUME UNCHANGED a_vars PROVE UnitsTyped'
  BY <1>11 DEF a_vars, UnitsTyped
<1> QED BY <1>5, <1>6, <1>7, <1>8, <1>9, <1>10, <1>11 DEF A!Next

LEMMA AutostartTypes == HostSpec => []A!TypeOK
<1>1. HostInit => UnitsTyped
  <2> SUFFICES ASSUME A!Init PROVE UnitsTyped
    BY DEF HostInit
  <2> QED BY HostAssumption DEF A!Init, A!AutostartAssumption, UnitsTyped
<1>2. BootInv /\ UnitsTyped /\ [HostNext]_all => UnitsTyped'
  BY UnitsTypedNext, StepsOfHost
<1>3. BootInv /\ UnitsTyped => A!TypeOK
  <2> SUFFICES ASSUME BootInv, UnitsTyped PROVE A!TypeOK
    OBVIOUS
  <2>1. ASSUME Active
        PROVE  Unit \in A!Units /\ Action \in {"enable", "disable"} /\ a_op.at \in DOMAIN A!Script(Unit, Action)
    <3>1. /\ a_platform \in A!Platforms /\ Unit \in A!Units /\ Action \in {"enable", "disable"} /\ a_op.at \in Nat \ {0}
          /\ a_op.at <= Len(A!Script(Unit, Action))
      BY <2>1 DEF BootInv, Scripts, Unit, Action
    <3>2. /\ Len(A!Script(Unit, Action)) \in Nat \ {0}
          /\ DOMAIN A!Script(Unit, Action) = 1..Len(A!Script(Unit, Action))
      BY <3>1, ScriptIsList
    <3> QED BY <3>1, <3>2
  <2> QED BY <2>1 DEF BootInv, Scripts, UnitsTyped, Active, Unit, Action, A!TypeOK
<1> QED BY <1>1, <1>2, <1>3, BootHolds, PTL DEF HostSpec

\* Every part is of its type, whatever its commands overlap with and wherever they stop.
THEOREM HostTypeOKHolds == HostSpec => []HostTypeOK
<1> DEFINE Parts == {"config", "sshd", "reports", "processes", "mail", "autostart", "texts", "load"}
<1>1. HostInit => part \in Parts
  BY DEF HostInit
<1>2. part \in Parts /\ [HostNext]_all => (part \in Parts)'
  BY DEF HostNext, OnlyC, OnlyH, OnlyR, OnlyP, OnlyM, OnlyA, OnlyT, OnlyL, Rest, all
<1>3. ASSUME part \in Parts, C!TypeOK, H!TypeOK, R!TypeOK, P!TypeOK, M!TypeOK, A!TypeOK, T!TypeOK, L!TypeOK
      PROVE  HostTypeOK
  <2>1. CASE part = "config"
    BY <1>3, <2>1 DEF HostTypeOK
  <2>2. CASE part = "sshd"
    BY <1>3, <2>2 DEF HostTypeOK
  <2>3. CASE part = "reports"
    BY <1>3, <2>3 DEF HostTypeOK
  <2>4. CASE part = "processes"
    BY <1>3, <2>4 DEF HostTypeOK
  <2>5. CASE part = "mail"
    BY <1>3, <2>5 DEF HostTypeOK
  <2>6. CASE part = "autostart"
    BY <1>3, <2>6 DEF HostTypeOK
  <2>7. CASE part = "texts"
    BY <1>3, <2>7 DEF HostTypeOK
  <2>8. CASE part = "load"
    BY <1>3, <2>8 DEF HostTypeOK
  <2> QED BY <1>3, <2>1, <2>2, <2>3, <2>4, <2>5, <2>6, <2>7, <2>8
<1> QED BY <1>1, <1>2, <1>3, ConfigTypes, SshdTypes, ReportTypes, ScanTypes, MailTypes, AutostartTypes, TextTypes,
          LoadTypes, PTL DEF HostSpec
=============================================================================
