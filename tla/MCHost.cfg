SPECIFICATION HostSpec
CONSTANTS
    Absent = Absent
    Torn = Torn
    Nothing = Nothing
    Empty = Empty
    Garbled = Garbled
    C_Procs = {"p1", "p2"}
    C_IPs = {"ip"}
    C_Others = {"default", "edited"}
    C_DefaultOther = "default"
    H_SecureProcs = {"s1", "s2"}
    H_KeepProcs = {"k1"}
    H_Body <- MCBody
    H_Begin = "BEGIN"
    H_End = "END"
    H_Edits = {"broken"}
    H_Invalid = {"broken", "refused"}
    H_Originals <- MCOriginals
    H_Crews <- MCCrews
    R_Scans = {"s1", "s2"}
    R_NoScan = "none"
    R_Keep = 2
    R_MaxTries = 4
    P_MaxPid = 2
    P_Names = {"kinsing", "xmrig", "vim"}
    P_Payloads = {"kinsing"}
    P_Suspicious = {"kinsing", "xmrig"}
    P_DirectKill = TRUE
    M_Recipients <- MCRecipients
    M_Presets <- MCPresets
    M_PresetHost <- MCPresetHost
    M_Hosts = {"own"}
    M_NoHost = "none"
    M_Ports = {0, 465, 25}
    M_ImplicitTLS = 465
    M_MaxFaults = 2
    A_MaxFaults = 2
    T_MaxItems = 3
    T_TextLimit = 7
    T_DetailLimit = 5
    L_Files <- Usual
    L_Spelled <- MCSpelled
    L_Alike <- Near
    L_Locations <- Where
INVARIANTS HostTypeOK ProductionOnRequest ProcessesSpared MailKept AutostartKept AlertsTrue LoadedAsMeant
PROPERTIES ConfigKept SshdKept ReportsKept
