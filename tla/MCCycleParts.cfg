SPECIFICATION PartsSpec
CONSTANTS
    MaxLine = 2
    MaxTime = 4
    Interval = 2
    Cap = 2
    MaxFaults = 2
    L_StartAtEnd = TRUE
    L_Buf = 2
    L_Limit = 3
    L_Sizes <- MCSizes
    L_LateRotation = FALSE
    L_Legacy = {2}
    L_MaxFiles = 2
    L_MaxRecords = 3
    L_MaxTruncations = 1
    N_IPs = {"a", "b"}
    N_Family <- MCFamily
    N_Ports = {22, 443, 2222}
    N_Default = 22
    N_PortLists <- MCPortLists
    N_NoIP = "none"
    N_MaxLegacy = 3
    N_MaxFaults = 2
INVARIANTS PartsTypeOK ReadOnce RecordedIsTold NothingSkipped AuditPace
PROPERTIES ReadToEnd Enforced ProtectedStays Settles AuditsHappen
