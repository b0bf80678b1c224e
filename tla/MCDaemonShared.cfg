SPECIFICATION Spec
CONSTANTS
    Rules = {r1, r2}
    IPs = {a}
    Users = {}
    NoUser = NoUser
    NoRule = NoRule
    CountByUser = {}
    EventLogs = {}
    MaxAttempts <- FirstFailure
    FindTime <- Ten
    BanTime <- Two
    SuccessGrace <- Zero
    Tools = {"iptables"}
    NoAct = NoAct
    Inherited = {}
    Configs <- Production
    StartAtEnd = FALSE
    Lines <- FailLines
    MaxBatch = 2
    MaxTime = 2
    MaxLog = 1
    MaxFaults = 1
PROPERTIES SharedBlockStays
CHECK_DEADLOCK FALSE
