SPECIFICATION Spec
CONSTANTS
    Rules = {r1}
    IPs = {a}
    Users = {}
    NoUser = NoUser
    NoRule = NoRule
    CountByUser = {}
    EventLogs = {r1}
    MaxAttempts <- SecondFailure
    FindTime <- Ten
    BanTime <- Two
    SuccessGrace <- Zero
    Tools = {"netsh"}
    NoAct = NoAct
    Inherited = {}
    Configs <- Production
    StartAtEnd = FALSE
    Lines <- FailLines
    MaxBatch = 2
    MaxTime = 2
    MaxLog = 2
    MaxFaults = 1
INVARIANTS EventLogCountsOnce
CHECK_DEADLOCK FALSE
