SPECIFICATION FairSpec
CONSTANTS
    Rules = {r1, r2}
    IPs = {a}
    Users = {}
    NoUser = NoUser
    NoRule = NoRule
    CountByUser = {}
    EventLogs = {r2}
    MaxAttempts <- FirstFailure
    FindTime <- Two
    BanTime <- One
    SuccessGrace <- Zero
    Tools = {"netsh"}
    NoAct = NoAct
    Inherited = {NoAct, "notify"}
    Configs <- WithWhitelist
    StartAtEnd = FALSE
    Lines <- FailLines
    MaxBatch = 1
    MaxTime = 3
    MaxLog = 1
    MaxFaults = 1
PROPERTIES OverReleased CaughtUp
CHECK_DEADLOCK FALSE
