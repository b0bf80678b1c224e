SPECIFICATION Spec
CONSTANTS
    Rules = {r1, r2}
    IPs = {a}
    Users = {}
    NoUser = NoUser
    NoRule = NoRule
    CountByUser = {}
    EventLogs = {}
    MaxAttempts <- FirstFailure
    FindTime <- Ten
    BanTime <- Two
    SuccessGrace <- Zero
    Tools = {"nft"}
    NoAct = NoAct
    Inherited = {}
    Configs <- WithCustom
    StartAtEnd = FALSE
    Lines <- FailLines
    MaxBatch = 2
    MaxTime = 2
    MaxLog = 1
    MaxFaults = 0
INVARIANTS WhitelistReleases
CHECK_DEADLOCK FALSE
