SPECIFICATION Spec
CONSTANTS
    Rules = {r1, r2}
    IPs = {a}
    Users = {}
    NoUser = NoUser
    NoRule = NoRule
    CountByUser = {}
    EventLogs = {}
    MaxAttempts <- FirstFailure
    FindTime <- Two
    BanTime <- One
    SuccessGrace <- Zero
    Tools = {"nft", "iptables"}
    NoAct = NoAct
    Inherited = {}
    Configs <- EveryKind
    StartAtEnd = FALSE
    Lines <- FailLines
    MaxBatch = 2
    MaxTime = 3
    MaxLog = 1
    MaxFaults = 1
INVARIANTS TypeOK Agreement CleanRelease
PROPERTIES ActiveBlockStays DryRunPreserves
CHECK_DEADLOCK FALSE
