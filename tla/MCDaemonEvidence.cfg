SPECIFICATION Spec
CONSTANTS
    Rules = {r1, r2}
    IPs = {a}
    Users = {u}
    NoUser = NoUser
    NoRule = NoRule
    CountByUser = {r1}
    EventLogs = {r2}
    MaxAttempts <- SecondFailure
    FindTime <- Ten
    BanTime <- One
    SuccessGrace <- One
    Tools = {"nft"}
    NoAct = NoAct
    Inherited = {}
    Configs <- NotifyOnEvents
    StartAtEnd = TRUE
    Lines <- UserLines
    MaxBatch = 2
    MaxTime = 2
    MaxLog = 3
    MaxFaults = 2
PROPERTIES ThresholdHonoured 
CHECK_DEADLOCK FALSE
