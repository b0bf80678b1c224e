SPECIFICATION BackSpec
CONSTANTS
    Daily = Daily
    Operator = Operator
    Procs = {Daily, Operator}
    NoProc = NoProc
    MaxVersion = 4
    Bad = {3}
    Refused = {2}
    Corrupt = Corrupt
    None = None
    MaxFaults = 1
    Mail = Mail
    Hook = Hook
    Q_Channels = {Mail, Hook}
    Q_Setups <- Every
    Q_Cap = 1
    Q_MaxItems = 2
    Q_Interval = 1
    Q_Lifetime = 2
    Q_Hour = 1
    Q_RetryAfters = {0, 2}
    Q_MaxEvents = 1
    Q_MaxTime = 6
    Q_LastEvent = 0
    Q_MaxFaults = 1
INVARIANTS TypeOK VerifiedOnly RollbackReady AtRest
PROPERTIES NoDowngrade ServiceBack Drains
