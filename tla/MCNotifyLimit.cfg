SPECIFICATION Spec
CONSTANTS
    Mail = Mail
    Hook = Hook
    Channels = {Mail, Hook}
    Setups <- Every
    Cap = 1
    MaxItems = 2
    Interval = 1
    Lifetime = 1
    Hour = 2
    RetryAfters = {0}
    MaxEvents = 2
    MaxTime = 2
    LastEvent = 1
    MaxFaults = 0
INVARIANTS QueueWithinLimit
CHECK_DEADLOCK FALSE
