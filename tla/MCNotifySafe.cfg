SPECIFICATION Spec
CONSTANTS
    Mail = Mail
    Hook = Hook
    Channels = {Mail, Hook}
    Setups <- Changing
    Cap = 1
    MaxItems = 2
    Interval = 1
    Lifetime = 1
    Hour = 2
    RetryAfters = {0}
    MaxEvents = 3
    MaxTime = 2
    LastEvent = 1
    MaxFaults = 1
INVARIANTS TypeOK QueueBounded Repeats
PROPERTIES Delivered
CHECK_DEADLOCK FALSE
