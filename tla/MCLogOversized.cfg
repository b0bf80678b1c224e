SPECIFICATION Spec
CONSTANTS
    StartAtEnd = FALSE
    Buf = 2
    Limit = 3
    Sizes = {1, 2, 4}
    LateRotation = FALSE
    Legacy = {}
    MaxFiles = 1
    MaxRecords = 2
    MaxTruncations = 0
INVARIANTS OversizedDiscarded
CHECK_DEADLOCK FALSE
