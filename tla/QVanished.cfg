CONSTANTS
    Keys = {k1, k2}
    Jobs = {j1}
    LockOf <- OneLock
    Retention = 1
    Workers = 2
    ChunkSize = 2
    MaxStops = 0
    DeleteErrors = FALSE
    MaxWrites = 0
    MaxTime = 1
SPECIFICATION Spec
INVARIANT RestorableUntilPurge
CHECK_DEADLOCK FALSE
