CONSTANTS
    Keys = {k1, k2}
    Jobs = {j1, j2, j3}
    LockOf <- OneLock
    Retention = 1
    Workers = 2
    ChunkSize = 2
    MaxStops = 2
    DeleteErrors = FALSE
    MaxWrites = 1
    MaxTime = 1
SPECIFICATION Spec
INVARIANTS TypeOK Preserved NoOrphans AgreeAtRest
PROPERTIES LogKeepsLines ImplementsBin
SYMMETRY Symmetry
CHECK_DEADLOCK FALSE
