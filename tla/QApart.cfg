CONSTANTS
    Keys = {k1,k2}
    Jobs = {j1, j2,j3}
    LockOf <- OwnLocks
    Retention = 1
    Workers = 2
    ChunkSize = 1
    MaxStops = 1
    DeleteErrors = TRUE
    MaxWrites = 0
    MaxTime = 1
SPECIFICATION Spec
INVARIANTS Preserved NoOrphans
CHECK_DEADLOCK FALSE
SYMMETRY Symmetry
