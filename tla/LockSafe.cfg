CONSTANTS
    Runs = {r1, r2, r3}
    TTL = 2
    MaxSkew = 1
    Conflict = TRUE
    MaxTime = 3
SPECIFICATION SoloLiveSpec
INVARIANTS TypeOK MutualExclusion
PROPERTIES LiveLockStays ImplementsRunLock StaleLockIsTakenOver
CHECK_DEADLOCK FALSE
