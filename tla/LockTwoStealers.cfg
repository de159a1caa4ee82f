CONSTANTS
    Runs = {r1, r2, r3}
    TTL = 2
    MaxSkew = 0
    Conflict = FALSE
    MaxTime = 3
SPECIFICATION Spec
INVARIANT MutualExclusion
CHECK_DEADLOCK FALSE
