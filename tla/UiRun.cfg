CONSTANTS
    Keys = {1, 2, 3, 4}
    Contents = {c1, c2}
    Small = {c2}
    Protected = {4}
    Matched = {1, 2}
    ChunkSize = 2
    Large = c1
    MaxTime = 1
SPECIFICATION MCSpec
INVARIANTS RunTypeOK QuietContentsStay ProtectedKeysStay OneIsKept UnmatchedContentsStay RunAddsUp
CHECK_DEADLOCK FALSE
