CONSTANTS
    Uploads = {1, 2}
    KeyOf <- MCKeyOf
    Undated = {2}
    Cleaners = {c1, c2}
    MaxAge = 1
    MaxTime = 1
SPECIFICATION MCSpec
INVARIANTS TypeOK OnlyOldOnesGo OldOnesAreGone CountsAreTrue
CHECK_DEADLOCK FALSE
SYMMETRY Symmetry
