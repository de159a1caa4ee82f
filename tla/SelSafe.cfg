CONSTANTS
    Keys = {1, 2, 3}
    Size <- MCSize
    Groups = {g1}
    NoGroup = none
    MaxKeep = 1
    RuleCount = 2
    MaxTime = 2
    MaxNow = 1
    Limits <- MCLimits
    Parts = 2
    MaxRuns = 2
SPECIFICATION MCSpec
INVARIANTS TypeOK ExclusionsWin SelectionIsExact BlastRadius
PROPERTY RepeatFindsNothing
CHECK_DEADLOCK FALSE
