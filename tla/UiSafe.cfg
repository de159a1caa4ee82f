CONSTANTS
    Runs = {r1, r2}
    Seeds = {s1}
    Others = {o1, o2}
    Faults = {"lock", "thread"}
    MaxKills = 1
SPECIFICATION LiveSpec
INVARIANTS TypeOK ProgressIsMine
PROPERTIES EndReleasesItsOwn OneMutator GateOpens RunIsReported
CHECK_DEADLOCK FALSE
