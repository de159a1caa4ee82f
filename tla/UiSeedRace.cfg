CONSTANTS
    Runs = {r1}
    Seeds = {s1}
    Others = {o1, o2}
    Faults = {}
    MaxKills = 0
SPECIFICATION Spec
INVARIANT OneInFlight
CHECK_DEADLOCK FALSE
