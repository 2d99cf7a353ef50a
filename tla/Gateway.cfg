CONSTANTS
    k1 = k1
    w1 = w1
    w2 = w2
    Keys = {k1}
    Workers = {w1, w2}
    Limit = 1
    BurstMultiplier = 2
    Window = 3
    BurstWindow = 1
    MaxHits = 5
    MaxFaults = 1
SPECIFICATION Spec
INVARIANTS BurstIsBounded DoneOnce ReplayIsEarned
PROPERTIES KeyIsReleased
CHECK_DEADLOCK FALSE
