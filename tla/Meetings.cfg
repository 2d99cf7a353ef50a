CONSTANTS
    None = None
    m1 = m1
    p1 = p1
    w1 = w1
    w2 = w2
    Meetings <- OneMeeting
    People <- OnePerson
    Workers <- TwoWorkers
    Offsets <- Before
    Interval = 1
    Limit = 1
    MaxTime = 2
CHECK_DEADLOCK FALSE
SPECIFICATION MCSpec
SYMMETRY Symmetry
INVARIANTS TypeOK ToldTheTruth RemindedOnce
PROPERTIES OnlyForward
