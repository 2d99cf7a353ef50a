\* Two requests at a time on one class, with a failure.
SPECIFICATION Spec
CONSTANTS
    a = a
    b = b
    term = term
    c1 = c1
    c2 = c2
    c3 = c3
    Classes = {a}
    Terms = {term}
    Courses = {c1, c2}
    ClassOf <- PairClassOf
    TermOf <- OneTermOf
    TutorOf <- PairTutorOf
    Candidates <- Fixed
    MaxPeriods <- NoMaximum
    Configs <- TwoPeriods
    MaxSlot = 2
    Timetables = {t1, t2}
    Swaps = {s1}
    Workers = {w1, w2}
    MaxFaults = 1
SYMMETRY Interchangeable
INVARIANTS
    TypeOK
    TutorTeachesCourse
    AnswersStand
PROPERTIES
    ArchivedStaysArchived
CHECK_DEADLOCK FALSE
