\* One request after the other; two classes that share a tutor.
SPECIFICATION Spec
CONSTANTS
    a = a
    b = b
    term = term
    c1 = c1
    c2 = c2
    c3 = c3
    Classes = {a, b}
    Terms = {term}
    Courses = {c1, c2, c3}
    ClassOf <- SharedClassOf
    TermOf <- OneTermOf
    TutorOf <- SharedTutorOf
    Candidates <- Movable
    MaxPeriods <- OneMaximum
    Configs <- Various
    MaxSlot = 2
    Timetables = {t1, t2, t3}
    Swaps = {s1, s2}
    Workers = {w1}
    MaxFaults = 0
SYMMETRY Interchangeable
INVARIANTS
    LiveIsNewest
    PlanIsSound
PROPERTIES
    LessonsKept
CHECK_DEADLOCK FALSE
