CONSTANTS
    i1 = i1
    s1 = s1
    s2 = s2
    w1 = w1
    w2 = w2
    k1 = k1
    k2 = k2
    c1 = c1
    c2 = c2
    Courses <- TwoCourses
    Classes <- TwoClasses
    ClassOf <- OfFirst
    Remarks <- OneRemark
    Works <- OneWork
    Students <- TwoStudents
    Workers <- TwoWorkers
    QuizTerms <- Windows
    AssignmentTerms <- Deadlines
    Page = 1
    MaxTime = 3
    MaxPaper = 1
    Offsets <- Before
    Interval = 1
    Limit = 1
CHECK_DEADLOCK FALSE
SPECIFICATION MCSpec
SYMMETRY Symmetry
INVARIANTS TermsStand SubmittedOnce FoundWithinPage RemindedOnce RanksAreFair CardsFit
PROPERTIES RemarksStay
