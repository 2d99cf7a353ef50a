\* The clock, faults and the job around one attempt of one answer.
SPECIFICATION Spec
CONSTANTS
    choice = choice
    essay = essay
    Students = {s1}
    Workers = {w1, w2}
    Windows <- LongWindow
    Duration = 1
    Questions = {choice}
    Objective = {choice}
    Subjective = {}
    Marks <- ChoiceMarks
    MaxGrade = 2
    MaxTime = 5
    MaxFaults = 1
SYMMETRY Interchangeable
INVARIANTS
    AnswersInTime
    WindowCloses
CHECK_DEADLOCK FALSE
