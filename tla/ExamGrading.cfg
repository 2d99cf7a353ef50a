\* Students, tutors and the job write one attempt of two answers.
SPECIFICATION Spec
CONSTANTS
    choice = choice
    essay = essay
    Students = {s1}
    Workers = {w1, w2}
    Windows <- ShortWindow
    Duration = 1
    Questions = {choice, essay}
    Objective = {choice}
    Subjective = {essay}
    Marks <- MarksOf
    MaxGrade = 2
    MaxTime = 3
    MaxFaults = 0
SYMMETRY Interchangeable
INVARIANTS
    RowsAgree
    ScoreMatchesMarks
CHECK_DEADLOCK FALSE
