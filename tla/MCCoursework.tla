----------------------------- MODULE MCCoursework -----------------------------
(***************************************************************************)
(* The instance of Coursework and Progress for TLC: the code carries        *)
(* nothing from one to the other.  A behaviour is one of three scenes: two  *)
(* requests at a time for quizzes and assignments and no job; the reminder  *)
(* job and one request at a time, of those that change what it looks at; or *)
(* requests for progress and report cards.                                  *)
(***************************************************************************)
EXTENDS DeadlineReminders, Progress, TLC

CONSTANTS i1, s1, s2, w1, w2, k1, k2, c1, c2

VARIABLE scene

OneWork == {i1}
TwoStudents == {s1, s2}
TwoWorkers == {w1, w2}
(* Open at 1, so that 2 is the instant the window ends and 3 is late.       *)
Windows == {[open |-> 0, close |-> 2], [open |-> 1, close |-> 3]}
(* Late work refused, taken, and taken up to a cutoff.                      *)
Deadlines == {[deadline |-> 1, cutoff |-> {}, late |-> FALSE],
              [deadline |-> 1, cutoff |-> {}, late |-> TRUE],
              [deadline |-> 1, cutoff |-> {2}, late |-> TRUE]}
Before == {1, 2}
(* Attendance may name the other class. *)
TwoCourses == {k1, k2}
TwoClasses == {c1, c2}
OfFirst == [course \in TwoCourses |-> c1]
OneRemark == {"tutor"}

Busy == {w \in Workers : req[w] # Idle}
Requests == scene = "requests" /\ Next /\ UNCHANGED <<jobVars, progressVars>>
ReminderScene ==
    /\ scene = "reminders"
    /\ NextWithReminders
    /\ Cardinality(Busy') <= 1
    /\ \A w \in Busy' : req'[w].pc \in {"update", "publish", "delete"}
    /\ UNCHANGED progressVars

(* Two rows and one deletion; the second class, deletions and cards only    *)
(* with one request at a time.                                              *)
AtDesk == {w \in Workers : desk[w] # NoTask}
Creating(class) == {w \in Workers : desk[w].pc = "create" /\ desk[w].class = class}
SmallClass ==
    /\ Cardinality(DOMAIN progress) <= 2
    /\ c2 \notin gone /\ Cardinality(gone) # 2
    /\ gone # {} => RowsIn(c2) \cup Creating(c2) = {}
    /\ gone # {} /\ Creating(c1) # {} => DOMAIN progress = {}
    /\ Cardinality(AtDesk) = 2 =>
         gone \cup DOMAIN cards \cup RowsIn(c2) \cup Creating(c2) = {}
ProgressScene ==
    /\ scene = "progress"
    /\ ProgressNext
    /\ SmallClass'
    /\ UNCHANGED <<vars, jobVars>>

MCInit ==
    /\ InitWithReminders /\ ProgressInit
    /\ scene \in {"requests", "reminders", "progress"}
    /\ scene # "reminders" => pass = "quiz"
MCSpec ==
    /\ MCInit
    /\ [][(Requests \/ ReminderScene \/ ProgressScene) /\ UNCHANGED scene
         ]_<<vars, jobVars, progressVars, scene>>

Symmetry ==
    Permutations(TwoStudents) \cup Permutations(TwoWorkers) \cup Permutations(TwoCourses)
===============================================================================
