--------------------------- MODULE DeadlineReminders ---------------------------
(***************************************************************************)
(* Quizzes and assignments together with the job that reminds of their      *)
(* deadlines:                                                               *)
(*   internal/scheduler/jobs/deadline_reminder_job.go                       *)
(*   internal/repository/postgres/assignment.go (ListByDeadlineRange)       *)
(*   internal/repository/postgres/quiz.go (ListByAvailabilityEndRange)      *)
(*                                                                          *)
(* A run makes two passes, each with a clock, a loop and a table of its     *)
(* own, and the second comes whatever became of the first: pass says which  *)
(* of them is followed.                                                     *)
(***************************************************************************)
EXTENDS Coursework

CONSTANTS Offsets, Interval, Limit

VARIABLES pass, job, runs, punctual, flawless, reminded, again, since

jobVars == <<pass, job, runs, punctual, flawless, reminded, again, since>>

(* status = PUBLISHED, in the query and once more for each row.  Who has    *)
(* handed in already is reminded all the same.                              *)
Published(i, kind) == Is(i, kind) /\ works[i].status = "PUBLISHED"
DueAssignments ==
    [i \in Works |-> IF Published(i, "assignment") THEN {works[i].terms.deadline} ELSE {}]
DueQuizzes == [i \in Works |-> IF Published(i, "quiz") THEN {works[i].terms.close} ELSE {}]
DueWorks == IF pass = "assignment" THEN DueAssignments ELSE DueQuizzes

R == INSTANCE Reminders WITH Items <- Works, due <- DueWorks

ASSUME DeadlineRemindersAssumption == R!RemindersParameters

InitWithReminders == Init /\ pass \in {"assignment", "quiz"} /\ R!Init

AssignmentPass == pass = "assignment" /\ UNCHANGED <<tables, req, histories, pass>> /\ R!Run
QuizPass == pass = "quiz" /\ UNCHANGED <<tables, req, histories, pass>> /\ R!Run

NextWithReminders == (Next /\ UNCHANGED pass /\ R!Observe) \/ AssignmentPass \/ QuizPass

SpecWithReminders == InitWithReminders /\ [][NextWithReminders]_<<vars, jobVars>>

(* Each deadline is announced once at each of the times before it, as long  *)
(* as the job runs when it should, whatever requests do to the tables.      *)
RemindedOnce == R!RemindedOnce
===============================================================================
