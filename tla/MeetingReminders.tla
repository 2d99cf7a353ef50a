---------------------------- MODULE MeetingReminders ----------------------------
(***************************************************************************)
(* Meetings together with the job that reminds of them:                     *)
(*   internal/scheduler/jobs/meeting_reminder_job.go                        *)
(*   internal/repository/postgres/meeting.go (ListByDateRange)              *)
(*   internal/repository/postgres/enrollment.go (ListByClass)               *)
(***************************************************************************)
EXTENDS Meetings, FiniteSets

CONSTANTS Offsets, Interval, Limit

VARIABLES job, runs, punctual, flawless, reminded, again, since

jobVars == <<job, runs, punctual, flawless, reminded, again, since>>

(* Those that are still to come: the others are listed and passed over.     *)
DueMeetings ==
    [m \in Meetings |-> IF Is(m, "SCHEDULED") THEN {meetings[m].start} ELSE {}]

R == INSTANCE Reminders WITH Items <- Meetings, due <- DueMeetings

ASSUME MeetingRemindersAssumption == R!RemindersParameters

InitWithReminders == Init /\ R!Init

MeetingReminderRun == UNCHANGED <<meetings, request, notices, was>> /\ R!Run

NextWithReminders == (Next /\ R!Observe) \/ MeetingReminderRun

SpecWithReminders == InitWithReminders /\ [][NextWithReminders]_<<vars, jobVars>>

(* Each meeting is announced once before it begins, as long as the job runs *)
(* when it should (R!RemindedOnce), whatever requests do to the table.      *)
RemindedOnce == R!RemindedOnce
==============================================================================
