------------------------------- MODULE MCMeetings -------------------------------
(***************************************************************************)
(* The instance of Meetings for TLC.  A behaviour is one of two scenes: two *)
(* requests at a time and no job; or the reminder job and one request at a  *)
(* time, of those that change what the job looks at.                        *)
(***************************************************************************)
EXTENDS MeetingReminders, TLC

CONSTANTS m1, p1, w1, w2

VARIABLE scene

OneMeeting == {m1}
OnePerson == {p1}
TwoWorkers == {w1, w2}
Before == {1, 2}

Busy == {w \in Workers : request[w] # Idle}
Requests == scene = "requests" /\ Next /\ UNCHANGED jobVars
ReminderScene ==
    /\ scene = "reminders"
    /\ NextWithReminders
    /\ Cardinality(Busy') <= 1
    /\ \A m \in DOMAIN meetings' : meetings'[m].events = {} /\ ~meetings'[m].recorded

MCInit == InitWithReminders /\ scene \in {"requests", "reminders"}
MCSpec == MCInit /\ [][(Requests \/ ReminderScene) /\ UNCHANGED scene]_<<vars, jobVars, scene>>

(* Interchangeable in every property. *)
Symmetry == Permutations(TwoWorkers)
==============================================================================
