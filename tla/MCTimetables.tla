---------------------------- MODULE MCTimetables ----------------------------
(* Small schools for model-checking Timetables: classes a and b in one term. *)
EXTENDS Timetables, TLC

CONSTANTS a, b, term, c1, c2, c3

(* Class a has courses of tutors 1 and 2, class b one of tutor 1. *)
SharedClassOf == c1 :> a @@ c2 :> a @@ c3 :> b
SharedTutorOf == c1 :> 1 @@ c2 :> 2 @@ c3 :> 1

(* Class a alone, with two courses of two tutors. *)
PairClassOf == c1 :> a @@ c2 :> a
PairTutorOf == c1 :> 1 @@ c2 :> 2

(* Class a has three courses of three tutors. *)
OneClassOf == c1 :> a @@ c2 :> a @@ c3 :> a
ThreeTutorOf == c1 :> 1 @@ c2 :> 2 @@ c3 :> 3

(* Nobody is reassigned; or the course of class b may go to tutor 2. *)
Fixed == [c \in Courses |-> {TutorOf[c]}]
Movable == c1 :> {1} @@ c2 :> {2} @@ c3 :> {1, 2}

OneTermOf == [c \in Courses |-> term]
NoMaximum == [c \in Courses |-> 0]
OneMaximum == c1 :> 0 @@ c2 :> 0 @@ c3 :> 1

Config(days, limit) ==
    [days |-> days, limit |-> limit, start |-> 480, duration |-> 40,
     breakAfter |-> 1, break |-> 20]

(* A morning of two, or three, periods with a break after the first. *)
TwoPeriods == {Config(<<"MONDAY">>, 2)}
ThreePeriods == {Config(<<"MONDAY">>, 3)}

(* One or two periods a day, on one day or two. *)
Various == {Config(<<"MONDAY">>, 2), Config(<<"MONDAY", "TUESDAY">>, 1)}

Interchangeable ==
    Permutations(Timetables) \cup Permutations(Swaps) \cup Permutations(Workers)
=============================================================================
