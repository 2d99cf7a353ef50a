-------------------------------- MODULE Meetings --------------------------------
(***************************************************************************)
(* Virtual meetings of a class:                                             *)
(*   internal/service/meeting_service.go, internal/domain/meeting.go        *)
(*   internal/repository/postgres/meeting.go                                *)
(*   internal/handler/meeting_handler.go (JoinMeeting)                      *)
(*   migrations/000011_create_meetings.up.sql                               *)
(*                                                                          *)
(* Every operation gets a meeting, looks at its status, changes the copy it *)
(* holds and writes all of its columns.  Only the write is atomic with the  *)
(* row: between the two, other requests do the same.                        *)
(***************************************************************************)
EXTENDS Naturals

CONSTANTS
    Meetings,
    People,         \* who takes part
    Workers,        \* the requests under way
    None,           \* a NULL column, or no notice
    MaxTime         \* bound: the clock stops there

ASSUME MeetingsAssumption == MaxTime \in Nat /\ None \notin Nat \cup {"started", "cancelled"}

VARIABLES
    meetings,   \* the table: those of its domain exist
    request,    \* what each worker does
    notices,    \* the notices to a class that were set going
    was,        \* history: every status a meeting has had in the table
    now

vars == <<meetings, request, notices, was, now>>

(***************************************************************************)
(* Rows.  The columns an operation does not set are left out: title and     *)
(* the like go with start, the stamps of a cancellation with its status.    *)
(* An event is told from others of the same person and kind by nothing any  *)
(* code looks at, so that the array is the set of what it holds.            *)
(***************************************************************************)
Time == 0..MaxTime
Events == [who: People, event: {"JOIN", "LEAVE"}]

Scheduled == [status: {"SCHEDULED"}, start: Time, began: {None}, ended: {None},
              recorded: {FALSE}, events: SUBSET Events]
Live == [status: {"LIVE"}, start: Time, began: Time, ended: {None},
         recorded: {FALSE}, events: SUBSET Events]
Ended == {row \in [status: {"ENDED"}, start: Time, began: Time, ended: Time,
                   recorded: BOOLEAN, events: SUBSET Events] : row.began <= row.ended}
Cancelled == [status: {"CANCELLED"}, start: Time, began: {None}, ended: {None},
              recorded: {FALSE}, events: SUBSET Events]
Row == Scheduled \cup Live \cup Ended \cup Cancelled

Exists(m) == m \in DOMAIN meetings

(* seen is what the row was when it was read: the code does not keep it.    *)
Idle == [pc |-> "idle"]
Joining == [pc: {"join"}, meeting: Meetings, who: People]
Saving == [pc: {"save"}, meeting: Meetings, seen: Row, row: Row,
           notice: {None, "started", "cancelled"}]

Become(w, r) == request' = [request EXCEPT ![w] = r]
Finish(w) == Become(w, Idle)

Init ==
    /\ meetings = [m \in {} |-> {}] /\ request = [w \in Workers |-> Idle]
    /\ notices = {} /\ was = [m \in Meetings |-> {}]
    /\ now = 0

(***************************************************************************)
(* Scheduling                                                               *)
(***************************************************************************)
InFuture(start) == start >= now

(* Whether the tutor may host is read from courses, which no other          *)
(* operation here touches.                                                  *)
ScheduleMeeting(w, m, start) ==
    /\ request[w] = Idle
    /\ ~Exists(m) /\ was[m] = {} /\ InFuture(start)
    /\ LET row == [status |-> "SCHEDULED", start |-> start, began |-> None, ended |-> None,
                   recorded |-> FALSE, events |-> {}]
       IN  meetings' = [n \in DOMAIN meetings \cup {m} |-> IF n = m THEN row ELSE meetings[n]]
    /\ was' = [was EXCEPT ![m] = {"SCHEDULED"}]
    /\ notices' = notices \cup {[meeting |-> m, kind |-> "scheduled"]}
    /\ UNCHANGED <<request, now>>

(***************************************************************************)
(* The first half of an operation: what it reads, and what it makes of it   *)
(***************************************************************************)
ReadFor(w, m, row, notice) ==
    /\ Exists(m)
    /\ Become(w, [pc |-> "save", meeting |-> m, seen |-> meetings[m], row |-> row,
                  notice |-> notice])
    /\ UNCHANGED <<meetings, notices, was, now>>

(* A plausible slip: the status is not looked at. *)
MutantIs(m, status) == Exists(m)
Is(m, status) == Exists(m) /\ meetings[m].status = status

(* Only a start the request carries is compared with the clock: an edit of  *)
(* the title writes back a start that may have passed.                      *)
UpdateMeeting(w, m, start) ==
    /\ request[w] = Idle
    /\ Is(m, "SCHEDULED") /\ (start = meetings[m].start \/ InFuture(start))
    /\ ReadFor(w, m, [meetings[m] EXCEPT !.start = start], None)

Started(row) == [row EXCEPT !.status = "LIVE", !.began = now]
StartMeeting(w, m) ==
    /\ request[w] = Idle
    /\ Is(m, "SCHEDULED")
    /\ ReadFor(w, m, Started(meetings[m]), "started")

EndMeeting(w, m) ==
    /\ request[w] = Idle
    /\ Is(m, "LIVE")
    /\ ReadFor(w, m, [meetings[m] EXCEPT !.status = "ENDED", !.ended = now], None)

CancelMeeting(w, m) ==
    /\ request[w] = Idle
    /\ Is(m, "SCHEDULED")
    /\ ReadFor(w, m, [meetings[m] EXCEPT !.status = "CANCELLED"], "cancelled")

(* A plausible slip: the event replaces the array instead of joining it. *)
MutantWith(row, who, event) ==
    [row EXCEPT !.events = {[who |-> who, event |-> event]}]
With(row, who, event) ==
    [row EXCEPT !.events = @ \cup {[who |-> who, event |-> event]}]

(* The link is given out first, for a meeting that is to come too; whether  *)
(* the event was recorded does not matter to the answer.                    *)
JoinMeeting(w, m, who) ==
    /\ request[w] = Idle
    /\ Is(m, "SCHEDULED") \/ Is(m, "LIVE")
    /\ Become(w, [pc |-> "join", meeting |-> m, who |-> who])
    /\ UNCHANGED <<meetings, notices, was, now>>

JoinRecorded(w) ==
    /\ request[w].pc = "join"
    /\ LET m == request[w].meeting IN
         \/ Is(m, "LIVE") /\ ReadFor(w, m, With(meetings[m], request[w].who, "JOIN"), None)
         \/ ~Is(m, "LIVE") /\ Finish(w) /\ UNCHANGED <<meetings, notices, was, now>>

RecordParticipantJoin(w, m, who) ==
    /\ request[w] = Idle
    /\ Is(m, "LIVE")
    /\ ReadFor(w, m, With(meetings[m], who, "JOIN"), None)

RecordParticipantLeave(w, m, who) ==
    /\ request[w] = Idle
    /\ Exists(m)
    /\ ReadFor(w, m, With(meetings[m], who, "LEAVE"), None)

AddRecording(w, m) ==
    /\ request[w] = Idle
    /\ Is(m, "ENDED")
    /\ ReadFor(w, m, [meetings[m] EXCEPT !.recorded = TRUE], None)

(***************************************************************************)
(* The second half: all the columns, whatever the row has become            *)
(***************************************************************************)
(* A notice is sent by a goroutine that has the context of the request: if  *)
(* that is answered first, the notice is lost.                              *)
Noticed(m, kind) == IF kind = None THEN {} ELSE {[meeting |-> m, kind |-> kind]}

(* A plausible slip: the goroutine is started before the row is written. *)
MutantUpdateFails(w) ==
    LET r == request[w]
    IN  /\ r.pc = "save"
        /\ notices' = notices \cup Noticed(r.meeting, r.notice)
        /\ Finish(w)
        /\ UNCHANGED <<meetings, was, now>>
(* The row is gone, or the statement fails. *)
UpdateFails(w) ==
    /\ request[w].pc = "save"
    /\ Finish(w)
    /\ UNCHANGED <<meetings, notices, was, now>>

Update(w) ==
    LET r == request[w]
    IN  /\ r.pc = "save"
        /\ Exists(r.meeting)
        /\ meetings' = [meetings EXCEPT ![r.meeting] = r.row]
        /\ was' = [was EXCEPT ![r.meeting] = @ \cup {r.row.status}]
        /\ notices' = notices \cup Noticed(r.meeting, r.notice)
        /\ Finish(w)
        /\ UNCHANGED now

(* The class goes, and its meetings by cascade. *)
DeleteClass ==
    /\ DOMAIN meetings # {}
    /\ meetings' = [m \in {} |-> {}]
    /\ UNCHANGED <<request, notices, was, now>>

Tick == now < MaxTime /\ now' = now + 1 /\ UNCHANGED <<meetings, request, notices, was>>

Reads(w) ==
    \E m \in Meetings :
      \/ \E t \in Time : ScheduleMeeting(w, m, t) \/ UpdateMeeting(w, m, t)
      \/ StartMeeting(w, m) \/ EndMeeting(w, m) \/ CancelMeeting(w, m) \/ AddRecording(w, m)
      \/ \E p \in People : \/ JoinMeeting(w, m, p)
                           \/ RecordParticipantJoin(w, m, p) \/ RecordParticipantLeave(w, m, p)

Next ==
    \/ \E w \in Workers : Reads(w) \/ JoinRecorded(w) \/ UpdateFails(w) \/ Update(w)
    \/ DeleteClass
    \/ Tick

Spec == Init /\ [][Next]_vars

(***************************************************************************)
(* Properties                                                               *)
(***************************************************************************)
(* The stamps of every row fit its status: no overlap of operations leaves  *)
(* a meeting that was cancelled and began, or one that ended before that.   *)
TypeOK ==
    /\ DOMAIN meetings \subseteq Meetings /\ meetings \in [DOMAIN meetings -> Row]
    /\ request \in [Workers -> {Idle} \cup Joining \cup Saving]
    /\ notices \subseteq [meeting: Meetings, kind: {"scheduled", "started", "cancelled"}]
    /\ was \in [Meetings -> SUBSET {"SCHEDULED", "LIVE", "ENDED", "CANCELLED"}]
    /\ now \in Time

Meant(kind) == CASE kind = "scheduled" -> "SCHEDULED"
                 [] kind = "started" -> "LIVE"
                 [] kind = "cancelled" -> "CANCELLED"

(* Nobody is told of what did not happen: a class hears that its meeting    *)
(* was scheduled, started or cancelled only if it was.                      *)
ToldTheTruth == \A n \in notices : Meant(n.kind) \in was[n.meeting]

(* "SCHEDULED -> LIVE -> ENDED", or cancelled before it began; a meeting is *)
(* not moved once it began, and what was recorded of it stays.              *)
Forward(old, new) ==
    /\ <<old.status, new.status>> \in
         {<<s, s>> : s \in {"SCHEDULED", "LIVE", "ENDED", "CANCELLED"}} \cup
         {<<"SCHEDULED", "LIVE">>, <<"SCHEDULED", "CANCELLED">>, <<"LIVE", "ENDED">>}
    /\ old.status # "SCHEDULED" => new.start = old.start /\ new.began = old.began
    /\ old.status = "ENDED" => new.ended = old.ended
    /\ old.recorded => new.recorded
    /\ old.events \subseteq new.events

Overtaken(w) ==
    /\ request[w].pc = "save" /\ Exists(request[w].meeting)
    /\ request[w].seen # meetings[request[w].meeting]

(* A meeting only goes back, or forgets who took part, by an operation that *)
(* another overtook between its read and its write.                         *)
OnlyForward ==
    [][\A m \in DOMAIN meetings \cap DOMAIN meetings' :
         \/ Forward(meetings[m], meetings'[m])
         \/ \E w \in Workers : Overtaken(w) /\ request[w].meeting = m /\ request'[w] = Idle]_vars
==============================================================================
