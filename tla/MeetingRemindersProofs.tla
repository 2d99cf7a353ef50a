------------------------ MODULE MeetingRemindersProofs ------------------------
(***************************************************************************)
(* Proofs about Meetings and MeetingReminders, for any number of meetings,  *)
(* people and requests.  The invariant adds two facts to TypeOK: no stamp   *)
(* lies in the future, and what a request is about to write is a step       *)
(* forward from what it read.  With their reminder job, meetings implement  *)
(* Reminders: to the job, scheduling, editing, starting, ending, cancelling *)
(* and deleting a meeting are a table that changes, and what is proved of   *)
(* the job for any such table holds of theirs.                              *)
(***************************************************************************)
EXTENDS MeetingReminders, TLAPS


Past(row) == row.began # None => row.began <= now

Fits(r) ==
    /\ Past(r.row) /\ Forward(r.seen, r.row)
    /\ r.notice = "started" => r.row.status = "LIVE"
    /\ r.notice = "cancelled" => r.row.status = "CANCELLED"

IInv ==
    /\ TypeOK /\ ToldTheTruth
    /\ \A m \in DOMAIN meetings : Past(meetings[m])
    /\ \A w \in Workers : request[w].pc = "save" => Fits(request[w])

(* The step that OnlyForward allows. *)
StepsForward ==
    \A m \in DOMAIN meetings \cap DOMAIN meetings' :
       \/ Forward(meetings[m], meetings'[m])
       \/ \E w \in Workers : Overtaken(w) /\ request[w].meeting = m /\ request'[w] = Idle

(***************************************************************************)
(* Rows                                                                     *)
(***************************************************************************)
(* A row tells by its status which stamps it has. *)
LEMMA RowShape ==
  ASSUME NEW row \in Row
  PROVE  /\ row.status \in {"SCHEDULED", "LIVE", "ENDED", "CANCELLED"}
         /\ row.status = "SCHEDULED" => row \in Scheduled
         /\ row.status = "LIVE" => row \in Live
         /\ row.status = "ENDED" => row \in Ended
         /\ row.events \subseteq Events
  BY DEF Row, Scheduled, Live, Ended, Cancelled

(* A row is a step forward from itself. *)
LEMMA ForwardStays ==
  ASSUME NEW row \in Row
  PROVE  Forward(row, row)
  BY RowShape DEF Forward

(* Taking part leaves a row what it is, with one more event. *)
LEMMA WithIsForward ==
  ASSUME NEW row \in Row, NEW who \in People, NEW event \in {"JOIN", "LEAVE"}
  PROVE  /\ With(row, who, event) \in Row
         /\ With(row, who, event).began = row.began
         /\ Forward(row, With(row, who, event))
<1> DEFINE new == With(row, who, event)
           more == row.events \cup {[who |-> who, event |-> event]}
<1>1. more \in SUBSET Events
  BY RowShape DEF Events
<1>2. new = [row EXCEPT !.events = more]
  BY DEF With
<1> HIDE DEF more
<1>3. new \in Row
  <2>1. CASE row \in Scheduled
    BY <1>1, <1>2, <2>1 DEF Row, Scheduled
  <2>2. CASE row \in Live
    BY <1>1, <1>2, <2>2 DEF Row, Live
  <2>3. CASE row \in Ended
    BY <1>1, <1>2, <2>3 DEF Row, Ended
  <2>4. CASE row \in Cancelled
    BY <1>1, <1>2, <2>4 DEF Row, Cancelled
  <2> QED
    BY <2>1, <2>2, <2>3, <2>4 DEF Row
<1>4. /\ new.status = row.status /\ new.start = row.start /\ new.began = row.began
      /\ new.ended = row.ended /\ new.recorded = row.recorded /\ new.events = more
  <2>1. CASE row \in Scheduled
    BY <1>2, <2>1 DEF Scheduled
  <2>2. CASE row \in Live
    BY <1>2, <2>2 DEF Live
  <2>3. CASE row \in Ended
    BY <1>2, <2>3 DEF Ended
  <2>4. CASE row \in Cancelled
    BY <1>2, <2>4 DEF Cancelled
  <2> QED
    BY <2>1, <2>2, <2>3, <2>4 DEF Row
<1>5. row.events \subseteq more
  BY DEF more
<1> QED
  BY <1>3, <1>4, <1>5, RowShape DEF Forward

(***************************************************************************)
(* Steps                                                                    *)
(***************************************************************************)
(* An operation that reads keeps the invariant when what it will write is   *)
(* a fitting row.                                                           *)
LEMMA ReadKeeps ==
  ASSUME IInv, NEW w \in Workers, NEW m \in Meetings, NEW row \in Row,
         NEW notice \in {None, "started", "cancelled"},
         ReadFor(w, m, row, notice),
         Past(row), Forward(meetings[m], row),
         notice = "started" => row.status = "LIVE",
         notice = "cancelled" => row.status = "CANCELLED"
  PROVE  IInv' /\ StepsForward
<1> DEFINE r == [pc |-> "save", meeting |-> m, seen |-> meetings[m], row |-> row,
                 notice |-> notice]
<1>1. /\ m \in DOMAIN meetings /\ request' = [request EXCEPT ![w] = r]
      /\ UNCHANGED <<meetings, notices, was, now>>
  BY DEF ReadFor, Become, Exists
<1>2. meetings[m] \in Row
  BY <1>1 DEF IInv, TypeOK
<1>3. r \in Saving
  BY <1>2 DEF Saving
<1>4. r.pc = "save" /\ Fits(r)
  BY DEF Fits
<1> HIDE DEF r
<1>5. TypeOK'
  BY <1>1, <1>3 DEF IInv, TypeOK
<1>6. ToldTheTruth'
  BY <1>1 DEF IInv, ToldTheTruth
<1>7. \A n \in DOMAIN meetings' : Past(meetings[n])'
  BY <1>1 DEF IInv, Past
<1>8. ASSUME NEW v \in Workers, request'[v].pc = "save"
      PROVE  Fits(request[v])'
  <2>1. request'[v] = IF v = w THEN r ELSE request[v]
    BY <1>1 DEF IInv, TypeOK
  <2>2. Fits(request'[v])
    BY <1>4, <1>8, <2>1 DEF IInv
  <2> QED
    BY <1>1, <2>2 DEF Fits, Past
<1>9. StepsForward
  BY <1>1, ForwardStays DEF IInv, TypeOK, StepsForward
<1> QED
  BY <1>5, <1>6, <1>7, <1>8, <1>9 DEF IInv

(* A request that ends leaves the others their facts. *)
LEMMA FinishKeeps ==
  ASSUME TypeOK, NEW w \in Workers, Finish(w)
  PROVE  /\ request' \in [Workers -> {Idle} \cup Joining \cup Saving]
         /\ \A v \in Workers : request'[v].pc = "save" => v # w /\ request'[v] = request[v]
  BY DEF TypeOK, Finish, Become, Idle

(* Each kind of change of a row is a step forward. *)
LEMMA MovedForward ==
  ASSUME IInv, NEW m \in DOMAIN meetings, meetings[m].status = "SCHEDULED", NEW t \in Time
  PROVE  LET row == [meetings[m] EXCEPT !.start = t]
         IN  row \in Row /\ Past(row) /\ Forward(meetings[m], row)
<1>1. meetings[m] \in Scheduled
  BY RowShape DEF IInv, TypeOK
<1> QED
  BY <1>1, ForwardStays DEF Row, Scheduled, Past, Forward

LEMMA StartedForward ==
  ASSUME IInv, NEW m \in DOMAIN meetings, meetings[m].status = "SCHEDULED"
  PROVE  /\ Started(meetings[m]) \in Row /\ Past(Started(meetings[m]))
         /\ Forward(meetings[m], Started(meetings[m]))
         /\ Started(meetings[m]).status = "LIVE"
<1>1. meetings[m] \in Scheduled /\ now \in Time
  BY RowShape DEF IInv, TypeOK
<1>2. now <= now
  BY <1>1, MeetingsAssumption DEF Time
<1> QED
  BY <1>1, <1>2 DEF Row, Scheduled, Live, Past, Forward, Started

LEMMA EndedForward ==
  ASSUME IInv, NEW m \in DOMAIN meetings, meetings[m].status = "LIVE"
  PROVE  LET row == [meetings[m] EXCEPT !.status = "ENDED", !.ended = now]
         IN  row \in Row /\ Past(row) /\ Forward(meetings[m], row)
<1>1. meetings[m] \in Live /\ now \in Time /\ Past(meetings[m])
  BY RowShape DEF IInv, TypeOK
<1>2. meetings[m].began <= now
  BY <1>1, MeetingsAssumption DEF Past, Live, Time
<1> QED
  BY <1>1, <1>2 DEF Row, Live, Ended, Past, Forward

LEMMA CancelledForward ==
  ASSUME IInv, NEW m \in DOMAIN meetings, meetings[m].status = "SCHEDULED"
  PROVE  LET row == [meetings[m] EXCEPT !.status = "CANCELLED"]
         IN  row \in Row /\ Past(row) /\ Forward(meetings[m], row) /\ row.status = "CANCELLED"
<1>1. meetings[m] \in Scheduled
  BY RowShape DEF IInv, TypeOK
<1> QED
  BY <1>1 DEF Row, Scheduled, Cancelled, Past, Forward

LEMMA RecordedForward ==
  ASSUME IInv, NEW m \in DOMAIN meetings, meetings[m].status = "ENDED"
  PROVE  LET row == [meetings[m] EXCEPT !.recorded = TRUE]
         IN  row \in Row /\ Past(row) /\ Forward(meetings[m], row)
<1>1. meetings[m] \in Ended /\ Past(meetings[m])
  BY RowShape DEF IInv, TypeOK
<1> QED
  BY <1>1 DEF Row, Ended, Past, Forward

(* A step that changes no row is forward. *)
LEMMA UnchangedForward ==
  ASSUME TypeOK, UNCHANGED meetings
  PROVE  StepsForward
  BY ForwardStays DEF TypeOK, StepsForward

LEMMA ReadsKeep ==
  ASSUME IInv, NEW w \in Workers, NEW m \in Meetings,
         \/ \E t \in Time : UpdateMeeting(w, m, t)
         \/ StartMeeting(w, m) \/ EndMeeting(w, m) \/ CancelMeeting(w, m) \/ AddRecording(w, m)
  PROVE  IInv' /\ StepsForward
<1>1. ASSUME NEW t \in Time, UpdateMeeting(w, m, t) PROVE IInv' /\ StepsForward
  BY <1>1, MovedForward, ReadKeeps, MeetingsAssumption DEF UpdateMeeting, Is, Exists
<1>2. CASE StartMeeting(w, m)
  BY <1>2, StartedForward, ReadKeeps DEF StartMeeting, Is, Exists
<1>3. CASE EndMeeting(w, m)
  BY <1>3, EndedForward, ReadKeeps, MeetingsAssumption DEF EndMeeting, Is, Exists
<1>4. CASE CancelMeeting(w, m)
  BY <1>4, CancelledForward, ReadKeeps DEF CancelMeeting, Is, Exists
<1>5. CASE AddRecording(w, m)
  BY <1>5, RecordedForward, ReadKeeps, MeetingsAssumption DEF AddRecording, Is, Exists
<1> QED
  BY <1>1, <1>2, <1>3, <1>4, <1>5

(* An event that is read for fits. *)
LEMMA EventKeeps ==
  ASSUME IInv, NEW w \in Workers, NEW m \in Meetings, NEW p \in People,
         NEW event \in {"JOIN", "LEAVE"}, Exists(m),
         ReadFor(w, m, With(meetings[m], p, event), None)
  PROVE  IInv' /\ StepsForward
<1>1. meetings[m] \in Row /\ Past(meetings[m])
  BY DEF IInv, TypeOK, Exists
<1>2. /\ With(meetings[m], p, event) \in Row /\ Past(With(meetings[m], p, event))
      /\ Forward(meetings[m], With(meetings[m], p, event))
  BY <1>1, WithIsForward DEF Past
<1> QED
  BY <1>2, ReadKeeps, MeetingsAssumption

LEMMA ScheduleKeeps ==
  ASSUME IInv, NEW w \in Workers, NEW m \in Meetings, NEW t \in Time,
         ScheduleMeeting(w, m, t)
  PROVE  IInv' /\ StepsForward
<1> DEFINE row == [status |-> "SCHEDULED", start |-> t, began |-> None, ended |-> None,
                   recorded |-> FALSE, events |-> {}]
<1>1. /\ meetings' = [n \in DOMAIN meetings \cup {m} |-> IF n = m THEN row ELSE meetings[n]]
      /\ was' = [was EXCEPT ![m] = {"SCHEDULED"}] /\ was[m] = {} /\ ~Exists(m)
      /\ notices' = notices \cup {[meeting |-> m, kind |-> "scheduled"]}
      /\ UNCHANGED <<request, now>>
  BY DEF ScheduleMeeting
<1>2. row \in Row /\ Past(row)
  BY DEF Row, Scheduled, Past
<1> HIDE DEF row
<1>3. TypeOK'
  BY <1>1, <1>2 DEF IInv, TypeOK
<1>4. ToldTheTruth'
  <2> SUFFICES ASSUME NEW n \in notices' PROVE Meant(n.kind) \in was'[n.meeting]
    BY DEF ToldTheTruth
  <2>1. CASE n \in notices
    BY <1>1, <2>1 DEF IInv, TypeOK, ToldTheTruth
  <2>2. CASE n = [meeting |-> m, kind |-> "scheduled"]
    BY <1>1, <2>2 DEF IInv, TypeOK, Meant
  <2> QED
    BY <1>1, <2>1, <2>2
<1>5. \A n \in DOMAIN meetings' : Past(meetings[n])'
  BY <1>1, <1>2 DEF IInv, Past
<1>6. \A v \in Workers : request'[v].pc = "save" => Fits(request[v])'
  BY <1>1 DEF IInv, Fits, Past
<1>7. StepsForward
  BY <1>1, ForwardStays DEF IInv, TypeOK, StepsForward, Exists
<1> QED
  BY <1>3, <1>4, <1>5, <1>6, <1>7 DEF IInv

(* The write: whatever the row has become, it is a step forward from what   *)
(* the request read, so that only an overtaken request takes a meeting back.*)
LEMMA UpdateKeeps ==
  ASSUME IInv, NEW w \in Workers, Update(w)
  PROVE  IInv' /\ StepsForward
<1> DEFINE r == request[w]
<1>1. /\ r.pc = "save" /\ Exists(r.meeting) /\ Finish(w)
      /\ meetings' = [meetings EXCEPT ![r.meeting] = r.row]
      /\ was' = [was EXCEPT ![r.meeting] = @ \cup {r.row.status}]
      /\ notices' = notices \cup Noticed(r.meeting, r.notice)
      /\ now' = now
  BY DEF Update
<1>2. r \in Saving /\ Fits(r)
  BY <1>1 DEF IInv, TypeOK, Idle, Joining
<1>3. /\ r.row \in Row /\ r.meeting \in Meetings /\ r.notice \in {None, "started", "cancelled"}
      /\ r.row.status \in {"SCHEDULED", "LIVE", "ENDED", "CANCELLED"}
  BY <1>2, RowShape DEF Saving
<1>4. /\ request' \in [Workers -> {Idle} \cup Joining \cup Saving]
      /\ \A v \in Workers : request'[v].pc = "save" => v # w /\ request'[v] = request[v]
  BY <1>1, FinishKeeps DEF IInv
<1>5. request'[w] = Idle
  BY <1>1 DEF Finish, Become, IInv, TypeOK
<1>6. Noticed(r.meeting, r.notice) \subseteq [meeting: Meetings, kind: {"scheduled", "started", "cancelled"}]
  BY <1>3 DEF Noticed
<1> HIDE DEF r
<1>7. TypeOK'
  BY <1>1, <1>3, <1>4, <1>6 DEF IInv, TypeOK, Exists
<1>8. ToldTheTruth'
  <2> SUFFICES ASSUME NEW n \in notices' PROVE Meant(n.kind) \in was'[n.meeting]
    BY DEF ToldTheTruth
  <2>1. CASE n \in notices
    BY <1>1, <2>1 DEF IInv, TypeOK, ToldTheTruth
  <2>2. CASE n \in Noticed(r.meeting, r.notice)
    <3>1. n = [meeting |-> r.meeting, kind |-> r.notice] /\ r.notice # None
      BY <2>2 DEF Noticed
    <3>2. Meant(r.notice) = r.row.status
      BY <1>2, <1>3, <3>1 DEF Meant, Fits
    <3> QED
      BY <1>1, <1>3, <3>1, <3>2 DEF IInv, TypeOK
  <2> QED
    BY <1>1, <2>1, <2>2
<1>9. \A n \in DOMAIN meetings' : Past(meetings[n])'
  BY <1>1, <1>2 DEF IInv, Past, Fits
<1>10. \A v \in Workers : request'[v].pc = "save" => Fits(request[v])'
  BY <1>1, <1>4 DEF IInv, Fits, Past
<1>11. StepsForward
  <2> SUFFICES ASSUME NEW n \in DOMAIN meetings
               PROVE  \/ Forward(meetings[n], meetings'[n])
                      \/ \E v \in Workers : Overtaken(v) /\ request[v].meeting = n /\ request'[v] = Idle
    BY DEF StepsForward
  <2>1. CASE n # r.meeting
    BY <1>1, <2>1, ForwardStays DEF IInv, TypeOK
  <2>2. CASE n = r.meeting /\ r.seen = meetings[n]
    BY <1>1, <1>2, <2>2 DEF Fits
  <2>3. CASE n = r.meeting /\ r.seen # meetings[n]
    BY <1>1, <1>5, <2>3 DEF Overtaken, r
  <2> QED
    BY <2>1, <2>2, <2>3
<1> QED
  BY <1>7, <1>8, <1>9, <1>10, <1>11 DEF IInv

(***************************************************************************)
(* The theorems                                                             *)
(***************************************************************************)
LEMMA InitInv == ASSUME Init PROVE IInv
  BY MeetingsAssumption DEF Init, IInv, TypeOK, ToldTheTruth, Idle, Time

LEMMA NextInv ==
  ASSUME IInv, [Next]_vars
  PROVE  IInv' /\ StepsForward
<1>1. ASSUME NEW w \in Workers, NEW m \in Meetings, NEW p \in People,
             \/ RecordParticipantJoin(w, m, p) \/ RecordParticipantLeave(w, m, p)
      PROVE  IInv' /\ StepsForward
  BY <1>1, EventKeeps DEF RecordParticipantJoin, RecordParticipantLeave, Is
<1>2. ASSUME NEW w \in Workers, NEW m \in Meetings, NEW p \in People, JoinMeeting(w, m, p)
      PROVE  IInv' /\ StepsForward
  <2> DEFINE j == [pc |-> "join", meeting |-> m, who |-> p]
  <2>1. request' = [request EXCEPT ![w] = j] /\ UNCHANGED <<meetings, notices, was, now>>
    BY <1>2 DEF JoinMeeting, Become
  <2>2. j \in Joining /\ j.pc # "save"
    BY DEF Joining
  <2> HIDE DEF j
  <2>3. TypeOK' /\ ToldTheTruth'
    BY <2>1, <2>2 DEF IInv, TypeOK, ToldTheTruth
  <2>4. \A v \in Workers : request'[v].pc = "save" => request'[v] = request[v]
    BY <2>1, <2>2 DEF IInv, TypeOK
  <2> QED
    BY <2>1, <2>3, <2>4, UnchangedForward DEF IInv, Fits, Past
<1>3. ASSUME NEW w \in Workers, JoinRecorded(w) PROVE IInv' /\ StepsForward
  <2>1. request[w] \in Joining
    BY <1>3 DEF JoinRecorded, IInv, TypeOK, Idle, Saving
  <2>2. request[w].meeting \in Meetings /\ request[w].who \in People
    BY <2>1 DEF Joining
  <2>3. CASE Finish(w) /\ UNCHANGED <<meetings, notices, was, now>>
    BY <2>3, FinishKeeps, UnchangedForward DEF IInv, TypeOK, ToldTheTruth, Fits, Past
  <2>4. CASE /\ Is(request[w].meeting, "LIVE")
             /\ ReadFor(w, request[w].meeting,
                        With(meetings[request[w].meeting], request[w].who, "JOIN"), None)
    BY <2>2, <2>4, EventKeeps DEF Is
  <2> QED
    BY <1>3, <2>3, <2>4 DEF JoinRecorded
<1>4. ASSUME NEW w \in Workers, Reads(w) PROVE IInv' /\ StepsForward
  BY <1>1, <1>2, <1>4, ScheduleKeeps, ReadsKeep DEF Reads
<1>5. ASSUME NEW w \in Workers, UpdateFails(w) PROVE IInv' /\ StepsForward
  BY <1>5, FinishKeeps, UnchangedForward DEF UpdateFails, IInv, TypeOK, ToldTheTruth, Fits, Past
<1>6. CASE DeleteClass
  BY <1>6 DEF DeleteClass, IInv, TypeOK, ToldTheTruth, Fits, Past, StepsForward
<1>7. CASE Tick
  <2>1. now' \in Time /\ now' > now /\ UNCHANGED <<meetings, request, notices, was>>
    BY <1>7, MeetingsAssumption DEF Tick, IInv, TypeOK, Time
  <2>2. ASSUME NEW row \in Row, Past(row) PROVE Past(row)'
    <3>1. row.began \in Time \cup {None}
      BY DEF Row, Scheduled, Live, Ended, Cancelled
    <3> QED
      BY <2>1, <2>2, <3>1, MeetingsAssumption DEF Past, IInv, TypeOK, Time
  <2>3. \A n \in DOMAIN meetings' : Past(meetings[n])'
    BY <2>1, <2>2 DEF IInv, TypeOK, Past
  <2>4. ASSUME NEW v \in Workers, request[v].pc = "save" PROVE Fits(request[v])'
    <3>1. request[v] \in Saving
      BY <2>4 DEF IInv, TypeOK, Idle, Joining
    <3>2. request[v].row \in Row
      BY <3>1 DEF Saving
    <3> QED
      BY <2>1, <2>2, <2>4, <3>2 DEF IInv, Fits, Past
  <2> QED
    BY <2>1, <2>3, <2>4, UnchangedForward DEF IInv, TypeOK, ToldTheTruth
<1>8. CASE UNCHANGED vars
  BY <1>8, UnchangedForward DEF vars, IInv, TypeOK, ToldTheTruth, Fits, Past
<1> QED
  BY <1>3, <1>4, <1>5, <1>6, <1>7, <1>8, UpdateKeeps DEF Next

(* The invariant holds in every reachable state. *)
THEOREM Inductive == Spec => []IInv
<1>1. Init => IInv
  BY InitInv
<1>2. IInv /\ [Next]_vars => IInv'
  BY NextInv
<1> QED
  BY <1>1, <1>2, PTL DEF Spec

(* The stamps of a meeting always fit its status, however operations overlap*)
(* (meeting.go Start, End, Cancel; MeetingRepository.Update).               *)
THEOREM TypeCorrect == Spec => []TypeOK
<1>1. IInv => TypeOK
  BY DEF IInv
<1> QED
  BY <1>1, Inductive, PTL

(* A class is told only what happened to its meeting                        *)
(* (notifyStudentsAboutMeeting, after the row is written).                  *)
THEOREM NoticesAreTrue == Spec => []ToldTheTruth
<1>1. IInv => ToldTheTruth
  BY DEF IInv
<1> QED
  BY <1>1, Inductive, PTL

(* A meeting goes back, or loses an event or a recording, only by the write *)
(* of an operation that another one overtook.                               *)
THEOREM ForwardUnlessOvertaken == Spec => OnlyForward
<1>1. IInv /\ [Next]_vars => [StepsForward]_vars
  BY NextInv
<1> QED
  BY <1>1, Inductive, PTL DEF Spec, OnlyForward, StepsForward

(***************************************************************************)
(* With the reminder job                                                    *)
(***************************************************************************)
RP == INSTANCE RemindersProofs WITH Items <- Meetings, due <- DueMeetings

allVars == <<vars, jobVars>>

(* To the requests the job does nothing. *)
LEMMA RunLeavesTables ==
  ASSUME MeetingReminderRun
  PROVE  UNCHANGED vars
  BY DEF MeetingReminderRun, vars, R!Run, R!Begin, R!NextOffset, R!End, R!CutShort, R!List,
     R!ListFails, R!Remind, R!RemindFails

THEOREM RequestsAsBefore == SpecWithReminders => Spec
<1>1. InitWithReminders => Init
  BY DEF InitWithReminders
<1>2. [NextWithReminders]_allVars => [Next]_vars
  BY RunLeavesTables DEF NextWithReminders, allVars, vars
<1> QED
  BY <1>1, <1>2, PTL DEF SpecWithReminders, Spec, allVars

(* The clock does not go back. *)
LEMMA ClockGoesOn ==
  ASSUME TypeOK, TypeOK', Next
  PROVE  now' \in {t \in R!Time : now <= t}
<1>1. now' = now \/ now' = now + 1
  <2>1. ASSUME NEW w \in Workers, NEW m \in Meetings, NEW t \in Time,
               ScheduleMeeting(w, m, t) \/ UpdateMeeting(w, m, t)
        PROVE  now' = now
    BY <2>1 DEF ScheduleMeeting, UpdateMeeting, ReadFor
  <2>2. ASSUME NEW w \in Workers, NEW m \in Meetings,
               \/ StartMeeting(w, m) \/ EndMeeting(w, m)
               \/ CancelMeeting(w, m) \/ AddRecording(w, m)
        PROVE  now' = now
    BY <2>2 DEF StartMeeting, EndMeeting, CancelMeeting, AddRecording, ReadFor
  <2>3. ASSUME NEW w \in Workers, NEW m \in Meetings, NEW p \in People,
               \/ JoinMeeting(w, m, p)
               \/ RecordParticipantJoin(w, m, p) \/ RecordParticipantLeave(w, m, p)
        PROVE  now' = now
    BY <2>3 DEF JoinMeeting, RecordParticipantJoin, RecordParticipantLeave, ReadFor
  <2>4. ASSUME NEW w \in Workers, JoinRecorded(w) \/ UpdateFails(w) \/ Update(w)
        PROVE  now' = now
    BY <2>4 DEF JoinRecorded, UpdateFails, Update, ReadFor
  <2> QED
    BY <2>1, <2>2, <2>3, <2>4 DEF Next, Reads, DeleteClass, Tick
<1>2. now \in Time /\ now' \in Time /\ MaxTime \in Nat
  BY MeetingsAssumption DEF TypeOK
<1> QED
  BY <1>1, <1>2 DEF Time, R!Time

(* The two instances are one module's. *)
LEMMA SameCardinality == \A S : R!Cardinality(S) = RP!Cardinality(S)
  BY DEF R!Cardinality, RP!Cardinality, R!IsFiniteSet, RP!IsFiniteSet

LEMMA SameRun ==
  ASSUME R!Run
  PROVE  RP!Run
<1>1. CASE R!Begin
  BY <1>1 DEF RP!Run, R!Begin, RP!Begin, R!Running, RP!Running, R!OnTime, RP!OnTime
<1>2. CASE R!NextOffset \/ R!End \/ R!CutShort
  BY <1>2 DEF RP!Run, R!NextOffset, RP!NextOffset, R!End, RP!End, R!CutShort, RP!CutShort,
     R!Running, RP!Running, R!Idle, RP!Idle, R!history, RP!history
<1>3. ASSUME NEW k \in Offsets, R!List(k) \/ R!ListFails(k)
      PROVE  RP!Run
  <2>1. RP!Due(k) = R!Due(k)
    BY DEF R!Due, RP!Due, R!Row, RP!Row, R!Time, RP!Time, R!Covers, RP!Covers
  <2>2. CASE R!ListFails(k)
    BY <2>2 DEF RP!Run, R!ListFails, RP!ListFails, R!IsNext, RP!IsNext
  <2>3. CASE R!List(k)
    <3>1. RP!List(k)
      <4> PICK rows \in SUBSET R!Due(k) :
            /\ R!FirstRows(rows, R!Due(k))
            /\ job' = [pc |-> "send", at |-> job.at, left |-> job.left \ {k}, offset |-> k,
                       rows |-> rows]
        BY <2>3 DEF R!List
      <4>1. RP!FirstRows(rows, RP!Due(k))
        BY <2>1, SameCardinality DEF R!FirstRows, RP!FirstRows
      <4> QED
        BY <2>1, <2>3, <4>1 DEF R!List, RP!List, R!IsNext, RP!IsNext, R!history, RP!history
    <3> QED
      BY <3>1 DEF RP!Run
  <2> QED
    BY <1>3, <2>2, <2>3
<1>4. ASSUME R!Running, job.pc = "send", NEW x \in job.rows, R!Remind(x) \/ R!RemindFails(x)
      PROVE  RP!Run
  BY <1>4 DEF RP!Run, R!Running, RP!Running, R!Remind, RP!Remind, R!RemindFails, RP!RemindFails,
     R!history, RP!history
<1> QED
  BY <1>1, <1>2, <1>3, <1>4 DEF R!Run

LEMMA StepImplements ==
  ASSUME TypeOK, TypeOK', [NextWithReminders]_allVars
  PROVE  [RP!Next]_(RP!vars)
<1>1. CASE Next /\ R!Observe
  <2>1. DueMeetings' \in [Meetings -> R!Instant]
    <3> SUFFICES ASSUME NEW m \in Meetings, Is(m, "SCHEDULED")'
                 PROVE  meetings'[m].start \in Time
      BY DEF DueMeetings, R!Instant, R!Time, Time
    <3>1. meetings'[m] \in Row
      BY DEF Is, Exists, TypeOK
    <3> QED
      BY <3>1 DEF Row, Scheduled, Live, Ended, Cancelled
  <2>2. now' \in {t \in R!Time : now <= t}
    BY <1>1, ClockGoesOn
  <2> QED
    BY <1>1, <2>1, <2>2 DEF RP!Next, RP!Environment, RP!Observe, R!Observe, RP!reminderVars,
       R!reminderVars, RP!history, R!history, R!Time, RP!Time, R!Instant, RP!Instant
<1>2. CASE MeetingReminderRun
  BY <1>2, SameRun DEF MeetingReminderRun, RP!Next
<1>3. CASE UNCHANGED allVars
  BY <1>3 DEF allVars, vars, jobVars, RP!vars, RP!reminderVars, RP!history, DueMeetings, Is, Exists
<1> QED
  BY <1>1, <1>2, <1>3 DEF NextWithReminders

(* The job over the table of meetings is a behaviour of Reminders           *)
(* (MeetingReminderJob.Run, MeetingService).                                *)
THEOREM ImplementsReminders == SpecWithReminders => RP!Spec
<1>1. InitWithReminders => RP!Init
  BY DEF InitWithReminders, R!Init, RP!Init, R!Idle, RP!Idle
<1>2. Spec => []TypeOK
  BY TypeCorrect
<1> QED
  BY <1>1, <1>2, RequestsAsBefore, StepImplements, PTL DEF SpecWithReminders, RP!Spec, allVars

(* Whatever requests do, punctual runs announce each meeting once at each   *)
(* of the times before it (MeetingReminderJob.Run).                         *)
THEOREM MeetingsRemindedOnce == SpecWithReminders => []RemindedOnce
<1>1. RP!RemindersParameters
  BY MeetingRemindersAssumption DEF R!RemindersParameters, RP!RemindersParameters
<1>2. RP!Spec => []RP!RemindedOnce
  BY <1>1, RP!RemindedExactlyOnce
<1>3. RP!RemindedOnce => RemindedOnce
  <2>1. ASSUME NEW t PROVE RP!Past(t) <=> R!Past(t)
    BY DEF R!Past, RP!Past, R!Running, RP!Running
  <2> QED
    BY <2>1, SameCardinality DEF RemindedOnce, R!RemindedOnce, RP!RemindedOnce
<1> QED
  BY <1>2, <1>3, ImplementsReminders, PTL
==============================================================================
