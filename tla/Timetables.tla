----------------------------- MODULE Timetables -----------------------------
(***************************************************************************)
(* The timetables of one tenant's classes, their periods, and the requests  *)
(* of tutors to swap two of them:                                           *)
(*   internal/service/timetable_service.go                                  *)
(*   internal/repository/postgres/{timetable,period,swap_request}.go        *)
(*                                                                          *)
(* A generation, a publication over an older timetable and a swap each use  *)
(* one transaction, at READ COMMITTED.  Its writes become visible together, *)
(* so they are one step; what the request read before, much of it outside   *)
(* the transaction, is in req[w] and may be stale by then.                  *)
(***************************************************************************)
EXTENDS Integers, Sequences, FiniteSets, FiniteSetsExt

CONSTANTS
    Classes, Terms, Courses,
    ClassOf, TermOf,            \* of a course
    TutorOf, Candidates,        \* its first tutor, and those it may be given to; a
                                \* tutor is a number, as UUIDs are ordered
    MaxPeriods,                 \* course.MaxPeriodsPerWeek, 0 when it is not set
    Configs,                    \* configurations a generation may be asked for
    MaxSlot,                    \* bound: slots of a week
    Timetables, Swaps,          \* pools of fresh UUIDs for new rows
    Workers,                    \* HTTP requests in flight
    MaxFaults                   \* bound: failed statements and aborted requests

Slots == 1..MaxSlot
SlotCount(cfg) == cfg.limit * Len(cfg.days)

None == "none"

ASSUME TimetablesAssumption ==
    /\ IsFiniteSet(Courses) /\ None \notin Courses \cup Timetables
    /\ ClassOf \in [Courses -> Classes] /\ TermOf \in [Courses -> Terms]
    /\ TutorOf \in [Courses -> Nat] /\ Candidates \in [Courses -> SUBSET Nat]
    /\ MaxPeriods \in [Courses -> Nat]
    /\ \A cfg \in Configs :
         /\ cfg.limit \in Nat \ {0} /\ cfg.duration \in Nat \ {0}
         /\ cfg.start \in Nat /\ cfg.breakAfter \in Nat /\ cfg.break \in Nat
         /\ Len(cfg.days) \in Nat
         /\ SlotCount(cfg) \in Slots
    /\ MaxSlot \in Nat /\ MaxFaults \in Nat

VARIABLES
    faults,
    tutorOf,    \* courses.assigned_tutor_id
    assigned,   \* history: the pairs of a course and a tutor it has been given to
    timetables,
    periods,    \* periods[t][k]: the row of timetable t for slot k of its week
    swaps,      \* period_swap_requests
    performed,  \* history: how often the swap of a request was carried out, up to 2
    crossed,    \* history: swap requests that were answered while another answer
                \* to them was under way
    req         \* requests in flight

courses == <<tutorOf, assigned>>
plans == <<timetables, periods, swaps, performed, crossed>>
tables == <<courses, plans>>
vars == <<faults, tables, req>>

(***************************************************************************)
(* Rows                                                                     *)
(***************************************************************************)
Live == {"DRAFT", "PUBLISHED"}
Timetable == [class: Classes, term: Terms, status: Live \cup {"ARCHIVED"}, version: Nat]
NoTimetable == [status |-> None]

(* day_of_week, period_number, and start_time and end_time in minutes. *)
Days == UNION {{cfg.days[i] : i \in 1..Len(cfg.days)} : cfg \in Configs}
DayMinutes == 24 * 60
Period == [course: Courses, tutor: Nat, day: Days, number: Nat,
           from: 0..(DayMinutes - 1), to: 0..(DayMinutes - 1)]
NoPeriod == [course |-> None]
Week == [Slots -> Period \cup {NoPeriod}]
EmptyWeek == [k \in Slots |-> NoPeriod]
Lessons(week) == {week[k] : k \in Slots} \ {NoPeriod}

(* A period is addressed by its timetable and its slot. *)
Key == Timetables \X Slots
At(key) == periods[key[1]][key[2]]
HasPeriod(key) == At(key) # NoPeriod

SwapRequestStatus == {"PENDING", "APPROVED", "REJECTED", "ESCALATED", "CANCELLED"}
SwapRequest == [status: SwapRequestStatus, from: Key, to: Key, fromTutor: Nat, toTutor: Nat]
NoSwap == [status |-> None]
DeletedSwap == [status |-> "DELETED"]
Exists(r) == swaps[r].status \in SwapRequestStatus

LiveOf(cl, tm) == {t \in Timetables : /\ timetables[t].status \in Live
                                      /\ timetables[t].class = cl /\ timetables[t].term = tm}
(* ORDER BY generation_version DESC LIMIT 1 *)
Newest(S) == {t \in S : \A u \in S : timetables[u].version <= timetables[t].version}
CoursesOf(cl, tm) == {c \in Courses : ClassOf[c] = cl /\ TermOf[c] = tm}

(* exclude_periods_tutor_double_booking, and the generator's own test. *)
Overlap(x, y) == x.day = y.day /\ x.from < y.to /\ y.from < x.to
Clash(x, y) == x.tutor = y.tutor /\ Overlap(x, y)

(***************************************************************************)
(* Requests: what is kept between two statements                            *)
(***************************************************************************)
Idle == [pc |-> "idle"]
Generating == [pc: {"plan"}, class: Classes, term: Terms, cfg: Configs,
               tutors: [Courses -> Nat], old: Timetables \cup {None}, version: Nat]
Committing == [pc: {"commit"}, class: Classes, term: Terms, cfg: Configs,
               tutors: [Courses -> Nat], old: Timetables \cup {None}, version: Nat, week: Week]
Publishing == [pc: {"findPublished"}, id: Timetables]
              \cup [pc: {"publish"}, id: Timetables, old: Timetables \cup {None}]
Requesting == [pc: {"readTarget"}, from: Key, mine: Period]
              \cup [pc: {"hasPending", "insertSwap"}, from: Key, to: Key,
                    fromTutor: Nat, toTutor: Nat]
Swapping == [pc: {"readFirst"}, swap: Swaps, admin: BOOLEAN]
            \cup [pc: {"readSecond"}, swap: Swaps, admin: BOOLEAN, first: Period]
            \cup [pc: {"swap"}, swap: Swaps, admin: BOOLEAN, first: Period, second: Period]
Answering == [pc: {"updateSwap"}, swap: Swaps,
              status: {"REJECTED", "ESCALATED", "CANCELLED"}]
Request == {Idle} \cup Generating \cup Committing \cup Publishing \cup Requesting
           \cup Swapping \cup Answering

Become(w, r) == req' = [req EXCEPT ![w] = r]
Finish(w) == Become(w, Idle)

Init ==
    /\ faults = 0
    /\ tutorOf = TutorOf
    /\ assigned = {<<c, TutorOf[c]>> : c \in Courses}
    /\ timetables = [t \in Timetables |-> NoTimetable]
    /\ periods = [t \in Timetables |-> EmptyWeek]
    /\ swaps = [r \in Swaps |-> NoSwap]
    /\ performed = [r \in Swaps |-> 0] /\ crossed = {}
    /\ req = [w \in Workers |-> Idle]

(* CourseService.ReassignTutor; the periods of the course keep their tutor.  *)
ReassignTutor(c, tutor) ==
    /\ tutorOf[c] # tutor
    /\ tutorOf' = [tutorOf EXCEPT ![c] = tutor]
    /\ assigned' = assigned \cup {<<c, tutor>>}
    /\ UNCHANGED <<faults, plans, req>>

(***************************************************************************)
(* The generator                                                            *)
(***************************************************************************)
NumberOf(cfg, k) == ((k - 1) % cfg.limit) + 1
DayOf(cfg, k) == cfg.days[((k - 1) \div cfg.limit) + 1]

(* calculatePeriodTime; a TIME column and Hour()*60+Minute() know no date. *)
Begin(cfg, n) ==
    cfg.start + (n - 1) * cfg.duration + (IF n > cfg.breakAfter THEN cfg.break ELSE 0)
Lesson(cfg, tutors, c, k) ==
    LET n == NumberOf(cfg, k)
    IN  [course |-> c, tutor |-> tutors[c], day |-> DayOf(cfg, k), number |-> n,
         from |-> Begin(cfg, n) % DayMinutes,
         to |-> (Begin(cfg, n) + cfg.duration) % DayMinutes]

(* How many periods a week a course may get. *)
Quota(cfg, cs, c) ==
    LET share == SlotCount(cfg) \div Cardinality(cs)
    IN  IF MaxPeriods[c] > 0 THEN MaxPeriods[c] ELSE IF share < 1 THEN 1 ELSE share
Given(week, c) == Cardinality({k \in Slots : week[k].course = c})

(* The courses sorted by their tutors; those of one tutor in any order. *)
Orders(cs, tutors) ==
    {o \in [1..Cardinality(cs) -> cs] :
        /\ \A i, j \in DOMAIN o : o[i] = o[j] => i = j
        /\ \A i, j \in DOMAIN o : i < j => tutors[o[i]] <= tutors[o[j]]}

MutantFits(cfg, tutors, cs, week, busy, c, k) == \* one period too many
    /\ Given(week, c) <= Quota(cfg, cs, c)
    /\ \A x \in busy \cup Lessons(week) : ~Clash(Lesson(cfg, tutors, c, k), x)
Fits(cfg, tutors, cs, week, busy, c, k) ==
    /\ Given(week, c) < Quota(cfg, cs, c)
    /\ \A x \in busy \cup Lessons(week) : ~Clash(Lesson(cfg, tutors, c, k), x)

(* generatePeriods.  The loop over the courses goes on from one slot to the  *)
(* next: it takes the first course that fits after the one it placed last,   *)
(* and starts over at the top when the pass is through, when a slot stays    *)
(* free and on a new day.  done is what the loop has before slot k.          *)
FillSlot(cfg, tutors, order, busy, done, k) ==
    LET n == Len(order)
        cs == {order[i] : i \in 1..n}
        first == IF NumberOf(cfg, k) = 1 THEN 1 ELSE done.next
        fit == {i \in 1..n : Fits(cfg, tutors, cs, done.week, busy, order[i], k)}
        ahead == {i \in fit : i >= first}
        i == Min(IF ahead # {} THEN ahead ELSE fit)
    IN  IF fit = {} THEN [week |-> done.week, next |-> 1]
        ELSE [week |-> [done.week EXCEPT ![k] = Lesson(cfg, tutors, order[i], k)],
              next |-> i + 1]

GeneratePeriods(cfg, tutors, order, busy) ==
    LET fill[k \in 0..SlotCount(cfg)] ==
            IF k = 0 THEN [week |-> EmptyWeek, next |-> 1]
            ELSE FillSlot(cfg, tutors, order, busy, fill[k - 1], k)
    IN  fill[SlotCount(cfg)].week

(***************************************************************************)
(* Generating, and regenerating, a class's timetable                        *)
(***************************************************************************)
Plan(cl, tm, cfg, old, version) ==
    [pc |-> "plan", class |-> cl, term |-> tm, cfg |-> cfg, tutors |-> tutorOf,
     old |-> old, version |-> version]

(* The courses are read, then GetByClassAndTerm, which is not part of the    *)
(* transaction; when it fails there is "no existing timetable".  Reading     *)
(* both at once loses nothing: only tutors can change in between.            *)
GenerateTimetable(w, cl, tm, cfg) ==
    /\ req[w] = Idle
    /\ CoursesOf(cl, tm) # {}
    /\ \/ /\ LiveOf(cl, tm) = {}
          /\ Become(w, Plan(cl, tm, cfg, None, 1))
          /\ UNCHANGED faults
       \/ \E t \in Newest(LiveOf(cl, tm)) :
            /\ Become(w, Plan(cl, tm, cfg, t, timetables[t].version + 1))
            /\ UNCHANGED faults
       \/ /\ LiveOf(cl, tm) # {} /\ faults < MaxFaults
          /\ Become(w, Plan(cl, tm, cfg, None, 1))
          /\ faults' = faults + 1
    /\ UNCHANGED tables

(* The transaction up to ListAllActivePeriodsByTutors, which no longer sees  *)
(* the timetable that is being replaced.  The DELETE and the UPDATE of that  *)
(* one wait for a transaction that has done the same.                        *)
PlanPeriods(w) ==
    /\ req[w].pc = "plan"
    /\ LET r == req[w]
           busy == UNION {Lessons(periods[t]) :
                            t \in {u \in Timetables : timetables[u].status \in Live /\ u # r.old}}
       IN  /\ \A v \in Workers : req[v].pc = "commit" => r.old = None \/ req[v].old # r.old
           /\ \E order \in Orders(CoursesOf(r.class, r.term), r.tutors) :
                Become(w, [pc |-> "commit", class |-> r.class, term |-> r.term, cfg |-> r.cfg,
                           tutors |-> r.tutors, old |-> r.old, version |-> r.version,
                           week |-> GeneratePeriods(r.cfg, r.tutors, order, busy)])
    /\ UNCHANGED <<faults, tables>>

(* Every period that stays, of whatever timetable: the constraints know no   *)
(* status.                                                                   *)
PeriodsBut(old) == UNION {Lessons(periods[t]) : t \in Timetables \ {old}}

InsertAllowed(week, old) ==
    \A x \in Lessons(week) :
        /\ x.from < x.to /\ x.number <= 15
        /\ \A y \in PeriodsBut(old) : ~Clash(x, y)

MutantCascade(old) == swaps \* without ON DELETE CASCADE
Cascade(old) ==
    [r \in Swaps |-> IF Exists(r) /\ old \in {swaps[r].from[1], swaps[r].to[1]}
                     THEN DeletedSwap ELSE swaps[r]]

Kept(old) == [t \in Timetables |-> IF t = old THEN EmptyWeek ELSE periods[t]]
MutantArchived(old) == timetables \* the old one stays in use
Archived(old) ==
    [t \in Timetables |-> IF t = old THEN [timetables[t] EXCEPT !.status = "ARCHIVED"]
                          ELSE timetables[t]]

(* The rest of the transaction.  CancelPendingByTimetable finds nothing: the *)
(* swap requests went with the periods (ON DELETE CASCADE).                  *)
CommitTimetable(w) ==
    /\ req[w].pc = "commit"
    /\ LET r == req[w]
           fresh == {t \in Timetables : timetables[t] = NoTimetable}
       IN  IF InsertAllowed(r.week, r.old) /\ fresh # {}
           THEN /\ \E t \in fresh :
                     /\ timetables' = [Archived(r.old) EXCEPT ![t] =
                           [class |-> r.class, term |-> r.term, status |-> "DRAFT",
                            version |-> r.version]]
                     /\ periods' = [Kept(r.old) EXCEPT ![t] = r.week]
                /\ swaps' = Cascade(r.old)
                /\ UNCHANGED <<performed, crossed>>
           ELSE UNCHANGED plans
    /\ Finish(w)
    /\ UNCHANGED <<faults, courses>>

(***************************************************************************)
(* Publishing                                                               *)
(***************************************************************************)
PublishTimetable(w, t) ==
    /\ req[w] = Idle
    /\ timetables[t].status = "DRAFT"
    /\ Become(w, [pc |-> "findPublished", id |-> t])
    /\ UNCHANGED <<faults, tables>>

(* A failing SELECT counts as "none published". *)
GetPublishedTimetable(w) ==
    /\ req[w].pc = "findPublished"
    /\ LET t == req[w].id
           published == {u \in LiveOf(timetables[t].class, timetables[t].term) :
                            timetables[u].status = "PUBLISHED"}
           go(old) == Become(w, [pc |-> "publish", id |-> t, old |-> old])
       IN  \/ /\ published = {} /\ go(None)
              /\ UNCHANGED faults
           \/ /\ \E u \in Newest(published) : go(IF u = t THEN None ELSE u)
              /\ UNCHANGED faults
           \/ /\ published # {} /\ faults < MaxFaults
              /\ go(None)
              /\ faults' = faults + 1
    /\ UNCHANGED tables

(* UPDATE ... WHERE id = $1 AND status = 'DRAFT' *)
MutantPublishable(t) == timetables[t] # NoTimetable \* without the status
Publishable(t) == timetables[t].status = "DRAFT"

(* Archive and Publish in one transaction: the periods of the older one stay.*)
Publish(w) ==
    /\ req[w].pc = "publish"
    /\ timetables' = IF Publishable(req[w].id)
                     THEN [Archived(req[w].old) EXCEPT ![req[w].id].status = "PUBLISHED"]
                     ELSE timetables
    /\ Finish(w)
    /\ UNCHANGED <<faults, courses, periods, swaps, performed, crossed>>

(***************************************************************************)
(* Asking for a swap                                                        *)
(***************************************************************************)
(* By the tutor of the first period. *)
CreateSwapRequest(w, from) ==
    /\ req[w] = Idle
    /\ HasPeriod(from)
    /\ Become(w, [pc |-> "readTarget", from |-> from, mine |-> At(from)])
    /\ UNCHANGED <<faults, tables>>

SameClassAndDay(from, mine, to) ==
    /\ timetables[from[1]].class = timetables[to[1]].class
    /\ mine.day = At(to).day

GetTargetPeriod(w) ==
    /\ req[w].pc = "readTarget"
    /\ LET r == req[w] IN
       \E to \in Key :
         IF HasPeriod(to) /\ SameClassAndDay(r.from, r.mine, to)
         THEN Become(w, [pc |-> "hasPending", from |-> r.from, to |-> to,
                         fromTutor |-> r.mine.tutor, toTutor |-> At(to).tutor])
         ELSE Finish(w)
    /\ UNCHANGED <<faults, tables>>

HasPendingRequest(w) ==
    /\ req[w].pc = "hasPending"
    /\ IF \E r \in Swaps : /\ swaps[r].status = "PENDING"
                           /\ {swaps[r].from, swaps[r].to} = {req[w].from, req[w].to}
       THEN Finish(w)
       ELSE Become(w, [req[w] EXCEPT !.pc = "insertSwap"])
    /\ UNCHANGED <<faults, tables>>

(* The foreign keys and the two CHECKs. *)
InsertSwap(w) ==
    /\ req[w].pc = "insertSwap"
    /\ LET r == req[w]
           fresh == {s \in Swaps : swaps[s] = NoSwap}
       IN  IF /\ HasPeriod(r.from) /\ HasPeriod(r.to) /\ fresh # {}
              /\ r.from # r.to /\ r.fromTutor # r.toTutor
           THEN \E s \in fresh :
                  swaps' = [swaps EXCEPT ![s] =
                     [status |-> "PENDING", from |-> r.from, to |-> r.to,
                      fromTutor |-> r.fromTutor, toTutor |-> r.toTutor]]
           ELSE UNCHANGED swaps
    /\ Finish(w)
    /\ UNCHANGED <<faults, courses, timetables, periods, performed, crossed>>

(***************************************************************************)
(* Answering one: reject, escalate and cancel write a status, whatever it    *)
(* has become since it was read                                             *)
(***************************************************************************)
Answer(w, s, status) ==
    /\ req[w] = Idle
    /\ Become(w, [pc |-> "updateSwap", swap |-> s, status |-> status])
    /\ UNCHANGED <<faults, tables>>

RejectSwapRequest(w, s) == swaps[s].status = "PENDING" /\ Answer(w, s, "REJECTED")
EscalateSwapRequest(w, s) == swaps[s].status = "REJECTED" /\ Answer(w, s, "ESCALATED")
CancelSwapRequest(w, s) ==
    swaps[s].status \in {"PENDING", "ESCALATED"} /\ Answer(w, s, "CANCELLED")

(* History: another request has read its status, too, and is not through.   *)
Handles(w, s) ==
    req[w].pc \in {"readFirst", "readSecond", "swap", "updateSwap"} /\ req[w].swap = s
Answered(w, s) ==
    crossed' = IF \E v \in Workers \ {w} : Handles(v, s) THEN crossed \cup {s} ELSE crossed

UpdateSwapRequest(w) ==
    /\ req[w].pc = "updateSwap"
    /\ LET s == req[w].swap
       IN  IF Exists(s)
           THEN swaps' = [swaps EXCEPT ![s].status = req[w].status] /\ Answered(w, s)
           ELSE UNCHANGED <<swaps, crossed>>
    /\ Finish(w)
    /\ UNCHANGED <<faults, courses, timetables, periods, performed>>

(***************************************************************************)
(* Approving one, by the target tutor or, once escalated, by an admin        *)
(***************************************************************************)
MutantApprovable(s) == Exists(s) \* IsPending is not asked
Approvable(s) == swaps[s].status = "PENDING"

ApproveSwapRequest(w, s) ==
    /\ req[w] = Idle
    /\ Approvable(s)
    /\ Become(w, [pc |-> "readFirst", swap |-> s, admin |-> FALSE])
    /\ UNCHANGED <<faults, tables>>

AdminOverrideSwapRequest(w, s) ==
    /\ req[w] = Idle
    /\ swaps[s].status = "ESCALATED"
    /\ Become(w, [pc |-> "readFirst", swap |-> s, admin |-> TRUE])
    /\ UNCHANGED <<faults, tables>>

MutantFirstKey(s) == swaps[s].to \* passes the target period twice
FirstKey(s) == swaps[s].from

(* SwapPeriods reads both periods on other connections than its transaction. *)
GetFirstPeriod(w) ==
    /\ req[w].pc = "readFirst"
    /\ LET r == req[w] IN
       IF Exists(r.swap)
       THEN Become(w, [pc |-> "readSecond", swap |-> r.swap, admin |-> r.admin,
                       first |-> At(FirstKey(r.swap))])
       ELSE Finish(w)
    /\ UNCHANGED <<faults, tables>>

GetSecondPeriod(w) ==
    /\ req[w].pc = "readSecond"
    /\ LET r == req[w] IN
       IF Exists(r.swap)
       THEN Become(w, [pc |-> "swap", swap |-> r.swap, admin |-> r.admin, first |-> r.first,
                       second |-> At(swaps[r.swap].to)])
       ELSE Finish(w)
    /\ UNCHANGED <<faults, tables>>

MutantTaking(x, y) == [x EXCEPT !.tutor = y.tutor] \* forgets the course
Taking(x, y) == [x EXCEPT !.tutor = y.tutor, !.course = y.course]

(* The two UPDATEs, each checked against every other period at once. *)
SwapAllowed(from, to, one, two) ==
    LET others == {At(key) : key \in Key \ {from, to}} \ {NoPeriod}
    IN  /\ \A y \in others \cup {At(to)} : ~Clash(one, y)
        /\ \A y \in others \cup {one} : ~Clash(two, y)

SwapPeriods(w) ==
    /\ req[w].pc = "swap"
    /\ LET r == req[w]
           s == swaps[r.swap]
           one == Taking(At(s.from), r.second)
           two == Taking(At(s.to), r.first)
       IN  IF Exists(r.swap) /\ SwapAllowed(s.from, s.to, one, two)
           THEN /\ periods' = [periods EXCEPT ![s.from[1]][s.from[2]] = one,
                                              ![s.to[1]][s.to[2]] = two]
                /\ swaps' = [swaps EXCEPT ![r.swap].status = "APPROVED"]
                /\ performed' = [performed EXCEPT ![r.swap] = IF @ < 2 THEN @ + 1 ELSE @]
                /\ Answered(w, r.swap)
           ELSE UNCHANGED <<periods, swaps, performed, crossed>>
    /\ Finish(w)
    /\ UNCHANGED <<faults, courses, timetables>>

(***************************************************************************)
(* A statement fails or the client goes away; an open transaction is rolled  *)
(* back.  A crash is this for every request.                                *)
(***************************************************************************)
RequestFails(w) ==
    /\ req[w] # Idle
    /\ faults < MaxFaults
    /\ faults' = faults + 1
    /\ Finish(w)
    /\ UNCHANGED tables

RequestStep(w) ==
    \/ \E cl \in Classes, tm \in Terms, cfg \in Configs : GenerateTimetable(w, cl, tm, cfg)
    \/ PlanPeriods(w) \/ CommitTimetable(w)
    \/ \E t \in Timetables : PublishTimetable(w, t)
    \/ GetPublishedTimetable(w) \/ Publish(w)
    \/ \E key \in Key : CreateSwapRequest(w, key)
    \/ GetTargetPeriod(w) \/ HasPendingRequest(w) \/ InsertSwap(w)
    \/ \E s \in Swaps :
         \/ RejectSwapRequest(w, s) \/ EscalateSwapRequest(w, s) \/ CancelSwapRequest(w, s)
         \/ ApproveSwapRequest(w, s) \/ AdminOverrideSwapRequest(w, s)
    \/ UpdateSwapRequest(w)
    \/ GetFirstPeriod(w) \/ GetSecondPeriod(w) \/ SwapPeriods(w)
    \/ RequestFails(w)

Next ==
    \/ \E c \in Courses : \E tutor \in Candidates[c] : ReassignTutor(c, tutor)
    \/ \E w \in Workers : RequestStep(w)

Spec == Init /\ [][Next]_vars

(***************************************************************************)
(* Properties                                                               *)
(***************************************************************************)
(* Every row and every request has the shape the code gives it, in any      *)
(* interleaving; in particular no request ends up with a period that is gone.*)
TypeOK ==
    /\ faults \in 0..MaxFaults
    /\ tutorOf \in [Courses -> Nat] /\ assigned \subseteq Courses \X Nat
    /\ timetables \in [Timetables -> Timetable \cup {NoTimetable}]
    /\ periods \in [Timetables -> Week]
    /\ swaps \in [Swaps -> SwapRequest \cup {NoSwap, DeletedSwap}]
    /\ performed \in [Swaps -> 0..2] /\ crossed \subseteq Swaps
    /\ req \in [Workers -> Request]

(* What generatePeriods returns (FR-TTB-001): no two lessons of the class at *)
(* a time, no course above its quota, and it is not wasteful - a slot stays  *)
(* free only if every course has its quota or a tutor who is busy then.      *)
Sound(r, busy) ==
    LET cs == CoursesOf(r.class, r.term) IN
    /\ \A j, k \in Slots : j # k /\ {r.week[j], r.week[k]} \cap {NoPeriod} = {}
                             => ~Overlap(r.week[j], r.week[k])
    /\ \A c \in cs : Given(r.week, c) <= Quota(r.cfg, cs, c)
    /\ \A k \in 1..SlotCount(r.cfg) : r.week[k] = NoPeriod =>
          \A c \in cs : \/ Given(r.week, c) = Quota(r.cfg, cs, c)
                        \/ \E x \in busy \cup Lessons(r.week) :
                              Clash(Lesson(r.cfg, r.tutors, c, k), x)

(* One request after the other, every plan is such, and inserting it never   *)
(* runs into the exclusion constraint: the periods the generator does not    *)
(* look at, those of archived timetables, are gone.                          *)
PlanIsSound ==
    \A w \in Workers : req[w].pc = "commit" =>
        /\ Sound(req[w], PeriodsBut(req[w].old))
        /\ InsertAllowed(req[w].week, req[w].old)

(* One request after the other, a class has at most one timetable of a term  *)
(* that is not archived, and it has the highest version.                     *)
LiveIsNewest ==
    \A t, u \in Timetables :
        /\ timetables[t].status \in Live
        /\ timetables[u] # NoTimetable /\ t # u
        /\ timetables[t].class = timetables[u].class /\ timetables[t].term = timetables[u].term
        => timetables[u].status = "ARCHIVED" /\ timetables[u].version < timetables[t].version

(* One request after the other, swaps within a term move lessons and lose    *)
(* none: each course keeps its number of periods while its timetable has any.*)
LessonsKept ==
    [][\A t \in Timetables : Lessons(periods[t]) # {} /\ Lessons(periods'[t]) # {} =>
          \A c \in Courses : Given(periods'[t], c) = Given(periods[t], c)]_vars

(* However swaps race, nobody is put in front of a course that was never his:*)
(* a period's tutor has been the tutor of the period's course.               *)
TutorTeachesCourse ==
    \A t \in Timetables : \A x \in Lessons(periods[t]) : <<x.course, x.tutor>> \in assigned

(* The periods of a swap request are exchanged at most once, and it says     *)
(* APPROVED just when they were: no rejection, cancellation or second        *)
(* approval comes after it - unless two answers that had both read an open   *)
(* request crossed, for the UPDATE of each is unconditional.                 *)
AnswersStand ==
    \A s \in Swaps \ crossed :
        /\ performed[s] <= 1
        /\ Exists(s) => (swaps[s].status = "APPROVED" <=> performed[s] = 1)

(* However publications and regenerations race, an archived timetable stays  *)
(* archived: it is not published by a request that saw its draft.            *)
ArchivedStaysArchived ==
    [][\A t \in Timetables : timetables[t].status = "ARCHIVED"
          => timetables'[t].status = "ARCHIVED"]_vars
=============================================================================
