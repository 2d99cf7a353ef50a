------------------------------- MODULE Progress -------------------------------
(***************************************************************************)
(* How students stand in the courses of one term, and their report cards:   *)
(*   internal/service/progress_service.go, internal/domain/progress.go      *)
(*   internal/repository/postgres/progress.go                               *)
(*   internal/handler/progress_handler.go                                   *)
(*   migrations/000010_create_progress.up.sql                               *)
(*                                                                          *)
(* No operation uses a transaction.  What one has listed it writes back row *)
(* by row, all columns of each, and any statement in between may fail.      *)
(* The operations that record scores are called by no handler: every mark   *)
(* is zero, every average the same, and any ranking as good as another.     *)
(***************************************************************************)
EXTENDS School, Naturals, Functions

CONSTANTS
    Courses, Classes,
    ClassOf,        \* the class a course belongs to, which attendance need not name
    Remarks         \* the remarks a row has room for: the tutor's and the principal's

ASSUME ProgressAssumption == IsFiniteSet(Courses) /\ ClassOf \in [Courses -> Classes]

VARIABLES
    progress,   \* the table, by student and course
    cards,      \* report_cards, by student
    gone,       \* deleted courses and classes
    desk,       \* what each request does
    mixed,      \* history: classes where requests wrote over each other, or one
                \* failed while it ranked, since a ranking began undisturbed
    shrunk      \* history: classes that lost rows

progressVars == <<progress, cards, gone, desk, mixed, shrunk>>

Keys == Students \X Courses
Places == 0..Cardinality(Students)     \* 0 is NULL
(* Grades and flags are left out: that a row is written back matters, and   *)
(* not that it says "F" or "Overall grade below 40%", as all of them do.    *)
Row == [class: Classes, position: Places, remarks: SUBSET Remarks]
(* Of the copies of the student's rows, their classes. *)
Card == [class: Classes, classes: SUBSET Classes, position: Places, total: Places]

RowsOf(s) == {k \in DOMAIN progress : k[1] = s}
RowsIn(c) == {k \in DOMAIN progress : progress[k].class = c}
StudentsIn(c) == {k[1] : k \in RowsIn(c)}

(***************************************************************************)
(* Requests.  A report is under way for a student in a class; todo are the  *)
(* students of the class whose turn comes after.                            *)
(***************************************************************************)
NoReport == [todo |-> {}]
Report == [student: Students, class: Classes, todo: SUBSET Students]
Held == UNION {[ks -> Row] : ks \in SUBSET Keys \ {{}}}

NoTask == [pc |-> "idle"]
Task ==
    {NoTask}
    \cup [pc: {"create"}, key: Keys, class: Classes]
    \cup [pc: {"save"}, rows: Held, then: {"end", "ranked"}, report: {NoReport}]
    \cup [pc: {"save"}, rows: Held, then: {"rank", "refresh"}, report: Report]
    \cup [pc: {"rank", "refresh"}, report: Report]
    \cup [pc: {"count"}, report: Report, classes: SUBSET Classes, position: Places]
    \cup [pc: {"insert"}, report: Report, card: Card]
    \cup [pc: {"next"}, todo: SUBSET Students \ {{}}]

Take(w, r) == desk' = [desk EXCEPT ![w] = r]
NextOrIdle(todo) == IF todo = {} THEN NoTask ELSE [pc |-> "next", todo |-> todo]

Holds(w, c) ==
    desk[w].pc = "save" /\ \E k \in DOMAIN desk[w].rows : desk[w].rows[k].class = c
Alone(w, c) == \A v \in Workers \ {w} : ~Holds(v, c)

ProgressInit ==
    /\ progress = << >> /\ cards = << >> /\ gone = {}
    /\ desk = [w \in Workers |-> NoTask]
    /\ mixed = {} /\ shrunk = {}

(***************************************************************************)
(* Attendance: the way rows come to be.  The entry of the first student,    *)
(* new or not, is refused, its table being in no migration, and the request *)
(* ends; what it inserted stays.                                            *)
(***************************************************************************)
MarkAttendance(w, k, c) ==
    /\ desk[w] = NoTask
    /\ k \notin DOMAIN progress
    /\ Take(w, [pc |-> "create", key |-> k, class |-> c])
    /\ UNCHANGED <<progress, cards, gone, mixed, shrunk>>

NewRow(c) == [class |-> c, position |-> 0, remarks |-> {}]
Insertable(k, c) == k \notin DOMAIN progress /\ {k[2], c} \cap gone = {}

CreateProgress(w) ==
    /\ desk[w].pc = "create"
    /\ LET k == desk[w].key  c == desk[w].class IN
         progress' = IF Insertable(k, c)
                       THEN [j \in DOMAIN progress \cup {k} |->
                               IF j = k THEN NewRow(c) ELSE progress[j]]
                       ELSE progress
    /\ Take(w, NoTask)
    /\ UNCHANGED <<cards, gone, mixed, shrunk>>

(***************************************************************************)
(* Operations that change the rows they list                                *)
(***************************************************************************)
Hold(w, rows, then, report) ==
    Take(w, [pc |-> "save", rows |-> rows, then |-> then, report |-> report])

ComputeAllGradesForCourse(w, course) ==
    /\ desk[w] = NoTask
    /\ LET listed == {k \in DOMAIN progress : k[2] = course} IN
         /\ listed # {}
         /\ Hold(w, [k \in listed |-> progress[k]], "end", NoReport)
    /\ UNCHANGED <<progress, cards, gone, mixed, shrunk>>

AddRemarks(w, k, r) ==
    /\ desk[w] = NoTask /\ k \in DOMAIN progress
    /\ Hold(w, [j \in {k} |-> [progress[k] EXCEPT !.remarks = @ \cup {r}]], "end", NoReport)
    /\ UNCHANGED <<progress, cards, gone, mixed, shrunk>>

UnflagProgress(w, k) ==
    /\ desk[w] = NoTask /\ k \in DOMAIN progress
    /\ Hold(w, [j \in {k} |-> progress[k]], "end", NoReport)
    /\ UNCHANGED <<progress, cards, gone, mixed, shrunk>>

(* One place for each student, the same in all the rows; the order of equal *)
(* averages is that of a map.                                               *)
MutantRankings(c) == Bijection(RowsIn(c), 1..Cardinality(RowsIn(c))) \* one for each row
Rankings(c) ==
    {[k \in RowsIn(c) |-> rank[k[1]]] :
       rank \in Bijection(StudentsIn(c), 1..Cardinality(StudentsIn(c)))}

MutantPlaced(row, place) == [row EXCEPT !.position = place, !.remarks = {}] \* not listed
Placed(row, place) == [row EXCEPT !.position = place]

RankClass(w, c, then, report) ==
    /\ RowsIn(c) # {}
    /\ \E place \in Rankings(c) :
         Hold(w, [k \in RowsIn(c) |-> Placed(progress[k], place[k])], then, report)
    /\ mixed' = IF Alone(w, c) THEN mixed \ {c} ELSE mixed
    /\ UNCHANGED <<progress, cards, gone, shrunk>>

ComputeClassPositions(w, c) == desk[w] = NoTask /\ RankClass(w, c, "ranked", NoReport)

(***************************************************************************)
(* Report cards                                                             *)
(***************************************************************************)
(* created_at is the clock of whichever process made the row: any row may   *)
(* be the first, and the report be for its class.                           *)
StartReport(w, s, todo) ==
    /\ \E k \in RowsOf(s) :
         Hold(w, [j \in RowsOf(s) |-> progress[j]], "rank",
              [student |-> s, class |-> progress[k].class, todo |-> todo])
    /\ UNCHANGED <<progress, cards, gone, mixed, shrunk>>

GenerateReportCard(w, s) == desk[w] = NoTask /\ StartReport(w, s, {})

GenerateClassReportCards(w, c) ==
    /\ desk[w] = NoTask /\ RowsIn(c) # {}
    /\ Take(w, NextOrIdle(StudentsIn(c)))
    /\ UNCHANGED <<progress, cards, gone, mixed, shrunk>>

NextStudent(w) ==
    /\ desk[w].pc = "next"
    /\ \E s \in desk[w].todo :
         LET todo == desk[w].todo \ {s} IN
         \/ StartReport(w, s, todo)
         \/ /\ RowsOf(s) = {}
            /\ Take(w, NextOrIdle(todo))
            /\ UNCHANGED <<progress, cards, gone, mixed, shrunk>>

Rank(w) ==
    /\ desk[w].pc = "rank"
    /\ LET report == desk[w].report IN
         \/ RankClass(w, report.class, "refresh", report)
         \/ /\ RowsIn(report.class) = {}
            /\ Take(w, [pc |-> "refresh", report |-> report])
            /\ UNCHANGED <<progress, cards, gone, mixed, shrunk>>

(* The place on the card is the average of those in the student's rows, of  *)
(* whatever class, rounded down, where a row without a place counts as 0.   *)
MutantAveragePosition(ks) == \* not divided
    IF ks = {} THEN 1 ELSE SumFunctionOnSet([k \in ks |-> progress[k].position], ks)
AveragePosition(ks) ==
    IF ks = {} THEN 1
    ELSE SumFunctionOnSet([k \in ks |-> progress[k].position], ks) \div Cardinality(ks)

Refresh(w) ==
    /\ desk[w].pc = "refresh"
    /\ LET ks == RowsOf(desk[w].report.student) IN
         Take(w, [pc |-> "count", report |-> desk[w].report,
                    classes |-> {progress[k].class : k \in ks},
                    position |-> AveragePosition(ks)])
    /\ UNCHANGED <<progress, cards, gone, mixed, shrunk>>

CountStudents(w) ==
    /\ desk[w].pc = "count"
    /\ LET report == desk[w].report IN
         Take(w, [pc |-> "insert", report |-> report,
                    card |-> [class |-> report.class, classes |-> desk[w].classes,
                              position |-> desk[w].position,
                              total |-> Cardinality(StudentsIn(report.class))]])
    /\ UNCHANGED <<progress, cards, gone, mixed, shrunk>>

(* The constraints of report_cards: the class exists, the student has no    *)
(* card yet, place and total are at least 1.                                *)
CreateReportCard(w) ==
    /\ desk[w].pc = "insert"
    /\ LET s == desk[w].report.student
           card == desk[w].card
           inserted == /\ s \notin DOMAIN cards /\ card.class \notin gone
                       /\ card.position >= 1 /\ card.total >= 1
       IN  cards' = IF inserted
                      THEN [x \in DOMAIN cards \cup {s} |-> IF x = s THEN card ELSE cards[x]]
                      ELSE cards
    /\ Take(w, NextOrIdle(desk[w].report.todo))
    /\ UNCHANGED <<progress, gone, mixed, shrunk>>

(***************************************************************************)
(* Writing a row back                                                       *)
(***************************************************************************)
(* The row is found by its id.  A class that is deleted does not come back, *)
(* so that a row of the same class is the same row.  The order of a list,   *)
(* by place, age or student, is left open.                                  *)
Stored(k, row) == k \in DOMAIN progress /\ progress[k].class = row.class

Ranks(w) == desk[w].pc = "save" /\ desk[w].then \in {"ranked", "refresh"}
HeldClasses(w) == {desk[w].rows[k].class : k \in DOMAIN desk[w].rows}

(* The error ends the request, or the student's part of it. *)
Fail(w) ==
    /\ Take(w, CASE desk[w].pc \in {"idle", "create"} -> NoTask
                   [] desk[w].pc = "next" -> NextOrIdle(desk[w].todo)
                   [] OTHER -> NextOrIdle(desk[w].report.todo))
    /\ mixed' = IF Ranks(w) THEN mixed \cup HeldClasses(w) ELSE mixed

AllSaved(r) ==
    CASE r.then \in {"end", "ranked"} -> NoTask
      [] OTHER -> [pc |-> r.then, report |-> r.report]

UpdateProgress(w) ==
    /\ desk[w].pc = "save"
    /\ \E k \in DOMAIN desk[w].rows :
         LET r == desk[w]
             row == r.rows[k]
             left == DOMAIN r.rows \ {k}
         IN
         \/ /\ Stored(k, row)
            /\ progress' = [progress EXCEPT ![k] = row]
            /\ Take(w, IF left = {} THEN AllSaved(r)
                         ELSE [r EXCEPT !.rows = [j \in left |-> r.rows[j]]])
            /\ mixed' = IF Alone(w, row.class) THEN mixed ELSE mixed \cup {row.class}
            /\ UNCHANGED <<cards, gone, shrunk>>
         \/ /\ ~Stored(k, row)
            /\ Fail(w)
            /\ UNCHANGED <<progress, cards, gone, shrunk>>

(* A statement fails, or the client has gone. *)
GiveUp(w) ==
    /\ desk[w] # NoTask
    /\ Fail(w)
    /\ UNCHANGED <<progress, cards, gone, shrunk>>

(***************************************************************************)
(* Deletions, with what goes by cascade                                     *)
(***************************************************************************)
Drop(ks) ==
    /\ progress' = [k \in DOMAIN progress \ ks |-> progress[k]]
    /\ shrunk' = shrunk \cup {progress[k].class : k \in ks}
    /\ UNCHANGED <<desk, mixed>>

DeleteCourse(course) ==
    /\ course \notin gone
    /\ gone' = gone \cup {course}
    /\ Drop({k \in DOMAIN progress : k[2] = course})
    /\ UNCHANGED cards

DeleteClass(c) ==
    /\ c \notin gone
    /\ LET dropped == {course \in Courses : ClassOf[course] = c} IN
         /\ gone' = gone \cup {c} \cup dropped
         /\ Drop(RowsIn(c) \cup {k \in DOMAIN progress : k[2] \in dropped})
    /\ cards' = [s \in {x \in DOMAIN cards : cards[x].class # c} |-> cards[s]]

Starts(w) ==
    \/ \E k \in Keys :
         \/ \E c \in Classes : MarkAttendance(w, k, c)
         \/ \E r \in Remarks : AddRemarks(w, k, r)
         \/ UnflagProgress(w, k)
    \/ \E course \in Courses : ComputeAllGradesForCourse(w, course)
    \/ \E c \in Classes : ComputeClassPositions(w, c) \/ GenerateClassReportCards(w, c)
    \/ \E s \in Students : GenerateReportCard(w, s)

Continues(w) ==
    \/ CreateProgress(w) \/ UpdateProgress(w) \/ NextStudent(w) \/ Rank(w) \/ Refresh(w)
    \/ CountStudents(w) \/ CreateReportCard(w) \/ GiveUp(w)

ProgressNext ==
    \/ \E w \in Workers : Starts(w) \/ Continues(w)
    \/ \E course \in Courses : DeleteCourse(course)
    \/ \E c \in Classes : DeleteClass(c)

ProgressSpec == ProgressInit /\ [][ProgressNext]_progressVars

(***************************************************************************)
(* Properties                                                               *)
(***************************************************************************)
(* The tables and the requests hold only what the code can write. *)
ProgressTypeOK ==
    /\ DOMAIN progress \subseteq Keys /\ progress \in [DOMAIN progress -> Row]
    /\ DOMAIN cards \subseteq Students /\ cards \in [DOMAIN cards -> Card]
    /\ desk \in [Workers -> Task]
    /\ gone \subseteq Courses \cup Classes
    /\ mixed \subseteq Classes /\ shrunk \subseteq Classes

(* While nobody writes to a class, two students of it do not share a place  *)
(* and no student has two, unless requests wrote over each other or a       *)
(* ranking stopped half way since the last undisturbed one.                 *)
RanksAreFair ==
    \A c \in Classes \ mixed :
      (\A w \in Workers : ~Holds(w, c)) =>
        \A j, k \in RowsIn(c) :
          0 \notin {progress[j].position, progress[k].position} =>
            (progress[j].position = progress[k].position <=> j[1] = k[1])

(* A card never says "3rd of 2", however requests overlap, unless a course  *)
(* of the class was deleted or the student's courses are not of one class.  *)
CardsFit ==
    \A s \in DOMAIN cards :
      cards[s].classes = {cards[s].class} /\ cards[s].class \notin shrunk =>
        cards[s].position <= cards[s].total

(* A remark stays until its row is deleted, unless requests wrote over each *)
(* other in the class.                                                      *)
RemarksStay ==
    [][\A k \in DOMAIN progress \cap DOMAIN progress' :
         progress[k].class \notin mixed' => progress[k].remarks \subseteq progress'[k].remarks]_progressVars
===============================================================================
