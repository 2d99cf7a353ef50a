------------------------------ MODULE Coursework ------------------------------
(***************************************************************************)
(* The quizzes and assignments of a course, and what students hand in:      *)
(*   internal/service/assessment_service.go, internal/domain/assessment.go  *)
(*   internal/handler/assessment_handler.go                                 *)
(*   internal/repository/postgres/{quiz,assignment}.go                      *)
(*                                                                          *)
(* No request uses a transaction: each SQL statement is a step, and what a  *)
(* request read is in req[w] until it writes the whole row back.  Questions *)
(* and the marks of answers are left out; paper tells one set of questions  *)
(* and total marks from another.                                            *)
(***************************************************************************)
EXTENDS School, Naturals

CONSTANTS
    Works,          \* pool of fresh UUIDs for quizzes and assignments
    QuizTerms,      \* availability_start and availability_end an edit may ask for
    AssignmentTerms,    \* submission_deadline, allow_late_submission, and
                        \* hard_cutoff_date: a set of one instant, or of none
    Page,           \* submissions the handler lists: at most 100
    MaxTime, MaxPaper   \* bounds: of the clock and of the edits

None == "none"
Time == 0..MaxTime
Papers == 0..MaxPaper

ASSUME CourseworkAssumption ==
    /\ Page \in Nat \ {0} /\ MaxTime \in Nat /\ MaxPaper \in Nat
    /\ QuizTerms \subseteq [open: Time, close: Time]
    /\ \A terms \in QuizTerms : terms.open < terms.close
    /\ AssignmentTerms \subseteq [deadline: Time, cutoff: SUBSET Time, late: BOOLEAN]

VARIABLES
    now,
    papers,         \* the last set of questions anyone wrote
    works,          \* tables quizzes and assignments
    work,           \* work[i][s]: what student s did for i, tables *_submissions
    req,
    overwritten,    \* history: works a request that had read a draft wrote over
                    \* after they were published
    accepted,       \* history: submissions accepted for i from s, up to 2
    crossed,        \* history: submissions that were in flight together
    marked,         \* history: what a tutor has graded
    turnedAway      \* history: who was told "no quiz attempt found" during one,
                    \* after a listing that succeeded

histories == <<overwritten, accepted, crossed, marked, turnedAway>>
tables == <<papers, works, work>>
vars == <<now, tables, req, histories>>

(***************************************************************************)
(* Rows                                                                     *)
(***************************************************************************)
Status == {"DRAFT", "PUBLISHED"}
Quiz == [kind: {"quiz"}, status: Status, paper: Papers, terms: QuizTerms]
Assignment == [kind: {"assignment"}, status: Status, paper: Papers, terms: AssignmentTerms]
NoWork == [status |-> None]
DeletedWork == [status |-> "DELETED"]
Exists(i) == works[i].status \in Status
Is(i, kind) == Exists(i) /\ works[i].kind = kind

(* paper is the one the row's score, or its being marked by hand, rests on.  *)
Attempt == [status: {"IN_PROGRESS"}, started: Time]
QuizSubmission == [status: {"SUBMITTED", "LATE", "GRADED"}, started: Time, at: Time, paper: Papers]
AssignmentSubmission == [status: {"SUBMITTED", "LATE", "GRADED"}, at: Time, late: BOOLEAN]
Nothing == [status |-> None]
IsSubmitted(row) == row.status \in {"SUBMITTED", "LATE", "GRADED"}

Idle == [pc |-> "idle"]
Editing == [pc: {"update", "publish", "delete"}, id: Works, read: Status,
            row: Quiz \cup Assignment]
Sitting == [pc: {"insert"}, id: Works, student: Students,
            row: Attempt \cup AssignmentSubmission]
           \cup [pc: {"readAttempt"}, id: Works, student: Students]
           \cup [pc: {"readQuiz"}, id: Works, student: Students, row: Attempt]
           \cup [pc: {"readTotal", "submit"}, id: Works, student: Students, row: QuizSubmission]
           \cup [pc: {"grade"}, id: Works, student: Students,
                 row: QuizSubmission \cup AssignmentSubmission]
Request == {Idle} \cup Editing \cup Sitting

Become(w, r) == req' = [req EXCEPT ![w] = r]
Finish(w) == Become(w, Idle)

Init ==
    /\ now = 0 /\ papers = 0
    /\ works = [i \in Works |-> NoWork]
    /\ work = [i \in Works |-> [s \in Students |-> Nothing]]
    /\ req = [w \in Workers |-> Idle]
    /\ accepted = [i \in Works |-> [s \in Students |-> 0]]
    /\ overwritten = {} /\ crossed = {} /\ marked = {} /\ turnedAway = {}

Tick == now < MaxTime /\ now' = now + 1 /\ UNCHANGED <<tables, req, histories>>

(* Every statement may fail, and the client may hang up: the request ends.  *)
Abort(w) ==
    /\ req[w] # Idle
    /\ Finish(w)
    /\ UNCHANGED <<now, tables, histories>>

(***************************************************************************)
(* The tutor's side                                                         *)
(***************************************************************************)
(* INSERT; the course was looked up before and is not modelled.             *)
CreateQuiz(i, terms) ==
    /\ works[i] = NoWork
    /\ works' = [works EXCEPT ![i] =
                   [kind |-> "quiz", status |-> "DRAFT", paper |-> papers, terms |-> terms]]
    /\ UNCHANGED <<now, papers, work, req, histories>>
CreateAssignment(i, terms) ==
    /\ works[i] = NoWork
    /\ works' = [works EXCEPT ![i] =
                   [kind |-> "assignment", status |-> "DRAFT", paper |-> papers, terms |-> terms]]
    /\ UNCHANGED <<now, papers, work, req, histories>>

(* A request reads the row, refuses a published one, and goes on with what  *)
(* it read.                                                                 *)
IsDraft(i, kind) == Is(i, kind) /\ works[i].status = "DRAFT"
Editor(w, pc, i, row) ==
    /\ req[w] = Idle
    /\ Become(w, [pc |-> pc, id |-> i, read |-> works[i].status, row |-> row])
    /\ UNCHANGED <<now, works, work, histories>>
Update(w, i, terms) ==
    /\ papers < MaxPaper
    /\ papers' = papers + 1
    /\ Editor(w, "update", i, [works[i] EXCEPT !.paper = papers', !.terms = terms])
Publish(w, i) ==
    /\ Editor(w, "publish", i, [works[i] EXCEPT !.status = "PUBLISHED"])
    /\ UNCHANGED papers
Delete(w, i) == Editor(w, "delete", i, works[i]) /\ UNCHANGED papers

(* Published ones too. *)
MutantUpdateQuiz(w, i, terms) == Is(i, "quiz") /\ Update(w, i, terms)
UpdateQuiz(w, i, terms) == IsDraft(i, "quiz") /\ Update(w, i, terms)
PublishQuiz(w, i) == IsDraft(i, "quiz") /\ Publish(w, i)
DeleteQuiz(w, i) == IsDraft(i, "quiz") /\ Delete(w, i)
UpdateAssignment(w, i, terms) == IsDraft(i, "assignment") /\ Update(w, i, terms)
PublishAssignment(w, i) == IsDraft(i, "assignment") /\ Publish(w, i)
DeleteAssignment(w, i) == IsDraft(i, "assignment") /\ Delete(w, i)

Overwrites(r) == works[r.id].status = "PUBLISHED" /\ r.read = "DRAFT"

(* Every column, WHERE id alone; without a row, an error.                   *)
Store(w) ==
    LET r == req[w] IN
    /\ r.pc \in {"update", "publish"}
    /\ works' = IF Exists(r.id) THEN [works EXCEPT ![r.id] = r.row] ELSE works
    /\ overwritten' = IF Overwrites(r) THEN overwritten \cup {r.id} ELSE overwritten
    /\ Finish(w)
    /\ UNCHANGED <<now, papers, work, accepted, crossed, marked, turnedAway>>
(* WHERE id alone, and it cascades to the submissions.                      *)
Erase(w) ==
    LET r == req[w] IN
    /\ r.pc = "delete"
    /\ works' = [works EXCEPT ![r.id] = DeletedWork]
    /\ work' = [work EXCEPT ![r.id] = [s \in Students |-> Nothing]]
    /\ overwritten' = IF Overwrites(r) THEN overwritten \cup {r.id} ELSE overwritten
    /\ Finish(w)
    /\ UNCHANGED <<now, papers, accepted, crossed, marked, turnedAway>>

StoreQuiz(w) == Store(w) /\ req[w].row.kind = "quiz"
StoreAssignment(w) == Store(w) /\ req[w].row.kind = "assignment"
EraseQuiz(w) == Erase(w) /\ req[w].row.kind = "quiz"
EraseAssignment(w) == Erase(w) /\ req[w].row.kind = "assignment"

(***************************************************************************)
(* Quizzes                                                                  *)
(***************************************************************************)
IsAvailable(i) ==
    /\ works[i].status = "PUBLISHED"
    /\ works[i].terms.open < now /\ now < works[i].terms.close

StartQuiz(w, i, s) ==
    /\ req[w] = Idle /\ Is(i, "quiz") /\ IsAvailable(i)
    /\ Become(w, [pc |-> "insert", id |-> i, student |-> s,
                  row |-> [status |-> "IN_PROGRESS", started |-> now]])
    /\ UNCHANGED <<now, tables, histories>>

(* The student's row is looked up, and an existing one is returned or       *)
(* refused; a failed lookup counts as none.  The unique index on quiz and   *)
(* student and the foreign key have the last word on the INSERT.            *)
Inserted(i, s, row) ==
    IF Exists(i) /\ work[i][s] = Nothing THEN [work EXCEPT ![i][s] = row] ELSE work
CreateQuizSubmission(w) ==
    LET r == req[w] IN
    /\ r.pc = "insert" /\ r.row.status = "IN_PROGRESS"
    /\ work' = Inserted(r.id, r.student, r.row)
    /\ Finish(w)
    /\ UNCHANGED <<now, papers, works, histories>>

(* The handler looks the student's attempt up in one page of the quiz's     *)
(* submissions, ORDER BY submitted_at DESC NULLS LAST and then by UUID.     *)
Attempts(i) == {s \in Students : work[i][s] # Nothing}
Later(x, y) == IsSubmitted(x) /\ (IsSubmitted(y) => x.at > y.at)
Ahead(i, s) == {t \in Attempts(i) : Later(work[i][t], work[i][s])}
NotBehind(i, s) == {t \in Attempts(i) \ {s} : ~Later(work[i][s], work[i][t])}
Listed(i, s) == s \in Attempts(i) /\ Cardinality(Ahead(i, s)) < Page
(* A page short by one. *)
MutantUnlisted(i, s) == s \notin Attempts(i) \/ Cardinality(NotBehind(i, s)) + 1 >= Page
Unlisted(i, s) == s \notin Attempts(i) \/ Cardinality(NotBehind(i, s)) >= Page

SubmitQuiz(w, i, s) ==
    /\ req[w] = Idle /\ Is(i, "quiz")
    /\ Listed(i, s)
    /\ Become(w, [pc |-> "readAttempt", id |-> i, student |-> s])
    /\ UNCHANGED <<now, tables, histories>>
(* The handler discards the error of the listing: one that failed, at its   *)
(* COUNT or at its SELECT, has no rows.                                     *)
NoAttemptFound(w, i, s) ==
    /\ req[w] = Idle /\ Is(i, "quiz")
    /\ \E read \in BOOLEAN :
         /\ read => Unlisted(i, s)
         /\ turnedAway' = IF read /\ work[i][s].status = "IN_PROGRESS"
                          THEN turnedAway \cup {<<i, s>>} ELSE turnedAway
    /\ UNCHANGED <<now, tables, req, overwritten, accepted, crossed, marked>>

(* The refusal of a second submission is gone. *)
MutantReadAttempt(w) ==
    LET r == req[w] IN
    /\ r.pc = "readAttempt"
    /\ IF work[r.id][r.student] = Nothing
       THEN Finish(w)
       ELSE Become(w, [pc |-> "readQuiz", id |-> r.id, student |-> r.student,
                       row |-> work[r.id][r.student]])
    /\ UNCHANGED <<now, tables, histories>>

ReadAttempt(w) ==
    LET r == req[w] IN
    /\ r.pc = "readAttempt"
    /\ IF work[r.id][r.student] = Nothing \/ IsSubmitted(work[r.id][r.student])
       THEN Finish(w)
       ELSE Become(w, [pc |-> "readQuiz", id |-> r.id, student |-> r.student,
                       row |-> work[r.id][r.student]])
    /\ UNCHANGED <<now, tables, histories>>

(* The quiz is read, the answers are marked.  Without an answer to a        *)
(* question that takes a tutor the row is graded at once, late or not.      *)
MarkAnswers(w) ==
    LET r == req[w]
        late == now > works[r.id].terms.close
    IN
    /\ r.pc = "readQuiz"
    /\ IF ~Exists(r.id) THEN Finish(w)
       ELSE \E byHand \in BOOLEAN :
              Become(w, [pc |-> "submit", id |-> r.id, student |-> r.student,
                         row |-> [status |-> IF ~byHand THEN "GRADED"
                                             ELSE IF late THEN "LATE" ELSE "SUBMITTED",
                                  started |-> r.row.started, at |-> now,
                                  paper |-> works[r.id].paper]])
    /\ UNCHANGED <<now, tables, histories>>

(* History: another submission of the same attempt has read it already.     *)
InFlight(w, i, s) ==
    \E v \in Workers \ {w} :
      /\ req[v].pc \in {"readQuiz", "submit"}
      /\ req[v].id = i /\ req[v].student = s

(* UPDATE of every column but started_at, WHERE id alone.                   *)
Kept(i, s, row) == IF work[i][s] = Nothing THEN work ELSE [work EXCEPT ![i][s] = row]
SaveSubmission(w) ==
    LET r == req[w] IN
    /\ r.pc = "submit"
    /\ work' = Kept(r.id, r.student, r.row)
    /\ IF work[r.id][r.student] = Nothing THEN UNCHANGED <<accepted, crossed>>
       ELSE /\ accepted' = [accepted EXCEPT ![r.id][r.student] = IF @ < 2 THEN @ + 1 ELSE 2]
            /\ crossed' = IF InFlight(w, r.id, r.student)
                          THEN crossed \cup {<<r.id, r.student>>} ELSE crossed
    /\ Finish(w)
    /\ UNCHANGED <<now, papers, works, overwritten, marked, turnedAway>>

(* The tutor grades what was submitted, graded before or not.               *)
GradeQuiz(w, i, s) ==
    /\ req[w] = Idle /\ IsSubmitted(work[i][s]) /\ Is(i, "quiz")
    /\ Become(w, [pc |-> "readTotal", id |-> i, student |-> s, row |-> work[i][s]])
    /\ UNCHANGED <<now, tables, histories>>
GradeAnswers(w) ==
    LET r == req[w] IN
    /\ r.pc = "readTotal"
    /\ IF ~Exists(r.id) THEN Finish(w)
       ELSE Become(w, [pc |-> "grade", id |-> r.id, student |-> r.student,
                       row |-> [r.row EXCEPT !.status = "GRADED", !.paper = works[r.id].paper]])
    /\ UNCHANGED <<now, tables, histories>>
SaveGrade(w) ==
    LET r == req[w] IN
    /\ r.pc = "grade"
    /\ work' = Kept(r.id, r.student, r.row)
    /\ marked' = IF work[r.id][r.student] = Nothing THEN marked
                 ELSE marked \cup {<<r.id, r.student>>}
    /\ Finish(w)
    /\ UNCHANGED <<now, papers, works, overwritten, accepted, crossed, turnedAway>>

(***************************************************************************)
(* Assignments                                                              *)
(***************************************************************************)
IsOverdue(terms) == now > terms.deadline
(* Late work is let through before the cutoff is looked at. *)
CanSubmit(terms) ==
    /\ \A cutoff \in terms.cutoff : now <= cutoff
    /\ terms.late \/ now < terms.deadline

SubmitAssignment(w, i, s) ==
    LET terms == works[i].terms IN
    /\ req[w] = Idle /\ Is(i, "assignment")
    /\ works[i].status = "PUBLISHED" /\ CanSubmit(terms)
    /\ Become(w, [pc |-> "insert", id |-> i, student |-> s,
                  row |-> [status |-> IF IsOverdue(terms) THEN "LATE" ELSE "SUBMITTED",
                           at |-> now, late |-> IsOverdue(terms)]])
    /\ UNCHANGED <<now, tables, histories>>
CreateAssignmentSubmission(w) ==
    LET r == req[w] IN
    /\ r.pc = "insert" /\ r.row.status # "IN_PROGRESS"
    /\ work' = Inserted(r.id, r.student, r.row)
    /\ accepted' = IF work' = work THEN accepted
                   ELSE [accepted EXCEPT ![r.id][r.student] = IF @ < 2 THEN @ + 1 ELSE 2]
    /\ Finish(w)
    /\ UNCHANGED <<now, papers, works, overwritten, crossed, marked, turnedAway>>

GradeAssignment(w, i, s) ==
    /\ req[w] = Idle /\ IsSubmitted(work[i][s]) /\ Is(i, "assignment")
    /\ Become(w, [pc |-> "grade", id |-> i, student |-> s,
                  row |-> [work[i][s] EXCEPT !.status = "GRADED"]])
    /\ UNCHANGED <<now, tables, histories>>

Next ==
    \/ Tick
    \/ \E i \in Works, terms \in QuizTerms : CreateQuiz(i, terms)
    \/ \E i \in Works, terms \in AssignmentTerms : CreateAssignment(i, terms)
    \/ \E w \in Workers :
         \/ Abort(w)
         \/ StoreQuiz(w) \/ StoreAssignment(w) \/ EraseQuiz(w) \/ EraseAssignment(w)
         \/ CreateQuizSubmission(w) \/ ReadAttempt(w) \/ MarkAnswers(w) \/ SaveSubmission(w)
         \/ GradeAnswers(w) \/ SaveGrade(w)
         \/ CreateAssignmentSubmission(w)
         \/ \E i \in Works :
              \/ \E terms \in QuizTerms : UpdateQuiz(w, i, terms)
              \/ \E terms \in AssignmentTerms : UpdateAssignment(w, i, terms)
              \/ PublishQuiz(w, i) \/ DeleteQuiz(w, i)
              \/ PublishAssignment(w, i) \/ DeleteAssignment(w, i)
              \/ \E s \in Students :
                   \/ StartQuiz(w, i, s) \/ SubmitQuiz(w, i, s) \/ NoAttemptFound(w, i, s)
                   \/ GradeQuiz(w, i, s)
                   \/ SubmitAssignment(w, i, s) \/ GradeAssignment(w, i, s)

Spec == Init /\ [][Next]_vars

(***************************************************************************)
(* Properties                                                               *)
(***************************************************************************)
(* The tables and the requests hold only what the code can write, in the    *)
(* widths and statuses the migrations allow.                                *)
TypeOK ==
    /\ now \in Time /\ papers \in Papers
    /\ works \in [Works -> Quiz \cup Assignment \cup {NoWork, DeletedWork}]
    /\ work \in [Works -> [Students -> Attempt \cup QuizSubmission \cup AssignmentSubmission \cup {Nothing}]]
    /\ req \in [Workers -> Request]
    /\ accepted \in [Works -> [Students -> 0..2]]
    /\ overwritten \subseteq Works
    /\ crossed \cup marked \cup turnedAway \subseteq Works \X Students

(* What a student sat a quiz under: the window, the time and the paper.     *)
SatUnder(quiz, row) ==
    /\ quiz.terms.open < row.started /\ row.started < quiz.terms.close
    /\ IsSubmitted(row) => row.at >= row.started /\ row.paper = quiz.paper
    /\ row.status = "SUBMITTED" => row.at <= quiz.terms.close
    /\ row.status = "LATE" => row.at > quiz.terms.close
HandedInUnder(assignment, row) ==
    LET terms == assignment.terms IN
    /\ row.late <=> row.at > terms.deadline
    /\ row.late => terms.late
    /\ \A cutoff \in terms.cutoff : row.at <= cutoff
    /\ row.status # "GRADED" => (row.status = "LATE" <=> row.late)

(* Unless an edit read as a draft was written over a publication, whatever  *)
(* a student handed in is for a work that still is published, as it was     *)
(* then: within its window, with the lateness it says, and marked against   *)
(* the questions it still has.                                              *)
TermsStand ==
    \A i \in Works \ overwritten, s \in Students :
      work[i][s] # Nothing \/ accepted[i][s] > 0 =>
        /\ works[i].status = "PUBLISHED"
        /\ work[i][s] # Nothing
        /\ IF works[i].kind = "quiz" THEN SatUnder(works[i], work[i][s])
                                     ELSE HandedInUnder(works[i], work[i][s])

(* A submission is accepted once, and what a tutor graded stays graded,     *)
(* unless two submissions of the attempt were in flight together: then the  *)
(* second takes the row back to what it was before the grade.               *)
SubmittedOnce ==
    \A i \in Works \ overwritten, s \in Students :
      <<i, s>> \notin crossed =>
        /\ accepted[i][s] <= 1
        /\ <<i, s>> \in marked => work[i][s].status = "GRADED"

(* A student with an attempt in progress whose quiz's submissions were read *)
(* is told there is none only when they are more than the handler lists: an *)
(* attempt in progress sorts after everything handed in.  When reading them *)
(* fails, the student is told so whatever the quiz has.                     *)
FoundWithinPage ==
    \A a \in turnedAway : Exists(a[1]) => Cardinality(Attempts(a[1])) > Page
===============================================================================
