---------------------------- MODULE Examinations ----------------------------
(***************************************************************************)
(* One examination, the students' attempts at it and the window job:        *)
(*   internal/service/examination_service.go                                *)
(*   internal/repository/postgres/examination.go                            *)
(*   internal/scheduler/jobs/examination_window_job.go                      *)
(*                                                                          *)
(* One SQL statement is one atomic step; nothing here opens a transaction,  *)
(* and every UPDATE of a single row writes back the whole row as it was     *)
(* read, so req[w] carries that row from the read to the write.  Examina-   *)
(* tions share no rows, so one is enough.  The unit of time is the job's    *)
(* interval (one minute); the job may run late or not at all.               *)
(***************************************************************************)
EXTENDS Integers

CONSTANTS
    Students, Workers,
    Windows,                \* pairs <<window_start, window_end>> an author may choose
    Duration,               \* exam.Duration, in units of the job's interval
    Questions,              \* question identifiers that answers may carry
    Objective, Subjective,  \* the exam's questions, by how they are graded
    Marks,                  \* question.Marks
    MaxGrade,               \* bound: marks a grader may enter
    MaxTime, MaxFaults      \* bounds: clock, failed statements and crashes

ASSUME ExaminationsAssumption ==
    /\ Windows \subseteq (Nat \X Nat)
    /\ \A win \in Windows : win[1] < win[2]     \* chk_examinations_window_order
    /\ Duration \in Nat
    /\ Objective \cup Subjective \subseteq Questions
    /\ Objective \cap Subjective = {}
    /\ Marks \in [Objective \cup Subjective -> Nat]
    /\ MaxGrade \in Nat /\ MaxTime \in Nat /\ MaxFaults \in Nat

VARIABLES
    time, faults,
    exam,       \* the row of examinations
    attempts,   \* examination_submissions, keyed by student (UNIQUE constraint)
    req,        \* requests in flight
    job,        \* the window job
    ran,        \* the job has been started at this instant
    missed      \* history: the job skipped or overran an instant

clock == <<time, faults>>
sched == <<job, ran, missed>>
vars == <<clock, exam, attempts, req, sched>>

(***************************************************************************)
(* Rows                                                                     *)
(***************************************************************************)
ExaminationStatus == {"DRAFT", "SCHEDULED", "IN_PROGRESS", "COMPLETED"}
ExamRow == [status: ExaminationStatus, published: BOOLEAN, window: Windows]
NoExam == [status |-> "NONE"]
DeletedExam == [status |-> "DELETED"]

Unset == -1     \* SQL NULL

(* A score is kept as what each question contributed to it; the column holds *)
(* the sum.                                                                  *)
Score == [Questions -> Nat]
NoScore == <<>> \* SQL NULL

(* What a grading request says of each question.  marks_earned is validated  *)
(* as "required", which refuses a zero, and there is at least one grade.     *)
Grades == [Questions -> {Unset} \cup 1..MaxGrade] \ {[q \in Questions |-> Unset]}

NoAnswer == [at |-> Unset]
Answer == [at: 0..MaxTime, right: BOOLEAN, marks: Nat \cup {Unset}]
Answers == [Questions -> Answer \cup {NoAnswer}]
Answered(ans) == {q \in Questions : ans[q] # NoAnswer}

SubmissionStatus == {"IN_PROGRESS", "SUBMITTED", "GRADED", "PUBLISHED"}

(* submitted, graded: submitted_at and graded_at are set; shown:             *)
(* results_published_to_student.  auto_submitted, the percentage and the     *)
(* integrity events are left out.                                            *)
Attempt == [status: SubmissionStatus, started: 0..MaxTime, submitted: BOOLEAN,
            answers: Answers, score: Score \cup {NoScore}, graded: BOOLEAN, shown: BOOLEAN]
NoAttempt == [status |-> "NONE"]

ExamExists == exam.status \in ExaminationStatus
Exists(s) == attempts[s].status \in SubmissionStatus
WithStatus(st) == {s \in Students : attempts[s].status = st}

WithinWindow(e, now) == e.window[1] < now /\ now < e.window[2]
CanAccess(e, now) == e.status = "SCHEDULED" /\ WithinWindow(e, now)

(***************************************************************************)
(* Requests and the job: what is kept between two statements                *)
(***************************************************************************)
Idle == [pc |-> "idle"]

Finding == [pc: {"findAttempt", "insertAttempt"}, student: Students, now: 0..MaxTime]
Holding == [pc: {"save", "submit", "grade", "updateAttempt"}, student: Students,
            row: Attempt]
ExamWriting == [pc: {"updateExam", "publishExam", "count"}, row: ExamRow]
Bare == [pc: {"deleteExam", "publishAttempts"}]

Request == {Idle} \cup Finding \cup Holding \cup ExamWriting \cup Bare

JobLooking == [pc: {"listOpen", "notify", "listClose"}, now: 0..MaxTime]
JobOpening == [pc: {"writeOpen"}, now: 0..MaxTime, row: ExamRow]
JobClosing == [pc: {"writeClose"}, row: ExamRow]
JobSubmitting == [pc: {"autoSubmit"}]

Job == {Idle} \cup JobLooking \cup JobOpening \cup JobClosing \cup JobSubmitting

Init ==
    /\ time = 0 /\ faults = 0
    /\ exam = NoExam
    /\ attempts = [s \in Students |-> NoAttempt]
    /\ req = [w \in Workers |-> Idle]
    /\ job = Idle /\ ran = FALSE /\ missed = FALSE

Become(w, r) == req' = [req EXCEPT ![w] = r]
Finish(w) == Become(w, Idle)

(***************************************************************************)
(* The examination: create, edit, delete, schedule                          *)
(***************************************************************************)
CreateExamination ==
    \E win \in Windows :
        /\ exam = NoExam
        /\ exam' = [status |-> "DRAFT", published |-> FALSE, window |-> win]
        /\ UNCHANGED <<clock, attempts, req, sched>>

(* Reads a DRAFT and will write it back with the edited columns; the columns *)
(* other than the window are not told apart here.                            *)
UpdateExamination(w) ==
    \E win \in Windows :
        /\ req[w] = Idle
        /\ exam.status = "DRAFT"
        /\ Become(w, [pc |-> "updateExam", row |-> [exam EXCEPT !.window = win]])
        /\ UNCHANGED <<clock, exam, attempts, sched>>

ScheduleExamination(w) ==
    /\ req[w] = Idle
    /\ exam.status = "DRAFT"
    /\ time <= exam.window[1]
    /\ Become(w, [pc |-> "updateExam", row |-> [exam EXCEPT !.status = "SCHEDULED"]])
    /\ UNCHANGED <<clock, exam, attempts, sched>>

(* UPDATE ... WHERE id = $1: the whole row, or not found. *)
WriteExam(row) == exam' = IF ExamExists THEN row ELSE exam

UpdateExamRow(w) ==
    /\ req[w].pc = "updateExam"
    /\ WriteExam(req[w].row)
    /\ Finish(w)
    /\ UNCHANGED <<clock, attempts, sched>>

DeleteExamination(w) ==
    /\ req[w] = Idle
    /\ exam.status = "DRAFT"
    /\ Become(w, [pc |-> "deleteExam"])
    /\ UNCHANGED <<clock, exam, attempts, sched>>

(* DELETE, whatever the status is by now; attempts go with it (ON DELETE     *)
(* CASCADE).                                                                 *)
DeleteExamRow(w) ==
    /\ req[w].pc = "deleteExam"
    /\ exam' = DeletedExam
    /\ attempts' = [s \in Students |-> NoAttempt]
    /\ Finish(w)
    /\ UNCHANGED <<clock, sched>>

(***************************************************************************)
(* A student starts an attempt                                              *)
(***************************************************************************)
StartExamination(w, s) ==
    /\ req[w] = Idle
    /\ ExamExists
    /\ CanAccess(exam, time)
    /\ Become(w, [pc |-> "findAttempt", student |-> s, now |-> time])
    /\ UNCHANGED <<clock, exam, attempts, sched>>

(* An attempt that is there is returned or refused, without a write; an      *)
(* error of the SELECT counts as "no attempt" (examination_service.go:378).  *)
FindAttempt(w) ==
    /\ req[w].pc = "findAttempt"
    /\ \/ /\ Exists(req[w].student)
          /\ Finish(w)
          /\ UNCHANGED faults
       \/ /\ ~Exists(req[w].student)
          /\ Become(w, [req[w] EXCEPT !.pc = "insertAttempt"])
          /\ UNCHANGED faults
       \/ /\ faults < MaxFaults
          /\ faults' = faults + 1
          /\ Become(w, [req[w] EXCEPT !.pc = "insertAttempt"])
    /\ UNCHANGED <<time, exam, attempts, sched>>

(* The foreign key to the examination and the UNIQUE constraint. *)
InsertAllowed(s) == ExamExists /\ ~Exists(s)

NewAttempt(now) ==
    [status |-> "IN_PROGRESS", started |-> now, submitted |-> FALSE,
     answers |-> [q \in Questions |-> NoAnswer], score |-> NoScore,
     graded |-> FALSE, shown |-> FALSE]

InsertAttempt(w) ==
    LET s == req[w].student
    IN  /\ req[w].pc = "insertAttempt"
        /\ attempts' = IF InsertAllowed(s)
                       THEN [attempts EXCEPT ![s] = NewAttempt(req[w].now)] ELSE attempts
        /\ Finish(w)
        /\ UNCHANGED <<clock, exam, sched>>

(***************************************************************************)
(* Answers, integrity events, submission                                    *)
(***************************************************************************)
(* Each request on an attempt reads its row first.  RecordIntegrityEvent     *)
(* writes it back with one more event.                                       *)
Hold(w, pc, s, row) == Become(w, [pc |-> pc, student |-> s, row |-> row])

ReadAttempt(w, s) ==
    /\ req[w] = Idle
    /\ attempts[s].status = "IN_PROGRESS"
    /\ \/ Hold(w, "save", s, attempts[s])
       \/ Hold(w, "submit", s, attempts[s])
       \/ Hold(w, "updateAttempt", s, attempts[s])
    /\ UNCHANGED <<clock, exam, attempts, sched>>

(* The marks that have been given to the answers of questions qs. *)
Earned(ans, qs) ==
    [q \in Questions |->
        IF q \in qs \cap Answered(ans) /\ ans[q].marks # Unset THEN ans[q].marks ELSE 0]

AutoMarked(ans) ==
    [q \in Questions |->
        IF q \in Objective \cap Answered(ans)
        THEN [ans[q] EXCEPT !.marks = IF ans[q].right THEN Marks[q] ELSE 0]
        ELSE ans[q]]

(* submitAndGrade: GRADED at once unless an answer needs a tutor. *)
Submitted(row) ==
    LET ans == AutoMarked(row.answers)
        manual == Subjective \cap Answered(ans) # {}
    IN  [row EXCEPT !.status = IF manual THEN "SUBMITTED" ELSE "GRADED",
                    !.submitted = TRUE, !.answers = ans, !.score = Earned(ans, Objective),
                    !.graded = IF manual THEN row.graded ELSE TRUE]

(* A new answer, or new text and options for one that is there: its marks    *)
(* stay what they are.                                                       *)
WithAnswer(row, q, right, now) ==
    [row EXCEPT !.answers[q] =
        [at |-> now, right |-> right,
         marks |-> IF q \in Answered(row.answers) THEN row.answers[q].marks ELSE Unset]]

MutantOverdue(row, e, now) == now > e.window[2]
Overdue(row, e, now) == now > e.window[2] \/ now > row.started + Duration

(* The request then reads the examination; with no examination it ends. *)
WillWrite(w, row) ==
    IF ExamExists THEN Hold(w, "updateAttempt", req[w].student, row) ELSE Finish(w)

(* Too late, SaveAnswer submits instead. *)
SaveAnswer(w) ==
    /\ req[w].pc = "save"
    /\ \E q \in Questions : \E right \in (IF q \in Objective THEN BOOLEAN ELSE {FALSE}) :
          WillWrite(w, IF Overdue(req[w].row, exam, time) THEN Submitted(req[w].row)
                       ELSE WithAnswer(req[w].row, q, right, time))
    /\ UNCHANGED <<clock, exam, attempts, sched>>

SubmitExamination(w) ==
    /\ req[w].pc = "submit"
    /\ WillWrite(w, Submitted(req[w].row))
    /\ UNCHANGED <<clock, exam, attempts, sched>>

(***************************************************************************)
(* Grading by a tutor                                                       *)
(***************************************************************************)
GradeSubmission(w, s) ==
    /\ req[w] = Idle
    /\ attempts[s].status = "SUBMITTED"
    /\ Hold(w, "grade", s, attempts[s])
    /\ UNCHANGED <<clock, exam, attempts, sched>>

(* Marks go only to answers that have none; a grade above the question's     *)
(* marks refuses the request; a question the exam does not have has no limit.*)
Open(ans, grades) ==
    {q \in Answered(ans) : ans[q].marks = Unset /\ grades[q] # Unset}
Refused(ans, grades) ==
    \E q \in Open(ans, grades) \cap (Objective \cup Subjective) : grades[q] > Marks[q]
ManuallyMarked(ans, grades) ==
    [q \in Questions |->
        IF q \in Open(ans, grades) THEN [ans[q] EXCEPT !.marks = grades[q]] ELSE ans[q]]

MutantGraded(row, grades) ==
    LET ans == ManuallyMarked(row.answers, grades)
    IN  [row EXCEPT !.status = "GRADED", !.answers = ans, !.graded = TRUE,
                    !.score = Earned(ans, Open(row.answers, grades))]
Graded(row, grades) ==
    LET ans == ManuallyMarked(row.answers, grades)
    IN  [row EXCEPT !.status = "GRADED", !.answers = ans, !.graded = TRUE,
                    !.score = Earned(ans, Questions)]

ApplyGrades(w) ==
    /\ req[w].pc = "grade"
    /\ \E grades \in Grades :
          IF Refused(req[w].row.answers, grades) THEN Finish(w)
          ELSE WillWrite(w, Graded(req[w].row, grades))
    /\ UNCHANGED <<clock, exam, attempts, sched>>

(***************************************************************************)
(* UpdateSubmission: every column but started_at                            *)
(***************************************************************************)
Written(old, row) == [row EXCEPT !.started = old.started]

UpdateSubmission(w) ==
    LET s == req[w].student
    IN  /\ req[w].pc = "updateAttempt"
        /\ attempts' = IF Exists(s)
                       THEN [attempts EXCEPT ![s] = Written(attempts[s], req[w].row)]
                       ELSE attempts
        /\ Finish(w)
        /\ UNCHANGED <<clock, exam, sched>>

(***************************************************************************)
(* Publishing the results                                                   *)
(***************************************************************************)
PublishResults(w) ==
    /\ req[w] = Idle
    /\ ExamExists /\ ~exam.published
    /\ Become(w, [pc |-> "count",
                  row |-> [exam EXCEPT !.published = TRUE, !.status = "COMPLETED"]])
    /\ UNCHANGED <<clock, exam, attempts, sched>>

CountSubmissions(w) ==
    /\ req[w].pc = "count"
    /\ IF WithStatus("SUBMITTED") \cup WithStatus("IN_PROGRESS") # {} THEN Finish(w)
       ELSE Become(w, [req[w] EXCEPT !.pc = "publishExam"])
    /\ UNCHANGED <<clock, exam, attempts, sched>>

PublishExamRow(w) ==
    /\ req[w].pc = "publishExam"
    /\ WriteExam(req[w].row)
    /\ IF ExamExists THEN Become(w, [pc |-> "publishAttempts"]) ELSE Finish(w)
    /\ UNCHANGED <<clock, attempts, sched>>

MutantPublishable == Students \ WithStatus("NONE")
Publishable == WithStatus("GRADED")

PublishResultsToStudents(w) ==
    /\ req[w].pc = "publishAttempts"
    /\ attempts' = [s \in Students |->
                        IF s \in Publishable
                        THEN [attempts[s] EXCEPT !.status = "PUBLISHED", !.shown = TRUE]
                        ELSE attempts[s]]
    /\ Finish(w)
    /\ UNCHANGED <<clock, exam, sched>>

(***************************************************************************)
(* The window job: one look back of one interval for windows that opened,   *)
(* then one for windows that closed                                         *)
(***************************************************************************)
JustPassed(at, now) == now - 1 <= at /\ at < now

MutantJustClosed(at, now) == now - 1 < at /\ at < now
JustClosed(at, now) == JustPassed(at, now)

RunJob ==
    /\ job = Idle /\ ~ran
    /\ job' = [pc |-> "listOpen", now |-> time]
    /\ ran' = TRUE
    /\ UNCHANGED <<clock, exam, attempts, req, missed>>

JobAt(pc) == [pc |-> pc, now |-> job.now]

ListByWindowStart ==
    /\ job.pc = "listOpen"
    /\ job' = IF exam.status = "SCHEDULED" /\ JustPassed(exam.window[1], job.now)
              THEN [pc |-> "writeOpen", now |-> job.now,
                    row |-> [exam EXCEPT !.status = "IN_PROGRESS"]]
              ELSE JobAt("listClose")
    /\ UNCHANGED <<clock, exam, attempts, req, ran, missed>>

OpenWindow ==
    /\ job.pc = "writeOpen"
    /\ WriteExam(job.row)
    /\ job' = IF ExamExists THEN JobAt("notify") ELSE JobAt("listClose")
    /\ UNCHANGED <<clock, attempts, req, ran, missed>>

NotifyWindowOpen ==
    /\ job.pc = "notify"
    /\ job' = JobAt("listClose")
    /\ UNCHANGED <<clock, exam, attempts, req, ran, missed>>

ListByWindowEnd ==
    /\ job.pc = "listClose"
    /\ job' = IF exam.status = "IN_PROGRESS" /\ JustClosed(exam.window[2], job.now)
              THEN [pc |-> "writeClose", row |-> [exam EXCEPT !.status = "COMPLETED"]]
              ELSE Idle
    /\ UNCHANGED <<clock, exam, attempts, req, ran, missed>>

CloseWindow ==
    /\ job.pc = "writeClose"
    /\ WriteExam(job.row)
    /\ job' = IF ExamExists THEN [pc |-> "autoSubmit"] ELSE Idle
    /\ UNCHANGED <<clock, attempts, req, ran, missed>>

(* One UPDATE over the attempts in progress; nothing is marked. *)
AutoSubmitInProgress ==
    /\ job.pc = "autoSubmit"
    /\ attempts' = [s \in Students |->
                        IF s \in WithStatus("IN_PROGRESS")
                        THEN [attempts[s] EXCEPT !.status = "SUBMITTED", !.submitted = TRUE]
                        ELSE attempts[s]]
    /\ job' = Idle
    /\ UNCHANGED <<clock, exam, req, ran, missed>>

(***************************************************************************)
(* The environment: the clock, failed statements, crashes                   *)
(***************************************************************************)
Tick ==
    /\ time < MaxTime
    /\ time' = time + 1
    /\ ran' = FALSE
    /\ missed' = (missed \/ ~ran \/ job # Idle)
    /\ UNCHANGED <<faults, exam, attempts, req, job>>

(* The next statement of the request fails or its client goes away: what it  *)
(* had still to write is lost.                                               *)
RequestFails(w) ==
    /\ faults < MaxFaults
    /\ req[w] # Idle
    /\ Finish(w)
    /\ faults' = faults + 1
    /\ UNCHANGED <<time, exam, attempts, sched>>

(* A statement of the job fails and the job logs it: a failed first half     *)
(* goes on with the second, a failed second half ends the run.               *)
JobFails ==
    /\ faults < MaxFaults
    /\ job # Idle
    /\ job' = IF job.pc \in {"listOpen", "writeOpen", "notify"} THEN JobAt("listClose")
              ELSE Idle
    /\ faults' = faults + 1
    /\ UNCHANGED <<time, exam, attempts, req, ran, missed>>

(* The server stops and starts again; it runs every job as soon as it is up. *)
Restart ==
    /\ faults < MaxFaults
    /\ faults' = faults + 1
    /\ req' = [w \in Workers |-> Idle]
    /\ job' = Idle
    /\ ran' = FALSE
    /\ UNCHANGED <<time, exam, attempts, missed>>

ExamRequest(w) ==
    \/ UpdateExamination(w) \/ ScheduleExamination(w) \/ UpdateExamRow(w)
    \/ DeleteExamination(w) \/ DeleteExamRow(w)
    \/ PublishResults(w) \/ CountSubmissions(w) \/ PublishExamRow(w)
    \/ PublishResultsToStudents(w)
AttemptRequest(w) ==
    \/ \E s \in Students :
         StartExamination(w, s) \/ ReadAttempt(w, s) \/ GradeSubmission(w, s)
    \/ FindAttempt(w) \/ InsertAttempt(w)
    \/ SaveAnswer(w) \/ SubmitExamination(w) \/ ApplyGrades(w)
    \/ UpdateSubmission(w)
JobStep ==
    \/ RunJob \/ ListByWindowStart \/ OpenWindow \/ NotifyWindowOpen
    \/ ListByWindowEnd \/ CloseWindow \/ AutoSubmitInProgress \/ JobFails
Next ==
    \/ Tick \/ Restart
    \/ CreateExamination
    \/ \E w \in Workers : ExamRequest(w) \/ AttemptRequest(w) \/ RequestFails(w)
    \/ JobStep

Spec == Init /\ [][Next]_vars

(***************************************************************************)
(* Properties                                                               *)
(***************************************************************************)
(* Every variable keeps its type: no interleaving leaves a row, a request or *)
(* the job in a shape the code does not know.                                *)
TypeOK ==
    /\ time \in 0..MaxTime /\ faults \in 0..MaxFaults
    /\ exam \in ExamRow \cup {NoExam, DeletedExam}
    /\ attempts \in [Students -> Attempt \cup {NoAttempt}]
    /\ req \in [Workers -> Request]
    /\ job \in Job
    /\ ran \in BOOLEAN /\ missed \in BOOLEAN

(* What the columns of one attempt say of each other.  An attempt in progress*)
(* has no score and no stamp, and none of its answers is marked; a submitted *)
(* one has its stamp and is not graded; a graded one has a score; and results*)
(* are shown to the student exactly when the status says PUBLISHED.          *)
RowAgrees(row) ==
    /\ row.status = "IN_PROGRESS" =>
          /\ ~row.submitted /\ ~row.graded /\ row.score = NoScore
          /\ \A q \in Answered(row.answers) : row.answers[q].marks = Unset
    /\ row.status = "SUBMITTED" => row.submitted /\ ~row.graded
    /\ row.status \in {"GRADED", "PUBLISHED"} => row.submitted /\ row.graded
    /\ row.shown <=> row.status = "PUBLISHED"

(* Rows stay consistent although they are written whole from stale reads, by *)
(* students, tutors and the job at once (UpdateSubmission), and column by    *)
(* column by AutoSubmitInProgress and PublishResultsToStudents.  A published *)
(* examination is a completed one.                                           *)
RowsAgree ==
    /\ \A s \in Students : Exists(s) => RowAgrees(attempts[s])
    /\ ExamExists => (exam.published => exam.status = "COMPLETED")

(* The score of a graded attempt counts every mark beside its answers and    *)
(* nothing else, whoever gave the marks and in whatever order                *)
(* (submitAndGrade, GradeSubmission).                                        *)
ScoreMatches(row) ==
    row.status \in {"GRADED", "PUBLISHED"} => row.score = Earned(row.answers, Questions)
ScoreMatchesMarks == \A s \in Students : Exists(s) => ScoreMatches(attempts[s])

(* No answer given after its deadline is ever stored: each was given within  *)
(* the duration counted from the start, and the start lies strictly inside a *)
(* window (FR-EXM-002), however late the write that stores it.               *)
InWindow(row) == \E win \in Windows : win[1] < row.started /\ row.started < win[2]
InTime(row) ==
    \A q \in Answered(row.answers) :
        /\ row.started <= row.answers[q].at
        /\ row.answers[q].at <= row.started + Duration
        /\ \E win \in Windows : row.answers[q].at <= win[2]
AnswersInTime ==
    \A s \in Students : Exists(s) => InWindow(attempts[s]) /\ InTime(attempts[s])

(* A student cannot get a new clock: while an attempt exists, whatever is    *)
(* retried, raced or written late, its start never moves (the UNIQUE         *)
(* constraint, and UpdateSubmission not writing started_at).                 *)
AttemptClockFixed ==
    [][\A s \in Students : Exists(s) /\ Exists(s)' =>
            attempts'[s].started = attempts[s].started]_vars

(* If the job has run at every instant and nothing has failed, no examination*)
(* is still IN_PROGRESS later than one interval after its window has ended   *)
(* (ListByWindowStart, ListByWindowEnd: each looks back one interval only).  *)
WindowCloses ==
    ~missed /\ faults = 0 /\ exam.status = "IN_PROGRESS" => time <= exam.window[2] + 1
=============================================================================
