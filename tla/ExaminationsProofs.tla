------------------------- MODULE ExaminationsProofs -------------------------
(***************************************************************************)
(* Machine-checked proofs about Examinations, for any number of students,   *)
(* questions and concurrent requests, and for every window and duration.    *)
(***************************************************************************)
EXTENDS Examinations, TLAPS

USE DEF clock, sched

(***************************************************************************)
(* Shapes and types                                                         *)
(***************************************************************************)
(* What a request keeps is of the kind its pc says. *)
LEMMA RequestShape ==
  ASSUME NEW r \in Request
  PROVE  /\ r.pc \in {"findAttempt", "insertAttempt"} => r \in Finding
         /\ r.pc \in {"save", "submit", "grade", "updateAttempt"} => r \in Holding
         /\ r.pc \in {"updateExam", "publishExam", "count"} => r \in ExamWriting
  BY DEF Request, Idle, Finding, Holding, ExamWriting, Bare

(* So is what the job keeps. *)
LEMMA JobShape ==
  ASSUME job \in Job
  PROVE  /\ job.pc \in {"listOpen", "notify", "listClose"} => job \in JobLooking
         /\ job.pc = "writeOpen" => job \in JobOpening
         /\ job.pc = "writeClose" => job \in JobClosing
  BY DEF Job, Idle, JobLooking, JobOpening, JobClosing, JobSubmitting

(* A row that is there is one of the table's rows. *)
LEMMA RowShape ==
  ASSUME TypeOK
  PROVE  /\ \A s \in Students : Exists(s) => attempts[s] \in Attempt
         /\ \A s \in Students : ~Exists(s) => attempts[s] = NoAttempt
         /\ ExamExists => exam \in ExamRow
  BY DEF TypeOK, Exists, ExamExists, NoAttempt, NoExam, DeletedExam, Attempt,
         ExamRow, SubmissionStatus, ExaminationStatus

LEMMA InitType == ASSUME Init PROVE TypeOK
<1>1. time \in 0..MaxTime /\ faults \in 0..MaxFaults
  BY ExaminationsAssumption DEF Init
<1>2. exam \in ExamRow \cup {NoExam, DeletedExam}
  BY DEF Init
<1>3. attempts \in [Students -> Attempt \cup {NoAttempt}]
  BY DEF Init
<1>4. req \in [Workers -> Request]
  BY DEF Init, Request
<1>5. job \in Job /\ ran \in BOOLEAN /\ missed \in BOOLEAN
  BY DEF Init, Job
<1> QED
  BY <1>1, <1>2, <1>3, <1>4, <1>5 DEF TypeOK

(* An answer that is given is an answer. *)
LEMMA AnsweredShape ==
  ASSUME NEW ans \in Answers
  PROVE  /\ Answered(ans) \subseteq Questions
         /\ \A q \in Answered(ans) : ans[q] \in Answer
  BY DEF Answers, Answered

(* The four ways in which a request computes the row it will write. *)
LEMMA EarnedType ==
  ASSUME NEW ans \in Answers, NEW qs
  PROVE  Earned(ans, qs) \in Score
<1>1. \A q \in Answered(ans) : ans[q].marks # Unset => ans[q].marks \in Nat
  BY AnsweredShape DEF Answer
<1> QED
  BY <1>1 DEF Earned, Score

LEMMA AutoMarkedType ==
  ASSUME NEW ans \in Answers
  PROVE  AutoMarked(ans) \in Answers
<1> SUFFICES ASSUME NEW q \in Objective \cap Answered(ans)
             PROVE  [ans[q] EXCEPT !.marks = IF ans[q].right THEN Marks[q] ELSE 0] \in Answer
  BY AnsweredShape DEF AutoMarked, Answers
<1>1. ans[q] \in Answer
  BY AnsweredShape
<1>2. Marks[q] \in Nat
  BY ExaminationsAssumption
<1> QED
  BY <1>1, <1>2 DEF Answer

LEMMA SubmittedType ==
  ASSUME NEW row \in Attempt
  PROVE  Submitted(row) \in Attempt
<1> DEFINE ans == AutoMarked(row.answers)
<1>1. ans \in Answers /\ Earned(ans, Objective) \in Score
  BY AutoMarkedType, EarnedType DEF Attempt
<1> QED
  BY <1>1 DEF Submitted, Attempt, SubmissionStatus

LEMMA WithAnswerType ==
  ASSUME NEW row \in Attempt, NEW q \in Questions, NEW right \in BOOLEAN,
         NEW now \in 0..MaxTime
  PROVE  WithAnswer(row, q, right, now) \in Attempt
<1>1. row.answers \in Answers
  BY DEF Attempt
<1> DEFINE marks == IF q \in Answered(row.answers) THEN row.answers[q].marks ELSE Unset
           a == [at |-> now, right |-> right, marks |-> marks]
<1>2. marks \in Nat \cup {Unset}
  BY <1>1, AnsweredShape DEF Answer
<1>3. a \in Answer
  BY <1>2 DEF Answer
<1>4. [row.answers EXCEPT ![q] = a] \in Answers
  BY <1>1, <1>3 DEF Answers
<1>5. WithAnswer(row, q, right, now) = [row EXCEPT !.answers = [row.answers EXCEPT ![q] = a]]
  BY DEF WithAnswer, Attempt
<1> QED
  BY <1>4, <1>5 DEF Attempt

LEMMA GradedType ==
  ASSUME NEW row \in Attempt, NEW grades \in Grades
  PROVE  Graded(row, grades) \in Attempt
<1> DEFINE ans == ManuallyMarked(row.answers, grades)
<1>1. row.answers \in Answers
  BY DEF Attempt
<1>2. ASSUME NEW q \in Open(row.answers, grades)
      PROVE  [row.answers[q] EXCEPT !.marks = grades[q]] \in Answer
  <2>1. row.answers[q] \in Answer /\ q \in Questions
    BY <1>1, <1>2, AnsweredShape DEF Open
  <2>2. grades[q] \in Nat
    BY <1>2, <2>1, ExaminationsAssumption DEF Open, Grades
  <2> QED
    BY <2>1, <2>2 DEF Answer
<1>3. ans \in Answers
  BY <1>1, <1>2 DEF ManuallyMarked, Answers
<1>4. Earned(ans, Questions) \in Score
  BY <1>3, EarnedType
<1> QED
  BY <1>3, <1>4 DEF Graded, Attempt, SubmissionStatus

LEMMA WrittenType ==
  ASSUME NEW old \in Attempt, NEW row \in Attempt
  PROVE  Written(old, row) \in Attempt
  BY DEF Written, Attempt

(* The request's next state is a request's state. *)
LEMMA BecomeType ==
  ASSUME TypeOK, NEW w \in Workers, NEW r \in Request, Become(w, r)
  PROVE  req' \in [Workers -> Request]
  BY DEF TypeOK, Become

LEMMA FinishType ==
  ASSUME TypeOK, NEW w \in Workers, Finish(w)
  PROVE  req' \in [Workers -> Request]
  BY BecomeType DEF Finish, Request

LEMMA HoldType ==
  ASSUME TypeOK, NEW w \in Workers, NEW s \in Students, NEW row \in Attempt,
         NEW pc \in {"save", "submit", "grade", "updateAttempt"},
         Hold(w, pc, s, row)
  PROVE  req' \in [Workers -> Request]
<1>1. [pc |-> pc, student |-> s, row |-> row] \in Holding
  BY DEF Holding
<1> QED
  BY <1>1, BecomeType DEF Hold, Request

LEMMA WillWriteType ==
  ASSUME TypeOK, NEW w \in Workers, NEW row \in Attempt,
         req[w] \in Holding, WillWrite(w, row)
  PROVE  req' \in [Workers -> Request]
<1>1. req[w].student \in Students
  BY DEF Holding
<1> QED
  BY <1>1, HoldType, FinishType DEF WillWrite

(***************************************************************************)
(* Type correctness, one group of actions at a time                         *)
(***************************************************************************)
LEMMA EnvironmentType ==
  ASSUME TypeOK, Tick \/ Restart \/ CreateExamination
  PROVE  TypeOK'
<1>1. CASE Tick
  <2>1. time' \in 0..MaxTime
    BY <1>1, ExaminationsAssumption DEF TypeOK, Tick
  <2>2. ran' \in BOOLEAN /\ missed' \in BOOLEAN
    BY <1>1 DEF Tick
  <2> QED
    BY <1>1, <2>1, <2>2 DEF TypeOK, Tick
<1>2. CASE Restart
  <2>1. req' \in [Workers -> Request] /\ job' \in Job
    BY <1>2 DEF Restart, Request, Job
  <2>2. faults' \in 0..MaxFaults
    BY <1>2, ExaminationsAssumption DEF TypeOK, Restart
  <2>3. ran' \in BOOLEAN
    BY <1>2 DEF Restart
  <2> QED
    BY <1>2, <2>1, <2>2, <2>3 DEF TypeOK, Restart
<1>3. CASE CreateExamination
  <2>1. exam' \in ExamRow
    BY <1>3 DEF CreateExamination, ExamRow, ExaminationStatus
  <2> QED
    BY <1>3, <2>1 DEF TypeOK, CreateExamination
<1> QED
  BY <1>1, <1>2, <1>3

LEMMA ExamRequestType ==
  ASSUME TypeOK, NEW w \in Workers, ExamRequest(w)
  PROVE  TypeOK'
<1>0. req[w] \in Request
  BY DEF TypeOK
<1>1. CASE UpdateExamination(w)
  <2>1. PICK win \in Windows :
            /\ exam.status = "DRAFT"
            /\ Become(w, [pc |-> "updateExam", row |-> [exam EXCEPT !.window = win]])
    BY <1>1 DEF UpdateExamination
  <2>2. [pc |-> "updateExam", row |-> [exam EXCEPT !.window = win]] \in ExamWriting
    BY <2>1, RowShape DEF ExamExists, ExaminationStatus, ExamWriting, ExamRow
  <2>3. req' \in [Workers -> Request]
    BY <2>1, <2>2, BecomeType DEF Request
  <2> QED
    BY <1>1, <2>3 DEF TypeOK, UpdateExamination
<1>2. CASE ScheduleExamination(w)
  <2>1. [pc |-> "updateExam", row |-> [exam EXCEPT !.status = "SCHEDULED"]] \in ExamWriting
    BY <1>2, RowShape DEF ScheduleExamination, ExamExists, ExaminationStatus,
                          ExamWriting, ExamRow
  <2>2. req' \in [Workers -> Request]
    BY <1>2, <2>1, BecomeType DEF Request, ScheduleExamination
  <2> QED
    BY <1>2, <2>2 DEF TypeOK, ScheduleExamination
<1>3. CASE UpdateExamRow(w)
  <2>1. req[w].row \in ExamRow
    BY <1>0, <1>3, RequestShape DEF UpdateExamRow, ExamWriting
  <2>2. req' \in [Workers -> Request]
    BY <1>3, FinishType DEF UpdateExamRow
  <2> QED
    BY <1>3, <2>1, <2>2 DEF TypeOK, UpdateExamRow, WriteExam
<1>4. CASE DeleteExamination(w)
  <2>1. req' \in [Workers -> Request]
    BY <1>4, BecomeType DEF DeleteExamination, Request, Bare
  <2> QED
    BY <1>4, <2>1 DEF TypeOK, DeleteExamination
<1>5. CASE DeleteExamRow(w)
  <2>1. req' \in [Workers -> Request]
    BY <1>5, FinishType DEF DeleteExamRow
  <2>2. attempts' \in [Students -> Attempt \cup {NoAttempt}]
    BY <1>5 DEF DeleteExamRow
  <2> QED
    BY <1>5, <2>1, <2>2 DEF TypeOK, DeleteExamRow
<1>6. CASE PublishResults(w)
  <2> DEFINE row == [exam EXCEPT !.published = TRUE, !.status = "COMPLETED"]
  <2>1. [pc |-> "count", row |-> row] \in ExamWriting
    BY <1>6, RowShape DEF PublishResults, ExaminationStatus, ExamWriting, ExamRow
  <2>2. req' \in [Workers -> Request]
    BY <1>6, <2>1, BecomeType DEF Request, PublishResults
  <2> QED
    BY <1>6, <2>2 DEF TypeOK, PublishResults
<1>7. CASE CountSubmissions(w)
  <2>1. [req[w] EXCEPT !.pc = "publishExam"] \in Request
    BY <1>0, <1>7, RequestShape DEF CountSubmissions, ExamWriting, Request
  <2>2. req' \in [Workers -> Request]
    BY <1>7, <2>1, BecomeType, FinishType DEF CountSubmissions
  <2> QED
    BY <1>7, <2>2 DEF TypeOK, CountSubmissions
<1>8. CASE PublishExamRow(w)
  <2>1. req[w].row \in ExamRow
    BY <1>0, <1>8, RequestShape DEF PublishExamRow, ExamWriting
  <2>2. [pc |-> "publishAttempts"] \in Request
    BY DEF Request, Bare
  <2>3. req' \in [Workers -> Request]
    BY <1>8, <2>2, BecomeType, FinishType DEF PublishExamRow
  <2> QED
    BY <1>8, <2>1, <2>3 DEF TypeOK, PublishExamRow, WriteExam
<1>9. CASE PublishResultsToStudents(w)
  <2>1. req' \in [Workers -> Request]
    BY <1>9, FinishType DEF PublishResultsToStudents
  <2>2. \A s \in Publishable :
            [attempts[s] EXCEPT !.status = "PUBLISHED", !.shown = TRUE] \in Attempt
    BY RowShape DEF Publishable, WithStatus, Exists, Attempt, SubmissionStatus
  <2>3. attempts' \in [Students -> Attempt \cup {NoAttempt}]
    BY <1>9, <2>2 DEF TypeOK, PublishResultsToStudents
  <2> QED
    BY <1>9, <2>1, <2>3 DEF TypeOK, PublishResultsToStudents
<1> QED
  BY <1>1, <1>2, <1>3, <1>4, <1>5, <1>6, <1>7, <1>8, <1>9 DEF ExamRequest

LEMMA AttemptRequestType ==
  ASSUME TypeOK, NEW w \in Workers, AttemptRequest(w)
  PROVE  TypeOK'
<1>0. req[w] \in Request
  BY DEF TypeOK
<1>1. CASE \E s \in Students : StartExamination(w, s)
  <2>1. PICK s \in Students : StartExamination(w, s)
    BY <1>1
  <2>2. [pc |-> "findAttempt", student |-> s, now |-> time] \in Request
    BY DEF TypeOK, Request, Finding
  <2>3. req' \in [Workers -> Request]
    BY <2>1, <2>2, BecomeType DEF StartExamination
  <2> QED
    BY <2>1, <2>3 DEF TypeOK, StartExamination
<1>2. CASE \E s \in Students : ReadAttempt(w, s)
  <2>1. PICK s \in Students : ReadAttempt(w, s)
    BY <1>2
  <2>2. attempts[s] \in Attempt
    BY <2>1, RowShape DEF ReadAttempt, Exists, SubmissionStatus
  <2>3. req' \in [Workers -> Request]
    BY <2>1, <2>2, HoldType DEF ReadAttempt
  <2> QED
    BY <2>1, <2>3 DEF TypeOK, ReadAttempt
<1>3. CASE \E s \in Students : GradeSubmission(w, s)
  <2>1. PICK s \in Students : GradeSubmission(w, s)
    BY <1>3
  <2>2. attempts[s] \in Attempt
    BY <2>1, RowShape DEF GradeSubmission, Exists, SubmissionStatus
  <2>3. req' \in [Workers -> Request]
    BY <2>1, <2>2, HoldType DEF GradeSubmission
  <2> QED
    BY <2>1, <2>3 DEF TypeOK, GradeSubmission
<1>4. CASE FindAttempt(w)
  <2>1. [req[w] EXCEPT !.pc = "insertAttempt"] \in Request
    BY <1>0, <1>4, RequestShape DEF FindAttempt, Finding, Request
  <2>2. req' \in [Workers -> Request]
    BY <1>4, <2>1, BecomeType, FinishType DEF FindAttempt
  <2>3. faults' \in 0..MaxFaults
    BY <1>4, ExaminationsAssumption DEF FindAttempt, TypeOK
  <2> QED
    BY <1>4, <2>2, <2>3 DEF TypeOK, FindAttempt
<1>5. CASE InsertAttempt(w)
  <2> DEFINE s == req[w].student
  <2>1. req[w] \in Finding
    BY <1>0, <1>5, RequestShape DEF InsertAttempt
  <2>2. NewAttempt(req[w].now) \in Attempt
    BY <2>1 DEF NewAttempt, Finding, Attempt, SubmissionStatus, Answers
  <2>3. attempts' \in [Students -> Attempt \cup {NoAttempt}]
    BY <1>5, <2>2 DEF InsertAttempt, TypeOK
  <2>4. req' \in [Workers -> Request]
    BY <1>5, FinishType DEF InsertAttempt
  <2> QED
    BY <1>5, <2>3, <2>4 DEF TypeOK, InsertAttempt
<1>6. CASE SaveAnswer(w)
  <2>1. req[w] \in Holding
    BY <1>0, <1>6, RequestShape DEF SaveAnswer
  <2>2. req[w].row \in Attempt
    BY <2>1 DEF Holding
  <2>3. PICK q \in Questions, right \in BOOLEAN :
            WillWrite(w, IF Overdue(req[w].row, exam, time) THEN Submitted(req[w].row)
                         ELSE WithAnswer(req[w].row, q, right, time))
    BY <1>6 DEF SaveAnswer
  <2>4. Submitted(req[w].row) \in Attempt
    BY <2>2, SubmittedType
  <2>5. WithAnswer(req[w].row, q, right, time) \in Attempt
    BY <2>2, WithAnswerType DEF TypeOK
  <2>6. req' \in [Workers -> Request]
    BY <2>1, <2>3, <2>4, <2>5, WillWriteType
  <2> QED
    BY <1>6, <2>6 DEF TypeOK, SaveAnswer
<1>7. CASE SubmitExamination(w)
  <2>1. req[w] \in Holding
    BY <1>0, <1>7, RequestShape DEF SubmitExamination
  <2>2. Submitted(req[w].row) \in Attempt
    BY <2>1, SubmittedType DEF Holding
  <2>3. req' \in [Workers -> Request]
    BY <1>7, <2>1, <2>2, WillWriteType DEF SubmitExamination
  <2> QED
    BY <1>7, <2>3 DEF TypeOK, SubmitExamination
<1>8. CASE ApplyGrades(w)
  <2>1. req[w] \in Holding
    BY <1>0, <1>8, RequestShape DEF ApplyGrades
  <2>2. req[w].row \in Attempt
    BY <2>1 DEF Holding
  <2>3. PICK grades \in Grades :
            \/ Finish(w)
            \/ WillWrite(w, Graded(req[w].row, grades))
    BY <1>8 DEF ApplyGrades
  <2>4. Graded(req[w].row, grades) \in Attempt
    BY <2>2, GradedType
  <2>5. req' \in [Workers -> Request]
    BY <2>1, <2>3, <2>4, WillWriteType, FinishType
  <2> QED
    BY <1>8, <2>5 DEF TypeOK, ApplyGrades
<1>9. CASE UpdateSubmission(w)
  <2> DEFINE s == req[w].student
  <2>1. req[w] \in Holding
    BY <1>0, <1>9, RequestShape DEF UpdateSubmission
  <2>2. s \in Students /\ req[w].row \in Attempt
    BY <2>1 DEF Holding
  <2>3. Exists(s) => Written(attempts[s], req[w].row) \in Attempt
    BY <2>2, WrittenType, RowShape
  <2>4. attempts' \in [Students -> Attempt \cup {NoAttempt}]
    BY <1>9, <2>2, <2>3 DEF UpdateSubmission, TypeOK
  <2>5. req' \in [Workers -> Request]
    BY <1>9, FinishType DEF UpdateSubmission
  <2> QED
    BY <1>9, <2>4, <2>5 DEF TypeOK, UpdateSubmission
<1> QED
  BY <1>1, <1>2, <1>3, <1>4, <1>5, <1>6, <1>7, <1>8, <1>9 DEF AttemptRequest

LEMMA RequestFailsType ==
  ASSUME TypeOK, NEW w \in Workers, RequestFails(w)
  PROVE  TypeOK'
<1>1. req' \in [Workers -> Request] /\ faults' \in 0..MaxFaults
  BY FinishType, ExaminationsAssumption DEF RequestFails, TypeOK
<1> QED
  BY <1>1 DEF RequestFails, TypeOK

LEMMA JobType ==
  ASSUME TypeOK, JobStep
  PROVE  TypeOK'
<1>0. job \in Job
  BY DEF TypeOK
<1>1. CASE RunJob
  <2>1. job' \in Job
    BY <1>1 DEF RunJob, TypeOK, Job, JobLooking
  <2>2. ran' \in BOOLEAN
    BY <1>1 DEF RunJob
  <2> QED
    BY <1>1, <2>1, <2>2 DEF TypeOK, RunJob
<1>2. CASE ListByWindowStart
  <2>1. job \in JobLooking
    BY <1>0, <1>2, JobShape DEF ListByWindowStart
  <2>2. exam.status = "SCHEDULED" => [exam EXCEPT !.status = "IN_PROGRESS"] \in ExamRow
    BY RowShape DEF ExamExists, ExaminationStatus, ExamRow
  <2>3. job' \in JobLooking \cup JobOpening
    BY <1>2, <2>1, <2>2 DEF ListByWindowStart, JobAt, JobLooking, JobOpening
  <2> QED
    BY <1>2, <2>3 DEF TypeOK, ListByWindowStart, Job
<1>3. CASE OpenWindow
  <2>1. job \in JobOpening
    BY <1>0, <1>3, JobShape DEF OpenWindow
  <2>2. job' \in JobLooking /\ job.row \in ExamRow
    BY <1>3, <2>1 DEF OpenWindow, JobAt, JobLooking, JobOpening
  <2> QED
    BY <1>3, <2>2 DEF TypeOK, OpenWindow, WriteExam, Job
<1>4. CASE NotifyWindowOpen
  <2>1. job' \in JobLooking
    BY <1>0, <1>4, JobShape DEF NotifyWindowOpen, JobAt, JobLooking
  <2> QED
    BY <1>4, <2>1 DEF TypeOK, NotifyWindowOpen, Job
<1>5. CASE ListByWindowEnd
  <2>1. exam.status = "IN_PROGRESS" => [exam EXCEPT !.status = "COMPLETED"] \in ExamRow
    BY RowShape DEF ExamExists, ExaminationStatus, ExamRow
  <2>2. job' \in {Idle} \cup JobClosing
    BY <1>5, <2>1 DEF ListByWindowEnd, JobClosing
  <2> QED
    BY <1>5, <2>2 DEF TypeOK, ListByWindowEnd, Job
<1>6. CASE CloseWindow
  <2>1. job.row \in ExamRow
    BY <1>0, <1>6, JobShape DEF CloseWindow, JobClosing
  <2>2. job' \in {Idle} \cup JobSubmitting
    BY <1>6 DEF CloseWindow, JobSubmitting
  <2> QED
    BY <1>6, <2>1, <2>2 DEF TypeOK, CloseWindow, WriteExam, Job
<1>7. CASE AutoSubmitInProgress
  <2>1. \A s \in WithStatus("IN_PROGRESS") :
            [attempts[s] EXCEPT !.status = "SUBMITTED", !.submitted = TRUE] \in Attempt
    BY RowShape DEF WithStatus, Exists, Attempt, SubmissionStatus
  <2>2. attempts' \in [Students -> Attempt \cup {NoAttempt}]
    BY <1>7, <2>1 DEF TypeOK, AutoSubmitInProgress
  <2>3. job' \in Job
    BY <1>7 DEF AutoSubmitInProgress, Job
  <2> QED
    BY <1>7, <2>2, <2>3 DEF TypeOK, AutoSubmitInProgress
<1>8. CASE JobFails
  <2>1. job' \in {Idle} \cup JobLooking
    BY <1>0, <1>8, JobShape DEF JobFails, JobAt, JobLooking, JobOpening
  <2>2. faults' \in 0..MaxFaults
    BY <1>8, ExaminationsAssumption DEF JobFails, TypeOK
  <2> QED
    BY <1>8, <2>1, <2>2 DEF TypeOK, JobFails, Job
<1> QED
  BY <1>1, <1>2, <1>3, <1>4, <1>5, <1>6, <1>7, <1>8 DEF JobStep

LEMMA NextType == TypeOK /\ [Next]_vars => TypeOK'
<1> SUFFICES ASSUME TypeOK, [Next]_vars PROVE TypeOK'
  OBVIOUS
<1>1. CASE Next
  BY <1>1, EnvironmentType, ExamRequestType, AttemptRequestType, RequestFailsType, JobType
     DEF Next
<1>2. CASE UNCHANGED vars
  BY <1>2 DEF vars, TypeOK
<1> QED
  BY <1>1, <1>2

(* Whatever the requests and the job interleave, no row, request or job      *)
(* state leaves its type: nothing half-read or half-written is ever stored.  *)
THEOREM TypeCorrect == Spec => []TypeOK
  BY InitType, NextType, PTL DEF Spec

(***************************************************************************)
(* What a step can do to the examination, to an attempt and to a request    *)
(***************************************************************************)
LEMMA ExamFrame ==
  ASSUME TypeOK, [Next]_vars
  PROVE  \/ exam' = exam
         \/ exam = NoExam /\ exam'.status = "DRAFT" /\ ~exam'.published
         \/ exam' = DeletedExam
         \/ /\ ExamExists
            /\ \E w \in Workers : /\ req[w].pc \in {"updateExam", "publishExam"}
                                  /\ exam' = req[w].row
         \/ ExamExists /\ job.pc \in {"writeOpen", "writeClose"} /\ exam' = job.row
<1>1. CASE Tick \/ Restart
  BY <1>1 DEF Tick, Restart
<1>2. CASE CreateExamination
  BY <1>2 DEF CreateExamination
<1>3. CASE \E w \in Workers : ExamRequest(w)
  BY <1>3 DEF ExamRequest, UpdateExamination, ScheduleExamination, UpdateExamRow,
     DeleteExamination, DeleteExamRow, PublishResults, CountSubmissions,
     PublishExamRow, PublishResultsToStudents, WriteExam
<1>4. CASE \E w \in Workers : AttemptRequest(w) \/ RequestFails(w)
  BY <1>4 DEF AttemptRequest, StartExamination, ReadAttempt, GradeSubmission,
     FindAttempt, InsertAttempt, SaveAnswer, SubmitExamination, ApplyGrades,
     UpdateSubmission, RequestFails
<1>5. CASE JobStep
  BY <1>5 DEF JobStep, RunJob, ListByWindowStart, OpenWindow, NotifyWindowOpen,
     ListByWindowEnd, CloseWindow, AutoSubmitInProgress, JobFails, WriteExam
<1>6. CASE UNCHANGED vars
  BY <1>6 DEF vars
<1> QED
  BY <1>1, <1>2, <1>3, <1>4, <1>5, <1>6 DEF Next

LEMMA DeletedStays ==
  ASSUME TypeOK, [Next]_vars, exam = DeletedExam
  PROVE  exam' = DeletedExam
  BY ExamFrame DEF ExamExists, ExaminationStatus, DeletedExam, NoExam

LEMMA AttemptFrame ==
  ASSUME TypeOK, [Next]_vars, NEW s \in Students
  PROVE  \/ attempts'[s] = attempts[s]
         \/ attempts'[s] = NoAttempt /\ exam' = DeletedExam
         \/ \E w \in Workers :
               /\ req[w].pc = "insertAttempt" /\ req[w].student = s
               /\ ExamExists /\ ~Exists(s)
               /\ attempts'[s] = NewAttempt(req[w].now)
         \/ \E w \in Workers :
               /\ req[w].pc = "updateAttempt" /\ req[w].student = s
               /\ Exists(s)
               /\ attempts'[s] = Written(attempts[s], req[w].row)
         \/ /\ attempts[s].status = "GRADED"
            /\ attempts'[s] = [attempts[s] EXCEPT !.status = "PUBLISHED", !.shown = TRUE]
         \/ /\ attempts[s].status = "IN_PROGRESS"
            /\ attempts'[s] = [attempts[s] EXCEPT !.status = "SUBMITTED", !.submitted = TRUE]
<1>1. CASE Tick \/ Restart \/ CreateExamination
  BY <1>1 DEF Tick, Restart, CreateExamination
<1>2. ASSUME NEW w \in Workers, DeleteExamRow(w)
      PROVE  attempts'[s] = NoAttempt /\ exam' = DeletedExam
  BY <1>2 DEF DeleteExamRow
<1>3. ASSUME NEW w \in Workers, PublishResultsToStudents(w)
      PROVE  \/ attempts'[s] = attempts[s]
             \/ /\ attempts[s].status = "GRADED"
                /\ attempts'[s] = [attempts[s] EXCEPT !.status = "PUBLISHED", !.shown = TRUE]
  BY <1>3 DEF PublishResultsToStudents, Publishable, WithStatus
<1>4. ASSUME NEW w \in Workers, ExamRequest(w),
             ~DeleteExamRow(w), ~PublishResultsToStudents(w)
      PROVE  attempts' = attempts
  BY <1>4 DEF ExamRequest, UpdateExamination, ScheduleExamination, UpdateExamRow,
     DeleteExamination, PublishResults, CountSubmissions, PublishExamRow
<1>5. ASSUME NEW w \in Workers, InsertAttempt(w)
      PROVE  \/ attempts'[s] = attempts[s]
             \/ /\ req[w].pc = "insertAttempt" /\ req[w].student = s
                /\ ExamExists /\ ~Exists(s)
                /\ attempts'[s] = NewAttempt(req[w].now)
  BY <1>5 DEF InsertAttempt, InsertAllowed, TypeOK
<1>6. ASSUME NEW w \in Workers, UpdateSubmission(w)
      PROVE  \/ attempts'[s] = attempts[s]
             \/ /\ req[w].pc = "updateAttempt" /\ req[w].student = s
                /\ Exists(s)
                /\ attempts'[s] = Written(attempts[s], req[w].row)
  BY <1>6 DEF UpdateSubmission, TypeOK
<1>7. ASSUME NEW w \in Workers, AttemptRequest(w) \/ RequestFails(w),
             ~InsertAttempt(w), ~UpdateSubmission(w)
      PROVE  attempts' = attempts
  BY <1>7 DEF AttemptRequest, StartExamination, ReadAttempt, GradeSubmission,
     FindAttempt, SaveAnswer, SubmitExamination, ApplyGrades, RequestFails
<1>8. CASE AutoSubmitInProgress
  BY <1>8 DEF AutoSubmitInProgress, WithStatus
<1>9. CASE JobStep /\ ~AutoSubmitInProgress
  BY <1>9 DEF JobStep, RunJob, ListByWindowStart, OpenWindow, NotifyWindowOpen,
     ListByWindowEnd, CloseWindow, JobFails
<1>10. CASE UNCHANGED vars
  BY <1>10 DEF vars
<1> QED
  BY <1>1, <1>2, <1>3, <1>4, <1>5, <1>6, <1>7, <1>8, <1>9, <1>10 DEF Next

(* A step leaves request w alone, ends it, or does one of the following. *)
WillChangeExam(w) ==
    \/ /\ exam.status = "DRAFT"
       /\ \/ \E win \in Windows :
                req'[w] = [pc |-> "updateExam", row |-> [exam EXCEPT !.window = win]]
          \/ req'[w] = [pc |-> "updateExam", row |-> [exam EXCEPT !.status = "SCHEDULED"]]
    \/ /\ ExamExists
       /\ req'[w] = [pc |-> "count",
                     row |-> [exam EXCEPT !.published = TRUE, !.status = "COMPLETED"]]
    \/ req[w].pc = "count" /\ req'[w] = [req[w] EXCEPT !.pc = "publishExam"]
    \/ req'[w] \in Bare

WillStart(w) ==
    /\ UNCHANGED time
    /\ \/ /\ ExamExists /\ CanAccess(exam, time)
          /\ \E s \in Students :
                req'[w] = [pc |-> "findAttempt", student |-> s, now |-> time]
       \/ req[w].pc = "findAttempt" /\ req'[w] = [req[w] EXCEPT !.pc = "insertAttempt"]

WillHold(w) ==
    /\ UNCHANGED <<time, exam, attempts>>
    /\ \E s \in Students, pc \in {"save", "submit", "updateAttempt", "grade"} :
         /\ attempts[s].status = IF pc = "grade" THEN "SUBMITTED" ELSE "IN_PROGRESS"
         /\ req'[w] = [pc |-> pc, student |-> s, row |-> attempts[s]]

Computed(r, row) ==
    \/ r.pc \in {"save", "submit"} /\ row = Submitted(r.row)
    \/ /\ r.pc = "save" /\ ~Overdue(r.row, exam, time)
       /\ \E q \in Questions, right \in BOOLEAN : row = WithAnswer(r.row, q, right, time)
    \/ r.pc = "grade" /\ \E grades \in Grades : row = Graded(r.row, grades)

WillUpdate(w) ==
    /\ UNCHANGED <<time, exam, attempts>>
    /\ ExamExists
    /\ \E row \in Attempt :
         /\ Computed(req[w], row)
         /\ req'[w] = [pc |-> "updateAttempt", student |-> req[w].student, row |-> row]

(* A step that gives worker v a new state leaves the other workers alone. *)
LEMMA OtherRequest ==
  ASSUME TypeOK, NEW v \in Workers, NEW w \in Workers, v # w, NEW r, Become(v, r)
  PROVE  req'[w] = req[w]
  BY DEF Become, TypeOK

LEMMA OwnRequest ==
  ASSUME TypeOK, NEW w \in Workers, NEW r, Become(w, r)
  PROVE  req'[w] = r
  BY DEF Become, TypeOK

LEMMA OwnExamRequest ==
  ASSUME TypeOK, NEW w \in Workers, ExamRequest(w)
  PROVE  req'[w] = Idle \/ WillChangeExam(w)
<1>1. CASE UpdateExamination(w)
  BY <1>1, OwnRequest DEF UpdateExamination, WillChangeExam
<1>2. CASE ScheduleExamination(w)
  BY <1>2, OwnRequest DEF ScheduleExamination, WillChangeExam
<1>3. CASE DeleteExamination(w)
  BY <1>3, OwnRequest DEF DeleteExamination, WillChangeExam, Bare
<1>4. CASE PublishResults(w)
  BY <1>4, OwnRequest DEF PublishResults, WillChangeExam
<1>5. CASE CountSubmissions(w)
  BY <1>5, OwnRequest DEF CountSubmissions, Finish, WillChangeExam
<1>6. CASE PublishExamRow(w)
  BY <1>6, OwnRequest DEF PublishExamRow, Finish, WillChangeExam, Bare
<1>7. CASE UpdateExamRow(w) \/ DeleteExamRow(w) \/ PublishResultsToStudents(w)
  BY <1>7, OwnRequest DEF UpdateExamRow, DeleteExamRow, PublishResultsToStudents, Finish
<1> QED
  BY <1>1, <1>2, <1>3, <1>4, <1>5, <1>6, <1>7 DEF ExamRequest

LEMMA OwnAttemptRequest ==
  ASSUME TypeOK, NEW w \in Workers, AttemptRequest(w)
  PROVE  req'[w] = Idle \/ WillStart(w) \/ WillHold(w) \/ WillUpdate(w)
<1>0. req[w] \in Request
  BY DEF TypeOK
<1>1. CASE \E s \in Students : StartExamination(w, s)
  BY <1>1, OwnRequest DEF StartExamination, WillStart
<1>2. CASE \E s \in Students : ReadAttempt(w, s)
  <2>1. PICK s \in Students, pc \in {"save", "submit", "updateAttempt"} :
            /\ attempts[s].status = "IN_PROGRESS"
            /\ Become(w, [pc |-> pc, student |-> s, row |-> attempts[s]])
            /\ UNCHANGED <<time, exam, attempts>>
    BY <1>2 DEF ReadAttempt, Hold
  <2>2. req'[w] = [pc |-> pc, student |-> s, row |-> attempts[s]]
    BY <2>1, OwnRequest
  <2> QED
    BY <2>1, <2>2 DEF WillHold
<1>3. CASE \E s \in Students : GradeSubmission(w, s)
  <2>1. PICK s \in Students :
            /\ attempts[s].status = "SUBMITTED"
            /\ Become(w, [pc |-> "grade", student |-> s, row |-> attempts[s]])
            /\ UNCHANGED <<time, exam, attempts>>
    BY <1>3 DEF GradeSubmission, Hold
  <2>2. req'[w] = [pc |-> "grade", student |-> s, row |-> attempts[s]]
    BY <2>1, OwnRequest
  <2> QED
    BY <2>1, <2>2 DEF WillHold
<1>4. CASE FindAttempt(w)
  BY <1>4, OwnRequest DEF FindAttempt, Finish, WillStart
<1>5. CASE InsertAttempt(w) \/ UpdateSubmission(w)
  BY <1>5, OwnRequest DEF InsertAttempt, UpdateSubmission, Finish
<1>6. ASSUME req[w] \in Holding, UNCHANGED <<time, exam, attempts>>,
             NEW row \in Attempt, Computed(req[w], row), WillWrite(w, row)
      PROVE  req'[w] = Idle \/ WillUpdate(w)
  <2>1. \/ req'[w] = Idle
        \/ /\ ExamExists
           /\ req'[w] = [pc |-> "updateAttempt", student |-> req[w].student, row |-> row]
    BY <1>6, OwnRequest DEF WillWrite, Hold, Finish
  <2> QED
    BY <1>6, <2>1 DEF WillUpdate
<1>7. CASE SaveAnswer(w)
  <2>1. req[w] \in Holding /\ req[w].pc = "save"
    BY <1>0, <1>7, RequestShape DEF SaveAnswer
  <2>2. req[w].row \in Attempt
    BY <2>1 DEF Holding
  <2>3. PICK q \in Questions, right \in BOOLEAN :
            WillWrite(w, IF Overdue(req[w].row, exam, time) THEN Submitted(req[w].row)
                         ELSE WithAnswer(req[w].row, q, right, time))
    BY <1>7 DEF SaveAnswer
  <2>4. Submitted(req[w].row) \in Attempt /\ Computed(req[w], Submitted(req[w].row))
    BY <2>1, <2>2, SubmittedType DEF Computed
  <2>5. WithAnswer(req[w].row, q, right, time) \in Attempt
    BY <2>2, WithAnswerType DEF TypeOK
  <2>6. UNCHANGED <<time, exam, attempts>>
    BY <1>7 DEF SaveAnswer
  <2>7. CASE Overdue(req[w].row, exam, time)
    BY <1>6, <2>1, <2>3, <2>4, <2>6, <2>7
  <2>8. CASE ~Overdue(req[w].row, exam, time)
    <3>1. Computed(req[w], WithAnswer(req[w].row, q, right, time))
      BY <2>1, <2>8 DEF Computed
    <3> QED
      BY <1>6, <2>1, <2>3, <2>5, <2>6, <2>8, <3>1
  <2> QED
    BY <2>7, <2>8
<1>8. CASE SubmitExamination(w)
  <2>1. req[w] \in Holding /\ req[w].pc = "submit"
    BY <1>0, <1>8, RequestShape DEF SubmitExamination
  <2>2. Submitted(req[w].row) \in Attempt /\ Computed(req[w], Submitted(req[w].row))
    BY <2>1, SubmittedType DEF Holding, Computed
  <2> QED
    BY <1>6, <1>8, <2>1, <2>2 DEF SubmitExamination
<1>9. CASE ApplyGrades(w)
  <2>1. req[w] \in Holding /\ req[w].pc = "grade"
    BY <1>0, <1>9, RequestShape DEF ApplyGrades
  <2>2. PICK grades \in Grades :
            \/ Finish(w)
            \/ WillWrite(w, Graded(req[w].row, grades))
    BY <1>9 DEF ApplyGrades
  <2>3. /\ Graded(req[w].row, grades) \in Attempt
        /\ Computed(req[w], Graded(req[w].row, grades))
    BY <2>1, GradedType DEF Holding, Computed
  <2>4. CASE Finish(w)
    BY <2>4, OwnRequest DEF Finish
  <2>5. CASE WillWrite(w, Graded(req[w].row, grades))
    BY <1>6, <1>9, <2>1, <2>3, <2>5 DEF ApplyGrades
  <2> QED
    BY <2>2, <2>4, <2>5
<1> QED
  BY <1>1, <1>2, <1>3, <1>4, <1>5, <1>7, <1>8, <1>9 DEF AttemptRequest

LEMMA RequestFrame ==
  ASSUME TypeOK, [Next]_vars, NEW w \in Workers
  PROVE  \/ req'[w] = req[w] \/ req'[w] = Idle
         \/ WillChangeExam(w) \/ WillStart(w) \/ WillHold(w) \/ WillUpdate(w)
<1>1. CASE Tick \/ CreateExamination \/ JobStep \/ UNCHANGED vars
  BY <1>1 DEF Tick, CreateExamination, JobStep, RunJob, ListByWindowStart, OpenWindow,
     NotifyWindowOpen, ListByWindowEnd, CloseWindow, AutoSubmitInProgress, JobFails, vars
<1>2. CASE Restart
  BY <1>2 DEF Restart
<1>3. CASE ExamRequest(w) \/ AttemptRequest(w)
  BY <1>3, OwnExamRequest, OwnAttemptRequest
<1>4. CASE RequestFails(w)
  BY <1>4, OwnRequest DEF RequestFails, Finish
<1>5. ASSUME NEW v \in Workers, v # w,
             ExamRequest(v) \/ AttemptRequest(v) \/ RequestFails(v)
      PROVE  req'[w] = req[w]
  <2>1. CASE ExamRequest(v)
    BY <1>5, <2>1, OtherRequest DEF ExamRequest, UpdateExamination, ScheduleExamination,
       UpdateExamRow, DeleteExamination, DeleteExamRow, PublishResults, CountSubmissions,
       PublishExamRow, PublishResultsToStudents, Finish
  <2>2. CASE AttemptRequest(v)
    BY <1>5, <2>2, OtherRequest DEF AttemptRequest, StartExamination, ReadAttempt,
       GradeSubmission, FindAttempt, InsertAttempt, SaveAnswer, SubmitExamination,
       ApplyGrades, UpdateSubmission, WillWrite, Hold, Finish
  <2>3. CASE RequestFails(v)
    BY <1>5, <2>3, OtherRequest DEF RequestFails, Finish
  <2> QED
    BY <1>5, <2>1, <2>2, <2>3
<1> QED
  BY <1>1, <1>2, <1>3, <1>4, <1>5 DEF Next

(***************************************************************************)
(* Sound rows: what every stored row, and every row a request still has to  *)
(* write, satisfies.  Each way to compute a row keeps it.                   *)
(***************************************************************************)
Sound(row, now) ==
    /\ RowAgrees(row) /\ ScoreMatches(row)
    /\ InWindow(row) /\ InTime(row)
    /\ row.started <= now

LEMMA SoundLater ==
  ASSUME NEW row \in Attempt, NEW t \in Int, NEW u \in Int, Sound(row, t), t <= u
  PROVE  Sound(row, u)
  BY DEF Sound, Attempt

(* Computing a row from another one moves no start and, but for SaveAnswer,  *)
(* no answer's time.                                                         *)
LEMMA SameTimes ==
  ASSUME NEW old \in Attempt, NEW row \in Attempt, InTime(old), InWindow(old),
         row.started = old.started,
         \A q \in Answered(row.answers) :
            q \in Answered(old.answers) /\ row.answers[q].at = old.answers[q].at
  PROVE  InTime(row) /\ InWindow(row)
  BY DEF InTime, InWindow

LEMMA NewAttemptSound ==
  ASSUME NEW now \in 0..MaxTime,
         \E win \in Windows : win[1] < now /\ now < win[2]
  PROVE  Sound(NewAttempt(now), now)
<1>1. Answered(NewAttempt(now).answers) = {}
  BY DEF NewAttempt, Answered
<1> QED
  BY <1>1 DEF Sound, NewAttempt, RowAgrees, ScoreMatches, InWindow, InTime

LEMMA AutoMarkedAnswers ==
  ASSUME NEW ans \in Answers, NEW q \in Answered(AutoMarked(ans))
  PROVE  /\ q \in Answered(ans)
         /\ AutoMarked(ans)[q].at = ans[q].at
         /\ q \notin Objective => AutoMarked(ans)[q].marks = ans[q].marks
<1>1. q \in Questions
  BY DEF Answered
<1>2. CASE q \in Objective \cap Answered(ans)
  <2>1. ans[q] \in Answer
    BY <1>2, AnsweredShape
  <2>2. AutoMarked(ans)[q] = [ans[q] EXCEPT !.marks = IF ans[q].right THEN Marks[q] ELSE 0]
    BY <1>1, <1>2 DEF AutoMarked
  <2> QED
    BY <1>2, <2>1, <2>2 DEF Answer
<1>3. CASE q \notin Objective \cap Answered(ans)
  <2>1. AutoMarked(ans)[q] = ans[q]
    BY <1>1, <1>3 DEF AutoMarked
  <2> QED
    BY <1>1, <1>3, <2>1 DEF Answered
<1> QED
  BY <1>2, <1>3

LEMMA SubmittedSound ==
  ASSUME NEW row \in Attempt, NEW now \in Int, Sound(row, now),
         row.status = "IN_PROGRESS"
  PROVE  Sound(Submitted(row), now) /\ Submitted(row).started = row.started
<1> DEFINE ans == AutoMarked(row.answers)
           new == Submitted(row)
<1>0. row.answers \in Answers
  BY DEF Attempt
<1>1. /\ new \in Attempt
      /\ new.status = IF Subjective \cap Answered(ans) # {} THEN "SUBMITTED" ELSE "GRADED"
      /\ new.started = row.started /\ new.submitted = TRUE /\ new.shown = row.shown
      /\ new.answers = ans /\ new.score = Earned(ans, Objective)
      /\ new.graded = IF Subjective \cap Answered(ans) # {} THEN row.graded ELSE TRUE
  BY SubmittedType DEF Submitted, Attempt
<1>2. ~row.graded /\ ~row.shown
  BY DEF Sound, RowAgrees
<1>3. RowAgrees(new)
  BY <1>1, <1>2 DEF RowAgrees
<1>4. Earned(ans, Objective) = Earned(ans, Questions)
  <2>1. ASSUME NEW q \in Questions, q \in Answered(ans), ans[q].marks # Unset
        PROVE  q \in Objective
    BY <1>0, <2>1, AutoMarkedAnswers DEF Sound, RowAgrees
  <2> QED
    BY <2>1, ExaminationsAssumption DEF Earned
<1>5. ScoreMatches(new)
  BY <1>1, <1>4 DEF ScoreMatches
<1>6. InTime(new) /\ InWindow(new)
  BY <1>0, <1>1, AutoMarkedAnswers, SameTimes DEF Sound
<1> QED
  BY <1>1, <1>3, <1>5, <1>6 DEF Sound

LEMMA WithAnswerSound ==
  ASSUME NEW row \in Attempt, NEW now \in 0..MaxTime, Sound(row, now),
         row.status = "IN_PROGRESS", NEW e \in ExamRow, ~Overdue(row, e, now),
         NEW q \in Questions, NEW right \in BOOLEAN
  PROVE  /\ Sound(WithAnswer(row, q, right, now), now)
         /\ WithAnswer(row, q, right, now).started = row.started
<1> DEFINE new == WithAnswer(row, q, right, now)
           marks == IF q \in Answered(row.answers) THEN row.answers[q].marks ELSE Unset
           a == [at |-> now, right |-> right, marks |-> marks]
<1>0. row.answers \in Answers
  BY DEF Attempt
<1>1. /\ new \in Attempt
      /\ new.status = "IN_PROGRESS" /\ new.started = row.started
      /\ new.submitted = row.submitted /\ new.shown = row.shown
      /\ new.graded = row.graded /\ new.score = row.score
      /\ new.answers = [row.answers EXCEPT ![q] = a]
  BY WithAnswerType DEF WithAnswer, Attempt
<1>2. marks = Unset
  BY DEF Sound, RowAgrees
<1>3. ASSUME NEW r \in Answered(new.answers)
      PROVE  \/ r = q /\ new.answers[r] = a
             \/ r \in Answered(row.answers) /\ new.answers[r] = row.answers[r]
  <2>1. r \in Questions /\ new.answers[r] # NoAnswer
    BY <1>3 DEF Answered
  <2>2. CASE r = q
    BY <1>0, <1>1, <2>2 DEF Answers
  <2>3. CASE r # q
    <3>1. new.answers[r] = row.answers[r]
      BY <1>0, <1>1, <2>1, <2>3 DEF Answers
    <3> QED
      BY <2>1, <3>1 DEF Answered
  <2> QED
    BY <2>2, <2>3
<1>4. RowAgrees(new)
  BY <1>1, <1>2, <1>3 DEF Sound, RowAgrees
<1>5. ScoreMatches(new) /\ InWindow(new)
  BY <1>1 DEF Sound, ScoreMatches, InWindow
<1>6. /\ e.window \in Windows /\ now <= e.window[2]
      /\ row.started <= now /\ now <= row.started + Duration
  <2>1. e.window \in Windows /\ e.window[2] \in Int
    BY ExaminationsAssumption DEF ExamRow
  <2>2. row.started \in Int /\ Duration \in Int
    BY ExaminationsAssumption DEF Attempt
  <2> QED
    BY <2>1, <2>2 DEF Overdue, Sound
<1>7. InTime(new)
  BY <1>1, <1>3, <1>6 DEF Sound, InTime
<1> QED
  BY <1>1, <1>4, <1>5, <1>7 DEF Sound

LEMMA GradedSound ==
  ASSUME NEW row \in Attempt, NEW now \in Int, Sound(row, now),
         row.status = "SUBMITTED", NEW grades \in Grades
  PROVE  Sound(Graded(row, grades), now) /\ Graded(row, grades).started = row.started
<1> DEFINE ans == ManuallyMarked(row.answers, grades)
           new == Graded(row, grades)
<1>0. row.answers \in Answers
  BY DEF Attempt
<1>1. /\ new \in Attempt
      /\ new.status = "GRADED" /\ new.started = row.started
      /\ new.submitted = row.submitted /\ new.shown = row.shown /\ new.graded = TRUE
      /\ new.answers = ans /\ new.score = Earned(ans, Questions)
  BY GradedType DEF Graded, Attempt
<1>2. row.submitted /\ ~row.shown
  BY DEF Sound, RowAgrees
<1>3. RowAgrees(new) /\ ScoreMatches(new)
  BY <1>1, <1>2 DEF RowAgrees, ScoreMatches
<1>4. ASSUME NEW q \in Answered(ans)
      PROVE  q \in Answered(row.answers) /\ ans[q].at = row.answers[q].at
  <2>1. q \in Questions
    BY <1>4 DEF Answered
  <2>2. CASE q \in Open(row.answers, grades)
    <3>1. q \in Answered(row.answers) /\ row.answers[q] \in Answer
      BY <1>0, <2>2, AnsweredShape DEF Open
    <3> QED
      BY <2>1, <2>2, <3>1 DEF ManuallyMarked, Answer
  <2>3. CASE q \notin Open(row.answers, grades)
    <3>1. ans[q] = row.answers[q]
      BY <2>1, <2>3 DEF ManuallyMarked
    <3> QED
      BY <1>4, <2>1, <3>1 DEF Answered
  <2> QED
    BY <2>2, <2>3
<1>5. InTime(new) /\ InWindow(new)
  BY <1>1, <1>4, SameTimes DEF Sound
<1> QED
  BY <1>1, <1>3, <1>5 DEF Sound

(* The two UPDATEs of single columns: publication and automatic submission.  *)
LEMMA PublishedSound ==
  ASSUME NEW row \in Attempt, NEW now \in Int, Sound(row, now), row.status = "GRADED"
  PROVE  Sound([row EXCEPT !.status = "PUBLISHED", !.shown = TRUE], now)
<1> DEFINE new == [row EXCEPT !.status = "PUBLISHED", !.shown = TRUE]
<1>1. /\ new.status = "PUBLISHED" /\ new.shown = TRUE /\ new.started = row.started
      /\ new.submitted = row.submitted /\ new.graded = row.graded
      /\ new.answers = row.answers /\ new.score = row.score
  BY DEF Attempt
<1> HIDE DEF new
<1> QED
  BY <1>1 DEF Sound, RowAgrees, ScoreMatches, InTime, InWindow

LEMMA AutoSubmittedSound ==
  ASSUME NEW row \in Attempt, NEW now \in Int, Sound(row, now), row.status = "IN_PROGRESS"
  PROVE  Sound([row EXCEPT !.status = "SUBMITTED", !.submitted = TRUE], now)
<1> DEFINE new == [row EXCEPT !.status = "SUBMITTED", !.submitted = TRUE]
<1>1. /\ new.status = "SUBMITTED" /\ new.submitted = TRUE /\ new.started = row.started
      /\ new.shown = row.shown /\ new.graded = row.graded
      /\ new.answers = row.answers /\ new.score = row.score
  BY DEF Attempt
<1> HIDE DEF new
<1> QED
  BY <1>1 DEF Sound, RowAgrees, ScoreMatches, InTime, InWindow

(***************************************************************************)
(* The inductive invariant                                                  *)
(***************************************************************************)
Holds(r) == r.pc \in {"save", "submit", "grade", "updateAttempt"}

RowsSound == \A s \in Students : Exists(s) => Sound(attempts[s], time)

(* The row of student s in table att has the start of row; or it is gone, and *)
(* with it the examination e, which no request can bring back.               *)
Linked(att, e, s, row) ==
    \/ att[s].status \in SubmissionStatus /\ att[s].started = row.started
    \/ att[s].status \notin SubmissionStatus /\ e = DeletedExam

(* A row that a request holds is sound however old it is, and linked. *)
HeldSound ==
    \A w \in Workers : Holds(req[w]) =>
        /\ Sound(req[w].row, time)
        /\ req[w].pc \in {"save", "submit"} => req[w].row.status = "IN_PROGRESS"
        /\ req[w].pc = "grade" => req[w].row.status = "SUBMITTED"
        /\ Linked(attempts, exam, req[w].student, req[w].row)

(* A start that is still to be inserted was allowed by some window.          *)
StartsInWindow ==
    \A w \in Workers : req[w].pc \in {"findAttempt", "insertAttempt"} =>
        /\ req[w].now <= time
        /\ \E win \in Windows : win[1] < req[w].now /\ req[w].now < win[2]

AttemptInv == TypeOK /\ RowsSound /\ HeldSound /\ StartsInWindow

LEMMA ClockForward ==
  ASSUME TypeOK, [Next]_vars
  PROVE  time \in Int /\ time' \in Int /\ time <= time'
<1>1. time' = time \/ time' = time + 1
  BY DEF Next, Tick, Restart, CreateExamination, ExamRequest, AttemptRequest, RequestFails,
     JobStep, vars, UpdateExamination, ScheduleExamination, UpdateExamRow,
     DeleteExamination, DeleteExamRow, PublishResults, CountSubmissions, PublishExamRow,
     PublishResultsToStudents, StartExamination, ReadAttempt, GradeSubmission,
     FindAttempt, InsertAttempt, SaveAnswer, SubmitExamination, ApplyGrades,
     UpdateSubmission, RunJob, ListByWindowStart, OpenWindow, NotifyWindowOpen,
     ListByWindowEnd, CloseWindow, AutoSubmitInProgress, JobFails
<1> QED
  BY <1>1 DEF TypeOK

LEMMA StartsInWindowKept ==
  ASSUME AttemptInv, [Next]_vars
  PROVE  StartsInWindow'
<1>0. TypeOK /\ TypeOK'
  BY NextType DEF AttemptInv
<1> SUFFICES ASSUME NEW w \in Workers, req'[w].pc \in {"findAttempt", "insertAttempt"}
             PROVE  /\ req'[w].now <= time'
                    /\ \E win \in Windows : win[1] < req'[w].now /\ req'[w].now < win[2]
  BY DEF StartsInWindow
<1>1. req[w] \in Request /\ req'[w] \in Request
  BY <1>0 DEF TypeOK
<1>2. req'[w] \in Finding
  BY <1>1, RequestShape
<1>3. CASE req'[w] = req[w]
  BY <1>0, <1>2, <1>3, ClockForward DEF AttemptInv, StartsInWindow, Finding
<1>4. CASE WillStart(w)
  <2>1. CASE req[w].pc = "findAttempt" /\ req'[w] = [req[w] EXCEPT !.pc = "insertAttempt"]
    <3>1. req[w] \in Finding
      BY <1>1, <2>1, RequestShape
    <3> QED
      BY <1>0, <2>1, <3>1, ClockForward DEF AttemptInv, StartsInWindow, Finding
  <2>2. CASE ExamExists /\ CanAccess(exam, time) /\ req'[w].now = time
    <3>1. exam.window \in Windows
      BY <1>0, <2>2, RowShape DEF ExamRow
    <3> QED
      BY <1>0, <2>2, <3>1, ClockForward DEF CanAccess, WithinWindow
  <2>3. ASSUME NEW s \in Students,
               req'[w] = [pc |-> "findAttempt", student |-> s, now |-> time]
        PROVE  req'[w].now = time
    BY <2>3
  <2> QED
    BY <1>4, <2>1, <2>2, <2>3 DEF WillStart
<1>5. CASE req'[w] = Idle
  BY <1>5 DEF Idle
<1>6. CASE WillChangeExam(w)
  <2>1. req[w].pc = "count" => req[w] \in ExamWriting
    BY <1>1, RequestShape
  <2>2. req'[w] \notin ExamWriting /\ req'[w] \notin Bare
    BY <1>2 DEF Finding, ExamWriting, Bare
  <2>3. ASSUME NEW row, req'[w] = [pc |-> "updateExam", row |-> row]
        PROVE  FALSE
    BY <1>2, <2>3 DEF Finding
  <2>4. ASSUME NEW row, req'[w] = [pc |-> "count", row |-> row]
        PROVE  FALSE
    BY <1>2, <2>4 DEF Finding
  <2>5. req[w].pc = "count" => req'[w] # [req[w] EXCEPT !.pc = "publishExam"]
    BY <2>1, <2>2 DEF ExamWriting
  <2> QED
    BY <1>6, <2>2, <2>3, <2>4, <2>5 DEF WillChangeExam
<1>7. CASE WillHold(w)
  <2>1. PICK s \in Students, pc \in {"save", "submit", "updateAttempt", "grade"} :
            req'[w] = [pc |-> pc, student |-> s, row |-> attempts[s]]
    BY <1>7 DEF WillHold
  <2>2. req'[w].pc = pc
    BY <2>1
  <2> QED
    BY <2>2
<1>8. CASE WillUpdate(w)
  <2>1. req'[w].pc = "updateAttempt"
    BY <1>8 DEF WillUpdate
  <2> QED
    BY <2>1
<1> QED
  BY <1>0, <1>3, <1>4, <1>5, <1>6, <1>7, <1>8, RequestFrame

LEMMA RowsSoundKept ==
  ASSUME AttemptInv, [Next]_vars
  PROVE  RowsSound'
<1>0. TypeOK /\ TypeOK' /\ RowsSound /\ HeldSound
  BY NextType DEF AttemptInv
<1>t. time \in Int /\ time' \in Int /\ time <= time'
  BY <1>0, ClockForward
<1> SUFFICES ASSUME NEW s \in Students, Exists(s)'
             PROVE  Sound(attempts'[s], time')
  BY DEF RowsSound
<1>1. attempts'[s] \in Attempt
  BY <1>0 DEF TypeOK, Exists, NoAttempt, SubmissionStatus
<1>2. SUFFICES Sound(attempts'[s], time)
  BY <1>1, <1>2, <1>t, SoundLater
<1>3. Exists(s) => attempts[s] \in Attempt /\ Sound(attempts[s], time)
  BY <1>0, RowShape DEF RowsSound
<1>4. CASE attempts'[s] = attempts[s]
  BY <1>3, <1>4 DEF Exists
<1>5. CASE attempts'[s] = NoAttempt
  BY <1>5 DEF Exists, NoAttempt, SubmissionStatus
<1>6. ASSUME NEW w \in Workers, req[w].pc = "insertAttempt",
             attempts'[s] = NewAttempt(req[w].now)
      PROVE  Sound(attempts'[s], time)
  <2>1. req[w] \in Finding
    BY <1>0, <1>6, RequestShape DEF TypeOK
  <2>2. /\ req[w].now \in 0..MaxTime /\ req[w].now <= time
        /\ \E win \in Windows : win[1] < req[w].now /\ req[w].now < win[2]
    BY <1>6, <2>1 DEF Finding, AttemptInv, StartsInWindow
  <2>3. Sound(NewAttempt(req[w].now), req[w].now)
    BY <2>2, NewAttemptSound
  <2> QED
    BY <1>1, <1>6, <1>t, <2>2, <2>3, SoundLater, ExaminationsAssumption
<1>7. ASSUME NEW w \in Workers, req[w].pc = "updateAttempt", req[w].student = s, Exists(s),
             attempts'[s] = Written(attempts[s], req[w].row)
      PROVE  Sound(attempts'[s], time)
  <2>1. req[w] \in Holding
    BY <1>0, <1>7, RequestShape DEF TypeOK
  <2>2. attempts[s].started = req[w].row.started /\ Sound(req[w].row, time)
    BY <1>0, <1>7 DEF HeldSound, Holds, Linked, Exists
  <2>3. Written(attempts[s], req[w].row) = req[w].row
    BY <2>1, <2>2 DEF Holding, Attempt, Written
  <2> QED
    BY <1>7, <2>2, <2>3
<1>8. CASE /\ attempts[s].status = "GRADED"
           /\ attempts'[s] = [attempts[s] EXCEPT !.status = "PUBLISHED", !.shown = TRUE]
  BY <1>3, <1>8, <1>t, PublishedSound DEF Exists, SubmissionStatus
<1>9. CASE /\ attempts[s].status = "IN_PROGRESS"
           /\ attempts'[s] = [attempts[s] EXCEPT !.status = "SUBMITTED", !.submitted = TRUE]
  BY <1>3, <1>9, <1>t, AutoSubmittedSound DEF Exists, SubmissionStatus
<1> QED
  BY <1>0, <1>4, <1>5, <1>6, <1>7, <1>8, <1>9, AttemptFrame

(* The link between a held row and the table survives every step. *)
LEMMA LinkedKept ==
  ASSUME TypeOK, TypeOK', [Next]_vars, NEW s \in Students, NEW row,
         Linked(attempts, exam, s, row)
  PROVE  Linked(attempts', exam', s, row)
<1>0. Exists(s) <=> attempts[s].status \in SubmissionStatus
  BY DEF Exists
<1>1. CASE attempts'[s] = attempts[s]
  BY <1>1, DeletedStays DEF Linked
<1>2. CASE attempts'[s] = NoAttempt /\ exam' = DeletedExam
  BY <1>2 DEF Linked, NoAttempt, SubmissionStatus
<1>3. CASE ExamExists /\ ~Exists(s)
  BY <1>0, <1>3 DEF Linked, ExamExists, DeletedExam, ExaminationStatus
<1>4. ASSUME Exists(s), attempts'[s].started = attempts[s].started,
             attempts'[s].status \in SubmissionStatus
      PROVE  Linked(attempts', exam', s, row)
  BY <1>0, <1>4 DEF Linked
<1>5. ASSUME NEW w \in Workers, req[w].pc = "updateAttempt", Exists(s),
             attempts'[s] = Written(attempts[s], req[w].row)
      PROVE  Linked(attempts', exam', s, row)
  <2>1. req[w] \in Holding
    BY <1>5, RequestShape DEF TypeOK
  <2>2. req[w].row \in Attempt
    BY <2>1 DEF Holding
  <2>3. attempts'[s].started = attempts[s].started /\ attempts'[s].status \in SubmissionStatus
    BY <1>5, <2>2 DEF Written, Attempt
  <2> QED
    BY <1>4, <1>5, <2>3
<1>6. ASSUME attempts[s].status = "GRADED",
             attempts'[s] = [attempts[s] EXCEPT !.status = "PUBLISHED", !.shown = TRUE]
      PROVE  Linked(attempts', exam', s, row)
  <2>1. Exists(s) /\ attempts[s] \in Attempt
    BY <1>6, RowShape DEF Exists, SubmissionStatus
  <2>2. attempts'[s].started = attempts[s].started /\ attempts'[s].status \in SubmissionStatus
    BY <1>6, <2>1 DEF Attempt, SubmissionStatus
  <2> QED
    BY <1>4, <2>1, <2>2
<1>7. ASSUME attempts[s].status = "IN_PROGRESS",
             attempts'[s] = [attempts[s] EXCEPT !.status = "SUBMITTED", !.submitted = TRUE]
      PROVE  Linked(attempts', exam', s, row)
  <2>1. Exists(s) /\ attempts[s] \in Attempt
    BY <1>7, RowShape DEF Exists, SubmissionStatus
  <2>2. attempts'[s].started = attempts[s].started /\ attempts'[s].status \in SubmissionStatus
    BY <1>7, <2>1 DEF Attempt, SubmissionStatus
  <2> QED
    BY <1>4, <2>1, <2>2
<1> QED
  BY <1>1, <1>2, <1>3, <1>5, <1>6, <1>7, AttemptFrame

LEMMA HeldSoundKept ==
  ASSUME AttemptInv, [Next]_vars
  PROVE  HeldSound'
<1>0. TypeOK /\ TypeOK' /\ RowsSound /\ HeldSound
  BY NextType DEF AttemptInv
<1>t. time \in 0..MaxTime /\ time \in Int /\ time' \in Int /\ time <= time'
  BY <1>0, ClockForward DEF TypeOK
<1> SUFFICES ASSUME NEW w \in Workers, Holds(req'[w])
             PROVE  /\ Sound(req'[w].row, time')
                    /\ req'[w].pc \in {"save", "submit"} => req'[w].row.status = "IN_PROGRESS"
                    /\ req'[w].pc = "grade" => req'[w].row.status = "SUBMITTED"
                    /\ Linked(attempts', exam', req'[w].student, req'[w].row)
  BY DEF HeldSound
<1>1. req[w] \in Request /\ req'[w] \in Holding
  BY <1>0, RequestShape DEF TypeOK, Holds
<1>2. req'[w].student \in Students /\ req'[w].row \in Attempt
  BY <1>1 DEF Holding
<1>3. CASE req'[w] = req[w]
  <2>1. /\ Sound(req[w].row, time)
        /\ req[w].pc \in {"save", "submit"} => req[w].row.status = "IN_PROGRESS"
        /\ req[w].pc = "grade" => req[w].row.status = "SUBMITTED"
        /\ Linked(attempts, exam, req[w].student, req[w].row)
    BY <1>0, <1>3 DEF HeldSound
  <2>2. Sound(req[w].row, time')
    BY <1>2, <1>3, <1>t, <2>1, SoundLater
  <2>3. Linked(attempts', exam', req[w].student, req[w].row)
    BY <1>0, <1>2, <1>3, <2>1, LinkedKept
  <2> QED
    BY <1>3, <2>1, <2>2, <2>3
<1>4. CASE WillHold(w)
  <2>1. PICK s \in Students, pc \in {"save", "submit", "updateAttempt", "grade"} :
            /\ attempts[s].status = IF pc = "grade" THEN "SUBMITTED" ELSE "IN_PROGRESS"
            /\ req'[w] = [pc |-> pc, student |-> s, row |-> attempts[s]]
            /\ UNCHANGED <<time, exam, attempts>>
    BY <1>4 DEF WillHold
  <2>2. Exists(s) /\ Sound(attempts[s], time)
    BY <1>0, <2>1 DEF Exists, SubmissionStatus, RowsSound
  <2>3. req'[w].pc = pc /\ req'[w].student = s /\ req'[w].row = attempts[s]
    BY <2>1
  <2>4. attempts' = attempts /\ time' = time
    BY <2>1
  <2>5. Linked(attempts, exam', s, attempts[s])
    BY <2>2 DEF Linked, Exists
  <2>6. /\ pc \in {"save", "submit"} => attempts[s].status = "IN_PROGRESS"
        /\ pc = "grade" => attempts[s].status = "SUBMITTED"
    BY <2>1
  <2> QED
    BY <2>2, <2>3, <2>4, <2>5, <2>6
<1>5. CASE WillUpdate(w)
  <2>1. PICK row \in Attempt :
            /\ Computed(req[w], row)
            /\ req'[w] = [pc |-> "updateAttempt", student |-> req[w].student, row |-> row]
            /\ ExamExists
            /\ UNCHANGED <<time, exam, attempts>>
    BY <1>5 DEF WillUpdate
  <2>2. Holds(req[w]) /\ req[w] \in Holding
    BY <1>1, <2>1, RequestShape DEF Computed, Holds
  <2>3. /\ req[w].row \in Attempt /\ Sound(req[w].row, time)
        /\ req[w].pc \in {"save", "submit"} => req[w].row.status = "IN_PROGRESS"
        /\ req[w].pc = "grade" => req[w].row.status = "SUBMITTED"
        /\ Linked(attempts, exam, req[w].student, req[w].row)
    BY <1>0, <2>2 DEF HeldSound, Holding
  <2>4. exam \in ExamRow
    BY <1>0, <2>1, RowShape
  <2>5. Sound(row, time) /\ row.started = req[w].row.started
    <3>1. CASE req[w].pc \in {"save", "submit"} /\ row = Submitted(req[w].row)
      BY <1>t, <2>3, <3>1, SubmittedSound
    <3>2. CASE /\ req[w].pc = "save" /\ ~Overdue(req[w].row, exam, time)
               /\ \E q \in Questions, right \in BOOLEAN :
                     row = WithAnswer(req[w].row, q, right, time)
      <4>1. PICK q \in Questions, right \in BOOLEAN :
                row = WithAnswer(req[w].row, q, right, time)
        BY <3>2
      <4> QED
        BY <1>t, <2>3, <2>4, <3>2, <4>1, WithAnswerSound
    <3>3. CASE req[w].pc = "grade" /\ \E grades \in Grades : row = Graded(req[w].row, grades)
      BY <1>t, <2>3, <3>3, GradedSound
    <3> QED
      BY <2>1, <3>1, <3>2, <3>3 DEF Computed
  <2>6. req'[w].pc = "updateAttempt" /\ req'[w].student = req[w].student /\ req'[w].row = row
    BY <2>1
  <2>7. attempts' = attempts /\ exam' = exam /\ time' = time
    BY <2>1
  <2>8. Linked(attempts, exam, req[w].student, row)
    BY <2>3, <2>5 DEF Linked
  <2> QED
    BY <2>5, <2>6, <2>7, <2>8
<1>6. CASE WillStart(w)
  <2>1. ASSUME NEW s \in Students,
               req'[w] = [pc |-> "findAttempt", student |-> s, now |-> time]
        PROVE  req'[w].pc = "findAttempt"
    BY <2>1
  <2>2. ASSUME req[w].pc = "findAttempt", req'[w] = [req[w] EXCEPT !.pc = "insertAttempt"]
        PROVE  req'[w].pc = "insertAttempt"
    <3>1. req[w] \in Finding
      BY <1>1, <2>2, RequestShape
    <3> QED
      BY <2>2, <3>1 DEF Finding
  <2> QED
    BY <1>6, <2>1, <2>2 DEF WillStart, Holds
<1>7. CASE WillChangeExam(w)
  <2>1. ASSUME NEW row, req'[w] = [pc |-> "updateExam", row |-> row]
        PROVE  req'[w].pc = "updateExam"
    BY <2>1
  <2>2. ASSUME NEW row, req'[w] = [pc |-> "count", row |-> row]
        PROVE  req'[w].pc = "count"
    BY <2>2
  <2>3. ASSUME req[w].pc = "count", req'[w] = [req[w] EXCEPT !.pc = "publishExam"]
        PROVE  req'[w].pc = "publishExam"
    <3>1. req[w] \in ExamWriting
      BY <1>1, <2>3, RequestShape
    <3> QED
      BY <2>3, <3>1 DEF ExamWriting
  <2>4. ASSUME req'[w] \in Bare
        PROVE  req'[w].pc \in {"deleteExam", "publishAttempts"}
    BY <2>4 DEF Bare
  <2> QED
    BY <1>7, <2>1, <2>2, <2>3, <2>4 DEF WillChangeExam, Holds
<1>8. CASE req'[w] = Idle
  BY <1>8 DEF Idle, Holds
<1> QED
  BY <1>3, <1>4, <1>5, <1>6, <1>7, <1>8, <1>0, RequestFrame

LEMMA AttemptInvInductive ==
  /\ Init => AttemptInv
  /\ AttemptInv /\ [Next]_vars => AttemptInv'
<1>1. ASSUME Init PROVE AttemptInv
  <2>1. TypeOK
    BY <1>1, InitType
  <2>2. RowsSound
    BY <1>1 DEF Init, RowsSound, Exists, NoAttempt, SubmissionStatus
  <2>3. HeldSound /\ StartsInWindow
    BY <1>1 DEF Init, HeldSound, StartsInWindow, Holds, Idle
  <2> QED
    BY <2>1, <2>2, <2>3 DEF AttemptInv
<1>2. ASSUME AttemptInv, [Next]_vars PROVE AttemptInv'
  BY <1>2, NextType, RowsSoundKept, HeldSoundKept, StartsInWindowKept DEF AttemptInv
<1> QED
  BY <1>1, <1>2

(***************************************************************************)
(* What the examination's row says, and what the writes still to come will  *)
(* make it say                                                              *)
(***************************************************************************)
ExamSound ==
    /\ ExamExists => (exam.published => exam.status = "COMPLETED")
    /\ \A w \in Workers :
          /\ req[w].pc = "updateExam" =>
                req[w].row.status \in {"DRAFT", "SCHEDULED"} /\ ~req[w].row.published
          /\ req[w].pc \in {"count", "publishExam"} => req[w].row.status = "COMPLETED"
    /\ job.pc = "writeOpen" => job.row.status = "IN_PROGRESS" /\ ~job.row.published
    /\ job.pc = "writeClose" => job.row.status = "COMPLETED"

ExamInv == TypeOK /\ ExamSound

(* A step leaves the job alone, or the job takes a row, or it holds none. *)
LEMMA JobFrame ==
  ASSUME TypeOK, [Next]_vars
  PROVE  \/ job' = job
         \/ job' \in {Idle} \cup JobLooking \cup JobSubmitting
         \/ /\ exam.status = "SCHEDULED"
            /\ job' = [pc |-> "writeOpen", now |-> job.now,
                       row |-> [exam EXCEPT !.status = "IN_PROGRESS"]]
         \/ /\ exam.status = "IN_PROGRESS"
            /\ job' = [pc |-> "writeClose", row |-> [exam EXCEPT !.status = "COMPLETED"]]
<1>0. /\ job \in Job /\ time \in 0..MaxTime
      /\ job.pc \in {"listOpen", "notify", "listClose", "writeOpen"} =>
            job.now \in 0..MaxTime
  BY JobShape DEF TypeOK, JobLooking, JobOpening
<1>1. CASE Tick \/ Restart \/ CreateExamination \/ UNCHANGED vars
  BY <1>1 DEF Tick, Restart, CreateExamination, vars
<1>2. CASE \E w \in Workers : ExamRequest(w) \/ AttemptRequest(w) \/ RequestFails(w)
  BY <1>2 DEF ExamRequest, AttemptRequest, RequestFails, UpdateExamination,
     ScheduleExamination, UpdateExamRow, DeleteExamination, DeleteExamRow, PublishResults,
     CountSubmissions, PublishExamRow, PublishResultsToStudents, StartExamination,
     ReadAttempt, GradeSubmission, FindAttempt, InsertAttempt, SaveAnswer,
     SubmitExamination, ApplyGrades, UpdateSubmission
<1>3. CASE RunJob \/ NotifyWindowOpen \/ JobFails
  BY <1>0, <1>3 DEF RunJob, NotifyWindowOpen, JobFails, JobAt, JobLooking
<1>4. CASE ListByWindowStart \/ OpenWindow
  BY <1>0, <1>4 DEF ListByWindowStart, OpenWindow, JobAt, JobLooking
<1>5. CASE ListByWindowEnd
  BY <1>5 DEF ListByWindowEnd
<1>6. CASE CloseWindow \/ AutoSubmitInProgress
  <2>1. job' = [pc |-> "autoSubmit"] \/ job' = Idle
    BY <1>6 DEF CloseWindow, AutoSubmitInProgress
  <2> QED
    BY <2>1 DEF JobSubmitting
<1> QED
  BY <1>1, <1>2, <1>3, <1>4, <1>5, <1>6 DEF Next, JobStep

LEMMA ExamRowKept ==
  ASSUME ExamInv, [Next]_vars
  PROVE  ExamExists' => (exam'.published => exam'.status = "COMPLETED")
<1>0. TypeOK /\ ExamSound
  BY DEF ExamInv
<1>1. CASE exam' = exam
  BY <1>0, <1>1 DEF ExamSound, ExamExists
<1>2. CASE exam' = DeletedExam
  BY <1>2 DEF ExamExists, DeletedExam, ExaminationStatus
<1>3. ASSUME NEW w \in Workers, req[w].pc \in {"updateExam", "publishExam"},
             exam' = req[w].row
      PROVE  exam'.published => exam'.status = "COMPLETED"
  BY <1>0, <1>3 DEF ExamSound
<1>4. CASE job.pc \in {"writeOpen", "writeClose"} /\ exam' = job.row
  BY <1>0, <1>4 DEF ExamSound
<1> QED
  BY <1>0, <1>1, <1>2, <1>3, <1>4, ExamFrame

LEMMA ExamRequestsKept ==
  ASSUME ExamInv, [Next]_vars, NEW w \in Workers
  PROVE  /\ req'[w].pc = "updateExam" =>
               req'[w].row.status \in {"DRAFT", "SCHEDULED"} /\ ~req'[w].row.published
         /\ req'[w].pc \in {"count", "publishExam"} => req'[w].row.status = "COMPLETED"
<1>0. TypeOK /\ ExamSound /\ req[w] \in Request
  BY DEF ExamInv, TypeOK
<1>1. CASE req'[w] = req[w]
  BY <1>0, <1>1 DEF ExamSound
<1>2. CASE req'[w] = Idle \/ req'[w] \in Bare
  BY <1>2 DEF Idle, Bare
<1>3. CASE WillStart(w)
  <2>1. ASSUME NEW s \in Students,
               req'[w] = [pc |-> "findAttempt", student |-> s, now |-> time]
        PROVE  req'[w].pc = "findAttempt"
    BY <2>1
  <2>2. ASSUME req[w].pc = "findAttempt", req'[w] = [req[w] EXCEPT !.pc = "insertAttempt"]
        PROVE  req'[w].pc = "insertAttempt"
    <3>1. req[w] \in Finding
      BY <1>0, <2>2, RequestShape
    <3> QED
      BY <2>2, <3>1 DEF Finding
  <2> QED
    BY <1>3, <2>1, <2>2 DEF WillStart
<1>4. CASE WillHold(w)
  <2>1. PICK s \in Students, pc \in {"save", "submit", "updateAttempt", "grade"} :
            req'[w] = [pc |-> pc, student |-> s, row |-> attempts[s]]
    BY <1>4 DEF WillHold
  <2>2. req'[w].pc = pc
    BY <2>1
  <2> QED
    BY <2>2
<1>5. CASE WillUpdate(w)
  <2>1. req'[w].pc = "updateAttempt"
    BY <1>5 DEF WillUpdate
  <2> QED
    BY <2>1
<1>6. CASE WillChangeExam(w)
  <2>0. ExamExists => exam \in ExamRow
    BY <1>0, RowShape
  <2>1. ASSUME NEW win \in Windows, exam.status = "DRAFT",
               req'[w] = [pc |-> "updateExam", row |-> [exam EXCEPT !.window = win]]
        PROVE  /\ req'[w].pc = "updateExam" /\ req'[w].row.status = "DRAFT"
               /\ ~req'[w].row.published
    BY <1>0, <2>0, <2>1 DEF ExamSound, ExamExists, ExaminationStatus, ExamRow
  <2>2. ASSUME exam.status = "DRAFT",
               req'[w] = [pc |-> "updateExam", row |-> [exam EXCEPT !.status = "SCHEDULED"]]
        PROVE  /\ req'[w].pc = "updateExam" /\ req'[w].row.status = "SCHEDULED"
               /\ ~req'[w].row.published
    BY <1>0, <2>0, <2>2 DEF ExamSound, ExamExists, ExaminationStatus, ExamRow
  <2>3. ASSUME ExamExists,
               req'[w] = [pc |-> "count",
                          row |-> [exam EXCEPT !.published = TRUE, !.status = "COMPLETED"]]
        PROVE  req'[w].pc = "count" /\ req'[w].row.status = "COMPLETED"
    <3>1. [exam EXCEPT !.published = TRUE, !.status = "COMPLETED"].status = "COMPLETED"
      BY <2>0, <2>3 DEF ExamRow
    <3>2. /\ req'[w].pc = "count"
          /\ req'[w].row = [exam EXCEPT !.published = TRUE, !.status = "COMPLETED"]
      BY <2>3
    <3> QED
      BY <3>1, <3>2
  <2>4. ASSUME req[w].pc = "count", req'[w] = [req[w] EXCEPT !.pc = "publishExam"]
        PROVE  req'[w].pc = "publishExam" /\ req'[w].row.status = "COMPLETED"
    <3>1. req[w] \in ExamWriting
      BY <1>0, <2>4, RequestShape
    <3> QED
      BY <1>0, <2>4, <3>1 DEF ExamSound, ExamWriting
  <2> QED
    BY <1>2, <1>6, <2>1, <2>2, <2>3, <2>4 DEF WillChangeExam
<1> QED
  BY <1>0, <1>1, <1>2, <1>3, <1>4, <1>5, <1>6, RequestFrame

LEMMA ExamJobKept ==
  ASSUME ExamInv, [Next]_vars
  PROVE  /\ job'.pc = "writeOpen" => job'.row.status = "IN_PROGRESS" /\ ~job'.row.published
         /\ job'.pc = "writeClose" => job'.row.status = "COMPLETED"
<1>0. TypeOK /\ ExamSound /\ (ExamExists => exam \in ExamRow)
  BY RowShape DEF ExamInv
<1>1. CASE job' = job
  BY <1>0, <1>1 DEF ExamSound
<1>2. CASE job' \in {Idle} \cup JobLooking \cup JobSubmitting
  BY <1>2 DEF Idle, JobLooking, JobSubmitting
<1>3. ASSUME exam.status = "SCHEDULED",
             job' = [pc |-> "writeOpen", now |-> job.now,
                     row |-> [exam EXCEPT !.status = "IN_PROGRESS"]]
      PROVE  job'.pc = "writeOpen" /\ job'.row.status = "IN_PROGRESS" /\ ~job'.row.published
  BY <1>0, <1>3 DEF ExamSound, ExamExists, ExaminationStatus, ExamRow
<1>4. ASSUME exam.status = "IN_PROGRESS",
             job' = [pc |-> "writeClose", row |-> [exam EXCEPT !.status = "COMPLETED"]]
      PROVE  job'.pc = "writeClose" /\ job'.row.status = "COMPLETED"
  BY <1>0, <1>4 DEF ExamExists, ExaminationStatus, ExamRow
<1> QED
  BY <1>0, <1>1, <1>2, <1>3, <1>4, JobFrame

LEMMA ExamInvInductive ==
  /\ Init => ExamInv
  /\ ExamInv /\ [Next]_vars => ExamInv'
<1>1. ASSUME Init PROVE ExamInv
  <2>1. TypeOK
    BY <1>1, InitType
  <2>2. ~ExamExists /\ job.pc = "idle" /\ \A w \in Workers : req[w].pc = "idle"
    BY <1>1 DEF Init, ExamExists, NoExam, ExaminationStatus, Idle
  <2> QED
    BY <2>1, <2>2 DEF ExamInv, ExamSound
<1>2. ASSUME ExamInv, [Next]_vars PROVE ExamInv'
  <2>1. TypeOK'
    BY <1>2, NextType DEF ExamInv
  <2> QED
    BY <1>2, <2>1, ExamRowKept, ExamRequestsKept, ExamJobKept DEF ExamInv, ExamSound
<1> QED
  BY <1>1, <1>2

(***************************************************************************)
(* While the job keeps up: it works at the instant it was started, opens    *)
(* nothing whose window has ended, and closes in the interval after the end *)
(***************************************************************************)
OnTime == ~missed /\ faults = 0

BeforeClosing == {"listOpen", "writeOpen", "notify", "listClose", "writeClose"}

KeepsUp ==
    OnTime =>
        /\ job # Idle => ran
        /\ job.pc \in {"listOpen", "writeOpen", "notify", "listClose"} => job.now = time
        /\ job.pc = "writeOpen" => time <= job.row.window[2]
        /\ exam.status = "IN_PROGRESS" =>
              /\ time <= exam.window[2] + 1
              /\ time = exam.window[2] + 1 /\ ran => job.pc \in BeforeClosing

WindowInv == ExamInv /\ KeepsUp

(* Numbers the arithmetic below is about. *)
LEMMA WindowNumbers ==
  ASSUME TypeOK
  PROVE  /\ time \in Int
         /\ ExamExists => /\ exam \in ExamRow
                          /\ exam.window[1] \in Int /\ exam.window[2] \in Int
                          /\ exam.window[1] < exam.window[2]
<1>1. \A win \in Windows : win[1] \in Int /\ win[2] \in Int /\ win[1] < win[2]
  BY ExaminationsAssumption
<1> QED
  BY <1>1, RowShape DEF TypeOK, ExamRow

(* No request makes an examination IN_PROGRESS, or touches the job. *)
LEMMA RequestWindow ==
  ASSUME ExamInv,
         \/ CreateExamination
         \/ \E w \in Workers : ExamRequest(w) \/ AttemptRequest(w)
  PROVE  /\ UNCHANGED <<time, job, ran, missed>>
         /\ exam' = exam \/ exam'.status # "IN_PROGRESS"
<1>1. CASE CreateExamination
  BY <1>1 DEF CreateExamination
<1>2. ASSUME NEW w \in Workers, UpdateExamRow(w) \/ PublishExamRow(w)
      PROVE  /\ UNCHANGED <<time, job, ran, missed>>
             /\ exam' = exam \/ exam'.status # "IN_PROGRESS"
  BY <1>2 DEF UpdateExamRow, PublishExamRow, WriteExam, ExamInv, ExamSound
<1>3. ASSUME NEW w \in Workers, DeleteExamRow(w)
      PROVE  /\ UNCHANGED <<time, job, ran, missed>>
             /\ exam'.status # "IN_PROGRESS"
  BY <1>3 DEF DeleteExamRow, DeletedExam
<1>4. ASSUME NEW w \in Workers, ExamRequest(w),
             ~UpdateExamRow(w), ~PublishExamRow(w), ~DeleteExamRow(w)
      PROVE  UNCHANGED <<time, job, ran, missed, exam>>
  BY <1>4 DEF ExamRequest, UpdateExamination, ScheduleExamination, DeleteExamination,
     PublishResults, CountSubmissions, PublishResultsToStudents
<1>5. ASSUME NEW w \in Workers, AttemptRequest(w)
      PROVE  UNCHANGED <<time, job, ran, missed, exam>>
  BY <1>5 DEF AttemptRequest, StartExamination, ReadAttempt, GradeSubmission,
     FindAttempt, InsertAttempt, SaveAnswer, SubmitExamination, ApplyGrades,
     UpdateSubmission
<1> QED
  BY <1>1, <1>2, <1>3, <1>4, <1>5

LEMMA FaultsOnlyGrow ==
  ASSUME TypeOK, [Next]_vars, OnTime'
  PROVE  /\ OnTime
         /\ ~Restart /\ ~JobFails /\ \A w \in Workers : ~RequestFails(w)
<1>0. faults \in Nat /\ faults' = 0 /\ ~missed'
  BY ExaminationsAssumption DEF TypeOK, OnTime
<1>1. ~Restart
  BY <1>0 DEF Restart
<1>2. ~JobFails
  BY <1>0 DEF JobFails
<1>3. ASSUME NEW w \in Workers PROVE ~RequestFails(w)
  BY <1>0 DEF RequestFails
<1>4. CASE \E w \in Workers : ExamRequest(w)
  <2>1. faults' = faults /\ missed' = missed
    BY <1>4 DEF ExamRequest, UpdateExamination, ScheduleExamination, UpdateExamRow,
       DeleteExamination, DeleteExamRow, PublishResults, CountSubmissions, PublishExamRow,
       PublishResultsToStudents
  <2> QED
    BY <1>0, <1>1, <1>2, <1>3, <2>1 DEF OnTime
<1>5. CASE \E w \in Workers : AttemptRequest(w)
  <2>1. (faults' = faults \/ faults' = faults + 1) /\ missed' = missed
    BY <1>5 DEF AttemptRequest, StartExamination, ReadAttempt, GradeSubmission,
       FindAttempt, InsertAttempt, SaveAnswer, SubmitExamination, ApplyGrades,
       UpdateSubmission
  <2>2. faults = 0
    BY <1>0, <2>1
  <2> QED
    BY <1>0, <1>1, <1>2, <1>3, <2>1, <2>2 DEF OnTime
<1>6. CASE Tick
  <2>1. faults' = faults /\ (missed' <=> (missed \/ ~ran \/ job # Idle))
    BY <1>6 DEF Tick
  <2> QED
    BY <1>0, <1>1, <1>2, <1>3, <2>1 DEF OnTime
<1>7. CASE CreateExamination \/ JobStep \/ UNCHANGED vars
  <2>1. faults' = faults /\ missed' = missed
    BY <1>2, <1>7 DEF CreateExamination, JobStep, RunJob, ListByWindowStart, OpenWindow,
       NotifyWindowOpen, ListByWindowEnd, CloseWindow, AutoSubmitInProgress, vars
  <2> QED
    BY <1>0, <1>1, <1>2, <1>3, <2>1 DEF OnTime
<1> QED
  BY <1>1, <1>3, <1>4, <1>5, <1>6, <1>7 DEF Next

LEMMA JobKeepsUp ==
  ASSUME WindowInv, OnTime, JobStep, ~JobFails
  PROVE  KeepsUp'
<1>0. ExamInv /\ TypeOK /\ ExamSound /\ KeepsUp /\ job \in Job /\ time \in Int
  BY WindowNumbers DEF WindowInv, ExamInv, TypeOK
<1>1. CASE RunJob
  <2>1. UNCHANGED <<time, exam>> /\ ran' /\ job'.pc = "listOpen" /\ job'.now = time
    BY <1>1 DEF RunJob
  <2> QED
    BY <1>0, <2>1 DEF KeepsUp, OnTime, BeforeClosing
<1>2. CASE ListByWindowStart
  <2>0. /\ UNCHANGED <<time, exam, ran>> /\ job.now = time /\ ran
        /\ exam.status = "IN_PROGRESS" => time <= exam.window[2] + 1
    BY <1>0, <1>2 DEF ListByWindowStart, KeepsUp, OnTime, Idle
  <2>1. CASE exam.status = "SCHEDULED" /\ JustPassed(exam.window[1], job.now)
    <3>1. time <= exam.window[2] /\ exam \in ExamRow
      BY <1>0, <2>0, <2>1, WindowNumbers DEF JustPassed, ExamExists, ExaminationStatus
    <3>2. job' = [pc |-> "writeOpen", now |-> time,
                  row |-> [exam EXCEPT !.status = "IN_PROGRESS"]]
      BY <1>2, <2>0, <2>1 DEF ListByWindowStart
    <3>3. job'.pc = "writeOpen" /\ job'.now = time
          /\ job'.row = [exam EXCEPT !.status = "IN_PROGRESS"]
      BY <3>2
    <3>4. job'.row.window = exam.window
      BY <3>1, <3>3 DEF ExamRow
    <3> QED
      BY <2>0, <2>1, <3>1, <3>3, <3>4 DEF KeepsUp, BeforeClosing
  <2>2. CASE ~(exam.status = "SCHEDULED" /\ JustPassed(exam.window[1], job.now))
    <3>1. job' = [pc |-> "listClose", now |-> time]
      BY <1>2, <2>0, <2>2 DEF ListByWindowStart, JobAt
    <3>2. job'.pc = "listClose" /\ job'.now = time
      BY <3>1
    <3> QED
      BY <2>0, <3>2 DEF KeepsUp, BeforeClosing
  <2> QED
    BY <2>1, <2>2
<1>3. CASE OpenWindow
  <2>0. /\ UNCHANGED <<time, ran>> /\ job.now = time /\ ran
        /\ time <= job.row.window[2] /\ job.row.status = "IN_PROGRESS"
    BY <1>0, <1>3 DEF OpenWindow, KeepsUp, OnTime, Idle, ExamSound
  <2>1. job.row.window[2] \in Int
    <3>1. job \in JobOpening
      BY <1>0, <1>3, JobShape DEF OpenWindow
    <3> QED
      BY <3>1, ExaminationsAssumption DEF JobOpening, ExamRow
  <2>2. \/ job' = [pc |-> "notify", now |-> time] /\ exam' = job.row
        \/ job' = [pc |-> "listClose", now |-> time] /\ exam' = exam /\ ~ExamExists
    BY <1>3, <2>0 DEF OpenWindow, JobAt, WriteExam
  <2>3. job'.pc \in {"notify", "listClose"} /\ job'.now = time
    BY <2>2
  <2> QED
    BY <1>0, <2>0, <2>1, <2>2, <2>3 DEF KeepsUp, BeforeClosing, ExamExists, ExaminationStatus
<1>4. CASE NotifyWindowOpen
  <2>0. /\ UNCHANGED <<time, exam, ran>> /\ job.now = time /\ ran
        /\ exam.status = "IN_PROGRESS" => time <= exam.window[2] + 1
    BY <1>0, <1>4 DEF NotifyWindowOpen, KeepsUp, OnTime, Idle
  <2>1. job' = [pc |-> "listClose", now |-> time]
    BY <1>4, <2>0 DEF NotifyWindowOpen, JobAt
  <2>2. job'.pc = "listClose" /\ job'.now = time
    BY <2>1
  <2> QED
    BY <2>0, <2>2 DEF KeepsUp, BeforeClosing
<1>5. CASE ListByWindowEnd
  <2>0. /\ UNCHANGED <<time, exam, ran>> /\ job.now = time /\ ran
        /\ exam.status = "IN_PROGRESS" => time <= exam.window[2] + 1
    BY <1>0, <1>5 DEF ListByWindowEnd, KeepsUp, OnTime, Idle
  <2>1. CASE exam.status = "IN_PROGRESS" /\ JustClosed(exam.window[2], job.now)
    <3>1. job'.pc = "writeClose"
      BY <1>5, <2>1 DEF ListByWindowEnd
    <3> QED
      BY <2>0, <3>1 DEF KeepsUp, BeforeClosing
  <2>2. CASE ~(exam.status = "IN_PROGRESS" /\ JustClosed(exam.window[2], job.now))
    <3>1. job' = Idle /\ job'.pc = "idle"
      BY <1>5, <2>2 DEF ListByWindowEnd, Idle
    <3>2. exam.status = "IN_PROGRESS" => time # exam.window[2] + 1
      BY <1>0, <2>0, <2>2, WindowNumbers DEF JustClosed, JustPassed, ExamExists,
         ExaminationStatus
    <3> QED
      BY <2>0, <3>1, <3>2 DEF KeepsUp
  <2> QED
    BY <2>1, <2>2
<1>6. CASE CloseWindow
  <2>0. UNCHANGED <<time, ran>> /\ ran /\ job.row.status = "COMPLETED"
    BY <1>0, <1>6 DEF CloseWindow, KeepsUp, OnTime, Idle, ExamSound
  <2>1. exam'.status # "IN_PROGRESS"
    BY <1>6, <2>0 DEF CloseWindow, WriteExam, ExamExists, ExaminationStatus
  <2>2. job'.pc \in {"autoSubmit", "idle"}
    BY <1>6 DEF CloseWindow, Idle
  <2> QED
    BY <2>0, <2>1, <2>2 DEF KeepsUp
<1>7. CASE AutoSubmitInProgress
  <2>0. UNCHANGED <<time, exam, ran>> /\ job' = Idle /\ job.pc = "autoSubmit"
    BY <1>7 DEF AutoSubmitInProgress
  <2>1. job # Idle /\ job'.pc = "idle"
    BY <2>0 DEF Idle
  <2>2. ran /\ (exam.status = "IN_PROGRESS" =>
                    time <= exam.window[2] + 1 /\ time # exam.window[2] + 1)
    BY <1>0, <2>0, <2>1 DEF KeepsUp, BeforeClosing
  <2> QED
    BY <2>0, <2>1, <2>2 DEF KeepsUp
<1> QED
  BY <1>1, <1>2, <1>3, <1>4, <1>5, <1>6, <1>7 DEF JobStep

LEMMA WindowInvInductive ==
  /\ Init => WindowInv
  /\ WindowInv /\ [Next]_vars => WindowInv'
<1>1. ASSUME Init PROVE WindowInv
  <2>1. ExamInv
    BY <1>1, ExamInvInductive
  <2>2. job = Idle /\ job.pc = "idle" /\ exam.status = "NONE"
    BY <1>1 DEF Init, NoExam, Idle
  <2> QED
    BY <2>1, <2>2 DEF WindowInv, KeepsUp
<1>2. ASSUME WindowInv, [Next]_vars PROVE WindowInv'
  <2>0. ExamInv /\ TypeOK /\ KeepsUp /\ ExamInv'
    BY <1>2, ExamInvInductive DEF WindowInv, ExamInv
  <2> SUFFICES ASSUME OnTime' PROVE KeepsUp'
    BY <2>0 DEF WindowInv, KeepsUp
  <2>1. OnTime /\ ~Restart /\ ~JobFails /\ \A w \in Workers : ~RequestFails(w)
    BY <1>2, <2>0, FaultsOnlyGrow
  <2>2. CASE Tick
    <3>0. ran /\ job = Idle
      BY <2>2 DEF Tick, OnTime
    <3>1. job.pc = "idle" /\ time' = time + 1 /\ ~ran' /\ UNCHANGED <<exam, job>>
      BY <2>2, <3>0 DEF Tick, Idle
    <3>2. exam.status = "IN_PROGRESS" =>
            time <= exam.window[2] + 1 /\ time # exam.window[2] + 1
      BY <2>0, <2>1, <3>0, <3>1 DEF KeepsUp, BeforeClosing
    <3>3. exam.status = "IN_PROGRESS" => time' <= exam.window[2] + 1
      BY <2>0, <3>1, <3>2, WindowNumbers DEF ExamExists, ExaminationStatus
    <3> QED
      BY <3>0, <3>1, <3>3 DEF KeepsUp
  <2>3. CASE CreateExamination \/ \E w \in Workers : ExamRequest(w) \/ AttemptRequest(w)
    BY <2>0, <2>1, <2>3, RequestWindow DEF KeepsUp
  <2>4. CASE JobStep
    BY <1>2, <2>1, <2>4, JobKeepsUp
  <2>5. CASE UNCHANGED vars
    BY <2>0, <2>1, <2>5 DEF vars, KeepsUp, OnTime
  <2> QED
    BY <1>2, <2>1, <2>2, <2>3, <2>4, <2>5 DEF Next
<1> QED
  BY <1>1, <1>2

(***************************************************************************)
(* The properties                                                           *)
(***************************************************************************)
LEMMA AttemptInvAlways == Spec => []AttemptInv
  BY AttemptInvInductive, PTL DEF Spec

LEMMA ExamInvAlways == Spec => []ExamInv
  BY ExamInvInductive, PTL DEF Spec

(* The columns of an attempt, and those of the examination, agree in every   *)
(* reachable state, although every request writes back whole rows it read    *)
(* some time before (UpdateSubmission, UpdateExamination).                   *)
THEOREM RowsAlwaysAgree == Spec => []RowsAgree
<1>1. AttemptInv /\ ExamInv => RowsAgree
  BY DEF AttemptInv, ExamInv, RowsSound, Sound, ExamSound, RowsAgree
<1> QED
  BY <1>1, AttemptInvAlways, ExamInvAlways, PTL

(* A graded attempt's score is the sum of the marks beside its answers,      *)
(* whether the server or a tutor gave them (submitAndGrade, GradeSubmission).*)
THEOREM ScoreAlwaysMatchesMarks == Spec => []ScoreMatchesMarks
<1>1. AttemptInv => ScoreMatchesMarks
  BY DEF AttemptInv, RowsSound, Sound, ScoreMatchesMarks
<1> QED
  BY <1>1, AttemptInvAlways, PTL

(* Whatever requests race, no stored answer was given after its deadline, and*)
(* no attempt started outside a window (StartExamination, SaveAnswer).       *)
THEOREM AnswersAlwaysInTime == Spec => []AnswersInTime
<1>1. AttemptInv => AnswersInTime
  BY DEF AttemptInv, RowsSound, Sound, AnswersInTime
<1> QED
  BY <1>1, AttemptInvAlways, PTL

(* No step moves the start of an attempt (InsertAttempt, UpdateSubmission).  *)
THEOREM AttemptClockStaysFixed == Spec => AttemptClockFixed
<1>1. ASSUME TypeOK, [Next]_vars, NEW s \in Students, Exists(s), Exists(s)'
      PROVE  attempts'[s].started = attempts[s].started
  <2>0. attempts[s] \in Attempt
    BY <1>1, RowShape
  <2>1. CASE attempts'[s] = attempts[s]
    BY <2>1
  <2>2. CASE attempts'[s] = NoAttempt
    BY <1>1, <2>2 DEF Exists, NoAttempt, SubmissionStatus
  <2>3. ASSUME NEW w \in Workers, req[w].pc = "updateAttempt",
               attempts'[s] = Written(attempts[s], req[w].row)
        PROVE  attempts'[s].started = attempts[s].started
    <3>1. req[w] \in Holding
      BY <1>1, <2>3, RequestShape DEF TypeOK
    <3> QED
      BY <2>3, <3>1 DEF Holding, Attempt, Written
  <2>4. CASE \/ attempts'[s] = [attempts[s] EXCEPT !.status = "PUBLISHED", !.shown = TRUE]
             \/ attempts'[s] = [attempts[s] EXCEPT !.status = "SUBMITTED", !.submitted = TRUE]
    BY <2>0, <2>4 DEF Attempt
  <2> QED
    BY <1>1, <2>1, <2>2, <2>3, <2>4, AttemptFrame
<1>2. TypeOK /\ [Next]_vars =>
        [\A s \in Students : Exists(s) /\ Exists(s)' =>
            attempts'[s].started = attempts[s].started]_vars
  BY <1>1
<1> QED
  BY <1>2, TypeCorrect, PTL DEF Spec, AttemptClockFixed

(* If the window job runs at every instant, finishes within it and nothing   *)
(* fails, its one-interval look back closes every examination it opened.     *)
THEOREM WindowAlwaysCloses == Spec => []WindowCloses
<1>1. WindowInv => WindowCloses
  BY DEF WindowInv, KeepsUp, OnTime, WindowCloses
<1> QED
  BY <1>1, WindowInvInductive, PTL DEF Spec

=============================================================================
