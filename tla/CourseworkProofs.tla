--------------------------- MODULE CourseworkProofs ---------------------------
(***************************************************************************)
(* Proofs about what becomes of students in a term: Coursework, the job     *)
(* that reminds of its deadlines, and Progress; for any number of works,    *)
(* students, courses, classes and requests.                                 *)
(***************************************************************************)
EXTENDS DeadlineReminders, Progress, FiniteSetTheorems, TLAPS

(***************************************************************************)
(* Coursework: the steps by what they change.                               *)
(***************************************************************************)
Creates ==
    \E i \in Works : \/ \E terms \in QuizTerms : CreateQuiz(i, terms)
                     \/ \E terms \in AssignmentTerms : CreateAssignment(i, terms)
StartsEdit(w) ==
    \E i \in Works : \/ \E terms \in QuizTerms : UpdateQuiz(w, i, terms)
                     \/ \E terms \in AssignmentTerms : UpdateAssignment(w, i, terms)
                     \/ PublishQuiz(w, i) \/ DeleteQuiz(w, i)
                     \/ PublishAssignment(w, i) \/ DeleteAssignment(w, i)
StartsWork(w) ==
    \E i \in Works, s \in Students :
      \/ StartQuiz(w, i, s) \/ SubmitQuiz(w, i, s) \/ SubmitAssignment(w, i, s)
      \/ GradeQuiz(w, i, s) \/ GradeAssignment(w, i, s)
TurnsAway(w) == \E i \in Works, s \in Students : NoAttemptFound(w, i, s)
GoesOn(w) == Abort(w) \/ ReadAttempt(w) \/ MarkAnswers(w) \/ GradeAnswers(w)
WritesWork(w) ==
    StoreQuiz(w) \/ StoreAssignment(w) \/ EraseQuiz(w) \/ EraseAssignment(w)
WritesRow(w) ==
    \/ CreateQuizSubmission(w) \/ CreateAssignmentSubmission(w)
    \/ SaveSubmission(w) \/ SaveGrade(w)

LEMMA Groups ==
  ASSUME Next
  PROVE  \/ Tick \/ Creates
         \/ \E w \in Workers : \/ StartsEdit(w) \/ StartsWork(w) \/ TurnsAway(w)
                             \/ GoesOn(w) \/ WritesWork(w) \/ WritesRow(w)
  BY DEF Next, Creates, StartsEdit, StartsWork, TurnsAway, GoesOn, WritesWork, WritesRow

(* Most steps only change what one request holds. *)
LEMMA OnlyRequest ==
  ASSUME NEW w, StartsEdit(w) \/ StartsWork(w) \/ GoesOn(w)
  PROVE  /\ UNCHANGED <<now, works, work, overwritten, accepted, crossed, marked, turnedAway>>
         /\ \E r : Become(w, r)
         /\ papers' = papers \/ (papers < MaxPaper /\ papers' = papers + 1)
<1>1. ASSUME StartsEdit(w)
      PROVE  /\ UNCHANGED <<now, works, work, overwritten, accepted, crossed, marked, turnedAway>>
             /\ \E r : Become(w, r)
             /\ papers' = papers \/ (papers < MaxPaper /\ papers' = papers + 1)
  BY <1>1 DEF StartsEdit, UpdateQuiz, UpdateAssignment, PublishQuiz, PublishAssignment, DeleteQuiz,
     DeleteAssignment, Update, Publish, Delete, Editor, histories
<1>2. ASSUME StartsWork(w)
      PROVE  UNCHANGED <<now, tables, histories>> /\ \E r : Become(w, r)
  BY <1>2 DEF StartsWork, StartQuiz, SubmitQuiz, SubmitAssignment, GradeQuiz, GradeAssignment
<1>3. ASSUME GoesOn(w)
      PROVE  UNCHANGED <<now, tables, histories>> /\ \E r : Become(w, r)
  BY <1>3 DEF GoesOn, Abort, ReadAttempt, MarkAnswers, GradeAnswers, Finish
<1> QED
  BY <1>1, <1>2, <1>3 DEF tables, histories

(***************************************************************************)
(* Coursework: types.  A request never meets a row of the other kind: a     *)
(* work keeps its kind, and one deleted does not come back.                 *)
(***************************************************************************)
KindIs(i, kind) == works[i] # NoWork /\ (Exists(i) => works[i].kind = kind)

RowFits(i, row) ==
    row # Nothing =>
      /\ Exists(i)
      /\ \/ works[i].kind = "quiz" /\ row \in Attempt \cup QuizSubmission
         \/ works[i].kind = "assignment" /\ row \in AssignmentSubmission

HeldFits(r) ==
    /\ r.pc \in {"update", "publish", "delete"} => r.read = "DRAFT" /\ KindIs(r.id, r.row.kind)
    /\ r.pc \in {"readAttempt", "readQuiz", "readTotal", "submit"} => KindIs(r.id, "quiz")
    /\ r.pc = "insert" => \/ r.row \in Attempt /\ KindIs(r.id, "quiz")
                          \/ r.row \in AssignmentSubmission /\ KindIs(r.id, "assignment")
    /\ r.pc = "grade" => /\ r.row.status = "GRADED"
                         /\ \/ r.row \in QuizSubmission /\ KindIs(r.id, "quiz")
                            \/ r.row \in AssignmentSubmission /\ KindIs(r.id, "assignment")

KindsFit ==
    /\ TypeOK
    /\ \A i \in Works, s \in Students : RowFits(i, work[i][s])
    /\ \A w \in Workers : HeldFits(req[w])

LEMMA WorkOfKind ==
  ASSUME TypeOK, NEW i \in Works
  PROVE  /\ Is(i, "quiz") => works[i] \in Quiz
         /\ Is(i, "assignment") => works[i] \in Assignment
         /\ Exists(i) => works[i] \in Quiz \/ works[i] \in Assignment
         /\ ~Exists(i) => works[i] \in {NoWork, DeletedWork}
<1>1. \/ works[i] \in Quiz \/ works[i] \in Assignment
      \/ works[i] \in {NoWork, DeletedWork}
  BY DEF TypeOK
<1>2. NoWork.status = None /\ DeletedWork.status = "DELETED"
  BY DEF NoWork, DeletedWork
<1> QED
  BY <1>1, <1>2 DEF Is, Exists, Quiz, Assignment, Status, None

LEMMA RowOfStatus ==
  ASSUME TypeOK, NEW i \in Works, NEW s \in Students
  PROVE  /\ work[i][s] # Nothing /\ ~IsSubmitted(work[i][s]) => work[i][s] \in Attempt
         /\ IsSubmitted(work[i][s]) => work[i][s] # Nothing
         /\ IsSubmitted(work[i][s]) => work[i][s] \in QuizSubmission \cup AssignmentSubmission
<1>1. \/ work[i][s] \in Attempt \/ work[i][s] = Nothing
      \/ work[i][s] \in QuizSubmission \/ work[i][s] \in AssignmentSubmission
  BY DEF TypeOK
<1>2. Nothing.status = "none"
  BY DEF Nothing, None
<1> QED
  BY <1>1, <1>2 DEF IsSubmitted, Attempt, QuizSubmission, AssignmentSubmission

(* No step gives a work another kind, or brings a deleted one back.         *)
LEMMA KindStays ==
  ASSUME KindsFit, Next
  PROVE  \A i \in Works : /\ \A kind : KindIs(i, kind) => KindIs(i, kind)'
                          /\ works[i] # NoWork /\ Exists(i)' => Exists(i)
<1> SUFFICES ASSUME works' # works
             PROVE  \A i \in Works : /\ \A kind : KindIs(i, kind) => KindIs(i, kind)'
                                     /\ works[i] # NoWork /\ Exists(i)' => Exists(i)
  BY DEF KindIs, Exists
<1>1. ASSUME NEW j \in Works, works[j] = NoWork, NEW row, works' = [works EXCEPT ![j] = row],
             NEW i \in Works
      PROVE  /\ \A kind : KindIs(i, kind) => KindIs(i, kind)'
             /\ works[i] # NoWork /\ Exists(i)' => Exists(i)
  <2>1. CASE i = j
    BY <1>1, <2>1 DEF KindIs
  <2>2. CASE i # j
    <3>1. works'[i] = works[i]
      BY <1>1, <2>2 DEF KindsFit, TypeOK
    <3> QED
      BY <3>1 DEF KindIs, Exists
  <2> QED
    BY <2>1, <2>2
<1>2. ASSUME NEW w \in Workers, Store(w), NEW i \in Works
      PROVE  /\ \A kind : KindIs(i, kind) => KindIs(i, kind)'
             /\ works[i] # NoWork /\ Exists(i)' => Exists(i)
  <2>1. CASE i # req[w].id \/ ~Exists(req[w].id)
    <3>1. works'[i] = works[i]
      BY <1>2, <2>1 DEF KindsFit, TypeOK, Store
    <3> QED
      BY <3>1 DEF KindIs, Exists
  <2>2. CASE i = req[w].id /\ Exists(req[w].id)
    <3>1. works'[i] = req[w].row /\ req[w] \in Editing
      BY <1>2, <2>2 DEF KindsFit, TypeOK, Store, Request, Editing, Sitting, Idle
    <3>2. works'[i] # NoWork /\ works'[i].kind = req[w].row.kind
      BY <3>1 DEF Editing, Quiz, Assignment, Status, NoWork, None
    <3>3. works[i].kind = req[w].row.kind
      BY <1>2, <2>2 DEF KindsFit, HeldFits, KindIs, Store
    <3> QED
      BY <2>2, <3>2, <3>3 DEF KindIs
  <2> QED
    BY <2>1, <2>2
<1>3. ASSUME NEW w \in Workers, Erase(w), NEW i \in Works
      PROVE  /\ \A kind : KindIs(i, kind) => KindIs(i, kind)'
             /\ works[i] # NoWork /\ Exists(i)' => Exists(i)
  <2>1. CASE i # req[w].id
    <3>1. works'[i] = works[i]
      BY <1>3, <2>1 DEF KindsFit, TypeOK, Erase
    <3> QED
      BY <3>1 DEF KindIs, Exists
  <2>2. CASE i = req[w].id
    <3>1. works'[i] = DeletedWork
      BY <1>3, <2>2 DEF KindsFit, TypeOK, Erase
    <3> QED
      BY <3>1 DEF KindIs, Exists, DeletedWork, NoWork, Status, None
  <2> QED
    BY <2>1, <2>2
<1>4. ASSUME Creates
      PROVE  \E j \in Works : works[j] = NoWork /\ \E row : works' = [works EXCEPT ![j] = row]
  BY <1>4 DEF Creates, CreateQuiz, CreateAssignment
<1>5. ASSUME NEW w \in Workers, WritesWork(w)
      PROVE  Store(w) \/ Erase(w)
  BY <1>5 DEF WritesWork, StoreQuiz, StoreAssignment, EraseQuiz, EraseAssignment
<1>6. ASSUME Tick \/ \E w \in Workers : TurnsAway(w) \/ WritesRow(w)
      PROVE  works' = works
  BY <1>6 DEF Tick, TurnsAway, NoAttemptFound, WritesRow, CreateQuizSubmission,
     CreateAssignmentSubmission, SaveSubmission, SaveGrade, tables
<1> QED
  BY <1>1, <1>2, <1>3, <1>4, <1>5, <1>6, Groups, OnlyRequest

(* What a request holds goes on fitting, whatever it does next. *)
LEMMA RequestsFit ==
  ASSUME KindsFit, Next, NEW w, NEW r \in Request, HeldFits(r),
         Become(w, r) \/ req' = req
  PROVE  req' \in [Workers -> Request] /\ \A v \in Workers : HeldFits(req[v])'
<1>1. ASSUME NEW q \in Request, HeldFits(q)
      PROVE  HeldFits(q)'
  <2>1. q = Idle \/ (q.id \in Works /\ \A kind : KindIs(q.id, kind) => KindIs(q.id, kind)')
    BY <1>1, KindStays DEF Request, Editing, Sitting
  <2> QED
    BY <1>1, <2>1 DEF HeldFits, Idle
<1>2. req' \in [Workers -> Request] /\ \A v \in Workers : req'[v] \in {req[v], r}
  BY DEF Become, KindsFit, TypeOK
<1>3. ASSUME NEW v \in Workers
      PROVE  HeldFits(req[v])'
  <2>1. PICK q : q = req'[v]
    OBVIOUS
  <2>2. q \in Request /\ HeldFits(q)
    BY <1>2, <2>1 DEF KindsFit, TypeOK
  <2>3. HeldFits(q)'
    BY <1>1, <2>2
  <2> QED
    BY <2>1, <2>3
<1> QED
  BY <1>2, <1>3

LEMMA StartsEditFits ==
  ASSUME KindsFit, NEW w \in Workers, StartsEdit(w)
  PROVE  \E r \in Request : HeldFits(r) /\ Become(w, r)
<1>1. ASSUME NEW i \in Works, NEW row \in Quiz \cup Assignment, row.kind = works[i].kind,
             works[i].status = "DRAFT", Exists(i), NEW pc \in {"update", "publish", "delete"}
      PROVE  LET r == [pc |-> pc, id |-> i, read |-> works[i].status, row |-> row]
             IN  r \in Request /\ HeldFits(r)
  <2>1. works[i] # NoWork
    BY <1>1 DEF Exists, NoWork, Status, None
  <2>2. [pc |-> pc, id |-> i, read |-> "DRAFT", row |-> row] \in Editing
    BY <1>1 DEF Editing, Status
  <2>3. KindIs(i, row.kind)
    BY <1>1, <2>1 DEF KindIs
  <2> QED
    BY <1>1, <2>2, <2>3 DEF HeldFits, Request
<1>2. ASSUME NEW i \in Works, Exists(i)
      PROVE  /\ works[i].kind = "quiz" => works[i] \in Quiz
             /\ works[i].kind = "assignment" => works[i] \in Assignment
  BY <1>2, WorkOfKind DEF KindsFit, Is
<1>3. ASSUME NEW i \in Works, NEW terms \in QuizTerms, UpdateQuiz(w, i, terms)
      PROVE  \E r \in Request : HeldFits(r) /\ Become(w, r)
  <2>1. Exists(i) /\ works[i] \in Quiz /\ works[i].status = "DRAFT"
    BY <1>2, <1>3 DEF UpdateQuiz, IsDraft, Is
  <2>2. papers' \in Papers
    BY <1>3, CourseworkAssumption DEF UpdateQuiz, Update, KindsFit, TypeOK, Papers
  <2>3. PICK p : p = papers'
    OBVIOUS
  <2>4. [works[i] EXCEPT !.paper = p, !.terms = terms] \in Quiz
    <3>1. [works[i] EXCEPT !.paper = p] \in Quiz
      BY <2>1, <2>2, <2>3 DEF Quiz
    <3>2. \A quiz \in Quiz : [quiz EXCEPT !.terms = terms] \in Quiz
      BY DEF Quiz
    <3> QED
      BY <3>1, <3>2
  <2>5. [works[i] EXCEPT !.paper = p, !.terms = terms].kind = works[i].kind
    BY <2>1, <2>4 DEF Quiz
  <2>6. Become(w, [pc |-> "update", id |-> i, read |-> works[i].status,
                   row |-> [works[i] EXCEPT !.paper = p, !.terms = terms]])
    BY <1>3, <2>3 DEF UpdateQuiz, Update, Editor
  <2> QED
    BY <1>1, <2>1, <2>4, <2>5, <2>6
<1>4. ASSUME NEW i \in Works, NEW terms \in AssignmentTerms, UpdateAssignment(w, i, terms)
      PROVE  \E r \in Request : HeldFits(r) /\ Become(w, r)
  <2>1. Exists(i) /\ works[i] \in Assignment /\ works[i].status = "DRAFT"
    BY <1>2, <1>4 DEF UpdateAssignment, IsDraft, Is
  <2>2. papers' \in Papers
    BY <1>4, CourseworkAssumption DEF UpdateAssignment, Update, KindsFit, TypeOK, Papers
  <2>3. PICK p : p = papers'
    OBVIOUS
  <2>4. [works[i] EXCEPT !.paper = p, !.terms = terms] \in Assignment
    <3>1. [works[i] EXCEPT !.paper = p] \in Assignment
      BY <2>1, <2>2, <2>3 DEF Assignment
    <3>2. \A a \in Assignment : [a EXCEPT !.terms = terms] \in Assignment
      BY DEF Assignment
    <3> QED
      BY <3>1, <3>2
  <2>5. [works[i] EXCEPT !.paper = p, !.terms = terms].kind = works[i].kind
    BY <2>1, <2>4 DEF Assignment
  <2>6. Become(w, [pc |-> "update", id |-> i, read |-> works[i].status,
                   row |-> [works[i] EXCEPT !.paper = p, !.terms = terms]])
    BY <1>4, <2>3 DEF UpdateAssignment, Update, Editor
  <2> QED
    BY <1>1, <2>1, <2>4, <2>5, <2>6
<1>5. ASSUME NEW i \in Works, PublishQuiz(w, i) \/ PublishAssignment(w, i)
      PROVE  \E r \in Request : HeldFits(r) /\ Become(w, r)
  <2>1. Exists(i) /\ works[i] \in Quiz \cup Assignment /\ works[i].status = "DRAFT"
    BY <1>2, <1>5 DEF PublishQuiz, PublishAssignment, IsDraft, Is
  <2>2. [works[i] EXCEPT !.status = "PUBLISHED"] \in Quiz \cup Assignment
        /\ [works[i] EXCEPT !.status = "PUBLISHED"].kind = works[i].kind
    BY <2>1 DEF Quiz, Assignment, Status
  <2>3. Become(w, [pc |-> "publish", id |-> i, read |-> works[i].status,
                   row |-> [works[i] EXCEPT !.status = "PUBLISHED"]])
    BY <1>5 DEF PublishQuiz, PublishAssignment, Publish, Editor
  <2> QED
    BY <1>1, <2>1, <2>2, <2>3
<1>6. ASSUME NEW i \in Works, DeleteQuiz(w, i) \/ DeleteAssignment(w, i)
      PROVE  \E r \in Request : HeldFits(r) /\ Become(w, r)
  <2>1. Exists(i) /\ works[i] \in Quiz \cup Assignment /\ works[i].status = "DRAFT"
    BY <1>2, <1>6 DEF DeleteQuiz, DeleteAssignment, IsDraft, Is
  <2>2. Become(w, [pc |-> "delete", id |-> i, read |-> works[i].status, row |-> works[i]])
    BY <1>6 DEF DeleteQuiz, DeleteAssignment, Delete, Editor
  <2> QED
    BY <1>1, <2>1, <2>2
<1> QED
  BY <1>3, <1>4, <1>5, <1>6 DEF StartsEdit

LEMMA StartsWorkFits ==
  ASSUME KindsFit, NEW w \in Workers, StartsWork(w)
  PROVE  \E r \in Request : HeldFits(r) /\ Become(w, r)
<1> PICK i \in Works, s \in Students :
      \/ StartQuiz(w, i, s) \/ SubmitQuiz(w, i, s) \/ SubmitAssignment(w, i, s)
      \/ GradeQuiz(w, i, s) \/ GradeAssignment(w, i, s)
  BY DEF StartsWork
<1>1. now \in Time /\ RowFits(i, work[i][s])
  BY DEF KindsFit, TypeOK
<1>2. \A kind : Is(i, kind) => KindIs(i, kind)
  BY DEF Is, Exists, KindIs, NoWork, Status, None
<1>3. CASE StartQuiz(w, i, s)
  <2> DEFINE r == [pc |-> "insert", id |-> i, student |-> s,
                   row |-> [status |-> "IN_PROGRESS", started |-> now]]
  <2>1. [status |-> "IN_PROGRESS", started |-> now] \in Attempt
    BY <1>1 DEF Attempt
  <2>2. r \in Request
    BY <2>1 DEF Request, Sitting
  <2>3. HeldFits(r)
    BY <1>2, <1>3, <2>1 DEF HeldFits, StartQuiz
  <2> QED
    BY <1>3, <2>2, <2>3 DEF StartQuiz
<1>4. CASE SubmitQuiz(w, i, s)
  <2> DEFINE r == [pc |-> "readAttempt", id |-> i, student |-> s]
  <2>1. r \in Request
    BY DEF Request, Sitting
  <2>2. HeldFits(r)
    BY <1>2, <1>4 DEF HeldFits, SubmitQuiz
  <2> QED
    BY <1>4, <2>1, <2>2 DEF SubmitQuiz
<1>5. CASE SubmitAssignment(w, i, s)
  <2> DEFINE overdue == IsOverdue(works[i].terms)
             row == [status |-> IF overdue THEN "LATE" ELSE "SUBMITTED",
                     at |-> now, late |-> overdue]
             r == [pc |-> "insert", id |-> i, student |-> s, row |-> row]
  <2>1. overdue \in BOOLEAN
    BY DEF IsOverdue
  <2>2. row \in AssignmentSubmission
    BY <1>1, <2>1 DEF AssignmentSubmission
  <2>3. r \in Request
    BY <2>2 DEF Request, Sitting
  <2>4. HeldFits(r)
    BY <1>2, <1>5, <2>2 DEF HeldFits, SubmitAssignment
  <2> QED
    BY <1>5, <2>3, <2>4 DEF SubmitAssignment
<1>6. CASE GradeQuiz(w, i, s)
  <2> DEFINE r == [pc |-> "readTotal", id |-> i, student |-> s, row |-> work[i][s]]
  <2>1. work[i][s] \in QuizSubmission
    BY <1>1, <1>6, RowOfStatus
    DEF GradeQuiz, RowFits, Is, KindsFit, IsSubmitted, Attempt
  <2>2. r \in Request
    BY <2>1 DEF Request, Sitting
  <2>3. HeldFits(r)
    BY <1>2, <1>6 DEF HeldFits, GradeQuiz
  <2> QED
    BY <1>6, <2>2, <2>3 DEF GradeQuiz
<1>7. CASE GradeAssignment(w, i, s)
  <2> DEFINE row == [work[i][s] EXCEPT !.status = "GRADED"]
             r == [pc |-> "grade", id |-> i, student |-> s, row |-> row]
  <2>1. work[i][s] \in AssignmentSubmission
    BY <1>1, <1>7, RowOfStatus DEF GradeAssignment, RowFits, Is, KindsFit
  <2>2. row \in AssignmentSubmission /\ row.status = "GRADED"
    BY <2>1 DEF AssignmentSubmission
  <2>3. r \in Request
    BY <2>2 DEF Request, Sitting
  <2>4. HeldFits(r)
    BY <1>2, <1>7, <2>2 DEF HeldFits, GradeAssignment
  <2> QED
    BY <1>7, <2>3, <2>4 DEF GradeAssignment
<1> QED
  BY <1>3, <1>4, <1>5, <1>6, <1>7

LEMMA GoesOnFits ==
  ASSUME KindsFit, NEW w \in Workers, GoesOn(w)
  PROVE  \E r \in Request : HeldFits(r) /\ Become(w, r)
<1> PICK q : q = req[w]
  OBVIOUS
<1>1. q \in Request /\ HeldFits(q) /\ now \in Time
  BY DEF KindsFit, TypeOK
<1>2. Idle \in Request /\ HeldFits(Idle)
  BY DEF Request, HeldFits, Idle
<1>3. CASE Abort(w)
  BY <1>2, <1>3 DEF Abort, Finish
<1>4. CASE ReadAttempt(w)
  <2> SUFFICES ASSUME ~Finish(w)
               PROVE  \E r \in Request : HeldFits(r) /\ Become(w, r)
    BY <1>2 DEF Finish
  <2> DEFINE row == work[q.id][q.student]
             r == [pc |-> "readQuiz", id |-> q.id, student |-> q.student, row |-> row]
  <2>1. q.pc = "readAttempt" /\ row # Nothing /\ ~IsSubmitted(row) /\ Become(w, r)
    BY <1>4 DEF ReadAttempt
  <2>2. q.id \in Works /\ q.student \in Students
    BY <1>1, <2>1 DEF Request, Editing, Sitting, Idle
  <2>3. row \in Attempt
    BY <2>1, <2>2, RowOfStatus DEF KindsFit
  <2>4. r \in Request
    BY <2>2, <2>3 DEF Request, Sitting
  <2>5. HeldFits(r)
    BY <1>1, <2>1 DEF HeldFits
  <2> QED
    BY <2>1, <2>4, <2>5
<1>5. CASE MarkAnswers(w)
  <2> SUFFICES ASSUME ~Finish(w)
               PROVE  \E r \in Request : HeldFits(r) /\ Become(w, r)
    BY <1>2 DEF Finish
  <2>1. q.pc = "readQuiz" /\ Exists(q.id)
    BY <1>5 DEF MarkAnswers
  <2>2. PICK status \in {"SUBMITTED", "LATE", "GRADED"} :
          Become(w, [pc |-> "submit", id |-> q.id, student |-> q.student,
                     row |-> [status |-> status, started |-> q.row.started, at |-> now,
                              paper |-> works[q.id].paper]])
    <3>1. PICK late, byHand \in BOOLEAN :
            Become(w, [pc |-> "submit", id |-> q.id, student |-> q.student,
                       row |-> [status |-> IF ~byHand THEN "GRADED"
                                           ELSE IF late THEN "LATE" ELSE "SUBMITTED",
                                started |-> q.row.started, at |-> now,
                                paper |-> works[q.id].paper]])
      BY <1>5, <2>1 DEF MarkAnswers
    <3>2. (IF ~byHand THEN "GRADED" ELSE IF late THEN "LATE" ELSE "SUBMITTED")
            \in {"SUBMITTED", "LATE", "GRADED"}
      OBVIOUS
    <3> QED
      BY <3>1, <3>2
  <2> DEFINE row == [status |-> status, started |-> q.row.started, at |-> now,
                     paper |-> works[q.id].paper]
             r == [pc |-> "submit", id |-> q.id, student |-> q.student, row |-> row]
  <2>3. q.id \in Works /\ q.student \in Students /\ q.row \in Attempt
    BY <1>1, <2>1 DEF Request, Editing, Sitting, Idle
  <2>4. works[q.id].paper \in Papers
    BY <2>1, <2>3, WorkOfKind DEF KindsFit, Quiz, Assignment
  <2>5. row \in QuizSubmission
    BY <1>1, <2>3, <2>4 DEF Attempt, QuizSubmission
  <2>6. r \in Request
    BY <2>3, <2>5 DEF Request, Sitting
  <2>7. HeldFits(r)
    BY <1>1, <2>1 DEF HeldFits
  <2> QED
    BY <2>2, <2>6, <2>7
<1>6. CASE GradeAnswers(w)
  <2> SUFFICES ASSUME ~Finish(w)
               PROVE  \E r \in Request : HeldFits(r) /\ Become(w, r)
    BY <1>2 DEF Finish
  <2> PICK p : p = works[q.id].paper
    OBVIOUS
  <2> DEFINE row == [q.row EXCEPT !.status = "GRADED", !.paper = p]
             r == [pc |-> "grade", id |-> q.id, student |-> q.student, row |-> row]
  <2>1. q.pc = "readTotal" /\ Exists(q.id) /\ Become(w, r)
    BY <1>6 DEF GradeAnswers
  <2>2. q.id \in Works /\ q.student \in Students /\ q.row \in QuizSubmission
    BY <1>1, <2>1 DEF Request, Editing, Sitting, Idle
  <2>3. p \in Papers
    BY <2>1, <2>2, WorkOfKind DEF KindsFit, Quiz, Assignment
  <2>4. row \in QuizSubmission /\ row.status = "GRADED"
    <3>1. [q.row EXCEPT !.status = "GRADED"] \in QuizSubmission
          /\ [q.row EXCEPT !.status = "GRADED"].status = "GRADED"
      BY <2>2 DEF QuizSubmission
    <3>2. \A x \in QuizSubmission : [x EXCEPT !.paper = p] \in QuizSubmission
                                    /\ [x EXCEPT !.paper = p].status = x.status
      BY <2>3 DEF QuizSubmission
    <3> QED
      BY <3>1, <3>2
  <2>5. r \in Request
    BY <2>2, <2>4 DEF Request, Sitting
  <2>6. HeldFits(r)
    BY <1>1, <2>1, <2>4 DEF HeldFits
  <2> QED
    BY <2>1, <2>5, <2>6
<1> QED
  BY <1>3, <1>4, <1>5, <1>6 DEF GoesOn

(* A row written where there was none, or over one of the same work.        *)
LEMMA RowsFit ==
  ASSUME KindsFit, Next, NEW i \in Works, NEW s \in Students, NEW row,
         Exists(i), RowFits(i, row), row # Nothing, works' = works,
         work' = [work EXCEPT ![i][s] = row]
  PROVE  /\ work' \in [Works -> [Students -> Attempt \cup QuizSubmission
                                            \cup AssignmentSubmission \cup {Nothing}]]
         /\ \A j \in Works, t \in Students : RowFits(j, work[j][t])'
<1>1. row \in Attempt \cup QuizSubmission \cup AssignmentSubmission \cup {Nothing}
  BY DEF RowFits
<1>2. work' \in [Works -> [Students -> Attempt \cup QuizSubmission
                                      \cup AssignmentSubmission \cup {Nothing}]]
  BY <1>1 DEF KindsFit, TypeOK
<1>3. ASSUME NEW j \in Works, NEW t \in Students
      PROVE  RowFits(j, work[j][t])'
  <2>1. work'[j][t] = IF j = i /\ t = s THEN row ELSE work[j][t]
    BY DEF KindsFit, TypeOK
  <2> QED
    BY <2>1 DEF KindsFit, RowFits, Exists
<1> QED
  BY <1>2, <1>3

LEMMA WritesRowFits ==
  ASSUME KindsFit, Next, NEW w \in Workers, WritesRow(w)
  PROVE  KindsFit'
<1> PICK q : q = req[w]
  OBVIOUS
<1>1. q \in Request /\ HeldFits(q) /\ Idle \in Request /\ HeldFits(Idle)
  BY DEF KindsFit, TypeOK, Request, HeldFits, Idle
<1>2. UNCHANGED <<now, papers, works, overwritten, turnedAway>> /\ Become(w, Idle)
  BY DEF WritesRow, CreateQuizSubmission, CreateAssignmentSubmission, SaveSubmission, SaveGrade, Finish,
     histories
<1>3. q.pc \in {"insert", "submit", "grade"}
  BY DEF WritesRow, CreateQuizSubmission, CreateAssignmentSubmission, SaveSubmission, SaveGrade
<1>4. q.id \in Works /\ q.student \in Students
  BY <1>1, <1>3 DEF Request, Editing, Sitting, Idle
<1>5. \/ work' = work
      \/ /\ Exists(q.id) /\ work' = [work EXCEPT ![q.id][q.student] = q.row]
  <2>1. work[q.id][q.student] # Nothing => Exists(q.id)
    BY <1>4 DEF KindsFit, RowFits
  <2> QED
    BY <2>1 DEF WritesRow, CreateQuizSubmission, CreateAssignmentSubmission, SaveSubmission, SaveGrade,
       Inserted, Kept
<1>6. q.row \in Attempt \cup QuizSubmission \cup AssignmentSubmission
  BY <1>1, <1>3 DEF Request, Editing, Sitting, Idle
<1>7. q.row # Nothing
  BY <1>6 DEF Attempt, QuizSubmission, AssignmentSubmission, Nothing, None
<1>8. Exists(q.id) => RowFits(q.id, q.row)
  BY <1>1, <1>3, <1>4, <1>6 DEF HeldFits, KindIs, RowFits, Request, Sitting, Editing, Idle
<1>9. /\ work' \in [Works -> [Students -> Attempt \cup QuizSubmission
                                         \cup AssignmentSubmission \cup {Nothing}]]
      /\ \A j \in Works, t \in Students : RowFits(j, work[j][t])'
  <2>1. CASE work' = work
    BY <1>2, <2>1 DEF KindsFit, TypeOK, RowFits, Exists
  <2>2. CASE Exists(q.id) /\ work' = [work EXCEPT ![q.id][q.student] = q.row]
    BY <1>2, <1>4, <1>7, <1>8, <2>2, RowsFit
  <2> QED
    BY <1>5, <2>1, <2>2
<1>10. req' \in [Workers -> Request] /\ \A v \in Workers : HeldFits(req[v])'
  BY <1>1, <1>2, RequestsFit
<1>11. /\ accepted' \in [Works -> [Students -> 0..2]]
       /\ crossed' \cup marked' \subseteq Works \X Students
  <2>1. PICK n : n = IF accepted[q.id][q.student] < 2 THEN accepted[q.id][q.student] + 1 ELSE 2
    OBVIOUS
  <2>2. n \in 0..2
    <3>1. accepted[q.id][q.student] \in 0..2
      BY <1>4 DEF KindsFit, TypeOK
    <3> QED
      BY <2>1, <3>1
  <2>3. accepted' = accepted \/ accepted' = [accepted EXCEPT ![q.id][q.student] = n]
    BY <2>1 DEF WritesRow, CreateQuizSubmission, CreateAssignmentSubmission, SaveSubmission, SaveGrade,
       histories
  <2>4. accepted' \in [Works -> [Students -> 0..2]]
    <3>1. \A D : \A d \in D, f \in [Works -> [Students -> D]] :
            [f EXCEPT ![q.id][q.student] = d] \in [Works -> [Students -> D]]
      BY <1>4
    <3>2. accepted \in [Works -> [Students -> 0..2]]
      BY DEF KindsFit, TypeOK
    <3>3. [accepted EXCEPT ![q.id][q.student] = n] \in [Works -> [Students -> 0..2]]
      BY <2>2, <3>1, <3>2
    <3> QED
      BY <2>3, <3>2, <3>3
  <2>5. /\ crossed' \in {crossed, crossed \cup {<<q.id, q.student>>}}
        /\ marked' \in {marked, marked \cup {<<q.id, q.student>>}}
    <3>1. CASE CreateQuizSubmission(w) \/ CreateAssignmentSubmission(w)
      BY <3>1 DEF CreateQuizSubmission, CreateAssignmentSubmission, histories
    <3>2. CASE SaveSubmission(w)
      <4>1. crossed' = crossed \/ crossed' = crossed \cup {<<q.id, q.student>>}
        BY <3>2 DEF SaveSubmission
      <4> QED
        BY <3>2, <4>1 DEF SaveSubmission
    <3>3. CASE SaveGrade(w)
      BY <3>3 DEF SaveGrade
    <3> QED
      BY <3>1, <3>2, <3>3 DEF WritesRow
  <2> QED
    BY <1>4, <2>4, <2>5 DEF KindsFit, TypeOK
<1> QED
  BY <1>2, <1>9, <1>10, <1>11 DEF KindsFit, TypeOK

LEMMA WritesWorkFits ==
  ASSUME KindsFit, Next, NEW w \in Workers, WritesWork(w)
  PROVE  KindsFit'
<1> PICK q : q = req[w]
  OBVIOUS
<1>1. Store(w) \/ Erase(w)
  BY DEF WritesWork, StoreQuiz, StoreAssignment, EraseQuiz, EraseAssignment
<1>2. /\ UNCHANGED <<now, papers, accepted, crossed, marked, turnedAway>> /\ Become(w, Idle)
      /\ q.pc \in {"update", "publish", "delete"}
      /\ overwritten' \in {overwritten, overwritten \cup {q.id}}
  BY <1>1 DEF Store, Erase, Finish
<1>3. q \in Request /\ HeldFits(q) /\ Idle \in Request /\ HeldFits(Idle)
  BY DEF KindsFit, TypeOK, Request, HeldFits, Idle
<1>4. q.id \in Works /\ q.row \in Quiz \cup Assignment
  BY <1>2, <1>3 DEF Request, Editing, Sitting, Idle
<1>5. req' \in [Workers -> Request] /\ \A v \in Workers : HeldFits(req[v])'
  BY <1>2, <1>3, RequestsFit
<1>6. works' \in [Works -> Quiz \cup Assignment \cup {NoWork, DeletedWork}]
  BY <1>1, <1>4 DEF Store, Erase, KindsFit, TypeOK
<1>7. /\ work' \in [Works -> [Students -> Attempt \cup QuizSubmission
                                         \cup AssignmentSubmission \cup {Nothing}]]
      /\ \A j \in Works, t \in Students : RowFits(j, work[j][t])'
  <2>1. CASE Store(w)
    <3>1. work' = work
      BY <2>1 DEF Store
    <3>2. ASSUME NEW j \in Works, NEW t \in Students, work[j][t] # Nothing
          PROVE  RowFits(j, work[j][t])'
      <4>1. Exists(j) /\ RowFits(j, work[j][t])
        BY <3>2 DEF KindsFit, RowFits
      <4>2. Exists(j)' /\ works'[j].kind = works[j].kind
        <5>1. CASE j # q.id
          BY <2>1, <4>1, <5>1 DEF Store, Exists, KindsFit, TypeOK
        <5>2. CASE j = q.id
          <6>1. works'[j] = q.row
            BY <2>1, <4>1, <5>2 DEF Store, KindsFit, TypeOK
          <6>2. q.row.kind = works[j].kind
            BY <1>2, <1>3, <4>1, <5>2 DEF HeldFits, KindIs
          <6> QED
            BY <1>4, <6>1, <6>2 DEF Exists, Quiz, Assignment
        <5> QED
          BY <5>1, <5>2
      <4> QED
        BY <3>1, <4>1, <4>2 DEF RowFits
    <3> QED
      BY <3>1, <3>2 DEF KindsFit, TypeOK, RowFits
  <2>2. CASE Erase(w)
    <3>1. work' = [work EXCEPT ![q.id] = [s \in Students |-> Nothing]]
          /\ works' = [works EXCEPT ![q.id] = DeletedWork]
      BY <2>2 DEF Erase
    <3>2. ASSUME NEW j \in Works, NEW t \in Students
          PROVE  RowFits(j, work[j][t])'
      <4>1. CASE j # q.id
        <5>1. work'[j] = work[j] /\ works'[j] = works[j]
          BY <3>1, <4>1 DEF KindsFit, TypeOK
        <5> QED
          BY <5>1 DEF KindsFit, RowFits, Exists
      <4>2. CASE j = q.id
        BY <1>4, <3>1, <4>2 DEF KindsFit, TypeOK, RowFits
      <4> QED
        BY <4>1, <4>2
    <3>3. [s \in Students |-> Nothing]
            \in [Students -> Attempt \cup QuizSubmission \cup AssignmentSubmission \cup {Nothing}]
      OBVIOUS
    <3> QED
      BY <1>4, <3>1, <3>2, <3>3 DEF KindsFit, TypeOK
  <2> QED
    BY <1>1, <2>1, <2>2
<1> QED
  BY <1>2, <1>4, <1>5, <1>6, <1>7 DEF KindsFit, TypeOK

LEMMA CreatesFits ==
  ASSUME KindsFit, Next, Creates
  PROVE  KindsFit'
<1>1. PICK i \in Works, row \in Quiz \cup Assignment :
        /\ works[i] = NoWork /\ works' = [works EXCEPT ![i] = row]
        /\ UNCHANGED <<now, papers, work, req, histories>>
  <2>1. ASSUME NEW terms \in QuizTerms
        PROVE  [kind |-> "quiz", status |-> "DRAFT", paper |-> papers, terms |-> terms] \in Quiz
    BY DEF Quiz, Status, KindsFit, TypeOK
  <2>2. ASSUME NEW terms \in AssignmentTerms
        PROVE  [kind |-> "assignment", status |-> "DRAFT", paper |-> papers, terms |-> terms] \in Assignment
    BY DEF Assignment, Status, KindsFit, TypeOK
  <2> QED
    BY <2>1, <2>2 DEF Creates, CreateQuiz, CreateAssignment
<1>2. \A v \in Workers : HeldFits(req[v])'
  <2>1. Idle \in Request /\ HeldFits(Idle)
    BY DEF Request, HeldFits, Idle
  <2> QED
    BY <1>1, <2>1, RequestsFit
<1>3. ASSUME NEW j \in Works, NEW t \in Students
      PROVE  RowFits(j, work[j][t])'
  <2>1. j = i => work[j][t] = Nothing
    BY <1>1 DEF KindsFit, RowFits, Exists, NoWork, Status, None
  <2>2. j # i => works'[j] = works[j]
    BY <1>1 DEF KindsFit, TypeOK
  <2> QED
    BY <1>1, <2>1, <2>2 DEF KindsFit, RowFits, Exists
<1> QED
  BY <1>1, <1>2, <1>3 DEF KindsFit, TypeOK, histories

LEMMA KindsFitStep ==
  ASSUME KindsFit, [Next]_vars
  PROVE  KindsFit'
<1>1. CASE UNCHANGED vars
  BY <1>1 DEF vars, tables, histories, KindsFit, TypeOK, RowFits, HeldFits, KindIs, Exists
<1> SUFFICES ASSUME Next
             PROVE  KindsFit'
  BY <1>1
<1>2. ASSUME UNCHANGED <<works, work, overwritten, accepted, crossed, marked>>,
             now' \in Time, papers' \in Papers, turnedAway' \subseteq Works \X Students,
             NEW w, NEW r \in Request, HeldFits(r), Become(w, r) \/ req' = req
      PROVE  KindsFit'
  <2>1. req' \in [Workers -> Request] /\ \A v \in Workers : HeldFits(req[v])'
    BY <1>2, RequestsFit
  <2> QED
    BY <1>2, <2>1 DEF KindsFit, TypeOK, RowFits, Exists
<1>3. Idle \in Request /\ HeldFits(Idle)
  BY DEF Request, HeldFits, Idle
<1>4. CASE Tick
  <2>1. now' \in Time
    BY <1>4, CourseworkAssumption DEF Tick, KindsFit, TypeOK, Time
  <2>2. UNCHANGED <<papers, works, work, req, overwritten, accepted, crossed, marked, turnedAway>>
    BY <1>4 DEF Tick, tables, histories
  <2> QED
    BY <1>2, <1>3, <2>1, <2>2 DEF KindsFit, TypeOK
<1>5. ASSUME NEW w \in Workers, StartsEdit(w) \/ StartsWork(w) \/ GoesOn(w)
      PROVE  KindsFit'
  <2>1. PICK r \in Request : HeldFits(r) /\ Become(w, r)
    BY <1>5, StartsEditFits, StartsWorkFits, GoesOnFits
  <2>2. papers' \in Papers
    <3>1. papers' = papers \/ (papers < MaxPaper /\ papers' = papers + 1)
      BY <1>5, OnlyRequest
    <3> QED
      BY <3>1, CourseworkAssumption DEF KindsFit, TypeOK, Papers
  <2> QED
    BY <1>2, <1>5, <2>1, <2>2, OnlyRequest DEF KindsFit, TypeOK
<1>6. ASSUME NEW w \in Workers, TurnsAway(w)
      PROVE  KindsFit'
  <2>1. UNCHANGED <<now, papers, works, work, req, overwritten, accepted, crossed, marked>>
        /\ turnedAway' \subseteq Works \X Students
    BY <1>6 DEF TurnsAway, NoAttemptFound, tables, KindsFit, TypeOK
  <2> QED
    BY <1>2, <1>3, <2>1 DEF KindsFit, TypeOK
<1> QED
  BY <1>4, <1>5, <1>6, CreatesFits, WritesWorkFits, WritesRowFits, Groups

LEMMA KindsFitInit ==
  ASSUME Init
  PROVE  KindsFit
<1>1. TypeOK
  BY CourseworkAssumption DEF Init, TypeOK, Time, Papers, Request
<1>2. \A i \in Works, s \in Students : RowFits(i, work[i][s])
  BY DEF Init, RowFits
<1>3. \A w \in Workers : HeldFits(req[w])
  BY DEF Init, HeldFits, Idle
<1> QED
  BY <1>1, <1>2, <1>3 DEF KindsFit

LEMMA KindsAlwaysFit == Spec => []KindsFit
<1>1. Init => KindsFit
  BY KindsFitInit
<1>2. KindsFit /\ [Next]_vars => KindsFit'
  BY KindsFitStep
<1> QED
  BY <1>1, <1>2, PTL DEF Spec

(***************************************************************************)
(* Coursework: what was handed in.  Where no edit overtook a publication,   *)
(* a published work does not change any more; so what was checked against   *)
(* it, in the tables or in a request's hands, goes on being true of it.     *)
(***************************************************************************)
Stands(i, row) ==
    /\ works[i].status = "PUBLISHED"
    /\ works[i].kind = "quiz" => SatUnder(works[i], row) /\ row.started \in 0..now
    /\ works[i].kind = "assignment" => HandedInUnder(works[i], row)

Sits(r) == r.pc \in {"insert", "readAttempt", "readQuiz", "readTotal", "submit", "grade"}

(* A grade is of a submission, which stays one; a submission of an attempt  *)
(* finds it in progress, unless another has crossed it.                     *)
HeldStands(r) ==
    Sits(r) /\ r.id \notin overwritten =>
      /\ works[r.id].status = "PUBLISHED"
      /\ r.pc # "readAttempt" => Stands(r.id, r.row)
      /\ r.pc \in {"readTotal", "grade"} => IsSubmitted(work[r.id][r.student])
      /\ r.pc \in {"readQuiz", "submit"} /\ <<r.id, r.student>> \notin crossed =>
           ~IsSubmitted(work[r.id][r.student])

AttemptStands(i, s) ==
    /\ work[i][s] # Nothing => Stands(i, work[i][s])
    /\ accepted[i][s] > 0 \/ <<i, s>> \in marked => IsSubmitted(work[i][s])
    /\ <<i, s>> \notin crossed =>
         /\ accepted[i][s] <= 1
         /\ <<i, s>> \in marked => work[i][s].status = "GRADED"

AllStands ==
    /\ \A i \in Works \ overwritten, s \in Students : AttemptStands(i, s)
    /\ \A w \in Workers : HeldStands(req[w])

LEMMA PublishedStays ==
  ASSUME KindsFit, [Next]_vars
  PROVE  /\ overwritten \subseteq overwritten'
         /\ now \in Nat /\ now' \in Nat /\ now <= now'
         /\ \A i \in Works \ overwritten' :
              works[i].status = "PUBLISHED" => works'[i] = works[i]
<1>1. now \in Nat /\ now' \in Nat /\ now' \in {now, now + 1}
  <2>1. now' \in {now, now + 1}
    BY Groups, OnlyRequest DEF Tick, Creates, CreateQuiz, CreateAssignment, TurnsAway, NoAttemptFound,
       WritesWork, StoreQuiz, StoreAssignment, EraseQuiz, EraseAssignment, Store, Erase,
       WritesRow, CreateQuizSubmission, CreateAssignmentSubmission, SaveSubmission, SaveGrade, vars
  <2> QED
    BY <2>1 DEF KindsFit, TypeOK, Time
<1>2. ASSUME NEW w \in Workers, WritesWork(w)
      PROVE  /\ overwritten \subseteq overwritten'
             /\ \A i \in Works \ overwritten' :
                  works[i].status = "PUBLISHED" => works'[i] = works[i]
  <2> PICK q : q = req[w]
    OBVIOUS
  <2>1. Store(w) \/ Erase(w)
    BY <1>2 DEF WritesWork, StoreQuiz, StoreAssignment, EraseQuiz, EraseAssignment
  <2>2. q.pc \in {"update", "publish", "delete"} /\ q.read = "DRAFT" /\ q.id \in Works
    BY <2>1 DEF Store, Erase, KindsFit, TypeOK, HeldFits, Request, Editing, Sitting, Idle
  <2>3. overwritten' = IF works[q.id].status = "PUBLISHED" THEN overwritten \cup {q.id} ELSE overwritten
    BY <2>1, <2>2 DEF Store, Erase, Overwrites
  <2>4. \A i \in Works : i # q.id => works'[i] = works[i]
    BY <2>1 DEF Store, Erase, KindsFit, TypeOK
  <2> QED
    BY <2>3, <2>4
<1>3. ASSUME Creates
      PROVE  /\ overwritten \subseteq overwritten'
             /\ \A i \in Works \ overwritten' :
                  works[i].status = "PUBLISHED" => works'[i] = works[i]
  <2>1. PICK i \in Works : /\ works[i] = NoWork /\ \E row : works' = [works EXCEPT ![i] = row]
                           /\ overwritten' = overwritten
    BY <1>3 DEF Creates, CreateQuiz, CreateAssignment, histories
  <2>2. works[i].status # "PUBLISHED"
    BY <2>1 DEF NoWork, None
  <2> QED
    BY <2>1, <2>2 DEF KindsFit, TypeOK
<1>4. Tick \/ (\E w \in Workers : TurnsAway(w) \/ WritesRow(w)) \/ UNCHANGED vars
      => UNCHANGED <<works, overwritten>>
  BY DEF Tick, TurnsAway, NoAttemptFound, WritesRow, CreateQuizSubmission,
     CreateAssignmentSubmission, SaveSubmission, SaveGrade, tables, histories, vars
<1> QED
  BY <1>1, <1>2, <1>3, <1>4, Groups, OnlyRequest

LEMMA StandsStays ==
  ASSUME KindsFit, [Next]_vars, NEW i \in Works \ overwritten'
  PROVE  \A row : Stands(i, row) => Stands(i, row)'
<1> SUFFICES ASSUME NEW row, Stands(i, row)
             PROVE  Stands(i, row)'
  OBVIOUS
<1>1. works'[i] = works[i]
  BY PublishedStays DEF Stands
<1>2. row.started \in 0..now => row.started \in 0..now'
  BY PublishedStays
<1>3. works[i].kind = "quiz" => row.started \in 0..now
  BY DEF Stands
<1>4. SatUnder(works[i], row) => SatUnder(works[i], row)'
  BY <1>1 DEF SatUnder, IsSubmitted
<1>5. HandedInUnder(works[i], row) => HandedInUnder(works[i], row)'
  BY <1>1 DEF HandedInUnder
<1> QED
  BY <1>1, <1>2, <1>3, <1>4, <1>5 DEF Stands

(* A step that leaves alone what students handed in. *)
LEMMA NothingHandedIn ==
  ASSUME KindsFit, AllStands, [Next]_vars, marked' = marked, crossed' = crossed,
         \A i \in Works \ overwritten', s \in Students :
           work'[i][s] = work[i][s] /\ accepted'[i][s] = accepted[i][s],
         \A w \in Workers : req'[w] = req[w] \/ HeldStands(req[w])'
  PROVE  AllStands'
<1>1. overwritten \subseteq overwritten'
  BY PublishedStays
<1>2. ASSUME NEW i \in Works \ overwritten', NEW s \in Students
      PROVE  AttemptStands(i, s)'
  <2>1. AttemptStands(i, s) /\ work'[i][s] = work[i][s] /\ accepted'[i][s] = accepted[i][s]
    BY <1>1, <1>2 DEF AllStands
  <2>2. \A row : Stands(i, row) => Stands(i, row)'
    BY <1>2, StandsStays
  <2>3. work[i][s] # Nothing => Stands(i, work[i][s])'
    <3> PICK row : row = work[i][s]
      OBVIOUS
    <3>1. row # Nothing => Stands(i, row)'
      BY <2>1, <2>2 DEF AttemptStands
    <3>2. row = work'[i][s]
      BY <2>1
    <3> QED
      BY <3>1, <3>2
  <2>4. accepted'[i][s] > 0 \/ <<i, s>> \in marked' => IsSubmitted(work[i][s])'
    BY <2>1 DEF AttemptStands, IsSubmitted
  <2>5. <<i, s>> \notin crossed' =>
          /\ accepted'[i][s] <= 1
          /\ <<i, s>> \in marked' => work'[i][s].status = "GRADED"
    BY <2>1 DEF AttemptStands
  <2> QED
    BY <2>1, <2>3, <2>4, <2>5 DEF AttemptStands, Stands, IsSubmitted
<1>3. ASSUME NEW w \in Workers, req'[w] = req[w]
      PROVE  HeldStands(req[w])'
  <2> PICK r : r = req[w] /\ r = req'[w]
    BY <1>3
  <2> SUFFICES ASSUME Sits(r), r.id \notin overwritten'
               PROVE  HeldStands(r)'
    BY DEF HeldStands, Sits
  <2>1. r.id \in Works \ overwritten' /\ r.student \in Students
    <3>1. r \in Request
      BY DEF KindsFit, TypeOK
    <3> QED
      BY <3>1 DEF Request, Editing, Sitting, Idle, Sits
  <2>2. HeldStands(r) /\ r.id \notin overwritten
    BY <1>1 DEF AllStands
  <2>3. works'[r.id] = works[r.id] /\ work'[r.id][r.student] = work[r.id][r.student]
    BY <2>1, <2>2, PublishedStays DEF HeldStands
  <2>4. r.pc # "readAttempt" => Stands(r.id, r.row)'
    BY <2>1, <2>2, StandsStays DEF HeldStands
  <2> QED
    BY <2>2, <2>3, <2>4 DEF HeldStands, Sits, IsSubmitted
<1> QED
  BY <1>2, <1>3 DEF AllStands

LEMMA StartsWorkStands ==
  ASSUME KindsFit, AllStands, NEW w \in Workers, StartsWork(w)
  PROVE  \E r : HeldStands(r) /\ Become(w, r)
<1> PICK i \in Works, s \in Students :
      \/ StartQuiz(w, i, s) \/ SubmitQuiz(w, i, s) \/ SubmitAssignment(w, i, s)
      \/ GradeQuiz(w, i, s) \/ GradeAssignment(w, i, s)
  BY DEF StartsWork
<1>1. /\ now \in 0..now
      /\ i \notin overwritten => AttemptStands(i, s)
      /\ IsSubmitted(work[i][s]) => work[i][s] # Nothing
  BY RowOfStatus DEF KindsFit, TypeOK, Time, AllStands
<1>2. CASE StartQuiz(w, i, s)
  <2> DEFINE row == [status |-> "IN_PROGRESS", started |-> now]
             r == [pc |-> "insert", id |-> i, student |-> s, row |-> row]
  <2>1. works[i].kind = "quiz" /\ works[i].status = "PUBLISHED"
        /\ works[i].terms.open < now /\ now < works[i].terms.close
    BY <1>2 DEF StartQuiz, Is, IsAvailable
  <2>2. SatUnder(works[i], row)
    BY <2>1 DEF SatUnder, IsSubmitted
  <2>3. HeldStands(r)
    BY <1>1, <2>1, <2>2 DEF HeldStands, Stands
  <2> QED
    BY <1>2, <2>3 DEF StartQuiz
<1>3. CASE SubmitQuiz(w, i, s)
  <2> DEFINE r == [pc |-> "readAttempt", id |-> i, student |-> s]
  <2>1. work[i][s] # Nothing
    BY <1>3 DEF SubmitQuiz, Listed, Attempts
  <2>2. HeldStands(r)
    BY <1>1, <2>1 DEF HeldStands, AttemptStands, Stands
  <2> QED
    BY <1>3, <2>2 DEF SubmitQuiz
<1>4. CASE SubmitAssignment(w, i, s)
  <2> PICK terms : terms = works[i].terms
    OBVIOUS
  <2>1. IsOverdue(terms) \in BOOLEAN
    BY DEF IsOverdue
  <2>2. PICK late \in BOOLEAN : late = IsOverdue(terms)
    BY <2>1
  <2> DEFINE row == [status |-> IF late THEN "LATE" ELSE "SUBMITTED", at |-> now, late |-> late]
             r == [pc |-> "insert", id |-> i, student |-> s, row |-> row]
  <2>3. works[i].kind = "assignment" /\ works[i].status = "PUBLISHED" /\ CanSubmit(terms)
        /\ works[i] \in Assignment
    BY <1>4, WorkOfKind DEF SubmitAssignment, Is, KindsFit
  <2>4. terms.deadline \in Nat /\ now \in Nat
    BY <2>3, CourseworkAssumption DEF Assignment, Time, KindsFit, TypeOK
  <2>5. late <=> now > terms.deadline
    BY <2>4, <2>2 DEF IsOverdue
  <2>6. row.at = now /\ row.late = late /\ (row.status = "LATE" <=> late)
    <3>1. row.at = now /\ row.late = late
      OBVIOUS
    <3>2. late => row.status = "LATE"
      OBVIOUS
    <3>3. ~late => row.status = "SUBMITTED"
      OBVIOUS
    <3> QED
      BY <3>1, <3>2, <3>3
  <2> HIDE DEF row
  <2>7. HandedInUnder(works[i], row)
    <3>1. row.late <=> row.at > works[i].terms.deadline
      BY <2>5, <2>6
    <3>2. row.late => works[i].terms.late
      BY <2>3, <2>4, <2>5, <2>6 DEF CanSubmit
    <3>3. \A cutoff \in works[i].terms.cutoff : row.at <= cutoff
      BY <2>3, <2>6 DEF CanSubmit
    <3>4. row.status = "LATE" <=> row.late
      BY <2>6
    <3> QED
      BY <3>1, <3>2, <3>3, <3>4 DEF HandedInUnder
  <2>8. HeldStands(r)
    BY <2>3, <2>7 DEF HeldStands, Stands
  <2> QED
    BY <1>4, <2>2, <2>8 DEF SubmitAssignment, row
<1>5. CASE GradeQuiz(w, i, s)
  <2> DEFINE r == [pc |-> "readTotal", id |-> i, student |-> s, row |-> work[i][s]]
  <2>1. IsSubmitted(work[i][s])
    BY <1>5 DEF GradeQuiz
  <2>2. HeldStands(r)
    BY <1>1, <2>1 DEF HeldStands, AttemptStands, Stands
  <2> QED
    BY <1>5, <2>2 DEF GradeQuiz
<1>6. CASE GradeAssignment(w, i, s)
  <2> PICK row : row = [work[i][s] EXCEPT !.status = "GRADED"]
    OBVIOUS
  <2> DEFINE r == [pc |-> "grade", id |-> i, student |-> s, row |-> row]
  <2>1. IsSubmitted(work[i][s]) /\ works[i].kind = "assignment" /\ Exists(i)
    BY <1>6 DEF GradeAssignment, Is
  <2>2. work[i][s] \in AssignmentSubmission
    BY <1>1, <2>1 DEF KindsFit, RowFits
  <2>3. row.status = "GRADED" /\ row.late = work[i][s].late /\ row.at = work[i][s].at
    BY <2>2 DEF AssignmentSubmission
  <2>4. HandedInUnder(works[i], work[i][s]) => HandedInUnder(works[i], row)
    BY <2>3 DEF HandedInUnder
  <2>5. HeldStands(r)
    BY <1>1, <2>1, <2>4 DEF HeldStands, AttemptStands, Stands
  <2> QED
    BY <1>6, <2>5 DEF GradeAssignment
<1> QED
  BY <1>2, <1>3, <1>4, <1>5, <1>6

LEMMA GoesOnStands ==
  ASSUME KindsFit, AllStands, NEW w \in Workers, GoesOn(w)
  PROVE  \E r : HeldStands(r) /\ Become(w, r)
<1> PICK q : q = req[w]
  OBVIOUS
<1>1. q \in Request /\ HeldFits(q) /\ HeldStands(q) /\ now \in Nat
  BY DEF KindsFit, TypeOK, AllStands, Time
<1>2. HeldStands(Idle)
  BY DEF HeldStands, Sits, Idle
<1>3. CASE Abort(w)
  BY <1>2, <1>3 DEF Abort, Finish
<1> SUFFICES ASSUME ~Finish(w)
             PROVE  \E r : HeldStands(r) /\ Become(w, r)
  BY <1>2 DEF Finish
<1>4. CASE ReadAttempt(w)
  <2> DEFINE row == work[q.id][q.student]
             r == [pc |-> "readQuiz", id |-> q.id, student |-> q.student, row |-> row]
  <2>1. q.pc = "readAttempt" /\ row # Nothing /\ ~IsSubmitted(row) /\ Become(w, r)
    BY <1>4 DEF ReadAttempt
  <2>2. q.id \in Works /\ q.student \in Students
    BY <1>1, <2>1 DEF Request, Editing, Sitting, Idle
  <2>3. q.id \notin overwritten => Stands(q.id, row)
    BY <2>1, <2>2 DEF AllStands, AttemptStands
  <2>4. HeldStands(r)
    BY <2>1, <2>3 DEF HeldStands, Stands
  <2> QED
    BY <2>1, <2>4
<1>5. CASE MarkAnswers(w)
  <2>1. q.pc = "readQuiz" /\ Exists(q.id)
    BY <1>5 DEF MarkAnswers
  <2>2. PICK late, byHand \in BOOLEAN :
          /\ late <=> now > works[q.id].terms.close
          /\ Become(w, [pc |-> "submit", id |-> q.id, student |-> q.student,
                        row |-> [status |-> IF ~byHand THEN "GRADED"
                                            ELSE IF late THEN "LATE" ELSE "SUBMITTED",
                                 started |-> q.row.started, at |-> now,
                                 paper |-> works[q.id].paper]])
    BY <1>5, <2>1 DEF MarkAnswers
  <2> DEFINE row == [status |-> IF ~byHand THEN "GRADED" ELSE IF late THEN "LATE" ELSE "SUBMITTED",
                     started |-> q.row.started, at |-> now, paper |-> works[q.id].paper]
             r == [pc |-> "submit", id |-> q.id, student |-> q.student, row |-> row]
  <2>3. q.id \in Works /\ works[q.id].kind = "quiz" /\ works[q.id] \in Quiz
    BY <1>1, <2>1, WorkOfKind DEF Request, Editing, Sitting, Idle, HeldFits, KindIs, Is, KindsFit
  <2>4. works[q.id].terms.close \in Nat
    BY <2>3, CourseworkAssumption DEF Quiz, Time
  <2>5. Stands(q.id, q.row) => Stands(q.id, row)
    <3> SUFFICES ASSUME Stands(q.id, q.row)
                 PROVE  Stands(q.id, row)
      OBVIOUS
    <3>1. SatUnder(works[q.id], q.row) /\ q.row.started \in 0..now
      BY <2>3 DEF Stands
    <3>2. row.started = q.row.started /\ row.at = now /\ row.paper = works[q.id].paper
      OBVIOUS
    <3>3. row.status = "SUBMITTED" => now <= works[q.id].terms.close
      BY <1>1, <2>2, <2>4
    <3>4. row.status = "LATE" => now > works[q.id].terms.close
      BY <2>2
    <3> HIDE DEF row
    <3>5. SatUnder(works[q.id], row)
      BY <1>1, <3>1, <3>2, <3>3, <3>4 DEF SatUnder
    <3> QED
      BY <2>3, <3>1, <3>2, <3>5 DEF Stands
  <2>6. HeldStands(r)
    BY <1>1, <2>1, <2>5 DEF HeldStands, Sits
  <2> QED
    BY <2>2, <2>6
<1>6. CASE GradeAnswers(w)
  <2> PICK p : p = works[q.id].paper
    OBVIOUS
  <2> PICK row : row = [q.row EXCEPT !.status = "GRADED", !.paper = p]
    OBVIOUS
  <2> DEFINE r == [pc |-> "grade", id |-> q.id, student |-> q.student, row |-> row]
  <2>1. q.pc = "readTotal" /\ Exists(q.id) /\ Become(w, r)
    BY <1>6 DEF GradeAnswers
  <2>2. q.row \in QuizSubmission /\ q.id \in Works
    BY <1>1, <2>1 DEF Request, Editing, Sitting, Idle
  <2>3. works[q.id].kind = "quiz"
    BY <1>1, <2>1 DEF HeldFits, KindIs
  <2>4. row.status = "GRADED" /\ row.started = q.row.started /\ row.at = q.row.at /\ row.paper = p
    BY <2>2 DEF QuizSubmission
  <2>5. Stands(q.id, q.row) => Stands(q.id, row)
    BY <2>2, <2>3, <2>4 DEF Stands, SatUnder, IsSubmitted, QuizSubmission
  <2>6. HeldStands(r)
    BY <1>1, <2>1, <2>5 DEF HeldStands, Sits
  <2> QED
    BY <2>1, <2>6
<1> QED
  BY <1>3, <1>4, <1>5, <1>6 DEF GoesOn

(* A row is written: what is left to look at is the row itself, and the     *)
(* requests that are about it as well.                                      *)
LEMMA RowWritten ==
  ASSUME KindsFit, AllStands, [Next]_vars, NEW w \in Workers, NEW i \in Works, NEW s \in Students,
         Become(w, Idle), UNCHANGED <<now, works, overwritten>>,
         \A j \in Works, t \in Students : <<j, t>> # <<i, s>> => work'[j][t] = work[j][t],
         \A j \in Works, t \in Students : <<j, t>> # <<i, s>> => accepted'[j][t] = accepted[j][t],
         crossed \subseteq crossed',
         \A a : a # <<i, s>> /\ a \in marked' => a \in marked,
         \A a : a # <<i, s>> /\ a \in crossed' => a \in crossed,
         i \notin overwritten => AttemptStands(i, s)',
         i \notin overwritten => (IsSubmitted(work[i][s]) => IsSubmitted(work'[i][s])),
         i \notin overwritten /\ <<i, s>> \notin crossed' =>
           (IsSubmitted(work'[i][s]) => IsSubmitted(work[i][s]) \/ ~InFlight(w, i, s))
  PROVE  AllStands'
<1>1. ASSUME NEW j \in Works \ overwritten', NEW t \in Students
      PROVE  AttemptStands(j, t)'
  <2>1. CASE <<j, t>> = <<i, s>>
    BY <1>1, <2>1
  <2>2. CASE <<j, t>> # <<i, s>>
    <3>1. AttemptStands(j, t)
      BY <1>1 DEF AllStands
    <3>2. work[j][t] # Nothing => Stands(j, work[j][t])'
      <4> PICK row : row = work[j][t]
        OBVIOUS
      <4>1. row # Nothing => Stands(j, row)'
        BY <1>1, <3>1, StandsStays DEF AttemptStands
      <4>2. row = work'[j][t]
        BY <1>1, <2>2
      <4> QED
        BY <4>1, <4>2
    <3>3. work'[j][t] = work[j][t] /\ accepted'[j][t] = accepted[j][t]
          /\ (<<j, t>> \in marked' => <<j, t>> \in marked)
          /\ (<<j, t>> \notin crossed' => <<j, t>> \notin crossed)
      BY <1>1, <2>2
    <3>4. accepted'[j][t] > 0 \/ <<j, t>> \in marked' => IsSubmitted(work[j][t])'
      BY <3>1, <3>3 DEF AttemptStands, IsSubmitted
    <3>5. <<j, t>> \notin crossed' =>
            /\ accepted'[j][t] <= 1
            /\ <<j, t>> \in marked' => work'[j][t].status = "GRADED"
      BY <3>1, <3>3 DEF AttemptStands
    <3> QED
      BY <3>2, <3>3, <3>4, <3>5 DEF AttemptStands, Stands, IsSubmitted
  <2> QED
    BY <2>1, <2>2
<1>2. ASSUME NEW v \in Workers
      PROVE  HeldStands(req[v])'
  <2> PICK r : r = req'[v]
    OBVIOUS
  <2> SUFFICES ASSUME Sits(r), r.id \notin overwritten
               PROVE  HeldStands(r)'
    BY DEF HeldStands, Sits
  <2>1. v # w /\ r = req[v] /\ r \in Request
    BY DEF Become, KindsFit, TypeOK, Sits, Idle
  <2>2. r.id \in Works \ overwritten' /\ r.student \in Students
    BY <2>1 DEF Request, Editing, Sitting, Idle, Sits
  <2>3. HeldStands(r)
    BY <2>1 DEF AllStands
  <2>4. works'[r.id] = works[r.id]
    OBVIOUS
  <2>5. r.pc # "readAttempt" => Stands(r.id, r.row)'
    BY <2>2, <2>3, StandsStays DEF HeldStands
  <2>6. /\ r.pc \in {"readTotal", "grade"} => IsSubmitted(work'[r.id][r.student])
        /\ r.pc \in {"readQuiz", "submit"} /\ <<r.id, r.student>> \notin crossed' =>
             ~IsSubmitted(work'[r.id][r.student])
    <3>1. CASE <<r.id, r.student>> = <<i, s>>
      <4>1. r.id = i /\ r.student = s
        BY <3>1
      <4>2. r.pc \in {"readQuiz", "submit"} => InFlight(w, i, s)
        BY <2>1, <4>1 DEF InFlight
      <4> QED
        BY <2>3, <4>1, <4>2 DEF HeldStands
    <3>2. CASE <<r.id, r.student>> # <<i, s>>
      BY <2>2, <2>3, <3>2 DEF HeldStands
    <3> QED
      BY <3>1, <3>2
  <2> QED
    BY <2>3, <2>4, <2>5, <2>6 DEF HeldStands, Sits, IsSubmitted
<1> QED
  BY <1>1, <1>2 DEF AllStands

LEMMA WritesRowStands ==
  ASSUME KindsFit, AllStands, [Next]_vars, NEW w \in Workers, WritesRow(w)
  PROVE  AllStands'
<1> PICK q : q = req[w]
  OBVIOUS
<1> PICK i, s : i = q.id /\ s = q.student
  OBVIOUS
<1>1. q \in Request /\ HeldFits(q) /\ HeldStands(q)
  BY DEF KindsFit, TypeOK, AllStands
<1>2. UNCHANGED <<now, works, overwritten>> /\ Become(w, Idle)
  BY DEF WritesRow, CreateQuizSubmission, CreateAssignmentSubmission, SaveSubmission, SaveGrade, Finish,
     histories
<1>3. q.pc \in {"insert", "submit", "grade"}
  BY DEF WritesRow, CreateQuizSubmission, CreateAssignmentSubmission, SaveSubmission, SaveGrade
<1>4. i \in Works /\ s \in Students
  BY <1>1, <1>3 DEF Request, Editing, Sitting, Idle
<1>5. /\ work \in [Works -> [Students -> Attempt \cup QuizSubmission
                                        \cup AssignmentSubmission \cup {Nothing}]]
      /\ accepted \in [Works -> [Students -> 0..2]]
  BY DEF KindsFit, TypeOK
<1>6. /\ i \notin overwritten => AttemptStands(i, s) /\ Stands(i, q.row)
      /\ i \notin overwritten => Stands(i, q.row)'
  <2>1. i \notin overwritten => AttemptStands(i, s)
    BY <1>4 DEF AllStands
  <2>2. i \notin overwritten => Stands(i, q.row)
    BY <1>1, <1>3 DEF HeldStands, Sits
  <2>3. i \notin overwritten => Stands(i, q.row)'
    BY <1>2, <1>4, <2>2, StandsStays
  <2> QED
    BY <2>1, <2>2, <2>3
<1>7. Nothing.status = "none" /\ ~IsSubmitted(Nothing)
  BY DEF Nothing, None, IsSubmitted
<1>8. ASSUME work' = work, accepted' = accepted, marked' = marked, crossed' = crossed
      PROVE  AllStands'
  <2>1. \A v \in Workers : req'[v] = req[v] \/ HeldStands(req[v])'
    BY <1>2 DEF Become, KindsFit, TypeOK, HeldStands, Sits, Idle
  <2> QED
    BY <1>8, <2>1, NothingHandedIn
<1>9. ASSUME work' = [work EXCEPT ![i][s] = q.row]
      PROVE  /\ work'[i][s] = q.row
             /\ \A j \in Works, t \in Students : <<j, t>> # <<i, s>> => work'[j][t] = work[j][t]
  BY <1>4, <1>5, <1>9
<1>10. ASSUME accepted' = [accepted EXCEPT ![i][s] = IF @ < 2 THEN @ + 1 ELSE 2]
       PROVE  /\ accepted'[i][s] = IF accepted[i][s] < 2 THEN accepted[i][s] + 1 ELSE 2
              /\ \A j \in Works, t \in Students : <<j, t>> # <<i, s>> => accepted'[j][t] = accepted[j][t]
  BY <1>4, <1>5, <1>10
<1>11. CASE CreateQuizSubmission(w)
  <2>1. q.row.status = "IN_PROGRESS" /\ UNCHANGED <<accepted, marked, crossed>>
    BY <1>11 DEF CreateQuizSubmission, histories
  <2>2. work' = work \/ (work[i][s] = Nothing /\ work' = [work EXCEPT ![i][s] = q.row])
    BY <1>11 DEF CreateQuizSubmission, Inserted
  <2>3. CASE work' = work
    BY <1>8, <2>1, <2>3
  <2>4. CASE work[i][s] = Nothing /\ work' = [work EXCEPT ![i][s] = q.row]
    <3>1. ~IsSubmitted(q.row)
      BY <2>1 DEF IsSubmitted
    <3>2. i \notin overwritten => AttemptStands(i, s)'
      <4> SUFFICES ASSUME i \notin overwritten
                   PROVE  AttemptStands(i, s)'
        OBVIOUS
      <4>1. ~(accepted[i][s] > 0) /\ <<i, s>> \notin marked
        BY <1>6, <1>7, <2>4 DEF AttemptStands
      <4>2. work'[i][s] = q.row
        BY <1>9, <2>4
      <4>3. Stands(i, work[i][s])'
        BY <1>6, <4>2
      <4>4. accepted'[i][s] <= 1
        BY <1>4, <1>5, <2>1, <4>1
      <4> QED
        BY <2>1, <4>1, <4>3, <4>4 DEF AttemptStands
    <3>3. work'[i][s] = q.row
      BY <1>9, <2>4
    <3>4. \A j \in Works, t \in Students : <<j, t>> # <<i, s>> => work'[j][t] = work[j][t]
      BY <1>9, <2>4
    <3>5. ~IsSubmitted(work[i][s]) /\ ~IsSubmitted(work'[i][s])
      BY <1>7, <2>4, <3>1, <3>3
    <3> QED
      BY <1>2, <1>4, <2>1, <3>2, <3>4, <3>5, RowWritten
  <2> QED
    BY <2>2, <2>3, <2>4
<1>12. CASE CreateAssignmentSubmission(w)
  <2>1. q.pc = "insert" /\ q.row.status # "IN_PROGRESS" /\ UNCHANGED <<marked, crossed>>
    BY <1>12 DEF CreateAssignmentSubmission
  <2>2. \/ work' = work /\ accepted' = accepted
        \/ /\ work[i][s] = Nothing /\ work' = [work EXCEPT ![i][s] = q.row] /\ Exists(i)
           /\ accepted' = [accepted EXCEPT ![i][s] = IF @ < 2 THEN @ + 1 ELSE 2]
    BY <1>12 DEF CreateAssignmentSubmission, Inserted
  <2>3. CASE work' = work /\ accepted' = accepted
    BY <1>8, <2>1, <2>3
  <2>4. CASE /\ work[i][s] = Nothing /\ work' = [work EXCEPT ![i][s] = q.row] /\ Exists(i)
             /\ accepted' = [accepted EXCEPT ![i][s] = IF @ < 2 THEN @ + 1 ELSE 2]
    <3>1. q.row \in AssignmentSubmission /\ KindIs(i, "assignment")
      BY <1>1, <2>1 DEF HeldFits, Attempt
    <3>2. IsSubmitted(q.row)
      BY <3>1 DEF IsSubmitted, AssignmentSubmission
    <3>3. ~InFlight(w, i, s)
      <4>1. ASSUME NEW v \in Workers, req[v].pc \in {"readQuiz", "submit"}, req[v].id = i
            PROVE  FALSE
        <5>1. KindIs(i, "quiz")
          BY <4>1 DEF KindsFit, HeldFits
        <5> QED
          BY <2>4, <3>1, <5>1 DEF KindIs
      <4> QED
        BY <4>1 DEF InFlight
    <3>4. i \notin overwritten => AttemptStands(i, s)'
      <4> SUFFICES ASSUME i \notin overwritten
                   PROVE  AttemptStands(i, s)'
        OBVIOUS
      <4>1. ~(accepted[i][s] > 0) /\ <<i, s>> \notin marked
        BY <1>6, <1>7, <2>4 DEF AttemptStands
      <4>2. work'[i][s] = q.row
        BY <1>9, <2>4
      <4>3. Stands(i, work[i][s])'
        BY <1>6, <4>2
      <4>4. accepted'[i][s] <= 1
        <5>1. /\ accepted[i][s] \in 0..2
             /\ accepted'[i][s] = IF accepted[i][s] < 2 THEN accepted[i][s] + 1 ELSE 2
          BY <1>4, <1>5, <1>10, <2>4
        <5> QED
          BY <4>1, <5>1
      <4>5. IsSubmitted(work[i][s])'
        BY <3>2, <4>2 DEF IsSubmitted
      <4> QED
        BY <2>1, <4>1, <4>3, <4>4, <4>5 DEF AttemptStands
    <3>5. \A j \in Works, t \in Students : <<j, t>> # <<i, s>> => work'[j][t] = work[j][t]
      BY <1>9, <2>4
    <3>6. \A j \in Works, t \in Students : <<j, t>> # <<i, s>> => accepted'[j][t] = accepted[j][t]
      BY <1>10, <2>4
    <3>7. ~IsSubmitted(work[i][s])
      BY <1>7, <2>4
    <3> QED
      BY <1>2, <1>4, <2>1, <3>3, <3>4, <3>5, <3>6, <3>7, RowWritten
  <2> QED
    BY <2>2, <2>3, <2>4
<1>13. CASE SaveSubmission(w)
  <2>1. q.pc = "submit" /\ marked' = marked /\ q.row \in QuizSubmission
    BY <1>1, <1>13 DEF SaveSubmission, Request, Editing, Sitting, Idle
  <2>2. CASE work[i][s] = Nothing
    BY <1>8, <1>13, <2>1, <2>2 DEF SaveSubmission, Kept
  <2>3. CASE work[i][s] # Nothing
    <3>1. /\ work' = [work EXCEPT ![i][s] = q.row]
          /\ accepted' = [accepted EXCEPT ![i][s] = IF @ < 2 THEN @ + 1 ELSE 2]
          /\ crossed' = IF InFlight(w, i, s) THEN crossed \cup {<<i, s>>} ELSE crossed
      BY <1>13, <2>3 DEF SaveSubmission, Kept
    <3>2. IsSubmitted(q.row)
      BY <2>1 DEF IsSubmitted, QuizSubmission
    <3>3. <<i, s>> \notin crossed' => <<i, s>> \notin crossed /\ ~InFlight(w, i, s)
      BY <3>1
    <3>4. i \notin overwritten => AttemptStands(i, s)'
      <4> SUFFICES ASSUME i \notin overwritten
                   PROVE  AttemptStands(i, s)'
        OBVIOUS
      <4>1. work'[i][s] = q.row
        BY <1>9, <3>1
      <4>2. Stands(i, work[i][s])'
        BY <1>6, <4>1
      <4>3. IsSubmitted(work[i][s])'
        BY <3>2, <4>1 DEF IsSubmitted
      <4>4. <<i, s>> \notin crossed' => accepted'[i][s] <= 1 /\ <<i, s>> \notin marked'
        <5> SUFFICES ASSUME <<i, s>> \notin crossed
                     PROVE  accepted'[i][s] <= 1 /\ <<i, s>> \notin marked
          BY <2>1, <3>3
        <5>1. ~IsSubmitted(work[i][s])
          BY <1>1, <2>1 DEF HeldStands, Sits
        <5>2. ~(accepted[i][s] > 0) /\ <<i, s>> \notin marked
          BY <1>6, <5>1 DEF AttemptStands
        <5>3. /\ accepted[i][s] \in 0..2
             /\ accepted'[i][s] = IF accepted[i][s] < 2 THEN accepted[i][s] + 1 ELSE 2
          BY <1>4, <1>5, <1>10, <3>1
        <5> QED
          BY <5>2, <5>3
      <4> QED
        BY <4>2, <4>3, <4>4 DEF AttemptStands
    <3>5. crossed \subseteq crossed' /\ \A a : a # <<i, s>> /\ a \in crossed' => a \in crossed
      BY <3>1
    <3>6. \A j \in Works, t \in Students : <<j, t>> # <<i, s>> => work'[j][t] = work[j][t]
      BY <1>9, <3>1
    <3>7. \A j \in Works, t \in Students : <<j, t>> # <<i, s>> => accepted'[j][t] = accepted[j][t]
      BY <1>10, <3>1
    <3>8. IsSubmitted(work'[i][s])
      BY <1>9, <3>1, <3>2
    <3> QED
      BY <1>2, <1>4, <2>1, <3>3, <3>4, <3>5, <3>6, <3>7, <3>8, RowWritten
  <2> QED
    BY <2>2, <2>3
<1>14. CASE SaveGrade(w)
  <2>1. q.pc = "grade" /\ UNCHANGED <<accepted, crossed>> /\ q.row.status = "GRADED"
    BY <1>1, <1>14 DEF SaveGrade, HeldFits
  <2>2. CASE work[i][s] = Nothing
    BY <1>8, <1>14, <2>1, <2>2 DEF SaveGrade, Kept
  <2>3. CASE work[i][s] # Nothing
    <3>1. work' = [work EXCEPT ![i][s] = q.row] /\ marked' = marked \cup {<<i, s>>}
      BY <1>14, <2>3 DEF SaveGrade, Kept
    <3>2. IsSubmitted(q.row)
      BY <2>1 DEF IsSubmitted
    <3>3. i \notin overwritten => IsSubmitted(work[i][s])
      BY <1>1, <2>1 DEF HeldStands, Sits
    <3>4. i \notin overwritten => AttemptStands(i, s)'
      <4> SUFFICES ASSUME i \notin overwritten
                   PROVE  AttemptStands(i, s)'
        OBVIOUS
      <4>1. work'[i][s] = q.row
        BY <1>9, <3>1
      <4>2. Stands(i, work[i][s])'
        BY <1>6, <4>1
      <4>3. IsSubmitted(work[i][s])'
        BY <3>2, <4>1 DEF IsSubmitted
      <4>4. <<i, s>> \notin crossed' => accepted'[i][s] <= 1 /\ work'[i][s].status = "GRADED"
        BY <1>6, <2>1, <4>1 DEF AttemptStands
      <4> QED
        BY <4>2, <4>3, <4>4 DEF AttemptStands
    <3>5. \A a : a # <<i, s>> /\ a \in marked' => a \in marked
      BY <3>1
    <3>6. \A j \in Works, t \in Students : <<j, t>> # <<i, s>> => work'[j][t] = work[j][t]
      BY <1>9, <3>1
    <3>7. IsSubmitted(work'[i][s])
      BY <1>9, <3>1, <3>2
    <3> QED
      BY <1>2, <1>4, <2>1, <3>3, <3>4, <3>5, <3>6, <3>7, RowWritten
  <2> QED
    BY <2>2, <2>3
<1> QED
  BY <1>11, <1>12, <1>13, <1>14 DEF WritesRow

LEMMA WritesWorkStands ==
  ASSUME KindsFit, AllStands, [Next]_vars, NEW w \in Workers, WritesWork(w)
  PROVE  AllStands'
<1> PICK q : q = req[w]
  OBVIOUS
<1>1. Store(w) \/ Erase(w)
  BY DEF WritesWork, StoreQuiz, StoreAssignment, EraseQuiz, EraseAssignment
<1>2. q.pc \in {"update", "publish", "delete"} /\ q.read = "DRAFT" /\ q.id \in Works
  BY <1>1 DEF Store, Erase, KindsFit, TypeOK, HeldFits, Request, Editing, Sitting, Idle
<1>3. overwritten' = IF works[q.id].status = "PUBLISHED" THEN overwritten \cup {q.id} ELSE overwritten
  BY <1>1, <1>2 DEF Store, Erase, Overwrites
<1>4. UNCHANGED <<accepted, marked, crossed>> /\ Become(w, Idle)
  BY <1>1 DEF Store, Erase, Finish
<1>5. ASSUME NEW i \in Works \ overwritten', NEW s \in Students
      PROVE  work'[i][s] = work[i][s]
  <2>1. CASE Store(w)
    BY <2>1 DEF Store
  <2>2. CASE Erase(w) /\ i # q.id
    BY <2>2 DEF Erase, KindsFit, TypeOK
  <2>3. CASE Erase(w) /\ i = q.id
    <3>1. i \notin overwritten /\ works[i].status # "PUBLISHED"
      BY <1>3, <1>5, <2>3
    <3>2. work[i][s] = Nothing
      BY <3>1 DEF AllStands, AttemptStands, Stands
    <3>3. work'[i][s] = Nothing
      BY <2>3 DEF Erase, KindsFit, TypeOK
    <3> QED
      BY <3>2, <3>3
  <2> QED
    BY <1>1, <2>1, <2>2, <2>3
<1>6. \A v \in Workers : req'[v] = req[v] \/ HeldStands(req[v])'
  BY <1>4 DEF Become, KindsFit, TypeOK, HeldStands, Sits, Idle
<1> QED
  BY <1>4, <1>5, <1>6, NothingHandedIn

LEMMA AllStandsStep ==
  ASSUME KindsFit, AllStands, [Next]_vars
  PROVE  AllStands'
<1>1. CASE UNCHANGED vars
  BY <1>1, NothingHandedIn DEF vars, tables, histories
<1> SUFFICES ASSUME Next
             PROVE  AllStands'
  BY <1>1
<1>2. CASE Tick \/ Creates \/ \E w \in Workers : TurnsAway(w)
  <2>1. UNCHANGED <<work, req, accepted, marked, crossed>>
    BY <1>2 DEF Tick, Creates, CreateQuiz, CreateAssignment, TurnsAway, NoAttemptFound,
     tables, histories
  <2> QED
    BY <2>1, NothingHandedIn
<1>3. ASSUME NEW w \in Workers, StartsEdit(w) \/ StartsWork(w) \/ GoesOn(w)
      PROVE  AllStands'
  <2>1. UNCHANGED <<now, works, work, overwritten, accepted, crossed, marked>>
    BY <1>3, OnlyRequest
  <2>2. PICK r : HeldStands(r) /\ Become(w, r)
    <3>1. CASE StartsEdit(w)
      <4>1. ASSUME NEW i, NEW row, NEW pc \in {"update", "publish", "delete"}, Editor(w, pc, i, row)
            PROVE  \E r : HeldStands(r) /\ Become(w, r)
        BY <4>1 DEF Editor, HeldStands, Sits
      <4>2. \E i, row : \E pc \in {"update", "publish", "delete"} : Editor(w, pc, i, row)
        BY <3>1 DEF StartsEdit, UpdateQuiz, UpdateAssignment, PublishQuiz, PublishAssignment, DeleteQuiz,
           DeleteAssignment, Update, Publish, Delete
      <4> QED
        BY <4>1, <4>2
    <3> QED
      BY <1>3, <3>1, StartsWorkStands, GoesOnStands
  <2>3. HeldStands(r)'
    BY <2>1, <2>2 DEF HeldStands, Stands, SatUnder, HandedInUnder, IsSubmitted
  <2>4. \A v \in Workers : req'[v] = req[v] \/ HeldStands(req[v])'
    <3>1. ASSUME NEW v \in Workers, v # w
          PROVE  req'[v] = req[v]
      BY <2>2, <3>1 DEF Become, KindsFit, TypeOK
    <3>2. r = req'[w]
      BY <2>2 DEF Become, KindsFit, TypeOK
    <3>3. HeldStands(req[w])'
      BY <2>3, <3>2
    <3> QED
      BY <3>1, <3>3
  <2> QED
    BY <2>1, <2>4, NothingHandedIn
<1> QED
  BY <1>2, <1>3, WritesWorkStands, WritesRowStands, Groups

LEMMA AlwaysStands == Spec => [](KindsFit /\ AllStands)
<1>1. Init => KindsFit /\ AllStands
  <2> SUFFICES ASSUME Init
               PROVE  AllStands
    BY KindsFitInit
  <2>1. \A i \in Works, s \in Students : work[i][s] = Nothing /\ accepted[i][s] = 0
    BY DEF Init
  <2>2. marked = {} /\ \A w \in Workers : ~Sits(req[w])
    BY DEF Init, Sits, Idle
  <2> QED
    BY <2>1, <2>2 DEF AllStands, AttemptStands, HeldStands
<1>2. KindsFit /\ AllStands /\ [Next]_vars => (KindsFit /\ AllStands)'
  BY KindsFitStep, AllStandsStep
<1> QED
  BY <1>1, <1>2, PTL DEF Spec

(* Rows and requests hold what their types say, whatever overlaps.          *)
THEOREM CourseworkTypes == Spec => []TypeOK
<1>1. KindsFit => TypeOK
  BY DEF KindsFit
<1> QED
  BY <1>1, KindsAlwaysFit, PTL

(* What was handed in is for a published work, within its window and for    *)
(* the questions it has, unless an edit overtook the publication.           *)
THEOREM TermsAlwaysStand == Spec => []TermsStand
<1>1. KindsFit /\ AllStands => TermsStand
  <2> SUFFICES ASSUME KindsFit, AllStands, NEW i \in Works \ overwritten, NEW s \in Students,
                      work[i][s] # Nothing \/ accepted[i][s] > 0
               PROVE  /\ works[i].status = "PUBLISHED"
                      /\ work[i][s] # Nothing
                      /\ IF works[i].kind = "quiz" THEN SatUnder(works[i], work[i][s])
                                                   ELSE HandedInUnder(works[i], work[i][s])
    BY DEF TermsStand
  <2>1. work[i][s] # Nothing
    BY RowOfStatus DEF AllStands, AttemptStands, KindsFit
  <2>2. Stands(i, work[i][s])
    BY <2>1 DEF AllStands, AttemptStands
  <2>3. works[i].kind \in {"quiz", "assignment"}
    BY <2>1 DEF KindsFit, RowFits
  <2> QED
    BY <2>1, <2>2, <2>3 DEF Stands
<1> QED
  BY <1>1, AlwaysStands, PTL

(* One submission counts and a grade stays, unless two submissions of the   *)
(* attempt crossed.                                                         *)
THEOREM SubmittedOnlyOnce == Spec => []SubmittedOnce
<1>1. AllStands => SubmittedOnce
  BY DEF AllStands, AttemptStands, SubmittedOnce
<1> QED
  BY <1>1, AlwaysStands, PTL

(***************************************************************************)
(* Coursework: the page in which an attempt is looked for.                  *)
(***************************************************************************)
BeyondPage(i) == works[i] # NoWork /\ (Exists(i) => Cardinality(Attempts(i)) > Page)
TurnedAwayBeyond ==
    /\ turnedAway \subseteq Works \X Students
    /\ \A a \in turnedAway : BeyondPage(a[1])

LEMMA SomeFinite ==
  ASSUME NEW T \in SUBSET Students
  PROVE  IsFiniteSet(T) /\ Cardinality(T) \in Nat
  BY SchoolAssumption, FS_Subset, FS_CardinalityType

(* The rows of a work go only with it. *)
LEMMA AttemptsStay ==
  ASSUME KindsFit, Next, NEW i \in Works, works[i] # NoWork, Exists(i)'
  PROVE  Exists(i) /\ Attempts(i) \subseteq Attempts(i)'
<1>1. Exists(i)
  BY KindStays
<1>2. ASSUME NEW s \in Students, work[i][s] # Nothing
      PROVE  work'[i][s] # Nothing
  <2>1. CASE Tick \/ Creates \/ \E w \in Workers : StartsEdit(w) \/ StartsWork(w) \/ GoesOn(w) \/ TurnsAway(w)
    <3>1. work' = work
      BY <2>1, OnlyRequest DEF Tick, Creates, CreateQuiz, CreateAssignment, TurnsAway, NoAttemptFound,
     tables, histories
    <3> QED
      BY <1>2, <3>1
  <2>2. ASSUME NEW w \in Workers, WritesWork(w)
        PROVE  work'[i][s] # Nothing
    <3>1. Store(w) \/ Erase(w)
      BY <2>2 DEF WritesWork, StoreQuiz, StoreAssignment, EraseQuiz, EraseAssignment
    <3>2. CASE Store(w)
      BY <1>2, <3>2 DEF Store
    <3>3. CASE Erase(w)
      <4>1. i # req[w].id
        BY <3>3 DEF Erase, KindsFit, TypeOK, Exists, DeletedWork, Status
      <4> QED
        BY <1>2, <3>3, <4>1 DEF Erase, KindsFit, TypeOK
    <3> QED
      BY <3>1, <3>2, <3>3
  <2>3. ASSUME NEW w \in Workers, WritesRow(w)
        PROVE  work'[i][s] # Nothing
    <3> PICK q : q = req[w]
      OBVIOUS
    <3>1. q.pc \in {"insert", "submit", "grade"}
      BY <2>3 DEF WritesRow, CreateQuizSubmission, CreateAssignmentSubmission, SaveSubmission, SaveGrade
    <3>2. q \in Request
      BY DEF KindsFit, TypeOK
    <3>3. q.row # Nothing
      <4>1. q.row \in Attempt \cup QuizSubmission \cup AssignmentSubmission
        BY <3>1, <3>2 DEF Request, Editing, Sitting, Idle
      <4> QED
        BY <4>1 DEF Attempt, QuizSubmission, AssignmentSubmission, Nothing, None
    <3>4. work' = work \/ work' = [work EXCEPT ![q.id][q.student] = q.row]
      BY <2>3 DEF WritesRow, CreateQuizSubmission, CreateAssignmentSubmission, SaveSubmission, SaveGrade,
         Inserted, Kept
    <3> QED
      BY <1>2, <3>3, <3>4 DEF KindsFit, TypeOK
  <2> QED
    BY <2>1, <2>2, <2>3, Groups
<1> QED
  BY <1>1, <1>2 DEF Attempts

LEMMA TurnedAwayStep ==
  ASSUME KindsFit, TurnedAwayBeyond, [Next]_vars
  PROVE  TurnedAwayBeyond'
<1>1. CASE UNCHANGED vars
  BY <1>1 DEF vars, tables, histories, TurnedAwayBeyond, BeyondPage, Exists, Attempts
<1> SUFFICES ASSUME Next
             PROVE  TurnedAwayBeyond'
  BY <1>1
<1>2. ASSUME NEW i \in Works, BeyondPage(i)
      PROVE  BeyondPage(i)'
  <2>1. works'[i] # NoWork
    BY <1>2, KindStays DEF BeyondPage, KindIs
  <2>2. ASSUME Exists(i)'
        PROVE  Cardinality(Attempts(i))' > Page
    <3> PICK S, T : S = Attempts(i) /\ T = Attempts(i)'
      OBVIOUS
    <3>1. Exists(i) /\ S \subseteq T /\ T \subseteq Students
      BY <1>2, <2>2, AttemptsStay DEF BeyondPage, Attempts
    <3>2. Cardinality(S) <= Cardinality(T) /\ Cardinality(S) \in Nat /\ Cardinality(T) \in Nat
      BY <3>1, SomeFinite, FS_Subset
    <3> QED
      BY <1>2, <3>1, <3>2, CourseworkAssumption DEF BeyondPage
  <2> QED
    BY <2>1, <2>2 DEF BeyondPage
<1>3. ASSUME NEW i \in Works, NEW s \in Students, Is(i, "quiz"), Unlisted(i, s),
             work[i][s].status = "IN_PROGRESS"
      PROVE  BeyondPage(i)
  <2>1. s \in Attempts(i)
    BY <1>3 DEF Attempts, Nothing, None
  <2> PICK S, T : S = NotBehind(i, s) /\ T = Attempts(i)
    OBVIOUS
  <2>2. S \subseteq T \ {s} /\ T \subseteq Students /\ s \in T
    BY <2>1 DEF NotBehind, Attempts
  <2>3. Cardinality(S) >= Page
    BY <1>3, <2>1 DEF Unlisted
  <2>4. IsFiniteSet(T) /\ IsFiniteSet(T \ {s}) /\ Cardinality(S) \in Nat /\ Cardinality(T) \in Nat
    BY <2>2, SomeFinite
  <2>5. Cardinality(T \ {s}) = Cardinality(T) - 1
    BY <2>2, <2>4, FS_RemoveElement
  <2>6. Cardinality(S) <= Cardinality(T \ {s})
    BY <2>2, <2>4, FS_Subset
  <2>7. Cardinality(T) > Page
    BY <2>3, <2>4, <2>5, <2>6, CourseworkAssumption
  <2> QED
    BY <1>3, <2>7 DEF BeyondPage, Is, Exists, NoWork, Status, None
<1>4. turnedAway' = turnedAway
      \/ \E i \in Works, s \in Students :
           /\ turnedAway' = turnedAway \cup {<<i, s>>}
           /\ Is(i, "quiz") /\ Unlisted(i, s) /\ work[i][s].status = "IN_PROGRESS"
  <2>1. Tick \/ Creates \/ (\E w \in Workers : WritesWork(w) \/ WritesRow(w)) => turnedAway' = turnedAway
    BY DEF Tick, Creates, CreateQuiz, CreateAssignment, WritesWork, StoreQuiz, StoreAssignment, EraseQuiz,
       EraseAssignment, Store, Erase, WritesRow, CreateQuizSubmission, CreateAssignmentSubmission,
       SaveSubmission, SaveGrade, histories
  <2>2. ASSUME NEW w \in Workers, NEW i \in Works, NEW s \in Students, NoAttemptFound(w, i, s)
        PROVE  \/ turnedAway' = turnedAway
               \/ /\ turnedAway' = turnedAway \cup {<<i, s>>}
                  /\ Is(i, "quiz") /\ Unlisted(i, s) /\ work[i][s].status = "IN_PROGRESS"
    BY <2>2 DEF NoAttemptFound
  <2> QED
    BY <2>1, <2>2, OnlyRequest, Groups DEF TurnsAway
<1>5. \A a \in turnedAway' : a \in Works \X Students /\ BeyondPage(a[1])
  BY <1>3, <1>4 DEF TurnedAwayBeyond
<1> QED
  BY <1>2, <1>5 DEF TurnedAwayBeyond

(* When the listing succeeds, a student with an attempt is told there is    *)
(* none only of a quiz with more than a page of them.                       *)
THEOREM AlwaysFoundWithinPage == Spec => []FoundWithinPage
<1>1. Init => KindsFit /\ TurnedAwayBeyond
  BY KindsFitInit DEF Init, TurnedAwayBeyond
<1>2. KindsFit /\ TurnedAwayBeyond /\ [Next]_vars => (KindsFit /\ TurnedAwayBeyond)'
  BY KindsFitStep, TurnedAwayStep
<1>3. TurnedAwayBeyond => FoundWithinPage
  BY DEF TurnedAwayBeyond, BeyondPage, FoundWithinPage
<1> QED
  BY <1>1, <1>2, <1>3, PTL DEF Spec

(***************************************************************************)
(* Coursework with the reminder job.                                        *)
(***************************************************************************)
RP == INSTANCE RemindersProofs WITH Items <- Works, due <- DueWorks

allVars == <<vars, jobVars>>

(* To the requests the job does nothing. *)
LEMMA PassLeavesTables ==
  ASSUME AssignmentPass \/ QuizPass
  PROVE  UNCHANGED vars
  BY DEF AssignmentPass, QuizPass, vars, R!Run, R!Begin, R!NextOffset, R!End, R!CutShort, R!List,
     R!ListFails, R!Remind, R!RemindFails

THEOREM CourseworkAsBefore == SpecWithReminders => Spec
<1>1. InitWithReminders => Init
  BY DEF InitWithReminders
<1>2. [NextWithReminders]_allVars => [Next]_vars
  BY PassLeavesTables DEF NextWithReminders, allVars, vars
<1> QED
  BY <1>1, <1>2, PTL DEF SpecWithReminders, Spec, allVars

(* The two instances are one module's. *)
LEMMA SameCardinality == \A S : R!Cardinality(S) = RP!Cardinality(S)
  BY DEF R!Cardinality, RP!Cardinality, R!IsFiniteSet, RP!IsFiniteSet

LEMMA SameRun ==
  ASSUME R!Run
  PROVE  RP!Run
<1>1. CASE R!Begin
  BY <1>1 DEF RP!Run, R!Begin, RP!Begin, R!Running, RP!Running, R!OnTime, RP!OnTime
<1>2. CASE R!NextOffset \/ R!End \/ R!CutShort
  BY <1>2 DEF RP!Run, R!NextOffset, RP!NextOffset, R!End, RP!End, R!CutShort, RP!CutShort,
     R!Running, RP!Running, R!Idle, RP!Idle, R!history, RP!history
<1>3. ASSUME NEW k \in Offsets, R!List(k) \/ R!ListFails(k)
      PROVE  RP!Run
  <2>1. RP!Due(k) = R!Due(k)
    BY DEF R!Due, RP!Due, R!Row, RP!Row, R!Time, RP!Time, R!Covers, RP!Covers
  <2>2. CASE R!ListFails(k)
    BY <2>2 DEF RP!Run, R!ListFails, RP!ListFails, R!IsNext, RP!IsNext
  <2>3. CASE R!List(k)
    <3>1. RP!List(k)
      <4> PICK rows \in SUBSET R!Due(k) :
            /\ R!FirstRows(rows, R!Due(k))
            /\ job' = [pc |-> "send", at |-> job.at, left |-> job.left \ {k}, offset |-> k,
                       rows |-> rows]
        BY <2>3 DEF R!List
      <4>1. RP!FirstRows(rows, RP!Due(k))
        BY <2>1, SameCardinality DEF R!FirstRows, RP!FirstRows
      <4> QED
        BY <2>1, <2>3, <4>1 DEF R!List, RP!List, R!IsNext, RP!IsNext, R!history, RP!history
    <3> QED
      BY <3>1 DEF RP!Run
  <2> QED
    BY <1>3, <2>2, <2>3
<1>4. ASSUME R!Running, job.pc = "send", NEW x \in job.rows, R!Remind(x) \/ R!RemindFails(x)
      PROVE  RP!Run
  BY <1>4 DEF RP!Run, R!Running, RP!Running, R!Remind, RP!Remind, R!RemindFails, RP!RemindFails,
     R!history, RP!history
<1> QED
  BY <1>1, <1>2, <1>3, <1>4 DEF R!Run

(* Each work is due at one instant, or not at all. *)
LEMMA DueType == TypeOK => DueWorks \in [Works -> R!Instant]
<1> SUFFICES ASSUME TypeOK, NEW i \in Works
             PROVE  DueAssignments[i] \in R!Instant /\ DueQuizzes[i] \in R!Instant
  BY DEF DueWorks, DueAssignments, DueQuizzes
<1>1. CASE Published(i, "assignment")
  <2>1. works[i] \in Assignment /\ works[i].kind = "assignment"
    BY <1>1, WorkOfKind DEF Published, Is
  <2>2. works[i].terms.deadline \in Time
    BY <2>1, CourseworkAssumption DEF Assignment
  <2> QED
    BY <2>1, <2>2 DEF DueAssignments, DueQuizzes, Published, Is, R!Instant, R!Time, Time
<1>2. CASE Published(i, "quiz")
  <2>1. works[i] \in Quiz /\ works[i].kind = "quiz"
    BY <1>2, WorkOfKind DEF Published, Is
  <2>2. works[i].terms.close \in Time
    BY <2>1, CourseworkAssumption DEF Quiz
  <2> QED
    BY <2>1, <2>2 DEF DueAssignments, DueQuizzes, Published, Is, R!Instant, R!Time, Time
<1> QED
  BY <1>1, <1>2 DEF DueAssignments, DueQuizzes, R!Instant

LEMMA PassImplements ==
  ASSUME KindsFit, KindsFit', [NextWithReminders]_allVars
  PROVE  [RP!Next]_(RP!vars)
<1>1. CASE Next /\ UNCHANGED pass /\ R!Observe
  <2>1. DueWorks' \in [Works -> R!Instant]
    <3>1. TypeOK' => (DueWorks \in [Works -> R!Instant])'
      BY DueType, PTL
    <3> QED
      BY <3>1 DEF KindsFit
  <2>2. now' \in {t \in R!Time : now <= t}
    <3>1. now' \in Time
      BY DEF KindsFit, TypeOK
    <3>2. now <= now'
      BY <1>1, PublishedStays
    <3> QED
      BY <3>1, <3>2 DEF Time, R!Time
  <2> QED
    BY <1>1, <2>1, <2>2 DEF RP!Next, RP!Environment, RP!Observe, R!Observe, RP!reminderVars,
       R!reminderVars, RP!history, R!history, R!Time, RP!Time, R!Instant, RP!Instant
<1>2. CASE AssignmentPass \/ QuizPass
  BY <1>2, SameRun DEF AssignmentPass, QuizPass, RP!Next
<1>3. CASE UNCHANGED allVars
  BY <1>3 DEF allVars, vars, tables, histories, jobVars, RP!vars, RP!reminderVars, RP!history, DueWorks,
     DueAssignments, DueQuizzes, Published, Is, Exists
<1> QED
  BY <1>1, <1>2, <1>3 DEF NextWithReminders

(* A pass of the job over the tables of quizzes and assignments is a        *)
(* behaviour of Reminders (DeadlineReminderJob.Run, AssessmentService).     *)
THEOREM DeadlinesImplementReminders == SpecWithReminders => RP!Spec
<1>1. InitWithReminders => RP!Init
  BY DEF InitWithReminders, R!Init, RP!Init, R!Idle, RP!Idle
<1>2. Spec => []KindsFit
  BY KindsAlwaysFit
<1> QED
  BY <1>1, <1>2, CourseworkAsBefore, PassImplements, PTL DEF SpecWithReminders, RP!Spec, allVars

(* Whatever requests do, punctual runs announce each deadline once at each  *)
(* of the times before it (DeadlineReminderJob.Run).                        *)
THEOREM DeadlinesRemindedOnce == SpecWithReminders => []RemindedOnce
<1>1. RP!RemindersParameters
  BY DeadlineRemindersAssumption DEF R!RemindersParameters, RP!RemindersParameters
<1>2. RP!Spec => []RP!RemindedOnce
  BY <1>1, RP!RemindedExactlyOnce
<1>3. RP!RemindedOnce => RemindedOnce
  <2>1. ASSUME NEW t PROVE RP!Past(t) <=> R!Past(t)
    BY DEF R!Past, RP!Past, R!Running, RP!Running
  <2> QED
    BY <2>1, SameCardinality DEF RemindedOnce, R!RemindedOnce, RP!RemindedOnce
<1> QED
  BY <1>2, <1>3, DeadlinesImplementReminders, PTL

(***************************************************************************)
(* Progress.  RanksAreFair and RemarksStay look at the table only; whether  *)
(* they survive a write depends on what requests hold.  The invariant says, *)
(* of a class where nothing crossed, that a held row is the table's with    *)
(* nothing taken back, and that the places the table will have when a       *)
(* ranking is through are fair already.  The second part is about report    *)
(* cards: a place fits the class it is in, and goes on fitting while the    *)
(* class grows.                                                             *)
(***************************************************************************)
Saves(w) == desk[w].pc = "save"
Ranking(w, c) == Ranks(w) /\ Holds(w, c)

IsRow(row) == row = [class |-> row.class, position |-> row.position, remarks |-> row.remarks]
IsTable(rows) ==
    /\ rows = [k \in DOMAIN rows |-> rows[k]]
    /\ \A k \in DOMAIN rows : IsRow(rows[k])
IsSave(r) ==
    /\ r = [pc |-> "save", rows |-> r.rows, then |-> r.then, report |-> r.report]
    /\ r.then \in {"end", "ranked", "rank", "refresh"}
    /\ IsTable(r.rows)

Shape ==
    /\ IsTable(progress)
    /\ desk = [w \in Workers |-> desk[w]]
    /\ \A w \in Workers : Saves(w) => IsSave(desk[w])

(* A ranking is of one class. *)
OneClass ==
    \A w \in Workers : Ranks(w) =>
      \A j, k \in DOMAIN desk[w].rows : desk[w].rows[j].class = desk[w].rows[k].class

(* A held row the table has lost went with its course or class, and does    *)
(* not come back.                                                           *)
LostForGood ==
    \A w \in Workers : Saves(w) =>
      \A k \in DOMAIN desk[w].rows :
        \/ Stored(k, desk[w].rows[k])
        \/ k[2] \in gone \/ desk[w].rows[k].class \in gone

(* Where nothing crossed, a held row has the remarks of the table's, and    *)
(* its place unless it is about to be ranked.                               *)
Fresh ==
    \A w \in Workers : Saves(w) =>
      \A k \in DOMAIN desk[w].rows :
        LET row == desk[w].rows[k] IN
        Stored(k, row) /\ row.class \notin mixed =>
          /\ progress[k].remarks \subseteq row.remarks
          /\ ~Ranks(w) => row.position = progress[k].position

(* The place a row has when w is through. *)
Coming(w, k) ==
    IF k \in DOMAIN desk[w].rows THEN desk[w].rows[k].position ELSE progress[k].position

Agree(j, k, p, q) == 0 \notin {p, q} => (p = q <=> j[1] = k[1])

FairOnce ==
    \A w \in Workers, c \in Classes \ mixed : Ranking(w, c) =>
      \A j, k \in RowsIn(c) : Agree(j, k, Coming(w, j), Coming(w, k))

FairNow ==
    \A c \in Classes \ mixed : (\A w \in Workers : ~Ranking(w, c)) =>
      \A j, k \in RowsIn(c) : Agree(j, k, progress[j].position, progress[k].position)

IInv == Shape /\ OneClass /\ LostForGood /\ Fresh /\ FairOnce /\ FairNow

(***************************************************************************)
(* Requests and the frame of a step                                         *)
(***************************************************************************)
(* A step of one request leaves the others where they were. *)
LEMMA OthersStay ==
  ASSUME Shape, NEW w \in Workers, NEW r, Take(w, r)
  PROVE  /\ desk' = [v \in Workers |-> desk'[v]]
         /\ desk'[w] = r
         /\ \A v \in Workers \ {w} : desk'[v] = desk[v]
  BY DEF Shape, Take

(* What a request does when it saves nothing any more. *)
LEMMA NextOrIdleHoldsNothing ==
  ASSUME NEW todo
  PROVE  NextOrIdle(todo).pc \in {"idle", "next"}
  BY DEF NextOrIdle, NoTask

(***************************************************************************)
(* The steps, by what they do to the rows held                              *)
(***************************************************************************)
(* A request takes copies of rows, with perhaps a remark more. *)
LEMMA TakeInv ==
  ASSUME IInv,
         NEW w \in Workers, ~Saves(w),
         NEW rows, NEW then \in {"end", "rank"}, NEW report,
         IsTable(rows), DOMAIN rows \subseteq DOMAIN progress,
         \A k \in DOMAIN rows :
           /\ rows[k].class = progress[k].class
           /\ rows[k].position = progress[k].position
           /\ progress[k].remarks \subseteq rows[k].remarks,
         Hold(w, rows, then, report),
         progress' = progress, gone' = gone, mixed' = mixed
  PROVE  IInv'
<1> DEFINE r == [pc |-> "save", rows |-> rows, then |-> then, report |-> report]
<1>1. /\ desk' = [v \in Workers |-> desk'[v]]
      /\ desk'[w] = r
      /\ \A v \in Workers \ {w} : desk'[v] = desk[v]
  BY OthersStay DEF Hold, IInv
<1>2. /\ Saves(w)' /\ ~Ranks(w)' /\ ~Ranks(w)
      /\ desk'[w].rows = rows
  BY <1>1 DEF Saves, Ranks
<1>3. \A v \in Workers : Ranks(v)' <=> Ranks(v)
  BY <1>1, <1>2 DEF Ranks
<1>4. \A v \in Workers : \A c : Ranking(v, c)' <=> Ranking(v, c)
  BY <1>1, <1>2 DEF Ranking, Ranks, Holds
<1>5. Shape'
  BY <1>1 DEF IInv, Shape, Saves, IsSave, IsTable, IsRow
<1>6. OneClass'
  BY <1>1, <1>3, <1>2 DEF IInv, OneClass
<1>7. LostForGood'
  BY <1>1, <1>2 DEF IInv, LostForGood, Saves, Stored
<1>8. Fresh'
  <2>1. SUFFICES ASSUME NEW v \in Workers, Saves(v)', NEW k \in DOMAIN desk'[v].rows,
                        Stored(k, desk[v].rows[k])', desk'[v].rows[k].class \notin mixed
                 PROVE  /\ progress[k].remarks \subseteq desk'[v].rows[k].remarks
                        /\ ~Ranks(v)' => desk'[v].rows[k].position = progress[k].position
    BY DEF Fresh
  <2>2. CASE v = w
    BY <2>2, <1>1, <1>2, <2>1
  <2>3. CASE v # w
    BY <2>3, <1>1, <1>3, <2>1 DEF IInv, Fresh, Saves, Stored
  <2> QED
    BY <2>2, <2>3
<1>9. FairOnce'
  <2>1. \A v \in Workers : \A k : Ranks(v) => Coming(v, k)' = Coming(v, k)
    BY <1>1, <1>2 DEF Coming
  <2> QED
    BY <2>1, <1>4 DEF IInv, FairOnce, RowsIn, Agree, Ranking
<1>10. FairNow'
  BY <1>4 DEF IInv, FairNow, RowsIn, Agree
<1> QED
  BY <1>5, <1>6, <1>7, <1>8, <1>9, <1>10 DEF IInv

(* A request lets go of what it holds, or had nothing. *)
LEMMA LeaveInv ==
  ASSUME IInv,
         NEW w \in Workers, NEW r, r.pc # "save", Take(w, r),
         progress' = progress, gone' = gone, mixed \subseteq mixed',
         Ranks(w) => HeldClasses(w) \subseteq mixed'
  PROVE  IInv'
<1>1. /\ desk' = [v \in Workers |-> desk'[v]]
      /\ desk'[w] = r
      /\ \A v \in Workers \ {w} : desk'[v] = desk[v]
  BY OthersStay DEF IInv
<1>2. ~Saves(w)' /\ ~Ranks(w)'
  BY <1>1 DEF Saves, Ranks
<1>3. \A v \in Workers : Saves(v)' => v # w /\ Saves(v) /\ desk'[v] = desk[v]
  BY <1>1, <1>2 DEF Saves
<1>4. \A v \in Workers : Ranks(v)' => v # w /\ Ranks(v) /\ desk'[v] = desk[v]
  BY <1>1, <1>2 DEF Ranks
<1>5. \A v \in Workers \ {w} : \A c : Ranking(v, c)' <=> Ranking(v, c)
  BY <1>1 DEF Ranking, Ranks, Holds
<1>6. Shape'
  BY <1>1, <1>3 DEF IInv, Shape, IsTable, IsSave, IsRow
<1>7. OneClass'
  BY <1>4 DEF IInv, OneClass
<1>8. LostForGood'
  BY <1>3 DEF IInv, LostForGood, Stored
<1>9. Fresh'
  <2>1. \A v \in Workers \ {w} : Ranks(v)' <=> Ranks(v)
    BY <1>1 DEF Ranks
  <2> QED
    BY <2>1, <1>3 DEF IInv, Fresh, Stored
<1>10. FairOnce'
  <2>1. \A v \in Workers \ {w} : \A k : Coming(v, k)' = Coming(v, k)
    BY <1>1 DEF Coming
  <2>2. \A v \in Workers : \A c : Ranking(v, c)' => v # w
    BY <1>2 DEF Ranking
  <2> QED
    BY <2>1, <2>2, <1>5 DEF IInv, FairOnce, RowsIn, Agree
<1>11. FairNow'
  <2>1. SUFFICES ASSUME NEW c \in Classes, c \notin mixed', \A v \in Workers : ~Ranking(v, c)',
                        NEW j \in RowsIn(c), NEW k \in RowsIn(c)
                 PROVE  Agree(j, k, progress[j].position, progress[k].position)
    BY DEF FairNow, RowsIn, Agree
  <2>2. ~Ranking(w, c)
    BY <2>1 DEF Ranking, Holds, HeldClasses
  <2>3. \A v \in Workers : ~Ranking(v, c)
    BY <2>1, <2>2, <1>5
  <2> QED
    BY <2>1, <2>3 DEF IInv, FairNow
<1> QED
  BY <1>6, <1>7, <1>8, <1>9, <1>10, <1>11 DEF IInv

(* A ranking begins: it holds every row of the class, each student with a   *)
(* place of his own.                                                        *)
LEMMA RankInv ==
  ASSUME IInv,
         NEW w \in Workers, ~Saves(w),
         NEW c, NEW then \in {"ranked", "refresh"}, NEW report,
         RankClass(w, c, then, report)
  PROVE  IInv'
<1>1. PICK place \in Rankings(c) :
        Hold(w, [k \in RowsIn(c) |-> Placed(progress[k], place[k])], then, report)
  BY DEF RankClass
<1>2. PICK rank \in Bijection(StudentsIn(c), 1..Cardinality(StudentsIn(c))) :
        place = [k \in RowsIn(c) |-> rank[k[1]]]
  BY <1>1 DEF Rankings
<1> DEFINE rows == [k \in RowsIn(c) |-> Placed(progress[k], place[k])]
           r == [pc |-> "save", rows |-> rows, then |-> then, report |-> report]
<1>3. \A k \in RowsIn(c) :
        /\ k \in DOMAIN progress /\ IsRow(rows[k])
        /\ rows[k].class = c /\ progress[k].class = c
        /\ rows[k].position = rank[k[1]]
        /\ rows[k].remarks = progress[k].remarks
  BY <1>2 DEF RowsIn, Placed, IInv, Shape, IsTable, IsRow
<1>4. IsTable(rows) /\ DOMAIN rows = RowsIn(c)
  BY <1>3 DEF IsTable
<1>5. \A s, t \in StudentsIn(c) : rank[s] = rank[t] <=> s = t
  BY <1>2 DEF Bijection, Injection, IsInjective
<1>6. \A k \in RowsIn(c) : k[1] \in StudentsIn(c)
  BY DEF StudentsIn
<1> HIDE DEF rows
<1>7. /\ desk' = [v \in Workers |-> desk'[v]]
      /\ desk'[w] = r
      /\ \A v \in Workers \ {w} : desk'[v] = desk[v]
  BY <1>1, OthersStay DEF Hold, IInv, rows
<1>8. /\ progress' = progress /\ gone' = gone
      /\ mixed' = IF Alone(w, c) THEN mixed \ {c} ELSE mixed
      /\ RowsIn(c) # {}
  BY DEF RankClass
<1>9. /\ Saves(w)' /\ Ranks(w)' /\ ~Ranks(w)
      /\ desk'[w].rows = rows
  BY <1>7 DEF Saves, Ranks
<1>10. \A d : Ranking(w, d)' <=> d = c
  BY <1>3, <1>4, <1>7, <1>8, <1>9 DEF Ranking, Holds
<1>11. \A v \in Workers \ {w} : /\ Ranks(v)' <=> Ranks(v)
                                /\ Saves(v)' <=> Saves(v)
                                /\ \A d : Holds(v, d)' <=> Holds(v, d)
  BY <1>7 DEF Ranks, Saves, Holds
<1>12. \A v \in Workers \ {w} : \A d : Holds(v, d) /\ d \notin mixed' => d \notin mixed
  BY <1>8 DEF Alone
<1>13. Shape'
  BY <1>4, <1>7, <1>8, <1>11 DEF IInv, Shape, Saves, IsSave, IsTable, IsRow
<1>14. OneClass'
  BY <1>3, <1>4, <1>7, <1>9, <1>11 DEF IInv, OneClass
<1>15. LostForGood'
  BY <1>3, <1>4, <1>7, <1>8, <1>9, <1>11 DEF IInv, LostForGood, Stored
<1>16. Fresh'
  <2>1. SUFFICES ASSUME NEW v \in Workers, Saves(v)', NEW k \in DOMAIN desk'[v].rows,
                        Stored(k, desk'[v].rows[k]), desk'[v].rows[k].class \notin mixed'
                 PROVE  /\ progress[k].remarks \subseteq desk'[v].rows[k].remarks
                        /\ ~Ranks(v)' => desk'[v].rows[k].position = progress[k].position
    BY <1>8 DEF Fresh, Stored
  <2>2. CASE v = w
    BY <2>2, <1>3, <1>4, <1>9, <2>1
  <2>3. CASE v # w
    <3>1. Holds(v, desk[v].rows[k].class)
      BY <2>3, <2>1, <1>7 DEF Holds, Saves
    <3> QED
      BY <3>1, <2>3, <1>7, <1>11, <1>12, <2>1 DEF IInv, Fresh
  <2> QED
    BY <2>2, <2>3
<1>17. FairOnce'
  <2>1. SUFFICES ASSUME NEW v \in Workers, NEW d \in Classes, d \notin mixed', Ranking(v, d)',
                        NEW j \in RowsIn(d), NEW k \in RowsIn(d)
                 PROVE  Agree(j, k, Coming(v, j)', Coming(v, k)')
    BY <1>8 DEF FairOnce, RowsIn, Agree
  <2>2. CASE v = w
    <3>1. d = c
      BY <2>1, <2>2, <1>10
    <3>2. Coming(v, j)' = rank[j[1]] /\ Coming(v, k)' = rank[k[1]]
      BY <3>1, <2>1, <2>2, <1>3, <1>4, <1>9 DEF Coming
    <3> QED
      BY <3>1, <3>2, <2>1, <1>5, <1>6 DEF Agree
  <2>3. CASE v # w
    <3>1. Ranking(v, d) /\ d \notin mixed
      BY <2>1, <2>3, <1>11, <1>12 DEF Ranking
    <3>2. Coming(v, j)' = Coming(v, j) /\ Coming(v, k)' = Coming(v, k)
      BY <2>3, <1>7, <1>8 DEF Coming
    <3> QED
      BY <3>1, <3>2, <2>1 DEF IInv, FairOnce
  <2> QED
    BY <2>2, <2>3
<1>18. FairNow'
  <2>1. SUFFICES ASSUME NEW d \in Classes, d \notin mixed', \A v \in Workers : ~Ranking(v, d)',
                        NEW j \in RowsIn(d), NEW k \in RowsIn(d)
                 PROVE  Agree(j, k, progress[j].position, progress[k].position)
    BY <1>8 DEF FairNow, RowsIn, Agree
  <2>2. d # c /\ d \notin mixed
    BY <2>1, <1>8, <1>10
  <2>3. \A v \in Workers : ~Ranking(v, d)
    BY <2>1, <1>9, <1>11 DEF Ranking
  <2> QED
    BY <2>1, <2>2, <2>3 DEF IInv, FairNow
<1> QED
  BY <1>13, <1>14, <1>15, <1>16, <1>17, <1>18 DEF IInv

(* Attendance inserts a row without place or remarks, and nobody holds it. *)
LEMMA CreateInv ==
  ASSUME IInv,
         NEW w \in Workers, CreateProgress(w)
  PROVE  IInv'
<1> DEFINE key == desk[w].key
           class == desk[w].class
<1>1. Take(w, NoTask) /\ desk[w].pc = "create" /\ gone' = gone /\ mixed' = mixed
  BY DEF CreateProgress
<1>2. ~Ranks(w) /\ NoTask.pc # "save"
  BY <1>1 DEF Ranks, NoTask
<1>3. CASE ~Insertable(key, class)
  <2>1. progress' = progress
    BY <1>3 DEF CreateProgress
  <2> QED
    BY <2>1, <1>1, <1>2, LeaveInv
<1>4. CASE Insertable(key, class)
  <2>1. progress' = [j \in DOMAIN progress \cup {key} |->
                       IF j = key THEN NewRow(class) ELSE progress[j]]
    BY <1>4 DEF CreateProgress
  <2>2. /\ key \notin DOMAIN progress /\ key[2] \notin gone /\ class \notin gone
    BY <1>4 DEF Insertable
  <2> HIDE DEF key, class
  <2>3. /\ DOMAIN progress' = DOMAIN progress \cup {key}
        /\ progress'[key] = NewRow(class)
        /\ \A j \in DOMAIN progress : j # key /\ progress'[j] = progress[j]
    BY <2>1, <2>2
  <2>4. /\ desk' = [v \in Workers |-> desk'[v]]
        /\ desk'[w] = NoTask
        /\ \A v \in Workers \ {w} : desk'[v] = desk[v]
    BY <1>1, OthersStay DEF IInv
  <2>5. \A v \in Workers : /\ Ranks(v)' <=> Ranks(v)
                           /\ Saves(v)' <=> Saves(v)
                           /\ Saves(v) => desk'[v] = desk[v]
                           /\ \A d : Ranking(v, d)' <=> Ranking(v, d)
    BY <2>4, <1>1 DEF Ranks, Saves, Ranking, Holds, NoTask
  <2>6. \A v \in Workers : Saves(v) =>
          \A k \in DOMAIN desk[v].rows :
            /\ Stored(k, desk[v].rows[k])' <=> Stored(k, desk[v].rows[k])
            /\ k = key => desk[v].rows[k].class # class
    <3>1. SUFFICES ASSUME NEW v \in Workers, Saves(v), NEW k \in DOMAIN desk[v].rows
                   PROVE  /\ Stored(k, desk[v].rows[k])' <=> Stored(k, desk[v].rows[k])
                          /\ k = key => desk[v].rows[k].class # class
      OBVIOUS
    <3>2. desk'[v] = desk[v]
      BY <2>5, <3>1
    <3>3. CASE k = key
      <4>1. ~Stored(k, desk[v].rows[k])
        BY <3>3, <2>2 DEF Stored
      <4>2. desk[v].rows[k].class \in gone
        BY <4>1, <3>1, <3>3, <2>2 DEF IInv, LostForGood
      <4>3. desk[v].rows[k].class # class
        BY <4>2, <2>2
      <4>4. progress'[k].class = class
        BY <2>3, <3>3 DEF NewRow
      <4> QED
        BY <4>1, <4>3, <4>4, <3>2 DEF Stored
    <3>4. CASE k # key
      BY <3>4, <3>2, <2>3 DEF Stored
    <3> QED
      BY <3>3, <3>4
  <2>7. Shape'
    BY <2>1, <2>3, <2>4, <2>5 DEF IInv, Shape, IsTable, IsRow, NewRow
  <2>8. OneClass'
    BY <2>5 DEF IInv, OneClass, Ranks, Saves
  <2>9. LostForGood'
    BY <2>5, <2>6, <1>1 DEF IInv, LostForGood
  <2>10. Fresh'
    <3>1. SUFFICES ASSUME NEW v \in Workers, Saves(v), NEW k \in DOMAIN desk[v].rows,
                          Stored(k, desk[v].rows[k]), desk[v].rows[k].class \notin mixed
                   PROVE  /\ progress'[k].remarks \subseteq desk[v].rows[k].remarks
                          /\ ~Ranks(v) => desk[v].rows[k].position = progress'[k].position
      BY <2>5, <2>6, <1>1 DEF Fresh
    <3>2. progress'[k] = progress[k]
      BY <3>1, <2>3 DEF Stored
    <3> QED
      BY <3>1, <3>2 DEF IInv, Fresh
  <2>11. \A d : RowsIn(d)' \subseteq RowsIn(d) \cup {key}
    BY <2>3 DEF RowsIn
  <2>12. progress'[key].position = 0
    BY <2>3 DEF NewRow
  <2>13. \A d, k : k \in RowsIn(d)' /\ k # key => k \in RowsIn(d) /\ progress'[k] = progress[k]
    BY <2>3 DEF RowsIn
  <2>14. FairOnce'
    <3>1. SUFFICES ASSUME NEW v \in Workers, NEW d \in Classes, d \notin mixed, Ranking(v, d),
                          NEW j \in RowsIn(d)', NEW k \in RowsIn(d)'
                   PROVE  Agree(j, k, Coming(v, j)', Coming(v, k)')
      BY <2>5, <1>1 DEF FairOnce, Agree
    <3>2. Saves(v) /\ desk'[v] = desk[v] /\ Ranks(v)
      BY <3>1, <2>5 DEF Ranking, Ranks, Saves
    <3>3. key \in RowsIn(d)' => key \notin DOMAIN desk[v].rows
      <4>1. SUFFICES ASSUME key \in RowsIn(d)', key \in DOMAIN desk[v].rows
                     PROVE  FALSE
        OBVIOUS
      <4>2. d = class
        BY <4>1, <2>3 DEF RowsIn, NewRow
      <4>3. PICK i \in DOMAIN desk[v].rows : desk[v].rows[i].class = d
        BY <3>1 DEF Ranking, Holds
      <4>4. desk[v].rows[key].class = d
        BY <4>1, <4>3, <3>2 DEF IInv, OneClass
      <4> QED
        BY <4>1, <4>2, <4>4, <3>2, <2>6
    <3>4. \A i \in RowsIn(d)' : i = key => Coming(v, i)' = 0
      BY <3>2, <3>3, <2>12 DEF Coming
    <3>5. \A i \in RowsIn(d)' : i # key => i \in RowsIn(d) /\ Coming(v, i)' = Coming(v, i)
      BY <3>2, <2>13 DEF Coming
    <3> QED
      BY <3>1, <3>4, <3>5 DEF Agree, IInv, FairOnce
  <2>15. FairNow'
    <3>1. SUFFICES ASSUME NEW d \in Classes, d \notin mixed, \A v \in Workers : ~Ranking(v, d),
                          NEW j \in RowsIn(d)', NEW k \in RowsIn(d)'
                   PROVE  Agree(j, k, progress'[j].position, progress'[k].position)
      BY <2>5, <1>1 DEF FairNow, Agree
    <3> QED
      BY <3>1, <2>12, <2>13 DEF Agree, IInv, FairNow
  <2> QED
    BY <2>7, <2>8, <2>9, <2>10, <2>14, <2>15 DEF IInv
<1> QED
  BY <1>3, <1>4

(* A row is written back: where nobody else holds rows of the class, the    *)
(* place the table will have when the request is through does not change.   *)
Writes(w, k) ==
    LET r == desk[w]
        row == r.rows[k]
        left == DOMAIN r.rows \ {k}
    IN  /\ Stored(k, row)
        /\ progress' = [progress EXCEPT ![k] = row]
        /\ Take(w, IF left = {} THEN AllSaved(r)
                     ELSE [r EXCEPT !.rows = [j \in left |-> r.rows[j]]])
        /\ mixed' = IF Alone(w, row.class) THEN mixed ELSE mixed \cup {row.class}

LEMMA WriteInv ==
  ASSUME IInv,
         NEW w \in Workers, Saves(w),
         NEW k \in DOMAIN desk[w].rows, Writes(w, k), gone' = gone
  PROVE  IInv'
<1> DEFINE rows == desk[w].rows
           row == rows[k]
           left == DOMAIN rows \ {k}
<1>1. /\ k \in DOMAIN progress /\ progress[k].class = row.class
      /\ DOMAIN progress' = DOMAIN progress
      /\ progress'[k] = row
      /\ \A j \in DOMAIN progress \ {k} : progress'[j] = progress[j]
      /\ IsTable(progress')
  BY DEF Writes, Stored, IInv, Shape, Saves, IsSave, IsTable
<1>2. \A j \in DOMAIN progress : progress'[j].class = progress[j].class
  BY <1>1
<1>3. \A d : RowsIn(d)' = RowsIn(d)
  BY <1>1, <1>2 DEF RowsIn
<1>4. /\ mixed \subseteq mixed'
      /\ row.class \notin mixed' => \A v \in Workers \ {w} : ~Holds(v, row.class)
  BY DEF Writes, Alone
<1>5. /\ desk' = [v \in Workers |-> desk'[v]]
      /\ desk'[w] = IF left = {} THEN AllSaved(desk[w])
                    ELSE [desk[w] EXCEPT !.rows = [j \in left |-> rows[j]]]
      /\ \A v \in Workers \ {w} : desk'[v] = desk[v]
  BY OthersStay DEF Writes, IInv
<1>6. /\ IsSave(desk[w]) /\ desk[w].pc = "save"
  BY DEF IInv, Shape, Saves
<1>7. left # {} =>
        /\ IsSave(desk'[w]) /\ desk'[w].then = desk[w].then /\ desk'[w].pc = "save"
        /\ DOMAIN desk'[w].rows = left
        /\ \A j \in left : desk'[w].rows[j] = rows[j]
  <2>1. SUFFICES ASSUME left # {} PROVE <1>7!2
    OBVIOUS
  <2>2. desk'[w] = [pc |-> "save", rows |-> [j \in left |-> rows[j]],
                    then |-> desk[w].then, report |-> desk[w].report]
    BY <2>1, <1>5, <1>6 DEF IsSave
  <2>3. IsTable([j \in left |-> rows[j]])
    BY <1>6 DEF IsSave, IsTable, IsRow
  <2> QED
    BY <2>2, <2>3, <1>6 DEF IsSave
<1>8. left = {} => ~Saves(w)' /\ ~Ranks(w)'
  BY <1>5, <1>6 DEF AllSaved, NoTask, Saves, Ranks, IsSave
<1>9. /\ Saves(w)' => left # {}
      /\ Ranks(w)' => left # {} /\ Ranks(w)
      /\ left # {} => (Ranks(w)' <=> Ranks(w))
  BY <1>6, <1>7, <1>8 DEF Saves, Ranks
<1>10. \A v \in Workers \ {w} : /\ Saves(v)' <=> Saves(v)
                                /\ Ranks(v)' <=> Ranks(v)
                                /\ \A d : Ranking(v, d)' <=> Ranking(v, d)
  BY <1>5 DEF Saves, Ranks, Ranking, Holds
<1>11. \A j, x : Stored(j, x)' <=> Stored(j, x)
  BY <1>1, <1>2 DEF Stored
<1> HIDE DEF left
<1>12. Shape'
  <2>1. ASSUME NEW v \in Workers, Saves(v)'
        PROVE  IsSave(desk'[v])
    <3>1. CASE v = w
      BY <3>1, <2>1, <1>7, <1>9
    <3>2. CASE v # w
      BY <3>2, <2>1, <1>5, <1>10 DEF IInv, Shape
    <3> QED
      BY <3>1, <3>2
  <2>2. (IsTable(progress))' /\ \A x : (IsSave(desk[x]))' <=> IsSave(desk'[x])
    BY <1>1 DEF IsSave, IsTable, IsRow
  <2> QED
    BY <2>1, <2>2, <1>5 DEF Shape
<1>13. OneClass'
  <2>1. ASSUME NEW v \in Workers, Ranks(v)'
        PROVE  \A i, j \in DOMAIN desk'[v].rows : desk'[v].rows[i].class = desk'[v].rows[j].class
    <3>1. CASE v = w
      BY <3>1, <2>1, <1>7, <1>9 DEF IInv, OneClass, left
    <3>2. CASE v # w
      BY <3>2, <2>1, <1>5, <1>10 DEF IInv, OneClass
    <3> QED
      BY <3>1, <3>2
  <2> QED
    BY <2>1 DEF OneClass
<1>14. LostForGood'
  <2>1. SUFFICES ASSUME NEW v \in Workers, Saves(v)', NEW j \in DOMAIN desk'[v].rows
                 PROVE  \/ Stored(j, desk'[v].rows[j])
                        \/ j[2] \in gone \/ desk'[v].rows[j].class \in gone
    BY <1>11 DEF LostForGood
  <2>2. CASE v = w
    BY <2>1, <2>2, <1>7, <1>9 DEF IInv, LostForGood, left
  <2>3. CASE v # w
    BY <2>1, <2>3, <1>5, <1>10 DEF IInv, LostForGood
  <2> QED
    BY <2>2, <2>3
<1>15. Fresh'
  <2>1. SUFFICES ASSUME NEW v \in Workers, Saves(v)', NEW j \in DOMAIN desk'[v].rows,
                        Stored(j, desk'[v].rows[j]), desk'[v].rows[j].class \notin mixed'
                 PROVE  /\ progress'[j].remarks \subseteq desk'[v].rows[j].remarks
                        /\ ~Ranks(v)' => desk'[v].rows[j].position = progress'[j].position
    BY <1>11 DEF Fresh
  <2>2. CASE v = w
    <3>1. /\ j \in DOMAIN rows /\ j # k /\ desk'[v].rows[j] = rows[j]
          /\ Saves(w) /\ (Ranks(v)' <=> Ranks(v))
      BY <2>1, <2>2, <1>7, <1>9 DEF left
    <3>2. progress'[j] = progress[j]
      BY <3>1, <2>1, <1>1 DEF Stored
    <3> QED
      BY <3>1, <3>2, <2>1, <2>2, <1>4, <1>9 DEF IInv, Fresh
  <2>3. CASE v # w
    <3>1. desk'[v] = desk[v] /\ Saves(v) /\ (Ranks(v)' <=> Ranks(v))
      BY <2>1, <2>3, <1>5, <1>10
    <3>2. j # k
      <4>1. SUFFICES ASSUME j = k PROVE FALSE
        OBVIOUS
      <4>2. desk[v].rows[j].class = row.class
        BY <4>1, <3>1, <2>1, <1>1 DEF Stored
      <4>3. Holds(v, row.class)
        BY <4>2, <3>1, <2>1 DEF Holds, Saves
      <4> QED
        BY <4>2, <4>3, <3>1, <2>1, <2>3, <1>4
    <3>3. progress'[j] = progress[j]
      BY <3>2, <2>1, <1>1 DEF Stored
    <3> QED
      BY <3>1, <3>3, <2>1, <1>4 DEF IInv, Fresh
  <2> QED
    BY <2>2, <2>3
<1>16. Ranks(w) => \A d : Ranking(w, d) <=> d = row.class
  BY <1>6 DEF Ranking, Holds, IInv, OneClass
<1>17. ASSUME NEW d, NEW j \in RowsIn(d), d # row.class
       PROVE  progress'[j] = progress[j]
  BY <1>17, <1>1 DEF RowsIn
<1>18. FairOnce'
  <2>1. SUFFICES ASSUME NEW v \in Workers, NEW d \in Classes, d \notin mixed', Ranking(v, d)',
                        NEW i \in RowsIn(d), NEW j \in RowsIn(d)
                 PROVE  Agree(i, j, Coming(v, i)', Coming(v, j)')
    BY <1>3 DEF FairOnce, Agree
  <2>2. CASE v = w
    <3>1. Ranks(w) /\ left # {}
      BY <2>1, <2>2, <1>9 DEF Ranking
    <3>2. d = row.class
      BY <3>1, <2>1, <2>2, <1>7, <1>16 DEF Ranking, Holds, left
    <3>3. \A x \in DOMAIN progress : Coming(w, x)' = Coming(w, x)
      BY <3>1, <1>1, <1>7 DEF Coming, left
    <3>4. i \in DOMAIN progress /\ j \in DOMAIN progress
      BY DEF RowsIn
    <3> QED
      BY <3>1, <3>2, <3>3, <3>4, <2>1, <2>2, <1>4, <1>16 DEF IInv, FairOnce
  <2>3. CASE v # w
    <3>1. Ranking(v, d) /\ Holds(v, d)
      BY <2>1, <2>3, <1>10 DEF Ranking
    <3>2. d # row.class
      BY <3>1, <2>1, <2>3, <1>4
    <3>3. Coming(v, i)' = Coming(v, i) /\ Coming(v, j)' = Coming(v, j)
      BY <3>2, <2>3, <1>5, <1>17 DEF Coming
    <3> QED
      BY <3>1, <3>3, <2>1, <1>4 DEF IInv, FairOnce
  <2> QED
    BY <2>2, <2>3
<1>19. FairNow'
  <2>1. SUFFICES ASSUME NEW d \in Classes, d \notin mixed', \A v \in Workers : ~Ranking(v, d)',
                        NEW i \in RowsIn(d), NEW j \in RowsIn(d)
                 PROVE  Agree(i, j, progress'[i].position, progress'[j].position)
    BY <1>3 DEF FairNow, Agree
  <2>2. i \in DOMAIN progress /\ j \in DOMAIN progress /\ d \notin mixed
    BY <2>1, <1>4 DEF RowsIn
  <2>3. \A v \in Workers \ {w} : ~Ranking(v, d)
    BY <2>1, <1>10
  <2>4. CASE d # row.class
    <3>1. \A v \in Workers : ~Ranking(v, d)
      BY <2>3, <2>4, <1>16 DEF Ranking
    <3> QED
      BY <3>1, <2>1, <2>2, <2>4, <1>17 DEF IInv, FairNow
  <2>5. CASE d = row.class /\ Ranks(w)
    <3>1. left = {}
      <4>1. SUFFICES ASSUME left # {} PROVE FALSE
        OBVIOUS
      <4>2. PICK x \in left : TRUE
        BY <4>1
      <4>3. rows[x].class = d /\ desk'[w].rows[x] = rows[x] /\ x \in DOMAIN desk'[w].rows
        BY <4>1, <4>2, <2>5, <1>7 DEF IInv, OneClass, left
      <4>4. Ranking(w, d)'
        BY <4>1, <4>3, <2>5, <1>7, <1>9 DEF Ranking, Holds
      <4> QED
        BY <4>4, <2>1
    <3>2. \A x \in DOMAIN progress : Coming(w, x) = progress'[x].position
      BY <3>1, <1>1 DEF Coming, left
    <3> QED
      BY <3>2, <2>1, <2>2, <2>5, <1>16 DEF IInv, FairOnce
  <2>6. CASE d = row.class /\ ~Ranks(w)
    <3>1. row.position = progress[k].position
      BY <2>2, <2>6, <1>1 DEF IInv, Fresh, Stored
    <3>2. \A x \in DOMAIN progress : progress'[x].position = progress[x].position
      BY <3>1, <1>1
    <3>3. \A v \in Workers : ~Ranking(v, d)
      BY <2>3, <2>6 DEF Ranking
    <3> QED
      BY <3>2, <3>3, <2>1, <2>2 DEF IInv, FairNow
  <2> QED
    BY <2>4, <2>5, <2>6
<1> QED
  BY <1>12, <1>13, <1>14, <1>15, <1>18, <1>19 DEF IInv

(* Rows go with their course or class, for good. *)
LEMMA DropInv ==
  ASSUME IInv,
         NEW ks, Drop(ks), gone \subseteq gone',
         \A k \in DOMAIN progress \cap ks : k[2] \in gone' \/ progress[k].class \in gone'
  PROVE  IInv'
<1>1. /\ DOMAIN progress' = DOMAIN progress \ ks
      /\ \A k \in DOMAIN progress \ ks : progress'[k] = progress[k]
      /\ IsTable(progress')
  BY DEF Drop, IInv, Shape, IsTable
<1>2. desk' = desk /\ mixed' = mixed
  BY DEF Drop
<1>3. \A v \in Workers : /\ Saves(v)' <=> Saves(v)
                         /\ Ranks(v)' <=> Ranks(v)
                         /\ \A d : Ranking(v, d)' <=> Ranking(v, d)
  BY <1>2 DEF Saves, Ranks, Ranking, Holds
<1>4. \A k, row : Stored(k, row)' <=> Stored(k, row) /\ k \notin ks
  BY <1>1 DEF Stored
<1>5. \A d : /\ RowsIn(d)' \subseteq RowsIn(d)
             /\ \A k \in RowsIn(d)' : progress'[k] = progress[k]
  BY <1>1 DEF RowsIn
<1>6. Shape'
  BY <1>1, <1>2 DEF IInv, Shape, Saves, IsSave, IsTable, IsRow
<1>7. OneClass'
  BY <1>2, <1>3 DEF IInv, OneClass
<1>8. LostForGood'
  <2>1. SUFFICES ASSUME NEW v \in Workers, Saves(v), NEW k \in DOMAIN desk[v].rows
                 PROVE  \/ Stored(k, desk[v].rows[k])'
                        \/ k[2] \in gone' \/ desk[v].rows[k].class \in gone'
    BY <1>2, <1>3 DEF LostForGood, Stored
  <2>2. CASE Stored(k, desk[v].rows[k])
    BY <2>1, <2>2, <1>4, <1>2 DEF Stored
  <2>3. CASE ~Stored(k, desk[v].rows[k])
    BY <2>1, <2>3 DEF IInv, LostForGood
  <2> QED
    BY <2>2, <2>3
<1>9. Fresh'
  <2>1. SUFFICES ASSUME NEW v \in Workers, Saves(v), NEW k \in DOMAIN desk[v].rows,
                        Stored(k, desk[v].rows[k])', desk[v].rows[k].class \notin mixed
                 PROVE  /\ progress'[k].remarks \subseteq desk[v].rows[k].remarks
                        /\ ~Ranks(v) => desk[v].rows[k].position = progress'[k].position
    BY <1>2, <1>3 DEF Fresh, Stored
  <2>2. Stored(k, desk[v].rows[k]) /\ progress'[k] = progress[k]
    BY <2>1, <1>1, <1>2 DEF Stored
  <2> QED
    BY <2>1, <2>2 DEF IInv, Fresh
<1>10. FairOnce'
  <2>1. SUFFICES ASSUME NEW v \in Workers, NEW d \in Classes, d \notin mixed, Ranking(v, d),
                        NEW j \in RowsIn(d)', NEW k \in RowsIn(d)'
                 PROVE  Agree(j, k, Coming(v, j)', Coming(v, k)')
    BY <1>2, <1>3 DEF FairOnce, Agree
  <2>2. Coming(v, j)' = Coming(v, j) /\ Coming(v, k)' = Coming(v, k)
    BY <1>2, <1>5 DEF Coming
  <2> QED
    BY <2>1, <2>2, <1>5 DEF IInv, FairOnce
<1>11. FairNow'
  <2>1. SUFFICES ASSUME NEW d \in Classes, d \notin mixed, \A v \in Workers : ~Ranking(v, d),
                        NEW j \in RowsIn(d)', NEW k \in RowsIn(d)'
                 PROVE  Agree(j, k, progress'[j].position, progress'[k].position)
    BY <1>2, <1>3 DEF FairNow, Agree
  <2> QED
    BY <2>1, <1>5 DEF IInv, FairNow
<1> QED
  BY <1>6, <1>7, <1>8, <1>9, <1>10, <1>11 DEF IInv

(***************************************************************************)
(* Every step                                                               *)
(***************************************************************************)
LEMMA StartReportInv ==
  ASSUME IInv,
         NEW w \in Workers, ~Saves(w),
         NEW s, NEW todo, StartReport(w, s, todo)
  PROVE  IInv'
<1>1. PICK k \in RowsOf(s) :
        Hold(w, [j \in RowsOf(s) |-> progress[j]], "rank",
             [student |-> s, class |-> progress[k].class, todo |-> todo])
  BY DEF StartReport
<1> DEFINE rows == [j \in RowsOf(s) |-> progress[j]]
           report == [student |-> s, class |-> progress[k].class, todo |-> todo]
<1>2. IsTable(rows) /\ DOMAIN rows \subseteq DOMAIN progress
  BY DEF RowsOf, IInv, Shape, IsTable
<1>3. \A j \in DOMAIN rows : rows[j] = progress[j]
  OBVIOUS
<1>4. progress' = progress /\ gone' = gone /\ mixed' = mixed
  BY DEF StartReport
<1>5. Hold(w, rows, "rank", report)
  BY <1>1
<1> HIDE DEF rows, report
<1> QED
  BY <1>2, <1>3, <1>4, <1>5, TakeInv

(* Operations that begin. *)
LEMMA StartsInv ==
  ASSUME IInv, NEW w \in Workers, Starts(w)
  PROVE  IInv'
<1>1. desk[w] = NoTask /\ ~Saves(w) /\ ~Ranks(w)
  <2>1. desk[w] = NoTask
    BY DEF Starts, MarkAttendance, AddRemarks, UnflagProgress, ComputeAllGradesForCourse,
           ComputeClassPositions, GenerateClassReportCards, GenerateReportCard
  <2> QED
    BY <2>1 DEF NoTask, Saves, Ranks
<1>2. ASSUME NEW k, NEW c, MarkAttendance(w, k, c)
      PROVE  IInv'
  <2> DEFINE r == [pc |-> "create", key |-> k, class |-> c]
  <2>1. Take(w, r) /\ r.pc # "save" /\ progress' = progress /\ gone' = gone /\ mixed' = mixed
    BY <1>2 DEF MarkAttendance
  <2> HIDE DEF r
  <2> QED
    BY <2>1, <1>1, LeaveInv
<1>3. ASSUME NEW k, NEW r, AddRemarks(w, k, r)
      PROVE  IInv'
  <2> DEFINE rows == [j \in {k} |-> [progress[k] EXCEPT !.remarks = @ \cup {r}]]
  <2>1. k \in DOMAIN progress /\ IsRow(progress[k])
    BY <1>3 DEF AddRemarks, IInv, Shape, IsTable
  <2>2. IsTable(rows) /\ DOMAIN rows \subseteq DOMAIN progress
    BY <2>1 DEF IsTable, IsRow
  <2>3. \A j \in DOMAIN rows :
          /\ rows[j].class = progress[j].class
          /\ rows[j].position = progress[j].position
          /\ progress[j].remarks \subseteq rows[j].remarks
    BY <2>1 DEF IsRow
  <2>4. /\ Hold(w, rows, "end", NoReport)
        /\ progress' = progress /\ gone' = gone /\ mixed' = mixed
    BY <1>3 DEF AddRemarks
  <2> HIDE DEF rows
  <2> QED
    BY <2>2, <2>3, <2>4, <1>1, TakeInv
<1>4. ASSUME NEW k, UnflagProgress(w, k)
      PROVE  IInv'
  <2> DEFINE rows == [j \in {k} |-> progress[k]]
  <2>1. k \in DOMAIN progress /\ IsRow(progress[k])
    BY <1>4 DEF UnflagProgress, IInv, Shape, IsTable
  <2>2. /\ IsTable(rows) /\ DOMAIN rows \subseteq DOMAIN progress
        /\ \A j \in DOMAIN rows : rows[j] = progress[j]
    BY <2>1 DEF IsTable
  <2>3. /\ Hold(w, rows, "end", NoReport)
        /\ progress' = progress /\ gone' = gone /\ mixed' = mixed
    BY <1>4 DEF UnflagProgress
  <2> HIDE DEF rows
  <2> QED
    BY <2>2, <2>3, <1>1, TakeInv
<1>5. ASSUME NEW course, ComputeAllGradesForCourse(w, course)
      PROVE  IInv'
  <2> DEFINE listed == {k \in DOMAIN progress : k[2] = course}
             rows == [k \in listed |-> progress[k]]
  <2>1. /\ IsTable(rows) /\ DOMAIN rows \subseteq DOMAIN progress
        /\ \A j \in DOMAIN rows : rows[j] = progress[j]
    BY DEF IInv, Shape, IsTable
  <2>2. /\ Hold(w, rows, "end", NoReport)
        /\ progress' = progress /\ gone' = gone /\ mixed' = mixed
    BY <1>5 DEF ComputeAllGradesForCourse
  <2> HIDE DEF rows
  <2> QED
    BY <2>1, <2>2, <1>1, TakeInv
<1>6. ASSUME NEW c, ComputeClassPositions(w, c)
      PROVE  IInv'
  BY <1>6, <1>1, RankInv DEF ComputeClassPositions
<1>7. ASSUME NEW c, GenerateClassReportCards(w, c)
      PROVE  IInv'
  <2>1. /\ Take(w, NextOrIdle(StudentsIn(c))) /\ NextOrIdle(StudentsIn(c)).pc # "save"
        /\ progress' = progress /\ gone' = gone /\ mixed' = mixed
    BY <1>7, NextOrIdleHoldsNothing DEF GenerateClassReportCards
  <2> QED
    BY <2>1, <1>1, LeaveInv
<1>8. ASSUME NEW s, GenerateReportCard(w, s)
      PROVE  IInv'
  BY <1>8, <1>1, StartReportInv DEF GenerateReportCard
<1> QED
  BY <1>2, <1>3, <1>4, <1>5, <1>6, <1>7, <1>8 DEF Starts

(* An error ends the request, or the student's part of it. *)
LEMMA FailInv ==
  ASSUME IInv, NEW w \in Workers, Fail(w), progress' = progress, gone' = gone
  PROVE  IInv'
<1> DEFINE r == CASE desk[w].pc \in {"idle", "create"} -> NoTask
                  [] desk[w].pc = "next" -> NextOrIdle(desk[w].todo)
                  [] OTHER -> NextOrIdle(desk[w].report.todo)
<1>1. Take(w, r)
  BY DEF Fail
<1>2. r.pc # "save"
  BY NextOrIdleHoldsNothing DEF NoTask
<1>3. mixed \subseteq mixed' /\ (Ranks(w) => HeldClasses(w) \subseteq mixed')
  BY DEF Fail
<1> HIDE DEF r
<1> QED
  BY <1>1, <1>2, <1>3, LeaveInv

(* Operations that go on. *)
LEMMA ContinuesInv ==
  ASSUME IInv, NEW w \in Workers, Continues(w)
  PROVE  IInv'
<1>1. CASE CreateProgress(w)
  BY <1>1, CreateInv
<1>2. CASE UpdateProgress(w)
  <2>1. Saves(w) /\ gone' = gone
    BY <1>2 DEF UpdateProgress, Saves
  <2>2. PICK k \in DOMAIN desk[w].rows :
          \/ Writes(w, k)
          \/ Fail(w) /\ progress' = progress
    BY <1>2 DEF UpdateProgress, Writes
  <2> QED
    BY <2>1, <2>2, WriteInv, FailInv
<1>3. CASE NextStudent(w)
  <2>1. ~Saves(w) /\ ~Ranks(w)
    BY <1>3 DEF NextStudent, Saves, Ranks
  <2>2. PICK s \in desk[w].todo :
          LET todo == desk[w].todo \ {s} IN
          \/ StartReport(w, s, todo)
          \/ /\ Take(w, NextOrIdle(todo))
             /\ progress' = progress /\ gone' = gone /\ mixed' = mixed
    BY <1>3 DEF NextStudent
  <2> QED
    BY <2>1, <2>2, NextOrIdleHoldsNothing, LeaveInv, StartReportInv
<1>4. CASE Rank(w)
  <2> DEFINE report == desk[w].report
             r == [pc |-> "refresh", report |-> report]
  <2>1. ~Saves(w) /\ ~Ranks(w)
    BY <1>4 DEF Rank, Saves, Ranks
  <2>2. \/ RankClass(w, report.class, "refresh", report)
        \/ Take(w, r) /\ progress' = progress /\ gone' = gone /\ mixed' = mixed
    BY <1>4 DEF Rank
  <2>3. r.pc # "save"
    OBVIOUS
  <2> HIDE DEF r, report
  <2> QED
    BY <2>1, <2>2, <2>3, LeaveInv, RankInv
<1>5. CASE Refresh(w)
  <2>1. PICK r : Take(w, r) /\ r.pc # "save"
    BY <1>5 DEF Refresh
  <2>2. ~Ranks(w) /\ progress' = progress /\ gone' = gone /\ mixed' = mixed
    BY <1>5 DEF Refresh, Ranks
  <2> QED
    BY <2>1, <2>2, LeaveInv
<1>6. CASE CountStudents(w)
  <2>1. PICK r : Take(w, r) /\ r.pc # "save"
    BY <1>6 DEF CountStudents
  <2>2. ~Ranks(w) /\ progress' = progress /\ gone' = gone /\ mixed' = mixed
    BY <1>6 DEF CountStudents, Ranks
  <2> QED
    BY <2>1, <2>2, LeaveInv
<1>7. CASE CreateReportCard(w)
  <2>1. /\ Take(w, NextOrIdle(desk[w].report.todo))
        /\ ~Ranks(w) /\ progress' = progress /\ gone' = gone /\ mixed' = mixed
    BY <1>7 DEF CreateReportCard, Ranks
  <2> QED
    BY <2>1, NextOrIdleHoldsNothing, LeaveInv
<1>8. CASE GiveUp(w)
  BY <1>8, FailInv DEF GiveUp
<1> QED
  BY <1>1, <1>2, <1>3, <1>4, <1>5, <1>6, <1>7, <1>8 DEF Continues

LEMMA DeletionsInv ==
  ASSUME IInv,
         \/ \E course \in Courses : DeleteCourse(course)
         \/ \E c \in Classes : DeleteClass(c)
  PROVE  IInv'
<1>1. ASSUME NEW course \in Courses, DeleteCourse(course)
      PROVE  IInv'
  <2> DEFINE ks == {k \in DOMAIN progress : k[2] = course}
  <2>1. Drop(ks) /\ gone' = gone \cup {course}
    BY <1>1 DEF DeleteCourse
  <2>2. \A k \in ks : k[2] \in gone'
    BY <2>1
  <2> HIDE DEF ks
  <2> QED
    BY <2>1, <2>2, DropInv
<1>2. ASSUME NEW c \in Classes, DeleteClass(c)
      PROVE  IInv'
  <2> DEFINE dropped == {course \in Courses : ClassOf[course] = c}
             ks == RowsIn(c) \cup {k \in DOMAIN progress : k[2] \in dropped}
  <2>1. Drop(ks) /\ gone' = gone \cup {c} \cup dropped
    BY <1>2 DEF DeleteClass
  <2>2. \A k \in ks : k[2] \in gone' \/ progress[k].class \in gone'
    BY <2>1 DEF RowsIn
  <2> HIDE DEF ks, dropped
  <2> QED
    BY <2>1, <2>2, DropInv
<1> QED
  BY <1>1, <1>2

LEMMA NextInv ==
  ASSUME IInv, [ProgressNext]_progressVars
  PROVE  IInv'
<1>1. CASE ProgressNext
  BY <1>1, StartsInv, ContinuesInv, DeletionsInv DEF ProgressNext
<1>2. CASE UNCHANGED progressVars
  BY <1>2 DEF progressVars, IInv, Shape, OneClass, LostForGood, Fresh, FairOnce, FairNow, Coming,
              RowsIn, Ranking, Ranks, Holds, Saves, Stored, IsTable, IsRow, IsSave, Agree
<1> QED
  BY <1>1, <1>2

LEMMA InitInv == ProgressInit => IInv
<1> SUFFICES ASSUME ProgressInit PROVE IInv
  OBVIOUS
<1>1. /\ DOMAIN progress = {} /\ desk = [w \in Workers |-> NoTask]
      /\ progress = [k \in DOMAIN progress |-> progress[k]]
  BY DEF ProgressInit
<1>2. \A w \in Workers : ~Saves(w) /\ ~Ranks(w)
  BY <1>1 DEF Saves, Ranks, NoTask
<1> QED
  BY <1>1, <1>2 DEF IInv, Shape, OneClass, LostForGood, Fresh, FairOnce, FairNow, Ranking,
                    RowsIn, IsTable

(***************************************************************************)
(* Theorems                                                                 *)
(***************************************************************************)
(* The invariant holds of every reachable state, whatever number of         *)
(* requests rank, grade and remark on the same rows.                        *)
THEOREM Inductive == ProgressSpec => []IInv
<1>1. IInv /\ [ProgressNext]_progressVars => IInv'
  BY NextInv
<1> QED
  BY <1>1, InitInv, PTL DEF ProgressSpec

(* Two students of a class do not share a place and none has two, unless    *)
(* requests wrote over each other there (ComputeClassPositions).            *)
THEOREM RanksStayFair == ProgressSpec => []RanksAreFair
<1>1. IInv => RanksAreFair
  <2>1. \A w \in Workers : \A c : Ranking(w, c) => Holds(w, c)
    BY DEF Ranking
  <2> QED
    BY <2>1 DEF IInv, FairNow, RanksAreFair, Agree
<1> QED
  BY <1>1, Inductive, PTL

(* A remark goes only with its row, or when another request wrote over it   *)
(* (ProgressRepository.Update).                                             *)
THEOREM RemarksAreKept == ProgressSpec => RemarksStay
<1> DEFINE Stay ==
      \A k \in DOMAIN progress \cap DOMAIN progress' :
        progress[k].class \notin mixed' => progress[k].remarks \subseteq progress'[k].remarks
<1>1. IInv /\ [ProgressNext]_progressVars => [Stay]_progressVars
  <2> SUFFICES ASSUME IInv, ProgressNext,
                      NEW k \in DOMAIN progress, k \in DOMAIN progress',
                      progress[k].class \notin mixed',
                      progress'[k] # progress[k]
               PROVE  progress[k].remarks \subseteq progress'[k].remarks
    OBVIOUS
  <2>1. PICK w \in Workers : UpdateProgress(w)
    <3>1. CASE \E w \in Workers : Starts(w)
      BY <3>1 DEF Starts, MarkAttendance, AddRemarks, UnflagProgress,
                  ComputeAllGradesForCourse, ComputeClassPositions, RankClass,
                  GenerateClassReportCards, GenerateReportCard, StartReport
    <3>2. ASSUME NEW w \in Workers, CreateProgress(w)
          PROVE  FALSE
      BY <3>2 DEF CreateProgress, Insertable
    <3>3. ASSUME NEW w \in Workers, Continues(w), ~UpdateProgress(w)
          PROVE  FALSE
      BY <3>2, <3>3 DEF Continues, NextStudent, StartReport, Rank, RankClass, Refresh,
                        CountStudents, CreateReportCard, GiveUp
    <3>4. CASE \/ \E course \in Courses : DeleteCourse(course)
               \/ \E c \in Classes : DeleteClass(c)
      BY <3>4 DEF DeleteCourse, DeleteClass, Drop
    <3> QED
      BY <3>1, <3>3, <3>4 DEF ProgressNext
  <2>2. PICK j \in DOMAIN desk[w].rows : Writes(w, j) /\ Saves(w)
    BY <2>1 DEF UpdateProgress, Writes, Saves
  <2>3. j = k /\ progress'[k] = desk[w].rows[k] /\ Stored(k, desk[w].rows[k])
    BY <2>2 DEF Writes, IInv, Shape, IsTable
  <2>4. desk[w].rows[k].class \notin mixed
    BY <2>2, <2>3 DEF Writes, Stored
  <2> QED
    BY <2>2, <2>3, <2>4 DEF IInv, Fresh
<1> QED
  BY <1>1, Inductive, PTL DEF ProgressSpec, RemarksStay

(***************************************************************************)
(* A sum of naturals counts.  SumFunctionOnSet recurs on an arbitrary       *)
(* choice of the next element; what it comes to is the number of Slots, a   *)
(* slot for each unit.  Counts of sets are easier to compare than sums.    *)
(***************************************************************************)
Slots(f, T) == {p \in T \X Nat : p[2] \in 1..f[p[1]]}

(* The element the recursion takes next. *)
Pick(T) == CHOOSE x \in T : TRUE

(* g adds f up over the subsets of S: the equation SumFunctionOnSet recurs by. *)
IsSum(g, f, S) ==
    g = [T \in SUBSET S |-> IF T = {} THEN 0 ELSE f[Pick(T)] + g[T \ {Pick(T)}]]

LEMMA SumChosen ==
  \A f, S : SumFunctionOnSet(f, S) = (CHOOSE g : IsSum(g, f, S))[S]
  BY DEF SumFunctionOnSet, FoldFunctionOnSet, MapThenFoldSet, IsSum, Pick

(* A non-empty collection of subsets of a finite set has a minimal member. *)
LEMMA SmallestSubset ==
  ASSUME NEW S, IsFiniteSet(S), NEW C, C \subseteq SUBSET S, C # {}
  PROVE  \E T \in C : \A U \in C : U \subseteq T => U = T
<1>1. IsWellFoundedOn(StrictSubsetOrdering(S), SUBSET S)
  BY FS_StrictSubsetOrderingWellFounded, FS_FiniteSubsetsOfFinite
<1>2. PICK T \in C : \A U \in C : ~(<<U, T>> \in StrictSubsetOrdering(S))
  BY <1>1, WFMin
<1>3. ASSUME NEW U \in C, U \subseteq T, U # T
      PROVE  FALSE
  <2>1. <<U, T>> \in (SUBSET S) \X (SUBSET S)
    OBVIOUS
  <2>2. <<U, T>> \in StrictSubsetOrdering(S)
    BY <1>3, <2>1 DEF StrictSubsetOrdering
  <2> QED
    BY <1>2, <2>2
<1> QED
  BY <1>3

(* The slots of one element more. *)
LEMMA SlotsOfOneMore ==
  ASSUME NEW f, NEW T, NEW x \in T, f[x] \in Nat, IsFiniteSet(Slots(f, T \ {x}))
  PROVE  /\ IsFiniteSet(Slots(f, T))
         /\ Cardinality(Slots(f, T)) = f[x] + Cardinality(Slots(f, T \ {x}))
<1> DEFINE A == Slots(f, T \ {x})
           B == {x} \X (1..f[x])
           h == [i \in 1..f[x] |-> <<x, i>>]
<1>1. Slots(f, T) = A \cup B /\ A \cap B = {}
  BY DEF Slots
<1>2. h \in Bijection(1..f[x], B)
  <2>1. h \in [1..f[x] -> B] /\ \A i \in 1..f[x] : h[i] = <<x, i>>
    OBVIOUS
  <2>2. \A p \in B : \E i \in 1..f[x] : p = <<x, i>>
    OBVIOUS
  <2> HIDE DEF h
  <2>3. \A i, j \in 1..f[x] : h[i] = h[j] => i = j
    BY <2>1
  <2>4. \A p \in B : \E i \in 1..f[x] : h[i] = p
    BY <2>1, <2>2
  <2>5. h \in Injection(1..f[x], B)
    BY <2>1, <2>3 DEF Injection, IsInjective
  <2>6. h \in Surjection(1..f[x], B)
    BY <2>1, <2>4 DEF Surjection
  <2> QED
    BY <2>5, <2>6 DEF Bijection
<1>3. IsFiniteSet(1..f[x]) /\ Cardinality(1..f[x]) = f[x]
  BY FS_Interval
<1>4. IsFiniteSet(B) /\ Cardinality(B) = f[x]
  BY <1>2, <1>3, FS_Bijection DEF ExistsBijection
<1>5. IsFiniteSet(A)
  OBVIOUS
<1> HIDE DEF A, B, h
<1>6. Cardinality(A) \in Nat
  BY <1>5, FS_CardinalityType
<1>7. /\ IsFiniteSet(A \cup B)
      /\ Cardinality(A \cup B) = Cardinality(A) + Cardinality(B) - Cardinality(A \cap B)
  BY <1>4, <1>5, FS_Union
<1>8. Cardinality(A \cap B) = 0
  BY <1>1, FS_EmptySet
<1>9. Cardinality(Slots(f, T)) = f[x] + Cardinality(A)
  BY <1>1, <1>4, <1>6, <1>7, <1>8
<1> QED
  BY <1>1, <1>7, <1>9 DEF A

LEMMA SlotsFinite ==
  ASSUME NEW f, NEW S, IsFiniteSet(S), \A x \in S : f[x] \in Nat
  PROVE  \A T \in SUBSET S : IsFiniteSet(Slots(f, T))
<1> DEFINE C == {T \in SUBSET S : ~IsFiniteSet(Slots(f, T))}
<1>1. ASSUME C # {}
      PROVE  FALSE
  <2>1. C \subseteq SUBSET S
    OBVIOUS
  <2>2. PICK T \in C : \A U \in C : U \subseteq T => U = T
    <3> HIDE DEF C
    <3> QED
      BY <1>1, <2>1, SmallestSubset
  <2>3. T # {}
    <3>1. Slots(f, {}) = {}
      BY DEF Slots
    <3> QED
      BY <3>1, FS_EmptySet
  <2>4. PICK x : x \in T
    BY <2>3
  <2>5. IsFiniteSet(Slots(f, T \ {x}))
    BY <2>2, <2>4
  <2>6. IsFiniteSet(Slots(f, T))
    BY <2>4, <2>5, SlotsOfOneMore
  <2> QED
    BY <2>6
<1> QED
  BY <1>1

LEMMA SumCountsSlots ==
  ASSUME NEW f, NEW S, IsFiniteSet(S), \A x \in S : f[x] \in Nat
  PROVE  /\ IsFiniteSet(Slots(f, S))
         /\ SumFunctionOnSet(f, S) = Cardinality(Slots(f, S))
<1> DEFINE k == [T \in SUBSET S |-> Cardinality(Slots(f, T))]
           g == CHOOSE h : IsSum(h, f, S)
<1>1. \A T \in SUBSET S : IsFiniteSet(Slots(f, T))
  BY SlotsFinite
<1>2. \A T \in SUBSET S : T # {} =>
        /\ Pick(T) \in T
        /\ k[T] = f[Pick(T)] + k[T \ {Pick(T)}]
  <2> SUFFICES ASSUME NEW T \in SUBSET S, T # {}
               PROVE  Pick(T) \in T /\ k[T] = f[Pick(T)] + k[T \ {Pick(T)}]
    OBVIOUS
  <2>1. Pick(T) \in T
    BY DEF Pick
  <2>2. T \ {Pick(T)} \in SUBSET S
    OBVIOUS
  <2>3. Cardinality(Slots(f, T)) = f[Pick(T)] + Cardinality(Slots(f, T \ {Pick(T)}))
    BY <1>1, <2>1, <2>2, SlotsOfOneMore
  <2> QED
    BY <2>1, <2>2, <2>3
<1>3. k[{}] = 0
  <2>1. Slots(f, {}) = {}
    BY DEF Slots
  <2> QED
    BY <2>1, FS_EmptySet
<1>4. IsSum(k, f, S)
  <2>1. \A T \in SUBSET S : k[T] = IF T = {} THEN 0 ELSE f[Pick(T)] + k[T \ {Pick(T)}]
    BY <1>2, <1>3
  <2>2. k = [T \in SUBSET S |-> k[T]]
    OBVIOUS
  <2> HIDE DEF k
  <2> QED
    BY <2>1, <2>2 DEF IsSum
<1>5. IsSum(g, f, S)
  BY <1>4
<1> HIDE DEF g, k
<1>6. /\ g[{}] = 0
      /\ \A T \in SUBSET S : T # {} => g[T] = f[Pick(T)] + g[T \ {Pick(T)}]
  <2> DEFINE G == [T \in SUBSET S |-> IF T = {} THEN 0 ELSE f[Pick(T)] + g[T \ {Pick(T)}]]
  <2>1. g = G
    BY <1>5 DEF IsSum
  <2>2. /\ G[{}] = 0
        /\ \A T \in SUBSET S : T # {} => G[T] = f[Pick(T)] + g[T \ {Pick(T)}]
    OBVIOUS
  <2> HIDE DEF G
  <2> QED
    BY <2>1, <2>2
<1>7. g[S] = k[S]
  <2> DEFINE C == {T \in SUBSET S : g[T] # k[T]}
  <2>1. ASSUME C # {}
        PROVE  FALSE
    <3>1. C \subseteq SUBSET S
      OBVIOUS
    <3>2. PICK T \in C : \A U \in C : U \subseteq T => U = T
      <4> HIDE DEF C
      <4> QED
        BY <2>1, <3>1, SmallestSubset
    <3>3. T # {}
      BY <1>3, <1>6
    <3>4. Pick(T) \in T /\ T \ {Pick(T)} \in SUBSET S
      BY <1>2, <3>3
    <3>5. g[T \ {Pick(T)}] = k[T \ {Pick(T)}]
      BY <3>2, <3>4
    <3> QED
      BY <1>2, <1>6, <3>3, <3>5
  <2> QED
    BY <2>1
<1>8. SumFunctionOnSet(f, S) = g[S]
  BY SumChosen DEF g
<1> QED
  BY <1>1, <1>7, <1>8 DEF k

LEMMA QuotientType ==
  ASSUME NEW t \in Nat, NEW m \in Nat, m > 0
  PROVE  /\ t \div m \in Nat
         /\ \A n \in Nat : t <= m * n => t \div m <= n
<1> DEFINE q == t \div m
           e == t % m
<1>1. q \in Int /\ e \in Nat /\ t = m * q + e
  OBVIOUS
<1>2. e \in 0..(m - 1)
  OBVIOUS
<1> HIDE DEF q, e
<1>3. q >= 0
  <2>1. SUFFICES ASSUME q <= -1 PROVE FALSE
    BY <1>1
  <2>2. m * q <= m * (-1)
    BY <1>1, <2>1
  <2> QED
    BY <1>1, <1>2, <2>2
<1>4. ASSUME NEW n \in Nat, t <= m * n
      PROVE  q <= n
  <2>1. SUFFICES ASSUME q >= n + 1 PROVE FALSE
    BY <1>1
  <2>2. m * q >= m * (n + 1)
    BY <1>1, <2>1
  <2> QED
    BY <1>1, <1>4, <2>2
<1> QED
  BY <1>1, <1>3, <1>4 DEF q

(* An average is at most what everything averaged is. *)
LEMMA AverageBound ==
  ASSUME NEW f, NEW S, IsFiniteSet(S), S # {}, NEW n \in Nat,
         \A x \in S : f[x] \in Nat /\ f[x] <= n
  PROVE  /\ SumFunctionOnSet(f, S) \div Cardinality(S) \in Nat
         /\ SumFunctionOnSet(f, S) \div Cardinality(S) <= n
<1>1. /\ IsFiniteSet(Slots(f, S))
      /\ SumFunctionOnSet(f, S) = Cardinality(Slots(f, S))
  BY SumCountsSlots
<1>2. Slots(f, S) \subseteq S \X (1..n)
  BY DEF Slots
<1>3. IsFiniteSet(1..n) /\ Cardinality(1..n) = n
  BY FS_Interval
<1>4. IsFiniteSet(S \X (1..n)) /\ Cardinality(S \X (1..n)) = Cardinality(S) * n
  BY <1>3, FS_Product
<1>5. Cardinality(Slots(f, S)) <= Cardinality(S) * n
  BY <1>2, <1>4, FS_Subset
<1>6. Cardinality(S) \in Nat /\ Cardinality(S) > 0 /\ Cardinality(Slots(f, S)) \in Nat
  BY <1>1, FS_CardinalityType, FS_EmptySet
<1> PICK m \in Nat : m = Cardinality(S) /\ m > 0
  BY <1>6
<1> PICK t \in Nat : t = Cardinality(Slots(f, S))
  BY <1>6
<1>7. t <= m * n
  BY <1>5
<1>8. t \div m \in Nat /\ t \div m <= n
  BY <1>7, QuotientType
<1> QED
  BY <1>1, <1>8

LEMMA AverageType ==
  ASSUME NEW f, NEW S, IsFiniteSet(S), S # {}, \A x \in S : f[x] \in Nat
  PROVE  SumFunctionOnSet(f, S) \div Cardinality(S) \in Nat
<1>1. /\ IsFiniteSet(Slots(f, S))
      /\ SumFunctionOnSet(f, S) = Cardinality(Slots(f, S))
  BY SumCountsSlots
<1>2. Cardinality(S) \in Nat /\ Cardinality(S) > 0 /\ Cardinality(Slots(f, S)) \in Nat
  BY <1>1, FS_CardinalityType, FS_EmptySet
<1> PICK m \in Nat : m = Cardinality(S) /\ m > 0
  BY <1>2
<1> PICK t \in Nat : t = Cardinality(Slots(f, S))
  BY <1>2
<1> QED
  BY <1>1, QuotientType

(***************************************************************************)
(* Cards                                                                    *)
(***************************************************************************)
Size(c) == Cardinality(StudentsIn(c))

(* No place beyond the size of a class that has lost nobody.                *)
Fits(row) == row.position \in Nat /\ (row.class \notin shrunk => row.position <= Size(row.class))
CardFits(card) ==
    card.classes = {card.class} /\ card.class \notin shrunk => card.position <= card.total

RequestFits(r) ==
    /\ r.pc = "create" => r.key \in Keys
    /\ r.pc = "save" => \A k \in DOMAIN r.rows : Fits(r.rows[k])
    /\ r.pc = "count" =>
         /\ r.position \in Nat
         /\ \A c : r.classes = {c} /\ c \notin shrunk => r.position <= Size(c)
    /\ r.pc = "insert" => CardFits(r.card)

CardInv ==
    /\ DOMAIN progress \subseteq Keys
    /\ \A k \in DOMAIN progress : Fits(progress[k])
    /\ \A w \in Workers : RequestFits(desk[w])
    /\ \A s \in DOMAIN cards : CardFits(cards[s])

(* Classes only grow, unless they are among those that lost rows. *)
Grows ==
    /\ DOMAIN progress' \subseteq Keys
    /\ shrunk \subseteq shrunk'
    /\ \A c : c \notin shrunk' => RowsIn(c) \subseteq RowsIn(c)'

LEMMA SizeType ==
  ASSUME DOMAIN progress \subseteq Keys, NEW c
  PROVE  /\ IsFiniteSet(StudentsIn(c)) /\ StudentsIn(c) \subseteq Students
         /\ Size(c) \in Nat
<1>1. StudentsIn(c) \subseteq Students
  BY DEF StudentsIn, RowsIn, Keys
<1> QED
  BY <1>1, SchoolAssumption, FS_Subset, FS_CardinalityType DEF Size

LEMMA SizeGrows ==
  ASSUME DOMAIN progress \subseteq Keys, Grows, NEW c, c \notin shrunk'
  PROVE  Size(c) <= Size(c)'
<1>1. StudentsIn(c) \subseteq StudentsIn(c)'
  BY DEF StudentsIn, Grows
<1>2. StudentsIn(c)' \subseteq Students
  BY DEF StudentsIn, RowsIn, Grows, Keys
<1> PICK S, T : S = StudentsIn(c) /\ T = StudentsIn(c)'
  OBVIOUS
<1>3. S \subseteq T /\ IsFiniteSet(T)
  BY <1>1, <1>2, SchoolAssumption, FS_Subset
<1>4. Cardinality(S) <= Cardinality(T)
  BY <1>3, FS_Subset
<1> QED
  BY <1>4 DEF Size

LEMMA FitsStays ==
  ASSUME DOMAIN progress \subseteq Keys, Grows
  PROVE  /\ \A row : Fits(row) => Fits(row)'
         /\ \A card : CardFits(card) => CardFits(card)'
         /\ \A r : RequestFits(r) => RequestFits(r)'
<1>1. \A c : c \notin shrunk' =>
        c \notin shrunk /\ Size(c) \in Nat /\ Size(c)' \in Nat /\ Size(c) <= Size(c)'
  <2> TAKE c
  <2>1. Size(c)' \in Nat
    <3>1. StudentsIn(c)' \subseteq Students
      BY DEF StudentsIn, RowsIn, Grows, Keys
    <3> QED
      BY <3>1, SchoolAssumption, FS_Subset, FS_CardinalityType DEF Size
  <2> QED
    BY <2>1, SizeType, SizeGrows DEF Grows
<1>2. ASSUME NEW row, Fits(row)
      PROVE  Fits(row)'
  BY <1>1, <1>2 DEF Fits
<1>3. ASSUME NEW card, CardFits(card)
      PROVE  CardFits(card)'
  BY <1>3 DEF CardFits, Grows
<1>4. ASSUME NEW r, RequestFits(r)
      PROVE  RequestFits(r)'
  <2>1. r.pc = "save" => \A k \in DOMAIN r.rows : Fits(r.rows[k])'
    BY <1>2, <1>4 DEF RequestFits
  <2>2. r.pc = "insert" => CardFits(r.card)'
    BY <1>3, <1>4 DEF RequestFits
  <2>3. r.pc = "count" => \A c : r.classes = {c} /\ c \notin shrunk' => r.position <= Size(c)'
    BY <1>1, <1>4 DEF RequestFits
  <2> QED
    BY <1>4, <2>1, <2>2, <2>3 DEF RequestFits
<1> QED
  BY <1>2, <1>3, <1>4

(* A step of a request that leaves the table. *)
LEMMA RequestStep ==
  ASSUME IInv, CardInv, NEW w \in Workers, NEW r, Take(w, r), RequestFits(r),
         UNCHANGED <<progress, cards, shrunk>>
  PROVE  CardInv'
<1>1. desk'[w] = r /\ \A v \in Workers \ {w} : desk'[v] = desk[v]
  BY OthersStay DEF IInv
<1>2. Grows
  BY DEF Grows, CardInv, RowsIn
<1>3. \A v \in Workers : RequestFits(desk'[v])
  BY <1>1 DEF CardInv
<1>4. \A v \in Workers : RequestFits(desk[v])'
  BY <1>2, <1>3, FitsStays DEF CardInv
<1>5. \A k \in DOMAIN progress : Fits(progress[k])'
  BY <1>2, FitsStays DEF CardInv
<1>6. \A s \in DOMAIN cards : CardFits(cards[s])'
  BY <1>2, FitsStays DEF CardInv
<1> QED
  BY <1>4, <1>5, <1>6 DEF CardInv

(* What a request holds fits if it is a copy, or ranked. *)
LEMMA CopiesFit ==
  ASSUME CardInv, NEW rows, NEW then, NEW report,
         \A k \in DOMAIN rows :
           k \in DOMAIN progress /\ rows[k].class = progress[k].class
           /\ rows[k].position = progress[k].position
  PROVE  RequestFits([pc |-> "save", rows |-> rows, then |-> then, report |-> report])
<1>1. \A k \in DOMAIN rows : Fits(rows[k])
  BY DEF CardInv, Fits
<1> QED
  BY <1>1 DEF RequestFits

LEMMA RankCards ==
  ASSUME IInv, CardInv, NEW w \in Workers, NEW c, NEW then, NEW report,
         RankClass(w, c, then, report)
  PROVE  CardInv'
<1>1. PICK place \in Rankings(c) :
        Hold(w, [k \in RowsIn(c) |-> Placed(progress[k], place[k])], then, report)
  BY DEF RankClass
<1>2. PICK rank \in Bijection(StudentsIn(c), 1..Size(c)) : place = [k \in RowsIn(c) |-> rank[k[1]]]
  BY DEF Rankings, Size
<1> DEFINE rows == [k \in RowsIn(c) |-> Placed(progress[k], place[k])]
<1>3. \A k \in RowsIn(c) :
        /\ place[k] \in 1..Size(c)
        /\ rows[k].class = c /\ rows[k].position = place[k]
  <2> TAKE k \in RowsIn(c)
  <2>1. k \in DOMAIN progress /\ progress[k].class = c /\ IsRow(progress[k])
    BY DEF RowsIn, IInv, Shape, IsTable
  <2>2. k[1] \in StudentsIn(c)
    BY DEF StudentsIn
  <2>3. rank \in [StudentsIn(c) -> 1..Size(c)]
    BY DEF Bijection, Injection
  <2>4. place[k] \in 1..Size(c)
    BY <1>2, <2>2, <2>3
  <2> QED
    BY <2>1, <2>4 DEF Placed, IsRow
<1> DEFINE r == [pc |-> "save", rows |-> rows, then |-> then, report |-> report]
<1>4. Size(c) \in Nat
  BY SizeType DEF CardInv
<1>5. \A k \in DOMAIN rows : Fits(rows[k])
  <2>1. DOMAIN rows = RowsIn(c)
    OBVIOUS
  <2> HIDE DEF rows
  <2> QED
    BY <1>3, <1>4, <2>1 DEF Fits
<1>6. Take(w, r)
  BY <1>1 DEF Hold
<1>7. r.pc = "save" /\ r.rows = rows
  OBVIOUS
<1> HIDE DEF r, rows
<1>8. RequestFits(r)
  BY <1>5, <1>7 DEF RequestFits
<1> QED
  BY <1>6, <1>8, RequestStep DEF RankClass

LEMMA StartReportCards ==
  ASSUME IInv, CardInv, NEW w \in Workers, NEW s, NEW todo, StartReport(w, s, todo)
  PROVE  CardInv'
<1>1. PICK k \in RowsOf(s) :
        Hold(w, [j \in RowsOf(s) |-> progress[j]], "rank",
             [student |-> s, class |-> progress[k].class, todo |-> todo])
  BY DEF StartReport
<1> DEFINE rows == [j \in RowsOf(s) |-> progress[j]]
           report == [student |-> s, class |-> progress[k].class, todo |-> todo]
<1>2. \A j \in DOMAIN rows : j \in DOMAIN progress /\ rows[j] = progress[j]
  BY DEF RowsOf
<1>3. Take(w, [pc |-> "save", rows |-> rows, then |-> "rank", report |-> report])
  BY <1>1 DEF Hold
<1> HIDE DEF rows, report
<1>4. RequestFits([pc |-> "save", rows |-> rows, then |-> "rank", report |-> report])
  BY <1>2, CopiesFit
<1> QED
  BY <1>3, <1>4, RequestStep DEF StartReport

(* What holds nothing fits. *)
LEMMA NothingFits ==
  /\ \A todo : RequestFits(NextOrIdle(todo))
  /\ RequestFits(NoTask)
  /\ \A report : RequestFits([pc |-> "refresh", report |-> report])
  BY DEF RequestFits, NextOrIdle, NoTask

LEMMA StartsCards ==
  ASSUME IInv, CardInv, NEW w \in Workers, Starts(w)
  PROVE  CardInv'
<1>1. ASSUME NEW k \in Keys, NEW c, MarkAttendance(w, k, c)
      PROVE  CardInv'
  <2> DEFINE r == [pc |-> "create", key |-> k, class |-> c]
  <2>1. Take(w, r) /\ UNCHANGED <<progress, cards, shrunk>>
    BY <1>1 DEF MarkAttendance
  <2>2. RequestFits(r)
    BY <1>1 DEF RequestFits
  <2> HIDE DEF r
  <2> QED
    BY <2>1, <2>2, RequestStep
<1>2. ASSUME NEW k, NEW r, AddRemarks(w, k, r)
      PROVE  CardInv'
  <2> DEFINE rows == [j \in {k} |-> [progress[k] EXCEPT !.remarks = @ \cup {r}]]
  <2>1. k \in DOMAIN progress /\ IsRow(progress[k])
    BY <1>2 DEF AddRemarks, IInv, Shape, IsTable
  <2>2. \A j \in DOMAIN rows :
          /\ j \in DOMAIN progress /\ rows[j].class = progress[j].class
          /\ rows[j].position = progress[j].position
    BY <2>1 DEF IsRow
  <2>3. /\ Take(w, [pc |-> "save", rows |-> rows, then |-> "end", report |-> NoReport])
        /\ UNCHANGED <<progress, cards, shrunk>>
    BY <1>2 DEF AddRemarks, Hold
  <2> HIDE DEF rows
  <2>4. RequestFits([pc |-> "save", rows |-> rows, then |-> "end", report |-> NoReport])
    BY <2>2, CopiesFit
  <2> QED
    BY <2>3, <2>4, RequestStep
<1>3. ASSUME NEW ks, ks \subseteq DOMAIN progress,
             Hold(w, [j \in ks |-> progress[j]], "end", NoReport),
             UNCHANGED <<progress, cards, shrunk>>
      PROVE  CardInv'
  <2> DEFINE rows == [j \in ks |-> progress[j]]
  <2>1. \A j \in DOMAIN rows : j \in DOMAIN progress /\ rows[j] = progress[j]
    BY <1>3
  <2>2. Take(w, [pc |-> "save", rows |-> rows, then |-> "end", report |-> NoReport])
    BY <1>3 DEF Hold
  <2> HIDE DEF rows
  <2>3. RequestFits([pc |-> "save", rows |-> rows, then |-> "end", report |-> NoReport])
    BY <2>1, CopiesFit
  <2> QED
    BY <1>3, <2>2, <2>3, RequestStep
<1>4. ASSUME NEW k, UnflagProgress(w, k)
      PROVE  CardInv'
  <2>1. [j \in {k} |-> progress[k]] = [j \in {k} |-> progress[j]]
    OBVIOUS
  <2> QED
    BY <1>3, <1>4, <2>1 DEF UnflagProgress
<1>5. ASSUME NEW course, ComputeAllGradesForCourse(w, course)
      PROVE  CardInv'
  BY <1>3, <1>5 DEF ComputeAllGradesForCourse
<1>6. ASSUME NEW c, ComputeClassPositions(w, c)
      PROVE  CardInv'
  BY <1>6, RankCards DEF ComputeClassPositions
<1>7. ASSUME NEW c, GenerateClassReportCards(w, c)
      PROVE  CardInv'
  BY <1>7, NothingFits, RequestStep DEF GenerateClassReportCards
<1>8. ASSUME NEW s, GenerateReportCard(w, s)
      PROVE  CardInv'
  BY <1>8, StartReportCards DEF GenerateReportCard
<1> QED
  BY <1>1, <1>2, <1>4, <1>5, <1>6, <1>7, <1>8 DEF Starts

(* A step that changes the table, and moves a request if any to one that    *)
(* holds nothing new.                                                       *)
LEMMA TableStep ==
  ASSUME IInv, CardInv, Grows,
         \A w \in Workers : RequestFits(desk'[w]),
         \A k \in DOMAIN progress' : Fits(progress'[k]),
         \A s \in DOMAIN cards' : CardFits(cards'[s])
  PROVE  CardInv'
<1>1. \A w \in Workers : RequestFits(desk[w])'
  BY FitsStays DEF CardInv
<1>2. \A k \in DOMAIN progress' : Fits(progress[k])'
  BY FitsStays DEF CardInv
<1>3. \A s \in DOMAIN cards' : CardFits(cards[s])'
  BY FitsStays DEF CardInv
<1> QED
  BY <1>1, <1>2, <1>3 DEF CardInv, Grows

LEMMA CreateCards ==
  ASSUME IInv, CardInv, NEW w \in Workers, CreateProgress(w)
  PROVE  CardInv'
<1> PICK k : k = desk[w].key
  OBVIOUS
<1> PICK c : c = desk[w].class
  OBVIOUS
<1>1. /\ desk[w].pc = "create" /\ Take(w, NoTask) /\ UNCHANGED <<cards, shrunk>>
      /\ k \in Keys
  BY DEF CreateProgress, CardInv, RequestFits
<1>2. \A v \in Workers : RequestFits(desk'[v])
  BY <1>1, OthersStay, NothingFits DEF CardInv, IInv
<1>3. CASE ~Insertable(k, c)
  <2>1. progress' = progress
    BY <1>3 DEF CreateProgress
  <2> QED
    BY <1>1, <2>1, NothingFits, RequestStep
<1>4. CASE Insertable(k, c)
  <2>1. progress' = [j \in DOMAIN progress \cup {k} |-> IF j = k THEN NewRow(c) ELSE progress[j]]
    BY <1>4 DEF CreateProgress
  <2>2. /\ DOMAIN progress' = DOMAIN progress \cup {k} /\ k \notin DOMAIN progress
        /\ progress'[k] = NewRow(c) /\ \A j \in DOMAIN progress : progress'[j] = progress[j]
    BY <1>4, <2>1 DEF Insertable
  <2>3. Grows
    BY <1>1, <2>2 DEF Grows, CardInv, RowsIn
  <2>4. Fits(NewRow(c))
    BY SizeType DEF Fits, NewRow, CardInv
  <2>5. \A j \in DOMAIN progress' : Fits(progress'[j])
    BY <2>2, <2>4 DEF CardInv
  <2> QED
    BY <1>1, <1>2, <2>3, <2>5, TableStep DEF CardInv
<1> QED
  BY <1>3, <1>4

LEMMA UpdateCards ==
  ASSUME IInv, CardInv, NEW w \in Workers, NEW k \in DOMAIN desk[w].rows, Writes(w, k),
         desk[w].pc = "save", UNCHANGED <<cards, shrunk>>
  PROVE  CardInv'
<1> PICK r : r = desk[w]
  OBVIOUS
<1> PICK row : row = r.rows[k]
  OBVIOUS
<1> DEFINE left == DOMAIN r.rows \ {k}
           next == IF left = {} THEN AllSaved(r)
                   ELSE [r EXCEPT !.rows = [j \in left |-> r.rows[j]]]
<1>1. /\ IsSave(r) /\ r.pc = "save" /\ RequestFits(r) /\ Stored(k, row)
      /\ progress' = [progress EXCEPT ![k] = row] /\ Take(w, next)
  BY DEF Writes, CardInv, IInv, Shape, Saves
<1>2. \A j \in DOMAIN r.rows : Fits(r.rows[j])
  BY <1>1 DEF RequestFits
<1>3. RequestFits(next)
  <2>1. CASE left = {}
    <3>1. next = NoTask \/ next = [pc |-> r.then, report |-> r.report]
      BY <1>1, <2>1 DEF AllSaved
    <3>2. r.then \in {"rank", "refresh"} \/ next = NoTask
      BY <1>1, <2>1 DEF AllSaved, IsSave
    <3> HIDE DEF next
    <3> QED
      BY <3>1, <3>2, NothingFits DEF RequestFits
  <2>2. CASE left # {}
    <3> DEFINE kept == [j \in left |-> r.rows[j]]
    <3>1. next = [r EXCEPT !.rows = kept]
      BY <2>2
    <3>2. \A j \in DOMAIN kept : Fits(kept[j])
      BY <1>2
    <3> HIDE DEF kept, next
    <3>3. next.pc = "save" /\ next.rows = kept
      BY <1>1, <3>1 DEF IsSave
    <3> QED
      BY <3>2, <3>3 DEF RequestFits
  <2> QED
    BY <2>1, <2>2
<1> HIDE DEF next, left
<1>4. \A v \in Workers : RequestFits(desk'[v])
  BY <1>1, <1>3, OthersStay DEF CardInv, IInv
<1>5. /\ DOMAIN progress' = DOMAIN progress /\ k \in DOMAIN progress /\ progress'[k] = row
      /\ progress[k].class = row.class
      /\ \A j \in DOMAIN progress \ {k} : progress'[j] = progress[j]
  BY <1>1 DEF Stored, IInv, Shape, IsTable
<1>6. Grows
  BY <1>5 DEF Grows, CardInv, RowsIn
<1>7. \A j \in DOMAIN progress' : Fits(progress'[j])
  BY <1>2, <1>5 DEF CardInv
<1> QED
  BY <1>4, <1>6, <1>7, TableStep DEF CardInv

LEMMA FailCards ==
  ASSUME IInv, CardInv, NEW w \in Workers, Fail(w), UNCHANGED <<progress, cards, shrunk>>
  PROVE  CardInv'
<1> DEFINE r == CASE desk[w].pc \in {"idle", "create"} -> NoTask
                  [] desk[w].pc = "next" -> NextOrIdle(desk[w].todo)
                  [] OTHER -> NextOrIdle(desk[w].report.todo)
<1>1. Take(w, r)
  BY DEF Fail
<1>2. RequestFits(r)
  BY NothingFits
<1> HIDE DEF r
<1> QED
  BY <1>1, <1>2, RequestStep

(* The average of places that fit the class fits it. *)
LEMMA RefreshCards ==
  ASSUME IInv, CardInv, NEW w \in Workers, Refresh(w)
  PROVE  CardInv'
<1> DEFINE s == desk[w].report.student
           ks == RowsOf(s)
           f == [k \in ks |-> progress[k].position]
           classes == {progress[k].class : k \in ks}
           r == [pc |-> "count", report |-> desk[w].report, classes |-> classes,
                 position |-> AveragePosition(ks)]
<1>1. Take(w, r) /\ UNCHANGED <<progress, cards, shrunk>>
  BY DEF Refresh
<1>2. IsFiniteSet(ks)
  <2>1. ks \subseteq Students \X Courses
    BY DEF RowsOf, CardInv, Keys
  <2>2. IsFiniteSet(Students \X Courses)
    BY SchoolAssumption, ProgressAssumption, FS_Product
  <2> QED
    BY <2>1, <2>2, FS_Subset
<1>3. \A k \in ks : k \in DOMAIN progress /\ f[k] = progress[k].position /\ f[k] \in Nat
  BY DEF RowsOf, CardInv, Fits
<1>4. AveragePosition(ks) = IF ks = {} THEN 1 ELSE SumFunctionOnSet(f, ks) \div Cardinality(ks)
  BY DEF AveragePosition
<1>5. ASSUME NEW c, classes = {c}, c \notin shrunk
      PROVE  AveragePosition(ks) <= Size(c)
  <2>1. ks # {}
    BY <1>5
  <2>2. Size(c) \in Nat
    BY SizeType DEF CardInv
  <2>3. \A k \in ks : f[k] \in Nat /\ f[k] <= Size(c)
    BY <1>3, <1>5 DEF CardInv, Fits
  <2> HIDE DEF f, ks
  <2> QED
    BY <1>2, <1>4, <2>1, <2>2, <2>3, AverageBound
<1>6. AveragePosition(ks) \in Nat
  <2>1. CASE ks = {}
    BY <1>4, <2>1
  <2>2. CASE ks # {}
    <3> HIDE DEF f, ks
    <3>1. \A k \in ks : f[k] \in Nat
      BY <1>3
    <3>2. SumFunctionOnSet(f, ks) \div Cardinality(ks) \in Nat
      BY <1>2, <2>2, <3>1, AverageType
    <3> QED
      BY <1>4, <2>2, <3>2
  <2> QED
    BY <2>1, <2>2
<1>7. r.pc = "count" /\ r.classes = classes /\ r.position = AveragePosition(ks)
  OBVIOUS
<1> HIDE DEF r, classes, ks
<1>8. RequestFits(r)
  BY <1>5, <1>6, <1>7 DEF RequestFits
<1> QED
  BY <1>1, <1>8, RequestStep

LEMMA ContinuesCards ==
  ASSUME IInv, CardInv, NEW w \in Workers, Continues(w)
  PROVE  CardInv'
<1>1. CASE CreateProgress(w)
  BY <1>1, CreateCards
<1>2. CASE UpdateProgress(w)
  <2>1. PICK k \in DOMAIN desk[w].rows :
          /\ \/ Writes(w, k)
             \/ Fail(w) /\ progress' = progress
          /\ UNCHANGED <<cards, shrunk>>
    BY <1>2 DEF UpdateProgress, Writes
  <2>2. desk[w].pc = "save"
    BY <1>2 DEF UpdateProgress
  <2> QED
    BY <2>1, <2>2, UpdateCards, FailCards
<1>3. CASE NextStudent(w)
  <2>1. PICK s \in desk[w].todo :
          LET todo == desk[w].todo \ {s} IN
          \/ StartReport(w, s, todo)
          \/ /\ Take(w, NextOrIdle(todo))
             /\ UNCHANGED <<progress, cards, shrunk>>
    BY <1>3 DEF NextStudent
  <2> QED
    BY <2>1, NothingFits, RequestStep, StartReportCards
<1>4. CASE Rank(w)
  <2> PICK report : report = desk[w].report
    OBVIOUS
  <2>1. \/ RankClass(w, report.class, "refresh", report)
        \/ Take(w, [pc |-> "refresh", report |-> report]) /\ UNCHANGED <<progress, cards, shrunk>>
    BY <1>4 DEF Rank
  <2> QED
    BY <2>1, NothingFits, RequestStep, RankCards
<1>5. CASE Refresh(w)
  BY <1>5, RefreshCards
<1>6. CASE CountStudents(w)
  <2> PICK q : q = desk[w]
    OBVIOUS
  <2> PICK c : c = q.report.class
    OBVIOUS
  <2> DEFINE card == [class |-> c, classes |-> q.classes, position |-> q.position, total |-> Size(c)]
             r == [pc |-> "insert", report |-> q.report, card |-> card]
  <2>1. q.pc = "count" /\ RequestFits(q) /\ Take(w, r) /\ UNCHANGED <<progress, cards, shrunk>>
    BY <1>6 DEF CountStudents, CardInv, Size
  <2>2. CardFits(card)
    BY <2>1 DEF CardFits, RequestFits
  <2>3. r.pc = "insert" /\ r.card = card
    OBVIOUS
  <2> HIDE DEF r, card
  <2>4. RequestFits(r)
    BY <2>2, <2>3 DEF RequestFits
  <2> QED
    BY <2>1, <2>4, RequestStep
<1>7. CASE CreateReportCard(w)
  <2> PICK q : q = desk[w]
    OBVIOUS
  <2>1. /\ q.pc = "insert" /\ RequestFits(q) /\ Take(w, NextOrIdle(q.report.todo))
        /\ UNCHANGED <<progress, shrunk>>
        /\ \/ cards' = cards
           \/ cards' = [x \in DOMAIN cards \cup {q.report.student} |->
                          IF x = q.report.student THEN q.card ELSE cards[x]]
    BY <1>7 DEF CreateReportCard, CardInv
  <2>2. \A s \in DOMAIN cards' : CardFits(cards'[s])
    BY <2>1 DEF CardInv, RequestFits
  <2>3. \A v \in Workers : RequestFits(desk'[v])
    BY <2>1, OthersStay, NothingFits DEF CardInv, IInv
  <2>4. Grows
    BY <2>1 DEF Grows, CardInv, RowsIn
  <2>5. \A k \in DOMAIN progress' : Fits(progress'[k])
    BY <2>1 DEF CardInv
  <2> QED
    BY <2>2, <2>3, <2>4, <2>5, TableStep
<1>8. CASE GiveUp(w)
  BY <1>8, FailCards DEF GiveUp
<1> QED
  BY <1>1, <1>2, <1>3, <1>4, <1>5, <1>6, <1>7, <1>8 DEF Continues

LEMMA DropCards ==
  ASSUME IInv, CardInv, NEW ks, Drop(ks),
         \A s \in DOMAIN cards' : s \in DOMAIN cards /\ cards'[s] = cards[s],
         ks \subseteq DOMAIN progress
  PROVE  CardInv'
<1>1. /\ DOMAIN progress' = DOMAIN progress \ ks /\ desk' = desk
      /\ \A k \in DOMAIN progress' : progress'[k] = progress[k]
      /\ shrunk' = shrunk \cup {progress[k].class : k \in ks}
  BY DEF Drop
<1>2. Grows
  BY <1>1 DEF Grows, CardInv, RowsIn
<1> QED
  BY <1>1, <1>2, TableStep DEF CardInv

LEMMA CardStep ==
  ASSUME IInv, CardInv, [ProgressNext]_progressVars
  PROVE  CardInv'
<1>1. ASSUME NEW course \in Courses, DeleteCourse(course)
      PROVE  CardInv'
  BY <1>1, DropCards DEF DeleteCourse
<1>2. ASSUME NEW c \in Classes, DeleteClass(c)
      PROVE  CardInv'
  <2>1. \E ks \in SUBSET DOMAIN progress : Drop(ks)
    BY <1>2 DEF DeleteClass, RowsIn
  <2>2. \A s \in DOMAIN cards' : s \in DOMAIN cards /\ cards'[s] = cards[s]
    BY <1>2 DEF DeleteClass
  <2> QED
    BY <2>1, <2>2, DropCards
<1>3. CASE UNCHANGED progressVars
  BY <1>3 DEF progressVars, CardInv, RequestFits, Fits, CardFits, Size, StudentsIn, RowsIn
<1> QED
  BY <1>1, <1>2, <1>3, StartsCards, ContinuesCards DEF ProgressNext

(* A card never says "3rd of 2", however many requests rank, list and count *)
(* at once: places only ever lag behind a class that grows.                 *)
THEOREM CardsAlwaysFit == ProgressSpec => []CardsFit
<1>1. ProgressInit => CardInv
  <2> SUFFICES ASSUME ProgressInit
               PROVE  CardInv
    OBVIOUS
  <2>1. DOMAIN progress = {} /\ DOMAIN cards = {} /\ \A w \in Workers : desk[w] = NoTask
    BY DEF ProgressInit
  <2> QED
    BY <2>1, NothingFits DEF CardInv
<1>2. IInv /\ CardInv /\ [ProgressNext]_progressVars => CardInv'
  BY CardStep
<1>3. CardInv => CardsFit
  BY DEF CardInv, CardsFit, CardFits
<1> QED
  BY <1>1, <1>2, <1>3, Inductive, PTL DEF ProgressSpec
===============================================================================
