# Formal models of Arc LMS

Arc LMS is a multi-tenant learning-management server: a Go program over
PostgreSQL and Redis that serves many schools (tenants). Every HTTP request runs
in its own goroutine, a scheduler runs six periodic jobs in the same process, and
several server processes may share one database. Almost every operation reads rows,
decides, and writes rows back as separate SQL statements outside any transaction.
The hard behaviour is therefore in the interleavings of statements, in the jobs'
clocks, and in what a failure between two statements leaves behind. The models
here are about exactly that.

Paths below are relative to `src/internal/` unless they start with a file of the
repository's root.

## 1. Inventory

| Component | State | Operations | Talks to | What is hard | What makes it correct |
|---|---|---|---|---|---|
| **Billing** `service/billing_service.go`, `repository/postgres/{invoice,subscription}.go` | `subscriptions`, `invoices`, `billing_adjustments` | generate an invoice (on term activation, in bulk), pay, dispute, void, adjust, cancel/reactivate a subscription | called by terms; reads enrolments, sessions, tenants | whole-row writes of stale reads; number read before insert; two-statement adjustments; cascading deletes | status and stamps agree; amounts add up; an invoice is paid once; one invoice per term |
| **Overdue-invoice job** `scheduler/jobs/overdue_invoice_job.go` | none | mark overdue, page through overdue invoices, flag and suspend | writes invoices, subscriptions, tenants | races payments; fails half way; page of 100 | sanctions only with cause; late tenants are chased |
| **Examinations** `service/examination_service.go`, `repository/postgres/examination.go` | `examinations`, `examination_submissions` | create, edit, schedule, delete, start, save answer, integrity event, submit, grade, publish | the window job; students and tutors at once | whole-row writes, deadlines, publication in three statements | columns of a row agree; score equals marks; no late answer; one clock per attempt |
| **Examination window job** `scheduler/jobs/examination_window_job.go` | none | open, close, submit what is left | examinations, attempts, notifications | looks one interval back: late and missed runs | a window that ended gets closed |
| **Timetables and swaps** `service/timetable_service.go`, `repository/postgres/{timetable,period,swap_request}.go` | `timetables`, `periods`, `period_swap_requests` | generate, publish, archive, regenerate; request, approve, reject, escalate, override, cancel a swap | courses, classes, terms | reads outside the transaction, unconditional status writes, cascades | one published timetable per class and term; no double booking; a swap happens once |
| **Assessments** `service/assessment_service.go`, `handler/assessment_handler.go` | `quizzes`, `assignments`, their submissions | create, edit, publish, delete, start, submit, grade | deadline reminders | edits race publication and students; resubmission races a grade; a search in one page | what was handed in is within the terms; a submission counts once; a grade stays |
| **Progress** `service/progress_service.go`, `repository/postgres/progress.go` | `progress`, `report_cards` | attendance, course grades, class positions, remarks, report cards | courses, classes | lists a class and writes it back row by row; cards are put together from four listings | places are fair; remarks stay; a card fits its class |
| **Communications** `service/communication_service.go`, `scheduler/jobs/scheduled_email_job.go` | `emails`, delivery log | compose, schedule, cancel, send now, delete, send by the job | scheduler, e-mail provider | cancel and send-now race the job; crash while SENDING | one copy each; nothing after a cancellation; due mail moves on; the log is true |
| **Scheduler** `scheduler/scheduler.go` | jobs, `IsRunning`, context, wait group | start, stop, tick, run now | all jobs | manual run beside the ticker; stop while a run is in flight | runs of a job do not overlap |
| **Meetings** `service/meeting_service.go`, `repository/postgres/meeting.go` | `meetings` with participants and events | schedule, edit, start, end, cancel, join, leave, record | notifications, classes | whole-row writes of stale reads | stamps fit the status; a meeting does not go back; notices are true |
| **Reminders** `scheduler/jobs/{meeting_reminder,deadline_reminder}_job.go` | none | list what is due in a window, notify | meetings, quizzes, assignments, scheduler | no memory: windows relative to when a run begins | each reminder once |
| **Idempotency keys** `pkg/idempotency`, `middleware/idempotency.go` | Redis keys with expiry | acquire, replay, store, delete | every mutating handler | concurrent retries, expiry, lost answers | work is done once; replay only of work done; keys are released |
| **Rate limiting** `middleware/rate_limit.go` | Redis sorted sets | trim, count, add | every handler | counts before it adds | a bounded overshoot per window |
| **WebSocket hub** `pkg/websocket` | client map, channels, connections | register, unregister, send, pump | notifications | the lock is dropped inside a range; a channel has several closers | the map holds no closed channel; a message once; gone is forgotten |
| **Sessions and terms** `service/{session,term}_service.go` | `sessions`, `terms` | create, update, delete, activate, complete, archive | billing | status not written by the UPDATE | a term is billed when activated |
| **Enrolment**, **Tenants**, **Users** `service/{enrollment,tenant,user}_service.go` | one table each | CRUD, status changes | billing's head count, sign-in | what an UPDATE leaves out | what an answer says is in the row |
| Classes, courses, notifications, guardians, sign-in, dashboards, audit, configuration, PDF | single rows | CRUD | | little: single statements | constraints of the schema |
| Handlers, router, other middleware, infrastructure packages | none of their own | decode, call, encode | | | |

`PROJECT.json` lists the same components with their files and status, and every
hazard of the code at its line, with the properties that guard against it or the
reason why none does.

## 2. Modules

| Module | What it is |
|---|---|
| `Billing`, `BillingProofs`, `MCBilling` | subscriptions, invoices, adjustments, the overdue job |
| `Examinations`, `ExaminationsProofs`, `MCExaminations` | an examination, its attempts, the window job |
| `Timetables`, `TimetablesProofs`, `MCTimetables` | timetables, the generator, period swaps |
| `Scheduler` | start, stop, tick, run now and the `IsRunning` guard, for any set of jobs |
| `Emails`, `EmailsProofs`, `MCEmails` | emails, the requests about them and the job that sends them, in a process that may die; instantiates `Scheduler` |
| `Outbox` | the abstract specification `Emails` implements |
| `RateLimit`, `Idempotency` | the Redis structures of the two middlewares |
| `Gateway`, `MCGateway` | requests at both, in the router's order; extends them |
| `Hub`, `MCHub` | the WebSocket hub, its connections, and the notifications pushed through it |
| `EdgeProofs` | the proofs about `Gateway` and `Hub` |
| `School` | the students and requests that `Coursework` and `Progress` share |
| `Coursework` | quizzes, assignments and what students hand in |
| `Meetings` | virtual meetings of a class |
| `Reminders`, `RemindersProofs` | the loop of both reminder jobs over any table: the abstract specification of the next two |
| `MeetingReminders`, `MeetingRemindersProofs`, `MCMeetings` | `Meetings` with its reminder job; the proofs about both |
| `DeadlineReminders` | `Coursework` with its reminder job |
| `Progress` | standing in the courses of a term, and report cards |
| `CourseworkProofs`, `MCCoursework` | the proofs about `Coursework`, `DeadlineReminders` and `Progress`; the same three for TLC |

### Conventions

* A table is a function from identifiers to rows. Where identifiers come from a pool,
  `NONE` marks one not yet used and `DELETED` one whose row is gone; in `Meetings` and
  `Progress` the domain holds the rows there are. One SQL statement is one step.
* `req[w]` (`request` in `Meetings`, `desk` in `Progress`) is HTTP request `w` between two of its statements: `pc` names the
  statement that comes next, the other fields are the Go variables it will use,
  stale as they may be by then. `job` is the same for the periodic job. An
  operation of the code is thus an action for its first statement, named after the
  service method, and one per later statement, named after the repository method;
  what the code computes between two statements belongs to the step before.
* A check that fails returns an error in the code and disables the action, or ends
  the request, in the model.
* `faults` counts failed statements, vanished clients and restarts, at most
  `MaxFaults`. A failed statement has no effect; what was written stays written.
* `vars` of a module is all of its state; variables commented *history* are not in the
  code and no guard reads them: they remember what a property needs.
* Operators named `Mutant...` are what a mistake would make of the definition below
  them; nothing uses them. Each shows that some property can fail.
* Audit rows, notifications rows, log lines, free-text columns and listings are left
  out: nothing in the models reads them.

### Billing and the overdue job

`Billing` holds the calendar (which sessions and terms exist, the head counts), the
tenants' status, subscriptions (one per session, as the UNIQUE constraint has it),
invoices, adjustments, requests and the job. Term and session *status* is a constant:
the UPDATE statements of their repositories do not write it and nothing calls the
methods that would. `arrears`, `paid`, `repaid` and `crossed` are history: what each
tenant owed, and for how long, when the run of the job under way read the table; the
invoices a payment was taken for, once or more often; and those of which a write met another
request that had read the invoice and still had its own write to make. `created` orders subscriptions for `ORDER BY created_at DESC`. Adjustments of types
CREDIT and DISCOUNT behave alike and are one type here, as are CHARGE and REFUND.

Runs (`MCBilling`):

* **billing_requests**: one tenant, session and term, one invoice, two adjustments,
  two requests; credits of 1 and -1; one fault; day 0 only, on which the job finds nothing
  to do and is left out, and nothing can be deleted (the theorems cover both). Two requests are enough for
  any stale read against any write. The status and the stamps agree
  (`StampsMatchStatus`); the amounts of an invoice are the generated ones and exactly
  the adjustments that were applied to it, the discount as well as the total
  (`AmountsMatchLedger`); settled amounts do not move (`SettledAmountsFrozen`). No second
  payment is taken for an invoice unless a write of it crossed another request
  (`PaidOnce`): it does happen when they cross, in two ways the findings give.
* **billing_job**: one tenant with a DRAFT session and term, which may be deleted at any
  time; two invoices and a page of one, so that the page leaves one out; one request and
  the job; days 0 to 3 and thresholds of two and three days, so that both are crossed and
  an invoice due a day later crosses the first only; one fault. A sanction is imposed only
  in a run that found an invoice of that tenant unpaid for long enough
  (`SanctionsHaveCause`): an invoice settled or deleted before the run read the table is
  no cause. A payment after that reading does not stop the sanction (a finding). The
  tenant of an invoice on the page keeps being flagged (`LateTenantsFlagged`), whatever
  reactivates the subscription in between; an invoice beyond the page is never looked
  at (a finding). That a sanction never falls on another tenant takes more tenants than
  the run has: the theorem covers any number.

Fairness: `FairSpec` adds weak fairness of the job's own steps only. The scheduler's
loop runs the job at every tick and a run waits for nothing but the database; faults
are bounded. No request is assumed to make progress. The clock stops at `MaxDay`, so
`LateTenantsFlagged` says what happens once days stop mattering.

### Examinations and the window job

`Examinations` models one examination (examinations share no rows) with the attempts of
its students, requests, and the job. Time is in units of the job's interval. The
job starts at most once per unit (`ran`), may take longer than a unit or be skipped
(`missed` records that), and runs at start-up after a crash. An answer carries when it
was given, whether it is right (objective questions) and its marks; a score is kept
per question, the column being its sum, so that the model can tell what was counted.
An edit of a draft changes its window only; duration, questions and marks are
constants. Percentages, feedback, IP addresses and the text of integrity events are
left out; recording an event is still a whole-row write and is modelled as one.

Runs (`MCExaminations`):

* **exam_grading**: a window of two units, clock up to 3, one student, one objective and
  one essay question, two requests (any two of student, tutor and author) and the job.
  The columns of a row agree (`RowsAgree`) and the score is exactly the marks
  (`ScoreMatchesMarks`).
* **exam_window**: a window of three units, a duration of one, clock up to 5 (two units
  after the window), one fault. No answer is stored that was given after its deadline
  (`AnswersInTime`), and a job that keeps up closes the examination one unit after its
  window (`WindowCloses`).

One student suffices: attempts of different students meet only in the two bulk
updates, which treat each alike. These runs end when the clock reaches its bound, so
deadlock is not checked in them.

### Timetables and swaps

`Timetables` models the timetables of the classes of one tenant (the exclusion
constraint and the generator's query are per tenant), their periods, the requests to
swap two periods, and which tutor a course has. `periods[t][k]` is the row of
timetable `t` for slot `k` of its week: the generator makes at most one per slot, so a
slot stands for the period's UUID and only its tutor and course change afterwards.
`assigned`, `performed` and `crossed` are history: who ever had a course, how often the
swap of a request was carried out, and the requests answered while another answer, which
had read them before, was under way.

Generation, publication over an older timetable and a swap each use one transaction
at READ COMMITTED. What it writes becomes visible at once, so it is one step, at the
commit; what was read earlier, in the transaction or outside it, is held in `req[w]`.
`PlanPeriods` is the point at which the transaction has archived the old timetable and
reads the periods that keep tutors busy. Two transactions that replace the same
timetable cannot both be past that point, because the second waits for the first's
row locks. The two reads of `PeriodRepository.SwapPeriods` go to other connections
than its transaction and are steps of their own.

The generator (`GeneratePeriods`) is the loop of the code as a function over the slots
of a week. Courses of one tutor may come in any order, since `sort.Slice` is not
stable. `Begin` reduces to minutes of a day as a TIME column does, so a period past
midnight fails the CHECK. Cancelling the pending swap requests of a replaced timetable
is left out because it finds none: they went with the periods, by cascade.

Runs (`MCTimetables`):

* **timetable_serial**: one request at a time; classes `a` (two courses of tutors 1
  and 2) and `b` (one course, of tutor 1 or, reassigned, of 2, with a maximum of one
  lesson); two slots as two periods of one day or one period on two days; three
  timetables and two swap requests. The generator never double-books its class, gives
  no course more than its quota, leaves no slot free that could be filled, and its rows
  satisfy the constraints of the table (`PlanIsSound`); a class has one timetable in use
  and it is the newest (`LiveIsNewest`); and swaps lose no lesson (`LessonsKept`). These
  are claims about one request at a time; the next run says what is left of them when
  requests race.
* **timetable_race**: one class, two courses, two timetables, one swap request, two
  requests at a time and one failure. Two requests are enough for a stale read against
  any write. No request ends up holding a period that is gone (`TypeOK`), tutors only
  teach their courses (`TutorTeachesCourse`), a swap is carried out at most once, and just
  when its request says APPROVED, unless two answers to it crossed (`AnswersStand`; what
  happens when they do is a finding), and an archived timetable does not return
  (`ArchivedStaysArchived`).

When the pools of timetables and swap requests are used up, later insertions fail, as
they may in the code; other requests go on, and the runs do not check deadlock, because
a school whose pools are used up may really have nothing left to do.

### Emails, their job and the scheduler

`Emails` follows one process: requests, `main` (`phase`: up, draining, stopping, down) and
the scheduler, instantiated with the one job that sends. `run[x]` is what executor `x`
(the ticker's loop, or the goroutine of `RunJobNow`) holds between two statements; the
table survives a death and `run` does not. `at` reduces `scheduled_for` to NULL, before
and after now. The delivery log is `log`, one entry per recipient, and the provider may
refuse any copy. The row write refuses PARTIAL, which the CHECK of the table does not
list. `processEmailSend` calls no provider, so what it "sent" (`simulated`) is kept apart
from what was delivered (`copies`).

Run (`MCEmails`):

* **email_job**: one email for two recipients (enough for a partly refused one), both
  executors, one request, one failed statement and one shutdown or crash. Runs do not
  overlap and the two modules agree on who runs (`OneRun`); SENT in the log means sent
  (`LogIsTrue`). The refinement `KeepsPromise` shows `Emails` to implement `Outbox` under
  the mapping `Stage`: nobody gets two copies and nothing is sent after a cancellation
  that no run had overtaken. `EmailsMoveOn`: what is due is taken up some day, and leaves
  SENDING unless a statement failed or the process died then.

Fairness: weak for every step of code that has been called, for the clock, the ticker,
and `Restart`, which `docker-compose.yml:17` (`restart: unless-stopped`) gives; strong for
leaving the loop once the context is done, since Go's `select` picks at random when a
tick is waiting as well. No user action is fair, and deaths are bounded.

### Rate limiter and idempotency keys

`Gateway` runs requests of any process past the limiter and then the key, a Redis command
a step: the limiter's pipeline is not a transaction, so others come between its count
and its ZADD. Both middlewares let a request through when Redis fails. The sorted set is
kept by the age of its stamps. A key stands for one operation and its retries and
expires when no request holds it: 24 hours is longer than any request.

Run (`MCGateway`):

* **gateway**: two requests, one key, a limit of 1 per window of 3 ticks, a burst of twice
  that in 1 tick, at most 5 stamps, one fault. The limit, the burst and both boundary
  ticks are all passed. What the limiter lets through exceeds the burst limit by at most
  one per request in flight (`BurstIsBounded`), the protected work is done once in the
  life of a key by those who acquired it (`DoneOnce`) unless a handler did some before it
  answered an error: the middleware then deletes the key, and a retry repeats that work
  (`leftover`, and a finding); only done work is replayed
  (`ReplayIsEarned`) and a key is released unless its request was cut off
  (`KeyIsReleased`, under weak fairness of a request's own steps: it waits for nobody).

### WebSocket hub

`Hub` has the goroutines of one process: `Hub.Run`, two pumps per connection, and senders.
A section under the write lock is one step, enabled while no sender is inside its range,
which holds the read lock; `SendToUser` drops that lock to close a full channel and takes
it again, so the map may change under its range. A panic leaves `broken`: the lock held
(the recovery middleware catches it in a request) or no process. `full`, `must` and `seen`
keep what a Go range over a map that changes may still visit.

Runs (`MCHub`), with channels of one message so that they fill:

* **hub**: two connections of one user and two senders. The map never holds a closed
  channel (`MapHoldsOpen`), and a notification is pushed once to a connection and after
  it was stored (`PushedOnce`).
* **hub_pumps**: one connection, one sender at a time, fairness. A connection that is
  gone leaves the map and both its goroutines end, unless a panic came first
  (`GoneIsForgotten`). Weak fairness of every goroutine; strong where Go is fair among
  contenders: a writer is not starved by readers of an RWMutex, and a `select` takes each
  ready channel some day.

### Quizzes and assignments

`Coursework` has the two kinds of work as records told apart by `kind`, and one row per
student. `paper` stands for a set of questions with its marks. A submission is the
handler's search of a page, the read, the marking and the write, each a step. The
histories `overwritten` (an edit that had read a draft was written over a published
work) and `crossed` (two submissions of one attempt in flight together) name the two
overlaps the code does not guard against; the properties say that nothing goes wrong
without them.

Run (`MCCoursework`; a behaviour is one of three scenes):

* **coursework**, scene *requests*: one work of either kind, two students, two requests,
  a page of one submission (100 in the code), a clock to 3 past every deadline and
  cutoff. `TermsStand`: what was handed in is within the window, with the lateness it says
  and for the questions the work has. `SubmittedOnce`: one submission counts and a grade
  stays. `FoundWithinPage`: when the listing succeeds, an attempt is
  overlooked only beyond the page (when it fails, the handler drops the error and answers
  the same).
* Scene *reminders*: `DeadlineReminders`, with one edit, publication or deletion at a
  time beside a run (`RemindedOnce`).
* Scene *progress*: see below.

### Meetings and reminders

`Meetings` has the row of each meeting, its participants as `events`, and what each
operation read and will write: all columns. `was` and `notices` are history: which
statuses a row has had, and what its class was told.

`Reminders` is the loop of both reminder jobs over `due`, any function from items to the
instant they are due. A run takes one clock, and for each offset queries the window of
one interval that starts that long ahead; it keeps nothing. `punctual` and `flawless` are
history: runs came exactly an interval apart; none failed or was cut short.
`MeetingReminders` and `DeadlineReminders` put the tables of `Meetings` and `Coursework` in
the place of `due`; every other step of theirs is a step of the environment there. Real
values: meetings 15 and 5 minutes ahead every 5 minutes, a page of 100; deadlines 24, 6
and 1 hours ahead every 30 minutes, without a page.

Run (`MCMeetings`, in two scenes):

* **meetings**, scene *requests*: one meeting, one participant, two operations of any
  kind, a clock to 2. The stamps of every row fit its status (`TypeOK`); a class is told
  only what happened (`ToldTheTruth`); and a meeting goes back, or forgets who took part,
  only by an operation another overtook (`OnlyForward`).
* Scene *reminders*: the job with one operation at a time, offsets 1 and 2, interval 1, a
  page of 1: offsets that are multiples of the interval, as in the code, so that their
  windows touch. `RemindedOnce`: punctual runs never remind twice and, unless something
  failed, leave out nothing that was due for an interval before.

### Progress and report cards

`Progress` has the rows by student and course, and report cards. A request that ranks,
grades or remarks lists rows and writes each back whole. `mixed` is history: the classes
where two requests wrote over each other, or a ranking stopped half way, since the last
undisturbed ranking. Marks and averages are left out because nothing records any; any
ranking is then as good as another. Attendance creates a row and then fails, as the
table of its entries does not exist (a finding).

Scene *progress* of **coursework**: two students, two courses of one class, a second
class that attendance may name, two rows, two requests; deletions, the second class and
cards only with one request at a time, since a card does not depend on others after its
listings are read. Places in a class are fair: two students do not share one and one
student has not two (`RanksAreFair`); a card never says "3rd of 2" (`CardsFit`); a remark
stays (`RemarksStay`); each unless requests crossed, as `mixed` has it.

Deadlock is not checked where clocks, pools or faults run out: the system of the model
then stops although a real one would get a new day.

## 3. Findings

What the code does otherwise than its documents, comments or names say, met while
modelling it. The models take the code as it is, so the races among these can be reached
in them, and the conditions of the properties (*overwritten*, *crossed*, *overtaken*,
*mixed*, *punctual*) name exactly the behaviours that must be set aside for the rest to
hold:

* (service/billing_service.go:250): MarkInvoiceAsPaid looks at the status it read and then writes the whole row: two payments at once are both accepted, and a dispute that had read the invoice before a payment writes it back unpaid and DISPUTED, after which it can be paid again. The function itself says "invoice is already paid" of the second (PaidOnce holds only where no two such requests crossed).
* (scheduler/jobs/overdue_invoice_job.go:100): The job imposes the sanctions from the list it read at its beginning: a payment between that reading and the sanction does not stop it, and the tenant is suspended although nothing is owed any more; BRD.md:637 (BR-012) speaks of "Continued non-payment".
* (repository/postgres/invoice.go:160): The job reads one page of 100 overdue invoices, those due last first, and no second page: with more than 100 the tenants whose invoices are due longest are never flagged nor suspended, against BR-011 and BR-012 (BRD.md:636) (LateTenantsFlagged holds only up to the page).
* (domain/examination.go:91): ExaminationWindowJob sets the examination to IN_PROGRESS and then sends each student "The examination '%s' is now available. Window closes at %s." (src/internal/scheduler/jobs/examination_window_job.go:183); StartExamination requires CanAccess, which accepts only a SCHEDULED examination (src/internal/domain/examination.go:90-92). An examination is open only until the job first sees it.
* (service/examination_service.go:487): src/BRD.md:618 says "Each answer submission within an Examination must be individually persisted, not batched, to prevent total loss on connection failure."; SaveAnswer reads the attempt, adds the answer to the whole answers array and writes every column back without a lock or version check, so of two overlapping saves the second erases the first one's answer, which had been acknowledged.
* (scheduler/jobs/examination_window_job.go:91): Each run of ExaminationWindowJob looks only at windows that opened or closed within the interval before it: when a run comes late or is missed, the examination is not opened, or not closed and its attempts not submitted, by any later run, against BRD.md:327 "The system must enforce the duration and auto-submit on expiry." (WindowCloses is about a job that keeps up).
* (service/timetable_service.go:921): CreateSwapRequest compares the day and the class of the two periods and not their timetables, so a period of this term can be swapped with one of a timetable of another term, whose tutor and course then stand in this term's week; BRD.md:192 says a Timetable is an "Auto-generated schedule of Periods for a Class within a Term.".
* (service/timetable_service.go:304): GenerateTimetable looks for the class's timetable (GetByClassAndTerm) before anything is locked and no constraint of the table forbids a second one in use, so two generations at once both insert a draft whose lessons coincide; README.md:240 says "No class double-booking (application logic)" and BRD.md:641 (BR-016) "The Timetable generator must not produce any scheduling clash for Tutors or Classes.".
* (service/timetable_service.go:983): ApproveSwapRequest asks whether the approver is the tutor the target period had when the request was made, and swaps whatever the period holds now; when another swap has given the period to somebody else, that tutor's lesson moves without being asked. BRD.md:633 (BR-008) says "A Timetable Period swap requires approval from the target Tutor or ADMIN escalation.".
* (repository/postgres/swap_request.go:121): The status of a swap request is asked in one statement and written by an unconditional UPDATE in another: two approvals that both read PENDING exchange the periods twice, so that it says APPROVED and nothing was exchanged, and a rejection or cancellation that crosses an approval leaves the periods exchanged and the request REJECTED or CANCELLED. ApproveSwapRequest itself says "swap request is not pending" of such a request (AnswersStand holds only where no two answers crossed).
* (repository/postgres/period.go:426): SwapPeriods reads both periods outside the transaction that exchanges them: of two swaps that share a period the later writes what it read before the earlier, so one lesson stands twice in the week and another nowhere; BRD.md:280 says "An approved swap takes effect immediately on the published Timetable." (LessonsKept is about one request at a time).
* (repository/postgres/communication.go:127): ScheduleEmail sets ScheduledFor on the email it read, but CommunicationRepository.Update does not write scheduled_for, so the row becomes SCHEDULED with the NULL of the draft and ListScheduled never returns it; communication_service.go:384 says "ScheduleEmail schedules a draft email for future delivery".
* (scheduler/jobs/scheduled_email_job.go:154): sendEmail gives an email that reached only some of its recipients the status PARTIAL (domain/communication.go:26 "Some recipients failed"), which the CHECK constraint of migrations/000012_create_communications.up.sql:14 refuses: the update fails and the email ends FAILED although some were sent it.
* (scheduler/jobs/scheduled_email_job.go:83): BRD.md:399 says "Scheduled emails must be cancellable before the send time."; the job writes SENDING, whatever the row holds by then, so an email cancelled after the job's query is sent all the same.
* (service/communication_service.go:191): processEmailSend, behind send_immediately, SendEmailNow and SendEmailToCoTutors, calls no provider and records every recipient as SENT, against BRD.md:396 "All emails must be sent via the platform's configured transactional email provider" (communication_service.go:192 "In a real implementation, this would integrate with an email service provider").
* (scheduler/jobs/scheduled_email_job.go:83): A run that is cut off by shutdown or crash between the two updates leaves the email SENDING: no query looks for that status, so it is never finished, nor can it be cancelled or sent again.
* (repository/postgres/communication.go:340): ValidateTutorAccess, GetRecipientsForScope (CLASS) and GetCoTutorsForClass read courses.tutor_id; the column is called assigned_tutor_id (src/migrations/000006_create_courses_and_enrollments.up.sql:11), so every email of a tutor and every email to a class is refused with an SQL error.
* (middleware/rate_limit.go:184): A request in flight counts before it is added, and burstCount <= burstLimit admits one more: BRD.md:555 says "Burst capacity: 2x sustained rate for up to 30 seconds.", which the model shows is exceeded by one, and by one more for each concurrent request (BurstIsBounded is tight).
* (middleware/idempotency.go:107): A handler that answers 204 without a body (communication_handler.go:231, guardian_handler.go:158) leaves its key "processing" for 24 hours, as json.Unmarshal of an empty body fails: every retry is refused with 409, while README.md:192 says "Duplicate requests with the same key return the cached response.".
* (router/router.go:220): The router gives a super admin 2000 requests per minute and a burst of 4000; BRD.md:554 says "SUPER_ADMIN endpoints: 200 requests per minute.".
* (middleware/idempotency.go:113): The key is deleted after any status of 400 or more, whatever the handler had committed before it failed: MarkAttendance (progress_service.go) creates the progress row and then fails, CreateAndEnrollStudent leaves the user it created, and a retry with the same key works again; README.md:192 says "Duplicate requests with the same key return the cached response." (DoneOnce holds only where no handler did so).
* (pkg/websocket/hub.go:97): SendToUser closes a full channel after it let go of the lock and took it again, without looking whether another sender closed it first: the second close panics inside h.mu.Lock, which is not deferred, so the lock stays held and no notification is pushed any more (README.md:300 gives "< 3 seconds" for in-app delivery); in the goroutine of a large broadcast the panic ends the process.
* (pkg/websocket/client.go:121): handleMessage answers a PING by sending on Client.send, which SendToUser may have closed while the connection lives on: a send on a closed channel panics in ReadPump and ends the process.
* (pkg/websocket/hub.go:98): SendToUser deletes the last full connection of a user but not the user's entry, so GetOnlineUserCount counts users who are gone; it also reads len(clients) after it let go of the lock.
* (handler/assessment_handler.go:291): SubmitQuiz looks for the student's attempt in one page of 100 submissions, those submitted last first: with more than 100 attempts of one quiz a student whose attempt is in progress may be told "no quiz attempt found, start the quiz first" (FoundWithinPage holds only up to the page). It also drops the error of that listing, so a failed query gives a student with an attempt the same answer.
* (service/assessment_service.go:349): A second submission of the same attempt that read it before the first was written writes its whole row over a tutor's grade; the same holds of UpdateQuiz, which takes a quiz published in between back to DRAFT, and of DeleteQuiz, which deletes it with the submissions of its students.
* (service/assessment_service.go:221): StartQuiz returns the existing submission for a retake, which SubmitQuiz then refuses as already submitted: allow_retake never allows one.
* (service/assessment_service.go:313): A multiple-answer question compares only the number of selected options and that each is correct, so one correct option repeated counts as all of them; an answer given twice counts twice in the score.
* (repository/postgres/meeting.go:184): Every operation writes all columns of the row it read, without a transaction or a version, so of two that overlap the later write undoes the earlier: a meeting that was started while its join, edit or cancellation was under way goes back or is cancelled live, and of two participants who join at once one is forgotten. BRD.md:374 says "A Meeting must transition through the states: `SCHEDULED → LIVE → ENDED`" and "must record actual start time, end time, and participant join/leave events".
* (service/meeting_service.go:413): The cancellation notice is sent by a goroutine that keeps the context of the request, which ends when the answer is written, and its lookup of enrolments asks for 1000 and is given at most 100 (repository/repository.go:196); the ADMIN is not among its addressees. BRD.md:380 says "All enrolled Students and the ADMIN must receive a cancellation notification.".
* (handler/meeting_handler.go:368): RecordParticipantLeaveRequest validates duration_minutes as "required,min=0": required refuses the zero that min=0 allows, so leaving within the first minute is never recorded.
* (scheduler/jobs/deadline_reminder_job.go:105): The reminder jobs keep nothing of what they sent: a tick that comes late leaves instants no window covers, and a restart or RunJobNow between two ticks covers some twice (RemindedOnce needs punctual). BRD.md:409 says "The system must deliver real-time in-app notifications to users for the following events: new Quiz or Assignment published, upcoming Assessment deadline (configurable reminder window)".
* (scheduler/jobs/meeting_reminder_job.go:71): Every meeting between 15 and 20, or 5 and 10 minutes ahead is reminded of, where the comment says "e.g., for 15-minute reminder: look for meetings between 15-16 minutes from now", and the notice says "Meeting Starting in %d Minutes" of the lower bound.
* (scheduler/jobs/deadline_reminder_job.go:189): ListByClass is asked for 1000 enrolments and gives at most 100 (repository/repository.go:196), withdrawn and transferred ones among them: in a larger class some students get no reminder, and who left the class may get one. The same calls send notices of meetings, timetables and examinations.
* (service/progress_service.go:128): RecordQuizScore, RecordAssignmentScore and RecordExaminationScore are called by nothing, so every grade is computed from no marks: all students have 0, F and the flag, and the places of a class are those of the order of a map, against BRD.md:346 "automatically aggregating: Quiz scores, Assignment scores, Examination score, and a computed overall grade". Called, their update would be refused: pq.Array writes "{5}" into a JSONB column.
* (repository/postgres/progress.go:936): CreateAttendanceEntry inserts into attendance_entries, which no migration creates: marking attendance always fails, after it inserted the progress row of the first student (BRD.md:355 "Tutors must be able to mark attendance for each Period.").
* (repository/postgres/progress.go:184): Positions, grades and remarks each write back whole rows listed earlier: a ranking takes back a remark saved in between, and two rankings of one class may leave rows of both, so that two students share a place (RanksAreFair and RemarksStay hold only of classes where requests did not cross).
* (service/progress_service.go:609): The place on a card is the average of the places in the student's rows, where one that has none counts as 0; with rows of several classes, or of courses deleted since, it may be 0, which the table refuses, or exceed total_students.
* (service/progress_service.go:545): Nothing generates report cards at the end of a term or asks for remarks first, against BRD.md:644 "Report cards are auto-generated at Term end and require Tutor remarks before finalisation.".
* (service/billing_service.go:49): GenerateTermInvoice never looks for an invoice of the same term, and neither does ActivateTerm, so activating a term twice bills it twice; README.md:227 says "Billing is idempotent - duplicate activation attempts return existing invoice.".
* (repository/postgres/invoice.go:830): GetNextInvoiceNumber counts the invoices of one tenant, but the column it fills is unique over all tenants (migrations/000014_create_billing.up.sql:33), so the second tenant's first invoice of a year collides and is not created; BRD.md:446 says "The system must auto-generate an itemised invoice for each tenant at the start of each Term.".
* (service/billing_service.go:355): VoidInvoice checks the status it read and then writes the whole row unconditionally, so a payment recorded in between is voided; billing_service.go:355 says "cannot void a paid invoice".
* (scheduler/jobs/overdue_invoice_job.go:108): The job suspends the subscription and then the tenant as two statements, and afterwards skips every subscription that is already suspended; when the second statement fails the tenant is never suspended. BRD.md:637 (BR-012) says "Continued non-payment beyond the secondary threshold triggers automatic tenant suspension.".
* (repository/postgres/session.go:95): SessionRepository.Update writes no status, so ActivateSession and ArchiveSession change nothing but updated_at; session_service.go:222 says "ActivateSession activates a session (enforces BR-007: one active per tenant)".
* (repository/postgres/term.go:30): TermService.CreateTerm passes no transaction to TermRepository.Create, which then refuses ("create term must be called within a transaction"): a term can only be created outside the program.
* (repository/postgres/enrollment.go:29): EnrollmentService calls Enroll without a transaction, which it refuses: no student can be enrolled in a class (CreateAndEnrollStudent leaves the user it has just created behind, so that a retry is refused for the email address), against BRD.md:239 "The ADMIN must be able to enroll Students into a Class for an active Session.".
* (repository/postgres/enrollment.go:157): TransferStudent saves through an UPDATE that writes status and notes only: the student is marked TRANSFERRED, the class moved to is recorded nowhere and no enrolment in it is made, against BRD.md:239 "Transfer between Classes within a Session must be supported with an audit trail.".
* (repository/postgres/tenant.go:127): TenantRepository.Update writes neither the status nor the suspension, so SuspendTenant and ReactivateTenant change nothing, and nothing else calls Reactivate: what the overdue job suspended stays suspended, against BRD.md:217 "The SUPER_ADMIN must be able to reactivate a suspended tenant.".
* (repository/postgres/user.go:190): UserRepository.Update writes names, photo, phone, permissions, preferences and updated_at only, so deactivation, reactivation, password reset, accepting an invitation and the record of a login leave the row as it was; BRD.md:252 says "Deactivated users must lose API access immediately." The repository's Deactivate, UpdatePassword and SetPasswordResetToken are called by nothing.
* (service/user_service.go:774): CreateSuperAdmin stores a placeholder for the hash of the password, with which nobody can sign in.

## 4. Proofs

TLAPS checks the following for every value of the constants that satisfies the named
assumptions of the modules (`BillingAssumption`, `ExaminationsAssumption`, and so on): any
number of tenants, invoices, students, meetings, workers, days and faults. The
assumptions give the constants their types, order the thresholds (`GraceDays <=
SuspendDays`, 14 and 30 days in the constructor of the job) and state CHECK constraints
(a window ends after it starts).

An invariant that speaks of rows alone is never inductive here, because a request in
flight may still write a row it read long ago. Each proof therefore strengthens the
invariant by what a request in flight may hold, and by how that is linked to what is
stored.

**`BillingProofs`.** The inductive invariant `IInv` strengthens type correctness by what
a request may still write: the stamps it holds are consistent, and what the job has
listed was in arrears when it read the table (`Listable`; what has happened to the invoice since is
left open, as the job does not look again). From it follow `TypeCorrect`,
`StampsAlwaysMatchStatus`, `AmountsAlwaysMatchLedger`, and the action properties
`SanctionsAlwaysHaveCause` and `SettledAmountsStayFrozen`. `PaidAtMostOnce` needs an invariant of
its own (`PaymentsInv`): an invoice paid for, of which no writes crossed, is still `Settled`,
so no request that reads it from then on holds a write of it, and at most one did before.

**`ExaminationsProofs`.** Three invariants, each stronger in one direction. `AttemptInv`
says that stored rows, and the rows that requests hold, are sound, and that a held row
is *linked* to the stored one (same start; the stored row has not gone back), which is
what makes a stale whole-row write harmless for `RowsAgree`, `ScoreMatchesMarks`,
`AnswersInTime` and the clock of an attempt, which never restarts. `ExamInv` says the
same of the examination's row. `WindowInv` adds where a job that keeps up must be in its
run at each instant (`KeepsUp`), from which `WindowCloses` follows.

**`TimetablesProofs`.** Three layers.
*Any number of requests and failures*: `Inv` (statuses, and what the status update of an
answer may write) gives `ArchivedForGood`, and together with `AnswersOK` (a request
answered is held open by nobody, unless crossed) `AnswersAlwaysStand`; `Typed` gives
`TypeCorrect` and `TutorsTeachTheirCourses`. `Typed` is types together with the foreign
keys that the cascades keep: a swap request has its two periods, an identifier not used
yet has no rows, a period's tutor is one its course was given, and what a request holds
of a row since deleted is still *good* enough to be written or refused.
*The generator*: `GeneratePeriods` computes a week by recursion over its slots. What holds
after every slot is `Filling` (`FillStep` is one turn of the loop, `GenerateInduction` the
induction): slots behind hold lessons of the class, within the quotas, with no tutor
busy; slots ahead are free. That no slot is left free which could be filled follows from
the counts at the end, because a lesson never taken back only uses up quotas.
*One request at a time, without failures*: `Succession` (a class has at most one live
timetable, it is the newest, and what a request has read is `Current`) gives
`LiveOneIsNewest`; `Tidy` gives `PlansAreSound`; `Consented` (the periods of a swap
request are of one class, and as they were read) gives `SwapsKeepLessons`. The hypotheses are
those of the claims and not of the proof: `Workers = {w}` and `MaxFaults = 0`, because
requests that race, or a run that fails half way, break each of the three (the findings
about publication and swaps); for `PlansAreSound` that the days of a configuration differ
and end before midnight (`DayFits`), because lessons past midnight wrap round; for
`SwapsKeepLessons` one term, because `CreateSwapRequest` compares classes and not
timetables, so that a swap may move a lesson into another term.

**`EmailsProofs`.** Nobody gets two copies, because what waits (`RowFits`), or is in a
batch an executor has read (`RunFits`), has gone to nobody; an email that an executor is sending
never waits again. With it `PromiseIsKept`: `Safety => KeepsPromise`, the refinement of `Outbox`
(nobody is sent a second copy, an email goes back only if nobody was sent any, and nothing is sent after a
cancellation no run had overtaken). `JobRunsAlone` rests on the agreement of `IsRunning`
with the executors, including the restart after a death, and `LogsAreTrue` on the logs
held between the sending and the writing of them.

**`EdgeProofs`.** Of `Gateway`: `IInv` adds to the types, for each key, how the value in Redis, the
requests that acquired it, `done` and `leftover` fit (`KeyAgrees`): at most one request holds a
key, as long as it does the value is "processing", and, unless a handler left work behind an
error, the work has been done exactly when that request is about to store its answer.
`WorkIsDoneOnce` and `ReplayIsForWork` follow for any keys, limits, requests and faults.
`BurstStaysBounded` counts: what was let through within a burst's window, together with
what is still `Coming` (a request past the burst's count, before its ZADD), is at most the
limit and one for each request in flight (`BurstFits`). A sum is counted as a set of `Slots`,
one for each unit, because sets are easier to compare than a recursion over them. The
requests must be finitely many, or the bound says nothing.

Of `Hub`: a closed connection is never put into the map again, because only its own
registration puts it there (`MapAlwaysHoldsOpen`). `NotesPushedOnce`: a notification is
pushed only by the one sender that stored it, and only to a connection its range has not
`seen`; what the range may still visit and what it has visited are disjoint (`HubInv`). Both
hold for any number of connections, senders and channel sizes, panics included.

**`RemindersProofs`.** `RemindedExactlyOnce` is proved for an arbitrary table that changes
in any way at any time, since both compositions need it. When runs are punctual their
beginnings are an interval apart (`Spaced`) without a gap (`NoGap`); so the windows of
different runs do not overlap and a reminder given (`Given`) lies in the window of one run
which has not still to look at it; and a reminder due in a window that is past, of an item
that did not change since the run began, was given (`Kept`).

**`MeetingRemindersProofs`.** Of `Meetings`: `TypeOK` says that the stamps fit the status, so it is the
property itself; what has to be added is that a row in flight *fits*: it is a step forward
from the row it was read as, and no stamp in it lies in the future. Then a write
that was not overtaken is a step forward (`ForwardUnlessOvertaken`), and every notice is
of a status the row had (`NoticesAreTrue`).

Of `MeetingReminders`: `ImplementsReminders`: `SpecWithReminders => RP!Spec`, the
refinement, with `DueMeetings` as the mapping: an operation of `Meetings` changes only `due`
or nothing of `Reminders` (`RP` is `RemindersProofs` under that mapping). With it `MeetingsRemindedOnce` follows for any number of
meetings and operations from the theorem about `Reminders`.

**`CourseworkProofs`.** Of `Coursework`: where no edit overtook a publication, a published work does not
change any more (`PublishedStays`). So whatever was checked against it, in the table or in the
hands of a request (`Stands`), goes on being true, and `TermsAlwaysStand` follows. For
`SubmittedOnlyOnce` the invariant (`AllStands`) says that a grade in the making is of a
submission, and that whoever is submitting finds the attempt in progress unless it was
crossed: the writing of a second submission is what makes the first one crossed. Both rest on
`KindsFit`: a work keeps its kind, one deleted does not come back, and no row outlives it.
`AlwaysFoundWithinPage` needs finitely many students: an attempt behind a page of others is
one of more than a page, and attempts only become more while the quiz exists.

Of `DeadlineReminders`: `DeadlinesImplementReminders` and `DeadlinesRemindedOnce`, in the way of
`MeetingReminders`, with `DueWorks` as the mapping. The deadlines lie within the clock's bound
(`CourseworkAssumption`), which is arbitrary.

Of `Progress`: fairness of places must survive a ranking half way written. `Coming`
is the place a row will have when the ranking is through; `FairOnce` says that those are
fair while it writes, `FairNow` that the stored ones are when nobody ranks. `Fresh` links a
held row with the stored one in classes where nothing crossed, and `LostForGood` says that
a held row the table lacks will not come back. `RanksStayFair` and `RemarksAreKept` follow
for any students, courses, classes and requests. `CardsAlwaysFit` needs none of this: a
place *fits* its class if it is at most its size, which an average of places does if each
of them does; and what a request read goes on fitting (`FitsStays`), because classes that
lost no row only grow (`Grows`).

No theorem rests on an operator-valued induction theorem. Where a proof needs
induction over data, it takes a least counterexample: the sums of `BillingProofs`, `EdgeProofs` and
`CourseworkProofs` from a smallest set for which they fail (`SmallestSubset`), the generator of `TimetablesProofs`
from the first slot at which they do (`LeastNat`).

Only model-checked is liveness (`LateTenantsFlagged`, `EmailsMoveOn`, `KeyIsReleased`,
`GoneIsForgotten`): fairness and ENABLED are beyond the installed provers. Every invariant and
action property of the runs is a theorem.

## 5. Not modelled

* **Enrolment, users, guardians and sign-in.** What they would change does not reach
  the database, or is refused (findings): what is left is single statements on single
  rows. Tokens have no state on the server.
* **Creating, completing and archiving sessions and terms; suspending and reactivating
  tenants by hand.** The same: their UPDATEs do not write the status.
* **Course contents, creating and renaming of classes and courses, read flags and the
  nightly clean-up of notifications, system configuration, remarks of a report card.**
  Single statements on rows no other operation depends on.
* **Deletion of a super admin** counts the others and deletes in two statements, but one
  that has ever acted cannot be deleted, because the audit log refers to it.
* **Handlers, router, stateless middleware, dashboards, audit, PDF, infrastructure
  packages, seeds.** They decode, encode, read, append or lay out. Their only effect on
  the models is that any operation may be called at any time. `api/swagger/docs.go`, more
  than a quarter of the lines, is generated.
* Rows that only exist to be listed (audit, notifications as rows), free text, marks and
  percentages of single questions are left out of the modelled components as well.

## 6. Plan

1. Larger instances where a run has time to spare: two emails, three timetables in a
   race, two meetings with different starts.
2. An abstract ledger (invoices become due, are paid or forgiven) implemented by `Billing`,
   and the life of an attempt implemented by `Examinations`. The action properties proved
   so far are the steps of these mappings.
