-------------------------------- MODULE Emails --------------------------------
(***************************************************************************)
(* Emails of a tenant, the job that sends the scheduled ones, and the       *)
(* server process both run in:                                              *)
(*   internal/service/communication_service.go                              *)
(*   internal/repository/postgres/communication.go                          *)
(*   internal/scheduler/jobs/scheduled_email_job.go                         *)
(*   cmd/api/main.go                                                        *)
(*                                                                          *)
(* Every SQL statement is a step of its own: nothing here uses a            *)
(* transaction.  A request that reads a row and writes it back keeps the    *)
(* row in req[w]; a run of the job keeps its rows in run[x].  The process   *)
(* may die between any two steps; the table survives.                       *)
(***************************************************************************)
EXTENDS Naturals, FiniteSets

CONSTANTS
    Mails,          \* pool of fresh UUIDs
    Recipients,     \* whom the scope of an email resolves to: at least one user
    Mailer,         \* the scheduled-email-sender job
    Workers,        \* requests in flight, with the goroutines they leave behind
    MaxFaults,      \* bound: failed statements
    MaxDeaths       \* bound: shutdowns and crashes

ASSUME EmailsAssumption ==
    /\ Recipients # {}
    /\ MaxFaults \in Nat /\ MaxDeaths \in Nat

VARIABLES
    phase,      \* of the process: main
    faults, deaths,
    emails,     \* the emails table
    copies,     \* history: copies the provider accepted, per email and recipient, up to 2
    simulated,  \* history: emails processEmailSend was started for
    req,        \* requests in flight
    run,        \* what an executor of the job keeps between two statements
    running, cancelled, isRunning, runner, ticked   \* the scheduler

Sched == INSTANCE Scheduler WITH Jobs <- {Mailer}

sched == <<running, cancelled, isRunning, runner, ticked>>
counts == <<faults, deaths>>
histories == <<copies, simulated>>
vars == <<phase, counts, emails, histories, req, run, sched>>

(***************************************************************************)
(* Rows                                                                     *)
(***************************************************************************)
(* The statuses the CHECK constraint of the table lists.  The domain knows  *)
(* one more, PARTIAL.                                                       *)
Status == {"DRAFT", "SCHEDULED", "SENDING", "SENT", "FAILED", "CANCELLED"}
Delivery == {"SCHEDULED", "SENT", "FAILED"}
(* scheduled_for: NULL, or on either side of now.                           *)
When == {"null", "future", "due"}
(* success_count and failure_count are the numbers of SENT and FAILED       *)
(* recipients of the log.                                                   *)
Email == [status: Status, at: When, log: [Recipients -> Delivery]]
NoEmail == [status |-> "none"]
DeletedEmail == [status |-> "deleted"]
Exists(e) == emails[e].status \in Status
FreshLog == [r \in Recipients |-> "SCHEDULED"]

(* CommunicationRepository.Update: no row, no error; scheduled_for is not   *)
(* among the columns it sets; a status the table refuses is an error.       *)
Stored(e, status, log) ==
    IF Exists(e) THEN [emails EXCEPT ![e] = [@ EXCEPT !.status = status, !.log = log]]
    ELSE emails
MutantDue == {e \in Mails : Exists(e) /\ emails[e].at = "due"} \* whatever the status
Due == {e \in Mails : emails[e].status = "SCHEDULED" /\ emails[e].at = "due"}

Outcome(log) ==
    IF \E r \in Recipients : log[r] = "SENT"
    THEN IF \E r \in Recipients : log[r] = "FAILED" THEN "PARTIAL" ELSE "SENT"
    ELSE "FAILED"

Idle == [pc |-> "idle"]
Ops == {"cancel", "schedule", "sendNow", "delete"}
Request == {Idle} \cup [pc: Ops \cup {"process"}, mail: Mails, log: [Recipients -> Delivery]]
Batch == UNION {[S -> [Recipients -> Delivery]] : S \in SUBSET Mails}
Run == {Idle} \cup [pc: {"list"}]
       \cup [pc: {"next"}, batch: Batch]
       \cup [pc: {"send", "fail"}, batch: Batch, mail: Mails,
             log: [Recipients -> Delivery], left: SUBSET Recipients]

Drop(batch, e) == [m \in DOMAIN batch \ {e} |-> batch[m]]

(* The emails an executor of the job has read and is not done with.         *)
HeldBy(r) == CASE r.pc = "next"           -> DOMAIN r.batch
               [] r.pc \in {"send", "fail"} -> DOMAIN r.batch \cup {r.mail}
               [] OTHER                   -> {}
Held == UNION {HeldBy(run[x]) : x \in Sched!Executors}

Init ==
    /\ phase = "up" /\ faults = 0 /\ deaths = 0
    /\ emails = [e \in Mails |-> NoEmail]
    /\ copies = [e \in Mails |-> [r \in Recipients |-> 0]]
    /\ simulated = {}
    /\ req = [w \in Workers |-> Idle]
    /\ run = [x \in Sched!Executors |-> Idle]
    /\ running = TRUE /\ cancelled = FALSE
    /\ isRunning = [j \in {Mailer} |-> FALSE]
    /\ runner = [j \in {Mailer} |-> [x \in Sched!Executors |-> IF x = "loop" THEN "ready" ELSE "off"]]
    /\ ticked = [j \in {Mailer} |-> FALSE]

(***************************************************************************)
(* Requests                                                                 *)
(***************************************************************************)
Serving == phase = "up"
Alive == phase # "down"
Fault == faults < MaxFaults /\ faults' = faults + 1
Become(w, r) == req' = [req EXCEPT ![w] = r]
Finish(w) == Become(w, Idle)

(* ComposeEmail as a draft or for later. *)
Compose(e, later) ==
    /\ Serving /\ emails[e] = NoEmail
    /\ emails' = [emails EXCEPT ![e] =
         [status |-> IF later THEN "SCHEDULED" ELSE "DRAFT",
          at |-> IF later THEN "future" ELSE "null", log |-> FreshLog]]
    /\ UNCHANGED <<phase, counts, histories, req, run, sched>>

(* ComposeEmail with send_immediately. *)
ComposeAndSend(w, e) ==
    /\ Serving /\ req[w] = Idle /\ emails[e] = NoEmail
    /\ emails' = [emails EXCEPT ![e] =
         [status |-> "SENDING", at |-> "null", log |-> FreshLog]]
    /\ simulated' = simulated \cup {e}
    /\ Become(w, [pc |-> "process", mail |-> e, log |-> FreshLog])
    /\ UNCHANGED <<phase, counts, copies, run, sched>>

MayStart(op) ==
    CASE op \in {"cancel", "sendNow"}  -> {"DRAFT", "SCHEDULED"}
      [] op \in {"schedule", "delete"} -> {"DRAFT"}

(* The Get, and the test of the status, of CancelEmail, ScheduleEmail,      *)
(* SendEmailNow and DeleteEmail.                                            *)
Read(w, e, op) ==
    /\ Serving /\ req[w] = Idle
    /\ emails[e].status \in MayStart(op)
    /\ Become(w, [pc |-> op, mail |-> e, log |-> emails[e].log])
    /\ UNCHANGED <<phase, counts, emails, histories, run, sched>>

Cancel(w) ==
    /\ Alive /\ req[w].pc = "cancel"
    /\ emails' = Stored(req[w].mail, "CANCELLED", req[w].log)
    /\ Finish(w)
    /\ UNCHANGED <<phase, counts, histories, run, sched>>

Schedule(w) ==
    /\ Alive /\ req[w].pc = "schedule"
    /\ emails' = Stored(req[w].mail, "SCHEDULED", req[w].log)
    /\ Finish(w)
    /\ UNCHANGED <<phase, counts, histories, run, sched>>

SendNow(w) ==
    /\ Alive /\ req[w].pc = "sendNow"
    /\ emails' = Stored(req[w].mail, "SENDING", req[w].log)
    /\ simulated' = simulated \cup {req[w].mail}
    /\ Become(w, [req[w] EXCEPT !.pc = "process"])
    /\ UNCHANGED <<phase, counts, copies, run, sched>>

(* DELETE ... AND status = 'DRAFT' *)
Delete(w) ==
    /\ Alive /\ req[w].pc = "delete"
    /\ emails' = IF emails[req[w].mail].status = "DRAFT"
                 THEN [emails EXCEPT ![req[w].mail] = DeletedEmail] ELSE emails
    /\ Finish(w)
    /\ UNCHANGED <<phase, counts, histories, run, sched>>

(* processEmailSend, a goroutine: it sends nothing and writes that all got  *)
(* the email.                                                               *)
ProcessEmailSend(w) ==
    /\ Alive /\ req[w].pc = "process"
    /\ emails' = Stored(req[w].mail, "SENT", [r \in Recipients |-> "SENT"])
    /\ Finish(w)
    /\ UNCHANGED <<phase, counts, histories, run, sched>>

(* The last statement of a request fails; a goroutine ignores the error.    *)
RequestFails(w) ==
    /\ Alive /\ req[w] # Idle /\ Fault
    /\ Finish(w)
    /\ UNCHANGED <<phase, deaths, emails, histories, run, sched>>

TimeComes(e) ==
    /\ Exists(e) /\ emails[e].at = "future"
    /\ emails' = [emails EXCEPT ![e].at = "due"]
    /\ UNCHANGED <<phase, counts, histories, req, run, sched>>

(***************************************************************************)
(* ScheduledEmailJob.Run                                                    *)
(***************************************************************************)
Go(x, r) == run' = [run EXCEPT ![x] = r]

ExecuteJob(x) ==
    /\ Sched!ExecuteJob(Mailer, x)
    /\ Go(x, [pc |-> "list"])
    /\ UNCHANGED <<phase, counts, emails, histories, req>>

FinishJob(x) ==
    /\ \/ run[x].pc = "list" /\ cancelled           \* ListScheduled fails
       \/ run[x].pc = "next" /\ (cancelled \/ DOMAIN run[x].batch = {})
    /\ Sched!FinishJob(Mailer, x)
    /\ Go(x, Idle)
    /\ UNCHANGED <<phase, counts, emails, histories, req>>

ListFails(x) ==
    /\ run[x].pc = "list" /\ Fault
    /\ Sched!FinishJob(Mailer, x)
    /\ Go(x, Idle)
    /\ UNCHANGED <<phase, deaths, emails, histories, req>>

ListScheduled(x) ==
    /\ run[x].pc = "list" /\ ~cancelled
    /\ Go(x, [pc |-> "next", batch |-> [e \in Due |-> emails[e].log]])
    /\ UNCHANGED <<phase, counts, emails, histories, req, sched>>

(* The Update that marks the next email as SENDING, whatever it is by now.  *)
Claim(x, e) ==
    /\ run[x].pc = "next" /\ e \in DOMAIN run[x].batch /\ ~cancelled
    /\ emails' = Stored(e, "SENDING", run[x].batch[e])
    /\ Go(x, [pc |-> "send", batch |-> Drop(run[x].batch, e), mail |-> e,
              log |-> run[x].batch[e], left |-> Recipients])
    /\ UNCHANGED <<phase, counts, histories, req, sched>>

ClaimFails(x, e) ==
    /\ run[x].pc = "next" /\ e \in DOMAIN run[x].batch /\ Fault
    /\ Go(x, [run[x] EXCEPT !.batch = Drop(run[x].batch, e)])
    /\ UNCHANGED <<phase, deaths, emails, histories, req, sched>>

MutantSend(x, r, accepted) == \* the provider's refusal is overlooked
    /\ run[x].pc = "send" /\ r \in run[x].left /\ ~cancelled
    /\ copies' = IF accepted /\ copies[run[x].mail][r] < 2
                 THEN [copies EXCEPT ![run[x].mail][r] = @ + 1] ELSE copies
    /\ Go(x, [run[x] EXCEPT !.left = @ \ {r}, !.log = [@ EXCEPT ![r] = "SENT"]])
    /\ UNCHANGED <<phase, counts, emails, simulated, req, sched>>
Send(x, r, accepted) ==
    /\ run[x].pc = "send" /\ r \in run[x].left /\ ~cancelled
    /\ copies' = IF accepted /\ copies[run[x].mail][r] < 2
                 THEN [copies EXCEPT ![run[x].mail][r] = @ + 1] ELSE copies
    /\ Go(x, [run[x] EXCEPT !.left = @ \ {r},
              !.log = [@ EXCEPT ![r] = IF accepted THEN "SENT" ELSE "FAILED"]])
    /\ UNCHANGED <<phase, counts, emails, simulated, req, sched>>

(* sendEmail's own Update.  When every recipient failed it succeeds, and    *)
(* the error sendEmail returns has Run write FAILED once more.              *)
Record(x) ==
    /\ run[x].pc = "send" /\ run[x].left = {} /\ ~cancelled
    /\ Outcome(run[x].log) # "PARTIAL"
    /\ emails' = Stored(run[x].mail, Outcome(run[x].log), run[x].log)
    /\ Go(x, IF Outcome(run[x].log) = "FAILED" THEN [run[x] EXCEPT !.pc = "fail"]
             ELSE [pc |-> "next", batch |-> run[x].batch])
    /\ UNCHANGED <<phase, counts, histories, req, sched>>

(* sendEmail returns an error before or at its Update: the context is done, *)
(* or the table refuses the status PARTIAL, or the statement fails.         *)
SendFails(x) ==
    /\ run[x].pc = "send"
    /\ \/ cancelled /\ faults' = faults
       \/ run[x].left = {} /\ Outcome(run[x].log) = "PARTIAL" /\ faults' = faults
       \/ run[x].left = {} /\ Fault
    /\ Go(x, [run[x] EXCEPT !.pc = "fail"])
    /\ UNCHANGED <<phase, deaths, emails, histories, req, sched>>

(* Run's Update to FAILED, whose error is ignored. *)
MarkFailed(x) ==
    /\ run[x].pc = "fail"
    /\ \/ /\ ~cancelled /\ UNCHANGED faults
          /\ emails' = Stored(run[x].mail, "FAILED", run[x].log)
       \/ cancelled /\ UNCHANGED <<faults, emails>>
       \/ Fault /\ UNCHANGED emails
    /\ Go(x, [pc |-> "next", batch |-> run[x].batch])
    /\ UNCHANGED <<phase, deaths, histories, req, sched>>

(***************************************************************************)
(* The process                                                              *)
(***************************************************************************)
Calm == UNCHANGED <<phase, counts, emails, histories, req, run>>

Schedules ==
    \/ Sched!Tick(Mailer)
    \/ Sched!TakeTick(Mailer)
    \/ Sched!Leave(Mailer)
    \/ Serving /\ Sched!RunJobNow(Mailer)
    \/ \E x \in Sched!Executors : Sched!SkipJob(Mailer, x)

(* A signal: srv.Shutdown takes no more requests and waits for those there  *)
(* are, but not for the goroutines they started.                            *)
Shutdown ==
    /\ phase = "up" /\ deaths < MaxDeaths
    /\ deaths' = deaths + 1
    /\ phase' = "draining"
    /\ UNCHANGED <<faults, emails, histories, req, run, sched>>

StopScheduler ==
    /\ phase = "draining" /\ \A w \in Workers : req[w].pc \in {"idle", "process"}
    /\ phase' = "stopping"
    /\ Sched!Stop
    /\ UNCHANGED <<counts, emails, histories, req, run>>

Vanish ==
    /\ phase' = "down"
    /\ req' = [w \in Workers |-> Idle]
    /\ run' = [x \in Sched!Executors |-> Idle]
    /\ Sched!Die
    /\ UNCHANGED <<faults, emails, histories>>

Exit ==
    /\ phase = "stopping" /\ Sched!Stopped
    /\ Vanish /\ UNCHANGED deaths

(* Also what log.Fatalf does when the requests take more than ten seconds.  *)
Crash ==
    /\ Alive /\ deaths < MaxDeaths
    /\ deaths' = deaths + 1
    /\ Vanish

Restart ==
    /\ phase = "down"
    /\ phase' = "up"
    /\ Sched!Start
    /\ UNCHANGED <<counts, emails, histories, req, run>>

Requests ==
    \/ \E e \in Mails, later \in BOOLEAN : Compose(e, later)
    \/ \E w \in Workers, e \in Mails : ComposeAndSend(w, e)
    \/ \E w \in Workers, e \in Mails, op \in Ops : Read(w, e, op)
    \/ \E w \in Workers : RequestFails(w)

Answers(w) == Cancel(w) \/ Schedule(w) \/ SendNow(w) \/ Delete(w) \/ ProcessEmailSend(w)

Job(x) ==
    \/ ExecuteJob(x) \/ FinishJob(x) \/ ListFails(x) \/ ListScheduled(x)
    \/ \E e \in Mails : Claim(x, e) \/ ClaimFails(x, e)
    \/ \E r \in Recipients, accepted \in BOOLEAN : Send(x, r, accepted)
    \/ Record(x) \/ SendFails(x) \/ MarkFailed(x)

Next ==
    \/ Requests
    \/ \E w \in Workers : Answers(w)
    \/ \E e \in Mails : TimeComes(e)
    \/ \E x \in Sched!Executors : Job(x)
    \/ Calm /\ Schedules
    \/ Shutdown \/ StopScheduler \/ Exit \/ Crash \/ Restart

(* Code that has been called goes on, time passes, tickers tick, and the    *)
(* container is restarted (restart: unless-stopped).  A select between the  *)
(* context and the ticker is random, so it does not take the tick for ever: *)
(* strong fairness.  Users and signals owe nothing.                         *)
Fairness ==
    /\ \A w \in Workers : WF_vars(Answers(w))
    /\ \A e \in Mails : WF_vars(TimeComes(e))
    /\ \A x \in {"loop", "manual"} :
         WF_vars(Job(x)) /\ WF_vars(Calm /\ Sched!SkipJob(Mailer, x))
    /\ WF_vars(Calm /\ Sched!Tick(Mailer))
    /\ WF_vars(Calm /\ Sched!TakeTick(Mailer))
    /\ SF_vars(Calm /\ Sched!Leave(Mailer))
    /\ WF_vars(StopScheduler) /\ WF_vars(Exit) /\ WF_vars(Restart)

Safety == Init /\ [][Next]_vars
Spec == Safety /\ Fairness

(***************************************************************************)
(* Properties                                                               *)
(***************************************************************************)
TypeOK ==
    /\ phase \in {"up", "draining", "stopping", "down"}
    /\ faults \in 0..MaxFaults /\ deaths \in 0..MaxDeaths
    /\ emails \in [Mails -> Email \cup {NoEmail, DeletedEmail}]
    /\ copies \in [Mails -> [Recipients -> 0..2]]
    /\ simulated \subseteq Mails
    /\ req \in [Workers -> Request]
    /\ run \in [Sched!Executors -> Run]
    /\ Sched!SchedTypeOK

(* The scheduler never runs the job twice at once, and the two modules      *)
(* agree on who runs it.                                                    *)
OneRun ==
    /\ Sched!RunsDoNotOverlap
    /\ \A x \in Sched!Executors : (runner[Mailer][x] = "running") = (run[x] # Idle)

(* The abstract view: an email is taken while a run of the job has it, open *)
(* while a later run would find it, and otherwise the job is done with it.  *)
Stage ==
    [e \in Mails |->
       IF emails[e] = NoEmail THEN "absent"
       ELSE IF e \in Held THEN "taken"
       ELSE IF emails[e].status = "SCHEDULED" /\ emails[e].at # "null" THEN "open"
       ELSE "closed"]

Promise == INSTANCE Outbox WITH Addressees <- Recipients, stage <- Stage

(* The job, with whatever users do to an email meanwhile and wherever the   *)
(* process dies, keeps the promise of Outbox: nobody gets two copies, and   *)
(* an email cancelled before a run read it is never sent, whatever late     *)
(* write of another request comes after.                                    *)
KeepsPromise == Promise!Spec

(* What the row says of a recipient is true: SENT was accepted by the       *)
(* provider, unless the email was "sent now", which only pretends to.       *)
LogIsTrue ==
    \A e \in Mails \ simulated, r \in Recipients :
      Exists(e) => (emails[e].log[r] = "SENT" => copies[e][r] = 1)

(* An email composed for later is taken up once its time has come.          *)
DueIsTakenUp ==
    \A e \in Mails : (e \in Due) ~> (emails[e].status # "SCHEDULED")

(* An email does not stay SENDING, unless a statement failed or the process *)
(* died meanwhile: nothing ever takes such an email up again.               *)
SendingEnds ==
    \A e \in Mails : (emails[e].status = "SENDING")
                       ~> (emails[e].status # "SENDING" \/ faults > 0 \/ deaths > 0)

(* What is due is sent or fails, some day. *)
EmailsMoveOn == DueIsTakenUp /\ SendingEnds
==============================================================================
