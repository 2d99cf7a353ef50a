----------------------------- MODULE EmailsProofs -----------------------------
(***************************************************************************)
(* Proofs about Emails, for any number of emails, recipients and requests,  *)
(* and any number of faults, shutdowns and crashes: the scheduler never     *)
(* runs the job twice at once, the log of every email is true, and Emails   *)
(* implements Outbox.                                                       *)
(***************************************************************************)
EXTENDS Emails, TLAPS

(* A run would find the email, now or when its time has come. *)
Waiting(e) == emails[e].status = "SCHEDULED" /\ emails[e].at # "null"
Unsent(e) == \A r \in Recipients : copies[e][r] = 0

(* A log says of nobody that they got the email if they did not, unless     *)
(* processEmailSend pretended it for all.                                   *)
Truthful(e, log) ==
    \A r \in Recipients : log[r] = "SENT" => e \in simulated \/ copies[e][r] = 1

DownIsOff == phase = "down" => \A x \in Sched!Executors : runner[Mailer][x] = "off"

RowFits(e) ==
    /\ emails[e] = NoEmail \/ Waiting(e) => Unsent(e)
    /\ emails[e].status = "DRAFT" => emails[e].at = "null"
    /\ Exists(e) => Truthful(e, emails[e].log)

RequestFits(r) ==
    r # Idle =>
      /\ emails[r.mail] # NoEmail
      /\ Truthful(r.mail, r.log)
      /\ r.pc = "schedule" /\ Exists(r.mail) => emails[r.mail].at = "null"
      /\ r.pc = "process" => r.mail \in simulated

(* Nothing of a batch was sent yet, whatever became of its rows; the email  *)
(* an executor sends will not be found again, and went to nobody who is     *)
(* left.                                                                    *)
RunFits(r) ==
    /\ r.pc \in {"next", "send", "fail"} =>
         \A e \in DOMAIN r.batch :
           emails[e] # NoEmail /\ Unsent(e) /\ Truthful(e, r.batch[e])
    /\ r.pc \in {"send", "fail"} =>
         /\ r.mail \notin DOMAIN r.batch
         /\ emails[r.mail] # NoEmail /\ ~Waiting(r.mail)
         /\ Truthful(r.mail, r.log)
    /\ r.pc = "send" => \A p \in r.left : copies[r.mail][p] = 0

Row == Email \cup {NoEmail, DeletedEmail}
Log == [Recipients -> Delivery]

Settled ==
    /\ phase \in {"up", "draining", "stopping", "down"}
    /\ faults \in 0..MaxFaults /\ deaths \in 0..MaxDeaths
    /\ emails \in [Mails -> Row]
    /\ copies \in [Mails -> [Recipients -> 0..2]]
    /\ simulated \subseteq Mails
    /\ \A e \in Mails : RowFits(e)

RequestsFit == req \in [Workers -> Request] /\ \A w \in Workers : RequestFits(req[w])
RunsFit == \A x \in Sched!Executors : RunFits(run[x])

SchedFits ==
    /\ run \in [Sched!Executors -> Run]
    /\ Sched!SchedTypeOK /\ OneRun /\ DownIsOff

IInv == Settled /\ RequestsFit /\ RunsFit /\ SchedFits

(***************************************************************************)
(* Shapes                                                                   *)
(***************************************************************************)
(* A row of the table exists exactly when it has the fields of one. *)
LEMMA RowShape ==
  ASSUME NEW row \in Row
  PROVE  /\ row.status \in Status => row \in Email
         /\ row \in Email => /\ row.status \in Status /\ row.at \in When /\ row.log \in Log
                             /\ row # NoEmail /\ row # DeletedEmail
         /\ row # NoEmail /\ row # DeletedEmail => row \in Email
         /\ NoEmail # DeletedEmail
  BY DEF Row, Email, NoEmail, DeletedEmail, Status, Log

(* A request in flight has an email and the log it read. *)
LEMMA RequestShape ==
  ASSUME NEW r \in Request
  PROVE  /\ r # Idle => r.pc \in Ops \cup {"process"} /\ r.mail \in Mails /\ r.log \in Log
         /\ (r = Idle) = (r.pc = "idle")
  BY DEF Request, Idle, Ops, Log

(* A batch is a set of emails, each with the log it was read with. *)
LEMMA BatchShape ==
  ASSUME NEW b \in Batch
  PROVE  DOMAIN b \subseteq Mails /\ \A e \in DOMAIN b : b[e] \in Log
  BY DEF Batch, Log

LEMMA DropShape ==
  ASSUME NEW b \in Batch, NEW e
  PROVE  /\ Drop(b, e) \in Batch
         /\ DOMAIN Drop(b, e) = DOMAIN b \ {e}
         /\ \A m \in DOMAIN b \ {e} : Drop(b, e)[m] = b[m]
<1> PICK S \in SUBSET Mails : b \in [S -> Log]
  BY DEF Batch, Log
<1>1. Drop(b, e) \in [S \ {e} -> Log]
  BY DEF Drop
<1>2. [S \ {e} -> Log] \subseteq Batch
  BY DEF Batch, Log
<1> QED
  BY <1>1, <1>2 DEF Drop

(* What an executor keeps tells by its place. *)
LEMMA RunShape ==
  ASSUME NEW r \in Run
  PROVE  /\ r.pc \in {"idle", "list", "next", "send", "fail"}
         /\ (r = Idle) = (r.pc = "idle")
         /\ r.pc \in {"next", "send", "fail"} => r.batch \in Batch
         /\ r.pc = "next" => r = [pc |-> "next", batch |-> r.batch]
         /\ r.pc \in {"send", "fail"} =>
              /\ r.mail \in Mails /\ r.log \in Log /\ r.left \subseteq Recipients
              /\ r = [pc |-> r.pc, batch |-> r.batch, mail |-> r.mail, log |-> r.log,
                      left |-> r.left]
<1> DEFINE B == Batch
           S == SUBSET Recipients
<1>1. /\ B = Batch /\ S = SUBSET Recipients
  OBVIOUS
<1>2. r \in {[pc |-> "idle"]} \cup [pc: {"list"}]
       \cup [pc: {"next"}, batch: B]
       \cup [pc: {"send", "fail"}, batch: B, mail: Mails, log: Log, left: S]
  BY <1>1 DEF Run, Idle, Log
<1> HIDE DEF B, S
<1> QED
  BY <1>1, <1>2 DEF Idle

(***************************************************************************)
(* What no step undoes                                                      *)
(***************************************************************************)
RowsGoOn ==
    \A e \in Mails :
      /\ emails'[e] = NoEmail => emails[e] = NoEmail
      /\ Waiting(e)' => Waiting(e) \/ emails[e] = NoEmail
      /\ emails[e] # NoEmail /\ Exists(e)'
           => Exists(e) /\ (emails[e].at = "null" => emails'[e].at = "null")

CopiesGoOn ==
    /\ simulated \subseteq simulated'
    /\ \A e \in Mails, r \in Recipients : copies[e][r] = 1 => copies'[e][r] = 1

(* A true log stays true. *)
LEMMA TruthStays ==
  ASSUME CopiesGoOn, NEW e \in Mails, NEW log, Truthful(e, log)
  PROVE  Truthful(e, log)'
  BY DEF CopiesGoOn, Truthful

(* What a request read stays fit to be written. *)
LEMMA RequestStays ==
  ASSUME RowsGoOn, CopiesGoOn, NEW r \in Request, RequestFits(r)
  PROVE  RequestFits(r)'
<1> SUFFICES ASSUME r # Idle
             PROVE  /\ emails'[r.mail] # NoEmail
                    /\ Truthful(r.mail, r.log)'
                    /\ r.pc = "schedule" /\ Exists(r.mail)' => emails'[r.mail].at = "null"
                    /\ r.pc = "process" => r.mail \in simulated'
  BY DEF RequestFits
<1>1. r.mail \in Mails
  BY RequestShape
<1> QED
  BY <1>1, TruthStays DEF RequestFits, RowsGoOn, CopiesGoOn

(* What an executor holds stays so while nothing is sent. *)
LEMMA RunStays ==
  ASSUME RowsGoOn, UNCHANGED copies, simulated \subseteq simulated',
         NEW r \in Run, RunFits(r)
  PROVE  RunFits(r)'
<1>1. CopiesGoOn
  BY DEF CopiesGoOn
<1>2. ASSUME r.pc \in {"next", "send", "fail"}, NEW e \in DOMAIN r.batch
      PROVE  (emails[e] # NoEmail /\ Unsent(e) /\ Truthful(e, r.batch[e]))'
  <2>1. e \in Mails
    BY <1>2, RunShape, BatchShape
  <2> QED
    BY <1>1, <1>2, <2>1, TruthStays DEF RunFits, RowsGoOn, Unsent
<1>3. ASSUME r.pc \in {"send", "fail"}
      PROVE  /\ r.mail \notin DOMAIN r.batch
             /\ (emails[r.mail] # NoEmail /\ ~Waiting(r.mail) /\ Truthful(r.mail, r.log))'
  <2>1. r.mail \in Mails
    BY <1>3, RunShape
  <2> QED
    BY <1>1, <1>3, <2>1, TruthStays DEF RunFits, RowsGoOn
<1>4. r.pc = "send" => \A p \in r.left : copies'[r.mail][p] = 0
  BY DEF RunFits
<1> QED
  BY <1>2, <1>3, <1>4 DEF RunFits

(* The write of a whole row, by a request or by the job: it makes no email  *)
(* wait that did not, and it tells no lie if the log it writes is true.     *)
LEMMA StoredKeeps ==
  ASSUME emails \in [Mails -> Row], \A m \in Mails : RowFits(m),
         NEW e \in Mails, NEW s \in Status \ {"DRAFT"}, NEW l \in Log,
         emails' = Stored(e, s, l), UNCHANGED copies, simulated \subseteq simulated',
         s = "SCHEDULED" /\ Exists(e) => emails[e].at = "null",
         Truthful(e, l)'
  PROVE  /\ emails' \in [Mails -> Row]
         /\ RowsGoOn /\ CopiesGoOn
         /\ \A m \in Mails : RowFits(m)'
         /\ ~Waiting(e)'
<1>1. CopiesGoOn
  BY DEF CopiesGoOn
<1>2. CASE ~Exists(e)
  <2>1. emails' = emails
    BY <1>2 DEF Stored
  <2>2. RowsGoOn
    BY <2>1 DEF RowsGoOn, Waiting, Exists
  <2>3. \A m \in Mails : RowFits(m)'
    BY <1>1, <2>1, TruthStays DEF RowFits, Waiting, Unsent, Exists
  <2>4. ~Waiting(e)'
    BY <1>2, <2>1 DEF Waiting, Exists, Status
  <2> QED
    BY <1>1, <2>1, <2>2, <2>3, <2>4
<1>3. CASE Exists(e)
  <2>1. emails[e] \in Email
    BY <1>3, RowShape DEF Exists
  <2>2. /\ emails' = [emails EXCEPT ![e] = [@ EXCEPT !.status = s, !.log = l]]
        /\ emails'[e] = [status |-> s, at |-> emails[e].at, log |-> l]
        /\ \A m \in Mails \ {e} : emails'[m] = emails[m]
    BY <1>3, <2>1 DEF Stored, Email
  <2>3. emails'[e] \in Email
    BY <2>1, <2>2 DEF Email, Log
  <2>4. emails' \in [Mails -> Row]
    BY <2>2, <2>3 DEF Row
  <2>5. Waiting(e)' => FALSE
    BY <1>3, <2>2 DEF Waiting
  <2>6. emails[e] # NoEmail /\ emails'[e] # NoEmail
    BY <2>1, <2>3, RowShape DEF Row
  <2>7. RowsGoOn
    BY <1>3, <2>2, <2>5, <2>6 DEF RowsGoOn, Waiting, Exists
  <2>8. ASSUME NEW m \in Mails PROVE RowFits(m)'
    <3>1. CASE m = e
      BY <2>2, <2>5, <2>6, <3>1 DEF RowFits
    <3>2. CASE m # e
      BY <1>1, <2>2, <3>2, TruthStays DEF RowFits, Waiting, Unsent, Exists
    <3> QED
      BY <3>1, <3>2
  <2> QED
    BY <1>1, <2>4, <2>5, <2>7, <2>8
<1> QED
  BY <1>2, <1>3

(***************************************************************************)
(* Who runs                                                                 *)
(***************************************************************************)
(* At most one executor has anything. *)
LEMMA AloneRuns ==
  ASSUME SchedFits, NEW x \in Sched!Executors, run[x] # Idle
  PROVE  \A y \in Sched!Executors \ {x} : run[y] = Idle
  BY DEF SchedFits, OneRun, Sched!RunsDoNotOverlap

(* A run begins (executeJob): IsRunning was false, so there was none. *)
LEMMA ExecuteKeeps ==
  ASSUME SchedFits, NEW x \in Sched!Executors, Sched!ExecuteJob(Mailer, x),
         Go(x, [pc |-> "list"]), UNCHANGED phase
  PROVE  SchedFits' /\ \A y \in Sched!Executors : run[y] = Idle
<1>1. [pc |-> "list"] \in Run /\ [pc |-> "list"] # Idle
  BY DEF Run, Idle
<1>2. \A y \in Sched!Executors : runner[Mailer][y] # "running" /\ run[y] = Idle
  BY DEF SchedFits, OneRun, Sched!RunsDoNotOverlap, Sched!ExecuteJob
<1>3. /\ runner'[Mailer] = [runner[Mailer] EXCEPT ![x] = "running"]
      /\ Sched!SchedTypeOK'
  BY DEF SchedFits, Sched!SchedTypeOK, Sched!ExecuteJob, Sched!Put, Sched!Places
<1>4. run' = [run EXCEPT ![x] = [pc |-> "list"]] /\ run' \in [Sched!Executors -> Run]
  BY <1>1 DEF SchedFits, Go
<1>5. runner[Mailer] \in [Sched!Executors -> Sched!Places]
  BY DEF SchedFits, Sched!SchedTypeOK
<1>6. OneRun'
  <2>1. \A y \in Sched!Executors : (runner'[Mailer][y] = "running") = (y = x)
    BY <1>2, <1>3, <1>5
  <2>2. \A y \in Sched!Executors : (run'[y] # Idle) = (y = x)
    BY <1>1, <1>2, <1>4 DEF SchedFits
  <2>3. isRunning'[Mailer] = TRUE
    BY DEF SchedFits, Sched!SchedTypeOK, Sched!ExecuteJob
  <2> QED
    BY <2>1, <2>2, <2>3 DEF OneRun, Sched!RunsDoNotOverlap
<1>7. DownIsOff'
  BY DEF SchedFits, DownIsOff, Sched!ExecuteJob
<1> QED
  BY <1>2, <1>3, <1>4, <1>6, <1>7 DEF SchedFits

(* A run ends: IsRunning becomes false, and there is none. *)
LEMMA FinishKeeps ==
  ASSUME SchedFits, NEW x \in Sched!Executors, Sched!FinishJob(Mailer, x),
         Go(x, Idle), UNCHANGED phase
  PROVE  SchedFits' /\ \A y \in Sched!Executors : run'[y] = Idle
<1>1. Idle \in Run
  BY DEF Run
<1>2. \A y \in Sched!Executors \ {x} : runner[Mailer][y] # "running" /\ run[y] = Idle
  BY DEF SchedFits, OneRun, Sched!RunsDoNotOverlap, Sched!FinishJob
<1>3. /\ runner'[Mailer] = [runner[Mailer] EXCEPT ![x] = Sched!Rest(x)]
      /\ Sched!SchedTypeOK' /\ Sched!Rest(x) # "running"
  BY DEF SchedFits, Sched!SchedTypeOK, Sched!FinishJob, Sched!Put, Sched!Places, Sched!Rest
<1>4. run' = [run EXCEPT ![x] = Idle] /\ run' \in [Sched!Executors -> Run]
  BY <1>1 DEF SchedFits, Go
<1>5. runner[Mailer] \in [Sched!Executors -> Sched!Places]
  BY DEF SchedFits, Sched!SchedTypeOK
<1>6. \A y \in Sched!Executors : run'[y] = Idle /\ runner'[Mailer][y] # "running"
  BY <1>2, <1>3, <1>4, <1>5 DEF SchedFits
<1>7. OneRun'
  <2>1. isRunning'[Mailer] = FALSE
    BY DEF SchedFits, Sched!SchedTypeOK, Sched!FinishJob
  <2> QED
    BY <1>6, <2>1 DEF OneRun, Sched!RunsDoNotOverlap
<1>8. DownIsOff'
  BY DEF SchedFits, DownIsOff, Sched!FinishJob
<1> QED
  BY <1>3, <1>4, <1>6, <1>7, <1>8 DEF SchedFits

(* What the scheduler does besides starts and ends no run. *)
LEMMA SchedulesKeep ==
  ASSUME SchedFits, Schedules, UNCHANGED <<phase, run>>
  PROVE  SchedFits'
<1> DEFINE Keeps == /\ Sched!SchedTypeOK' /\ isRunning' = isRunning
                    /\ \A y \in Sched!Executors :
                         /\ runner'[Mailer][y] = "running" <=> runner[Mailer][y] = "running"
                         /\ phase = "down" => runner'[Mailer][y] = "off"
<1>1. ASSUME Keeps PROVE SchedFits'
  <2>1. OneRun'
    <3>1. Sched!RunsDoNotOverlap'
      <4>1. /\ isRunning[Mailer] = (\E x \in Sched!Executors : runner[Mailer][x] = "running")
            /\ \A x, y \in Sched!Executors :
                 runner[Mailer][x] = "running" /\ runner[Mailer][y] = "running" => x = y
        BY DEF SchedFits, OneRun, Sched!RunsDoNotOverlap
      <4>2. isRunning'[Mailer] = (\E x \in Sched!Executors : runner'[Mailer][x] = "running")
        BY <1>1, <4>1
      <4>3. \A x, y \in Sched!Executors :
              runner'[Mailer][x] = "running" /\ runner'[Mailer][y] = "running" => x = y
        BY <1>1, <4>1
      <4> QED
        BY <4>2, <4>3 DEF Sched!RunsDoNotOverlap
    <3>2. run' = run
      OBVIOUS
    <3> QED
      BY <1>1, <3>1, <3>2 DEF SchedFits, OneRun
  <2> QED
    BY <1>1, <2>1 DEF SchedFits, DownIsOff
<1>2. ASSUME Sched!Tick(Mailer) PROVE Keeps
  BY <1>2 DEF SchedFits, DownIsOff, Sched!SchedTypeOK, Sched!Tick
<1>3. ASSUME Sched!TakeTick(Mailer) \/ Sched!Leave(Mailer) PROVE Keeps
  <2> PICK place \in {"ready", "off"} :
        /\ runner[Mailer]["loop"] = "waiting" /\ Sched!Put(Mailer, "loop", place)
        /\ ticked' = [ticked EXCEPT ![Mailer] = FALSE]
        /\ UNCHANGED <<running, cancelled, isRunning>>
    BY <1>3 DEF Sched!TakeTick, Sched!Leave
  <2> QED
    BY DEF SchedFits, DownIsOff, Sched!SchedTypeOK, Sched!Put, Sched!Executors, Sched!Places
<1>4. ASSUME Serving, Sched!RunJobNow(Mailer) PROVE Keeps
  BY <1>4 DEF SchedFits, Serving, Sched!SchedTypeOK, Sched!RunJobNow, Sched!Put,
     Sched!Executors, Sched!Places
<1>5. ASSUME NEW x \in Sched!Executors, Sched!SkipJob(Mailer, x) PROVE Keeps
  BY <1>5 DEF SchedFits, DownIsOff, Sched!SchedTypeOK, Sched!SkipJob, Sched!Put, Sched!Rest,
     Sched!Executors, Sched!Places
<1> QED
  BY <1>1, <1>2, <1>3, <1>4, <1>5 DEF Schedules

(***************************************************************************)
(* Frames                                                                   *)
(***************************************************************************)
(* A step of a request, or of the clock. *)
LEMMA RequestKeeps ==
  ASSUME IInv, UNCHANGED <<phase, deaths, copies, run, sched>>, faults' \in 0..MaxFaults,
         emails' \in [Mails -> Row], simulated' \subseteq Mails, simulated \subseteq simulated',
         RowsGoOn, \A e \in Mails : RowFits(e)',
         req' \in [Workers -> Request],
         \A w \in Workers : req'[w] = req[w] \/ RequestFits(req[w])'
  PROVE  IInv' /\ RowsGoOn
<1>1. CopiesGoOn
  BY DEF CopiesGoOn
<1>2. Settled'
  BY DEF IInv, Settled
<1>3. RequestsFit'
  BY <1>1, RequestStays DEF IInv, RequestsFit
<1>4. RunsFit'
  BY RunStays DEF IInv, RunsFit, SchedFits
<1>5. SchedFits'
  BY DEF IInv, SchedFits, OneRun, DownIsOff, sched, Sched!SchedTypeOK, Sched!RunsDoNotOverlap
<1> QED
  BY <1>2, <1>3, <1>4, <1>5 DEF IInv

(* A step of a run of the job. *)
LEMMA JobKeeps ==
  ASSUME IInv, NEW x \in Sched!Executors, run[x] # Idle,
         NEW r \in Run, r # Idle, Go(x, r),
         UNCHANGED <<phase, deaths, simulated, req, sched>>, faults' \in 0..MaxFaults,
         emails' \in [Mails -> Row], copies' \in [Mails -> [Recipients -> 0..2]],
         RowsGoOn, CopiesGoOn, \A e \in Mails : RowFits(e)', RunFits(r)'
  PROVE  IInv' /\ RowsGoOn
<1>1. Settled'
  BY DEF IInv, Settled
<1>2. RequestsFit'
  BY RequestStays DEF IInv, RequestsFit
<1>3. run' = [run EXCEPT ![x] = r] /\ run' \in [Sched!Executors -> Run]
  BY DEF IInv, Go, SchedFits
<1>4. \A y \in Sched!Executors \ {x} : run'[y] = Idle
  BY <1>3, AloneRuns DEF IInv
<1>5. RunsFit'
  <2>1. RunFits(Idle)'
    BY DEF RunFits, Idle
  <2> QED
    BY <1>3, <1>4, <2>1 DEF RunsFit
<1>6. SchedFits'
  <2>1. \A y \in Sched!Executors : (run'[y] # Idle) = (run[y] # Idle)
    BY <1>3, <1>4, AloneRuns DEF IInv
  <2> QED
    BY <1>3, <2>1 DEF IInv, SchedFits, OneRun, DownIsOff, sched, Sched!SchedTypeOK,
       Sched!RunsDoNotOverlap
<1> QED
  BY <1>1, <1>2, <1>5, <1>6 DEF IInv

(***************************************************************************)
(* Requests                                                                 *)
(***************************************************************************)
(* Nothing of the table changes. *)
LEMMA SameRows ==
  ASSUME Settled, UNCHANGED <<emails, copies, simulated>>
  PROVE  /\ emails' \in [Mails -> Row] /\ simulated' \subseteq Mails
         /\ RowsGoOn /\ CopiesGoOn
         /\ \A e \in Mails : RowFits(e)'
  BY DEF Settled, RowsGoOn, CopiesGoOn, RowFits, Waiting, Exists, Unsent, Truthful

(* A new email: nobody got it, and its log says so. *)
LEMMA BornKeeps ==
  ASSUME Settled, NEW e \in Mails, emails[e] = NoEmail,
         NEW row \in Email, row.log = FreshLog, row.status = "DRAFT" => row.at = "null",
         emails' = [emails EXCEPT ![e] = row], UNCHANGED copies,
         simulated \subseteq simulated'
  PROVE  /\ emails' \in [Mails -> Row] /\ emails'[e] # NoEmail
         /\ RowsGoOn /\ CopiesGoOn
         /\ \A m \in Mails : RowFits(m)'
         /\ Truthful(e, FreshLog)'
<1>1. emails' \in [Mails -> Row] /\ emails'[e] = row
  BY DEF Settled, Row
<1>2. row # NoEmail
  BY DEF Email, NoEmail, Status
<1>3. \A m \in Mails \ {e} : emails'[m] = emails[m]
  BY DEF Settled
<1>4. RowsGoOn
  BY <1>1, <1>2, <1>3 DEF RowsGoOn, Waiting, Exists
<1>5. CopiesGoOn
  BY DEF CopiesGoOn
<1>6. Truthful(e, FreshLog)'
  BY DEF Truthful, FreshLog
<1>7. Unsent(e)'
  BY DEF Settled, RowFits, Unsent
<1>8. ASSUME NEW m \in Mails PROVE RowFits(m)'
  <2>1. CASE m = e
    BY <1>1, <1>6, <1>7, <2>1 DEF RowFits
  <2>2. CASE m # e
    BY <1>3, <1>5, <2>2, TruthStays DEF Settled, RowFits, Waiting, Unsent, Exists
  <2> QED
    BY <2>1, <2>2
<1> QED
  BY <1>1, <1>2, <1>4, <1>5, <1>6, <1>8

(* An email is composed, for later or at once (ComposeEmail). *)
LEMMA ComposeKeeps ==
  ASSUME IInv, NEW e \in Mails,
         \/ \E later \in BOOLEAN : Compose(e, later)
         \/ \E w \in Workers : ComposeAndSend(w, e)
  PROVE  IInv' /\ RowsGoOn
<1> USE DEF IInv
<1>0. FreshLog \in Log
  BY DEF FreshLog, Log, Delivery
<1>1. ASSUME NEW later \in BOOLEAN, Compose(e, later)
      PROVE  IInv' /\ RowsGoOn
  <2> DEFINE row == [status |-> IF later THEN "SCHEDULED" ELSE "DRAFT",
                     at |-> IF later THEN "future" ELSE "null", log |-> FreshLog]
  <2>1. row \in Email /\ row.log = FreshLog /\ (row.status = "DRAFT" => row.at = "null")
    BY <1>0 DEF Email, Status, When, Log
  <2>2. emails[e] = NoEmail /\ emails' = [emails EXCEPT ![e] = row] /\ UNCHANGED histories
    BY <1>1 DEF Compose
  <2> HIDE DEF row
  <2>3. /\ emails' \in [Mails -> Row] /\ RowsGoOn /\ \A m \in Mails : RowFits(m)'
    BY <2>1, <2>2, BornKeeps DEF histories
  <2> QED
    BY <1>1, <2>3, RequestKeeps DEF Compose, counts, histories, Settled, RequestsFit
<1>2. ASSUME NEW w \in Workers, ComposeAndSend(w, e)
      PROVE  IInv' /\ RowsGoOn
  <2> DEFINE row == [status |-> "SENDING", at |-> "null", log |-> FreshLog]
             r == [pc |-> "process", mail |-> e, log |-> FreshLog]
  <2>1. row \in Email /\ row.log = FreshLog /\ (row.status = "DRAFT" => row.at = "null")
    BY <1>0 DEF Email, Status, When, Log
  <2>2. /\ emails[e] = NoEmail /\ emails' = [emails EXCEPT ![e] = row]
        /\ simulated' = simulated \cup {e} /\ UNCHANGED copies
    BY <1>2 DEF ComposeAndSend
  <2> HIDE DEF row
  <2>3. /\ emails' \in [Mails -> Row] /\ RowsGoOn /\ \A m \in Mails : RowFits(m)'
        /\ emails'[e] # NoEmail /\ Truthful(e, FreshLog)'
    BY <2>1, <2>2, BornKeeps
  <2>4. r \in Request /\ r.pc = "process" /\ r.mail = e /\ r.log = FreshLog
    BY <1>0 DEF Request, Log
  <2> HIDE DEF r
  <2>5. RequestFits(r)'
    BY <2>2, <2>3, <2>4 DEF RequestFits
  <2>6. req' = [req EXCEPT ![w] = r]
    BY <1>2 DEF ComposeAndSend, Become, r
  <2>7. req' \in [Workers -> Request] /\ \A v \in Workers : req'[v] = req[v] \/ RequestFits(req[v])'
    BY <2>4, <2>5, <2>6 DEF RequestsFit
  <2>8. simulated' \subseteq Mails /\ simulated \subseteq simulated' /\ faults' \in 0..MaxFaults
    BY <1>2, <2>2 DEF ComposeAndSend, counts, Settled
  <2> QED
    BY <1>2, <2>3, <2>7, <2>8, RequestKeeps DEF ComposeAndSend, counts, sched
<1> QED
  BY <1>1, <1>2

(* A request reads a row whose status lets it go on. *)
LEMMA ReadKeeps ==
  ASSUME IInv, NEW w \in Workers, NEW e \in Mails, NEW op \in Ops, Read(w, e, op)
  PROVE  IInv' /\ RowsGoOn
<1> USE DEF IInv
<1>1. emails[e].status \in {"DRAFT", "SCHEDULED"} /\ (op = "schedule" => emails[e].status = "DRAFT")
  BY DEF Read, MayStart, Ops
<1>2. emails[e] \in Email /\ emails[e] # NoEmail /\ emails[e].log \in Log
  BY <1>1, RowShape DEF Settled, Status
<1> PICK l \in Log : l = emails[e].log
  BY <1>2
<1> PICK r \in Request : r = [pc |-> op, mail |-> e, log |-> l]
  BY DEF Request, Log
<1>3. r.pc = op /\ r.mail = e /\ r.log = l
  OBVIOUS
<1>4. req' = [req EXCEPT ![w] = r] /\ UNCHANGED <<phase, counts, emails, histories, run, sched>>
  BY DEF Read, Become
<1>5. RequestFits(r)'
  <2>1. Truthful(e, l) /\ (op = "schedule" => emails[e].at = "null")
    BY <1>1, <1>2, RowShape DEF Settled, RowFits, Exists
  <2>2. RequestFits(r)
    BY <1>2, <1>3, <2>1 DEF RequestFits, Ops
  <2> QED
    BY <1>4, <2>2, SameRows, RequestStays DEF histories
<1>6. req' \in [Workers -> Request] /\ \A v \in Workers : req'[v] = req[v] \/ RequestFits(req[v])'
  BY <1>4, <1>5 DEF RequestsFit
<1> QED
  BY <1>4, <1>6, SameRows, RequestKeeps DEF counts, histories, Settled

(* A request writes the row it read and is done, or goes on to pretend. *)
LEMMA WriteKeeps ==
  ASSUME IInv, NEW w \in Workers, NEW e \in Mails, NEW s \in Status \ {"DRAFT"}, NEW l \in Log,
         NEW r \in Request,
         req[w] # Idle, req[w].mail = e, emails' = Stored(e, s, l), Become(w, r),
         s = "SCHEDULED" => req[w].pc = "schedule",
         simulated \subseteq simulated', simulated' \subseteq Mails,
         Truthful(e, l)',
         r # Idle => r.pc = "process" /\ r.mail = e /\ r.log = req[w].log /\ e \in simulated',
         UNCHANGED <<phase, counts, copies, run, sched>>
  PROVE  IInv' /\ RowsGoOn
<1> USE DEF IInv
<1> PICK q \in Request : q = req[w]
  BY DEF RequestsFit
<1>1. RequestFits(q) /\ q # Idle /\ q.mail = e
  BY DEF RequestsFit
<1>2. s = "SCHEDULED" /\ Exists(e) => emails[e].at = "null"
  BY <1>1 DEF RequestFits
<1>4. /\ emails' \in [Mails -> Row] /\ RowsGoOn /\ CopiesGoOn /\ \A m \in Mails : RowFits(m)'
  BY <1>1, <1>2, StoredKeeps DEF Settled
<1>5. RequestFits(r)'
  <2>1. RequestFits(q)'
    BY <1>1, <1>4, RequestStays
  <2> QED
    BY <1>1, <2>1 DEF RequestFits
<1>6. req' = [req EXCEPT ![w] = r]
  BY DEF Become
<1>7. req' \in [Workers -> Request] /\ \A v \in Workers : req'[v] = req[v] \/ RequestFits(req[v])'
  BY <1>5, <1>6 DEF RequestsFit
<1> QED
  BY <1>4, <1>7, RequestKeeps DEF counts, Settled

(* The last statement of each request but DeleteEmail. *)
LEMMA AnswersKeep ==
  ASSUME IInv, NEW w \in Workers, Cancel(w) \/ Schedule(w) \/ SendNow(w) \/ ProcessEmailSend(w)
  PROVE  IInv' /\ RowsGoOn
<1> USE DEF IInv
<1> PICK q \in Request : q = req[w]
  BY DEF RequestsFit
<1>1. q.pc \in {"cancel", "schedule", "sendNow", "process"} /\ q # Idle /\ RequestFits(q)
  BY RequestShape DEF Cancel, Schedule, SendNow, ProcessEmailSend, RequestsFit, Idle
<1>2. /\ q.mail \in Mails /\ q.log \in Log /\ Truthful(q.mail, q.log)
      /\ q.pc = "process" => q.mail \in simulated
  BY <1>1, RequestShape DEF RequestFits
<1> PICK e \in Mails, l \in Log : e = q.mail /\ l = q.log
  BY <1>2
<1>3. Idle \in Request /\ simulated \subseteq Mails
  BY DEF Request, Settled
<1>4. CASE Cancel(w) \/ Schedule(w)
  <2> PICK s \in {"CANCELLED", "SCHEDULED"} :
        /\ emails' = Stored(e, s, l) /\ (s = "SCHEDULED" => q.pc = "schedule")
        /\ Become(w, Idle) /\ UNCHANGED <<phase, counts, histories, run, sched>>
    BY <1>4 DEF Cancel, Schedule, Finish
  <2>1. s \in Status \ {"DRAFT"}
    BY DEF Status
  <2>2. Truthful(e, l)'
    BY <1>2 DEF Truthful, histories
  <2> QED
    BY <1>1, <1>3, <2>1, <2>2, WriteKeeps DEF histories
<1>5. CASE SendNow(w)
  <2> PICK r \in Request : r = [q EXCEPT !.pc = "process"]
    BY <1>1, RequestShape DEF Request, Idle
  <2>1. r.pc = "process" /\ r.mail = e /\ r.log = l
    BY <1>1 DEF Request, Idle
  <2>2. /\ emails' = Stored(e, "SENDING", l) /\ Become(w, r) /\ simulated' = simulated \cup {e}
        /\ UNCHANGED <<phase, counts, copies, run, sched>>
    BY <1>5 DEF SendNow
  <2>3. Truthful(e, l)'
    BY <1>2, <2>2 DEF Truthful
  <2>4. "SENDING" \in Status \ {"DRAFT"}
    BY DEF Status
  <2> QED
    BY <1>1, <1>3, <2>1, <2>2, <2>3, <2>4, WriteKeeps
<1>6. CASE ProcessEmailSend(w)
  <2> PICK all \in Log : all = [p \in Recipients |-> "SENT"]
    BY DEF Log, Delivery
  <2>1. /\ emails' = Stored(e, "SENT", all) /\ Become(w, Idle)
        /\ q.pc = "process" /\ UNCHANGED <<phase, counts, histories, run, sched>>
    BY <1>6 DEF ProcessEmailSend, Finish
  <2>2. Truthful(e, all)'
    BY <1>2, <2>1 DEF Truthful, histories
  <2>3. "SENT" \in Status \ {"DRAFT"}
    BY DEF Status
  <2> QED
    BY <1>1, <1>3, <2>1, <2>2, <2>3, WriteKeeps DEF histories
<1> QED
  BY <1>4, <1>5, <1>6

(* A draft is deleted (DeleteEmail): its row is gone for good. *)
LEMMA DeleteKeeps ==
  ASSUME IInv, NEW w \in Workers, Delete(w)
  PROVE  IInv' /\ RowsGoOn
<1> USE DEF IInv
<1> PICK e \in Mails : e = req[w].mail
  BY RequestShape DEF RequestsFit, Delete, Idle
<1>1. req' = [req EXCEPT ![w] = Idle] /\ Idle \in Request /\ RequestFits(Idle)'
  BY DEF Delete, Finish, Become, Request, RequestFits
<1>2. req' \in [Workers -> Request] /\ \A v \in Workers : req'[v] = req[v] \/ RequestFits(req[v])'
  BY <1>1 DEF RequestsFit
<1>3. UNCHANGED <<phase, counts, histories, run, sched>>
  BY DEF Delete
<1>4. /\ emails' \in [Mails -> Row] /\ RowsGoOn /\ \A m \in Mails : RowFits(m)'
  <2>1. CASE emails[e].status = "DRAFT"
    <3>1. emails' = [emails EXCEPT ![e] = DeletedEmail] /\ emails[e] # NoEmail
      BY <2>1 DEF Delete, NoEmail
    <3>2. /\ DeletedEmail \in Row /\ DeletedEmail # NoEmail
          /\ DeletedEmail.status = "deleted" /\ DeletedEmail.status \notin Status
      BY DEF Row, DeletedEmail, NoEmail, Status
    <3>3. emails'[e] = DeletedEmail /\ \A m \in Mails \ {e} : emails'[m] = emails[m]
      BY <3>1 DEF Settled
    <3>4. RowsGoOn
      BY <3>1, <3>2, <3>3 DEF RowsGoOn, Waiting, Exists
    <3>5. ASSUME NEW m \in Mails PROVE RowFits(m)'
      <4>1. CASE m = e
        BY <3>2, <3>3, <4>1 DEF RowFits, Waiting, Exists
      <4>2. CASE m # e
        <5>1. UNCHANGED <<copies, simulated>> /\ emails'[m] = emails[m] /\ RowFits(m)
          BY <1>3, <3>3, <4>2 DEF Settled, histories
        <5> QED
          BY <5>1 DEF RowFits, Waiting, Unsent, Exists, Truthful
      <4> QED
        BY <4>1, <4>2
    <3> QED
      BY <3>1, <3>2, <3>4, <3>5 DEF Settled
  <2>2. CASE emails[e].status # "DRAFT"
    BY <1>3, <2>2, SameRows DEF Delete, histories
  <2> QED
    BY <2>1, <2>2
<1> QED
  BY <1>2, <1>3, <1>4, RequestKeeps DEF counts, histories, Settled

(* Any step of the requests or of the clock. *)
LEMMA RequestsKeep ==
  ASSUME IInv, Requests \/ (\E w \in Workers : Answers(w)) \/ (\E e \in Mails : TimeComes(e))
  PROVE  IInv' /\ RowsGoOn
<1> USE DEF IInv
<1>1. ASSUME NEW w \in Workers, RequestFails(w)
      PROVE  IInv' /\ RowsGoOn
  <2>1. req' = [req EXCEPT ![w] = Idle] /\ Idle \in Request /\ RequestFits(Idle)'
    BY <1>1 DEF RequestFails, Finish, Become, Request, RequestFits
  <2>2. req' \in [Workers -> Request] /\ \A v \in Workers : req'[v] = req[v] \/ RequestFits(req[v])'
    BY <2>1 DEF RequestsFit
  <2>3. faults' \in 0..MaxFaults
    BY <1>1, EmailsAssumption DEF RequestFails, Fault, Settled
  <2> QED
    BY <1>1, <2>2, <2>3, SameRows, RequestKeeps DEF RequestFails, histories, Settled
<1>2. ASSUME NEW e \in Mails, TimeComes(e)
      PROVE  IInv' /\ RowsGoOn
  <2>1. emails[e] \in Email /\ emails[e] # NoEmail
    BY <1>2, RowShape DEF TimeComes, Exists, Settled
  <2>2. /\ emails'[e] = [emails[e] EXCEPT !.at = "due"] /\ emails[e].at = "future"
        /\ \A m \in Mails \ {e} : emails'[m] = emails[m]
        /\ UNCHANGED <<phase, counts, histories, req, run, sched>>
    BY <1>2 DEF TimeComes, Settled
  <2>3. /\ emails'[e] \in Email /\ emails'[e] # NoEmail /\ emails'[e].at = "due"
        /\ emails'[e].status = emails[e].status /\ emails'[e].log = emails[e].log
    BY <2>1, <2>2 DEF Email, When, NoEmail, Status
  <2>4. emails' \in [Mails -> Row]
    BY <1>2, <2>2, <2>3 DEF TimeComes, Settled, Row
  <2>5. RowsGoOn
    BY <2>1, <2>2, <2>3 DEF RowsGoOn, Waiting, Exists
  <2>6. ASSUME NEW m \in Mails PROVE RowFits(m)'
    <3>1. CASE m = e
      <4>1. UNCHANGED <<copies, simulated>> /\ RowFits(e)
        BY <2>2 DEF Settled, histories
      <4>2. (Waiting(e)' => Waiting(e)) /\ (Exists(e)' => Exists(e))
        BY <2>2, <2>3 DEF Waiting, Exists
      <4>3. emails[e].status # "DRAFT"
        BY <2>2, <4>1 DEF RowFits
      <4> QED
        BY <2>1, <2>3, <3>1, <4>1, <4>2, <4>3 DEF RowFits, Unsent, Truthful
    <3>2. CASE m # e
      BY <2>2, <3>2 DEF RowFits, Waiting, Exists, Settled, Unsent, Truthful, histories
    <3> QED
      BY <3>1, <3>2
  <2> QED
    BY <2>2, <2>4, <2>5, <2>6, RequestKeeps DEF counts, histories, Settled, RequestsFit
<1> QED
  BY <1>1, <1>2, ComposeKeeps, ReadKeeps, AnswersKeep, DeleteKeeps DEF Requests, Answers

(***************************************************************************)
(* Runs of the job                                                          *)
(***************************************************************************)
(* What is due waits, and exists. *)
LEMMA DueWaits ==
  ASSUME Settled, NEW e \in Due
  PROVE  /\ e \in Mails /\ Waiting(e) /\ Unsent(e) /\ emails[e] # NoEmail
         /\ emails[e].log \in Log /\ Truthful(e, emails[e].log)
<1>1. e \in Mails /\ emails[e].status = "SCHEDULED" /\ emails[e].at = "due"
  BY DEF Due
<1>2. emails[e] \in Email
  BY <1>1, RowShape DEF Settled, Status
<1> QED
  BY <1>1, <1>2, RowShape DEF Settled, RowFits, Waiting, Exists

(* An executor reads what is due (ListScheduled): nobody was sent any. *)
LEMMA ListKeeps ==
  ASSUME IInv, NEW x \in Sched!Executors, ListScheduled(x)
  PROVE  IInv' /\ RowsGoOn
<1> USE DEF IInv
<1> PICK b \in Batch : b = [e \in Due |-> emails[e].log]
  <2>1. Due \in SUBSET Mails /\ [e \in Due |-> emails[e].log] \in [Due -> Log]
    BY DueWaits DEF Due
  <2> QED
    BY <2>1 DEF Batch, Log
<1> PICK r \in Run : r = [pc |-> "next", batch |-> b]
  BY DEF Run
<1>1. r # Idle /\ r.pc = "next" /\ r.batch = b /\ Go(x, r)
  BY DEF ListScheduled, Idle
<1>2. UNCHANGED <<phase, counts, emails, histories, req, sched>> /\ run[x] # Idle
  BY DEF ListScheduled, Idle
<1>3. RunFits(r)
  BY <1>1, DueWaits DEF RunFits
<1>4. RowsGoOn /\ CopiesGoOn /\ \A e \in Mails : RowFits(e)'
  BY <1>2, SameRows DEF histories
<1>5. RunFits(r)'
  BY <1>2, <1>3, <1>4, RunStays DEF histories
<1> QED
  BY <1>1, <1>2, <1>4, <1>5, JobKeeps DEF counts, histories, Settled

(* An executor takes up the next email, whatever became of its row: it will *)
(* not be found again.                                                      *)
LEMMA ClaimKeeps ==
  ASSUME IInv, NEW x \in Sched!Executors, NEW e \in Mails, Claim(x, e)
  PROVE  IInv' /\ RowsGoOn
<1> USE DEF IInv
<1> PICK q \in Run : q = run[x]
  BY DEF SchedFits
<1> PICK b \in Batch : b = q.batch /\ e \in DOMAIN b
  BY RunShape DEF Claim
<1>1. RunFits(q) /\ q.pc = "next" /\ q # Idle
  BY DEF RunsFit, Claim, Idle
<1>2. \A m \in DOMAIN b : m \in Mails /\ emails[m] # NoEmail /\ Unsent(m) /\ Truthful(m, b[m])
  BY <1>1, BatchShape DEF RunFits
<1> PICK l \in Log : l = b[e]
  BY BatchShape
<1> PICK r \in Run : r = [pc |-> "send", batch |-> Drop(b, e), mail |-> e, log |-> l,
                         left |-> Recipients]
  BY DropShape DEF Run, Log
<1>3. /\ r # Idle /\ r.pc = "send" /\ r.batch = Drop(b, e) /\ r.mail = e /\ r.log = l
      /\ r.left = Recipients /\ Go(x, r)
  BY DEF Claim, Idle
<1>4. emails' = Stored(e, "SENDING", l) /\ UNCHANGED <<phase, counts, histories, req, sched>>
  BY DEF Claim
<1>5. Truthful(e, l)' /\ UNCHANGED <<copies, simulated>>
  BY <1>2, <1>4 DEF Truthful, histories
<1>6. "SENDING" \in Status \ {"DRAFT"}
  BY DEF Status
<1>7. /\ emails' \in [Mails -> Row] /\ RowsGoOn /\ CopiesGoOn /\ \A m \in Mails : RowFits(m)'
      /\ ~Waiting(e)'
  BY <1>4, <1>5, <1>6, StoredKeeps DEF Settled
<1>8. emails'[e] # NoEmail
  BY <1>2, <1>7 DEF RowsGoOn
<1>9. RunFits(r)'
  <2>1. \A m \in DOMAIN r.batch :
          m \in DOMAIN b /\ m # e /\ r.batch[m] = b[m] /\ m \in Mails
    <3>1. /\ DOMAIN Drop(b, e) = DOMAIN b \ {e}
          /\ \A m \in DOMAIN b \ {e} : Drop(b, e)[m] = b[m]
      BY DropShape
    <3> QED
      BY <1>2, <1>3, <3>1
  <2>2. \A m \in DOMAIN r.batch :
          (emails[m] # NoEmail /\ Unsent(m) /\ Truthful(m, r.batch[m]))'
    BY <1>2, <1>5, <1>7, <2>1, TruthStays DEF RowsGoOn, Unsent
  <2>3. \A p \in Recipients : copies'[e][p] = 0
    BY <1>2, <1>5 DEF Unsent
  <2> QED
    BY <1>3, <1>5, <1>7, <1>8, <2>1, <2>2, <2>3 DEF RunFits
<1> QED
  BY <1>1, <1>3, <1>4, <1>5, <1>7, <1>9, JobKeeps DEF counts, histories, Settled

(* The Update that takes it up fails, and it is passed over. *)
LEMMA ClaimFailsKeeps ==
  ASSUME IInv, NEW x \in Sched!Executors, NEW e \in Mails, ClaimFails(x, e)
  PROVE  IInv' /\ RowsGoOn
<1> USE DEF IInv
<1> PICK q \in Run : q = run[x]
  BY DEF SchedFits
<1> PICK b \in Batch : b = q.batch
  BY RunShape DEF ClaimFails
<1>1. RunFits(q) /\ q.pc = "next" /\ q # Idle /\ q = [pc |-> "next", batch |-> b]
  BY RunShape DEF RunsFit, ClaimFails, Idle
<1> PICK r \in Run : r = [pc |-> "next", batch |-> Drop(b, e)]
  BY DropShape DEF Run
<1>2. r # Idle /\ r.pc = "next" /\ r.batch = Drop(b, e) /\ Go(x, r)
  BY <1>1 DEF ClaimFails, Idle
<1>3. UNCHANGED <<phase, deaths, emails, histories, req, sched>> /\ faults' \in 0..MaxFaults
  BY EmailsAssumption DEF ClaimFails, Fault, Settled
<1>4. RunFits(r)
  <2>1. /\ DOMAIN Drop(b, e) = DOMAIN b \ {e}
        /\ \A m \in DOMAIN b \ {e} : Drop(b, e)[m] = b[m]
    BY DropShape
  <2> QED
    BY <1>1, <1>2, <2>1 DEF RunFits
<1>5. RowsGoOn /\ CopiesGoOn /\ \A m \in Mails : RowFits(m)'
  BY <1>3, SameRows DEF histories
<1>6. RunFits(r)'
  BY <1>3, <1>4, <1>5, RunStays DEF histories
<1> QED
  BY <1>1, <1>2, <1>3, <1>5, <1>6, JobKeeps DEF histories, Settled

(* One recipient is sent to: it is one of those left, who has no copy, and  *)
(* the log says what the provider answered.                                 *)
LEMMA SendKeeps ==
  ASSUME IInv, NEW x \in Sched!Executors, NEW p \in Recipients, NEW accepted \in BOOLEAN,
         Send(x, p, accepted)
  PROVE  IInv' /\ RowsGoOn
<1> USE DEF IInv
<1> PICK q \in Run : q = run[x]
  BY DEF SchedFits
<1>1. RunFits(q) /\ q.pc = "send" /\ q # Idle /\ p \in q.left
  BY DEF RunsFit, Send, Idle
<1> PICK e \in Mails, b \in Batch, l \in Log, left \in SUBSET Recipients :
      e = q.mail /\ b = q.batch /\ l = q.log /\ left = q.left
  BY <1>1, RunShape
<1>2. q = [pc |-> "send", batch |-> b, mail |-> e, log |-> l, left |-> left]
  BY <1>1, RunShape
<1> PICK l2 \in Log : l2 = [l EXCEPT ![p] = IF accepted THEN "SENT" ELSE "FAILED"]
  BY DEF Log, Delivery
<1> PICK r \in Run : r = [pc |-> "send", batch |-> b, mail |-> e, log |-> l2, left |-> left \ {p}]
  BY DEF Run, Log
<1>3. /\ r # Idle /\ r.pc = "send" /\ r.batch = b /\ r.mail = e /\ r.log = l2
      /\ r.left = left \ {p}
  BY DEF Idle
<1>4. Go(x, r) /\ UNCHANGED <<phase, counts, emails, simulated, req, sched>>
  <2>1. r = [q EXCEPT !.left = @ \ {p},
                      !.log = [@ EXCEPT ![p] = IF accepted THEN "SENT" ELSE "FAILED"]]
    <3> PICK r1 : r1 = [pc |-> "send", batch |-> b, mail |-> e, log |-> l, left |-> left \ {p}]
      OBVIOUS
    <3>1. [q EXCEPT !.left = left \ {p}] = r1
      BY <1>2
    <3>2. [r1 EXCEPT !.log = l2] = r
      OBVIOUS
    <3>3. ASSUME NEW c, NEW v, NEW u
          PROVE  [c EXCEPT !.left = v, !.log = u] = [[c EXCEPT !.left = v] EXCEPT !.log = u]
      OBVIOUS
    <3>4. [q EXCEPT !.left = left \ {p}, !.log = l2] = r
      BY <3>1, <3>2, <3>3
    <3> QED
      BY <3>4
  <2>2. Go(x, [q EXCEPT !.left = @ \ {p},
                        !.log = [@ EXCEPT ![p] = IF accepted THEN "SENT" ELSE "FAILED"]])
    BY DEF Send
  <2> QED
    BY <2>1, <2>2 DEF Send
<1>5. /\ e \notin DOMAIN b /\ emails[e] # NoEmail /\ ~Waiting(e) /\ Truthful(e, l)
      /\ \A u \in left : copies[e][u] = 0
      /\ \A m \in DOMAIN b : m \in Mails /\ emails[m] # NoEmail /\ Unsent(m) /\ Truthful(m, b[m])
  BY <1>1, BatchShape DEF RunFits
<1>6. copies' = IF accepted THEN [copies EXCEPT ![e][p] = 1] ELSE copies
  <2>1. copies[e][p] = 0 /\ run[x].mail = e
    BY <1>1, <1>5
  <2>2. copies' = IF accepted THEN [copies EXCEPT ![e][p] = @ + 1] ELSE copies
    BY <2>1 DEF Send
  <2>3. [copies EXCEPT ![e][p] = @ + 1] = [copies EXCEPT ![e][p] = 1]
    BY <2>1
  <2> QED
    BY <2>2, <2>3
<1>7. /\ copies' \in [Mails -> [Recipients -> 0..2]]
      /\ copies'[e][p] = IF accepted THEN 1 ELSE 0
      /\ \A u \in Recipients \ {p} : copies'[e][u] = copies[e][u]
      /\ \A m \in Mails \ {e} : copies'[m] = copies[m]
  BY <1>1, <1>5, <1>6 DEF Settled
<1>8. CopiesGoOn
  BY <1>1, <1>4, <1>5, <1>7 DEF CopiesGoOn
<1>9. RowsGoOn
  BY <1>4 DEF RowsGoOn, Waiting, Exists
<1>10. ASSUME NEW m \in Mails PROVE RowFits(m)'
  <2>1. emails'[m] = emails[m] /\ RowFits(m)
    BY <1>4 DEF Settled
  <2>2. Exists(m)' => Truthful(m, emails[m].log)'
    <3> PICK row : row = emails[m]
      OBVIOUS
    <3>1. Exists(m) => Truthful(m, row.log)'
      BY <1>8, <2>1, TruthStays DEF RowFits
    <3> QED
      BY <2>1, <3>1 DEF Exists, Truthful
  <2>3. emails'[m] = NoEmail \/ Waiting(m)' => Unsent(m)'
    BY <1>5, <1>7, <2>1 DEF RowFits, Waiting, Unsent
  <2> QED
    BY <2>1, <2>2, <2>3 DEF RowFits
<1>11. RunFits(r)'
  <2>1. \A m \in DOMAIN b : (emails[m] # NoEmail /\ Unsent(m) /\ Truthful(m, b[m]))'
    BY <1>4, <1>5, <1>7, <1>8, TruthStays DEF Unsent
  <2>2. Truthful(e, l2)'
    <3> SUFFICES ASSUME NEW u \in Recipients, l2[u] = "SENT"
                 PROVE  e \in simulated' \/ copies'[e][u] = 1
      BY DEF Truthful
    <3>1. CASE u = p
      BY <1>7, <3>1 DEF Log
    <3>2. CASE u # p
      BY <1>4, <1>5, <1>7, <3>2 DEF Truthful, Log
    <3> QED
      BY <3>1, <3>2
  <2>3. \A u \in left \ {p} : copies'[e][u] = 0
    BY <1>5, <1>7
  <2>4. emails'[e] # NoEmail /\ ~Waiting(e)'
    BY <1>4, <1>5 DEF Waiting
  <2> QED
    BY <1>3, <1>5, <2>1, <2>2, <2>3, <2>4 DEF RunFits
<1> QED
  BY <1>1, <1>3, <1>4, <1>7, <1>8, <1>9, <1>10, <1>11, JobKeeps DEF counts, Settled

(* The run is over for the email, or marks it once more: the row it wrote   *)
(* tells the truth.                                                         *)
LEMMA RecordKeeps ==
  ASSUME IInv, NEW x \in Sched!Executors, Record(x) \/ SendFails(x) \/ MarkFailed(x)
  PROVE  IInv' /\ RowsGoOn
<1> USE DEF IInv
<1> PICK q \in Run : q = run[x]
  BY DEF SchedFits
<1>1. RunFits(q) /\ q.pc \in {"send", "fail"} /\ q # Idle
  BY DEF RunsFit, Record, SendFails, MarkFailed, Idle
<1> PICK e \in Mails, b \in Batch, l \in Log, left \in SUBSET Recipients :
      e = q.mail /\ b = q.batch /\ l = q.log /\ left = q.left
  BY <1>1, RunShape
<1>2. q = [pc |-> q.pc, batch |-> b, mail |-> e, log |-> l, left |-> left]
  BY <1>1, RunShape
<1>3. /\ e \notin DOMAIN b /\ emails[e] # NoEmail /\ ~Waiting(e) /\ Truthful(e, l)
      /\ \A m \in DOMAIN b : m \in Mails /\ emails[m] # NoEmail /\ Unsent(m) /\ Truthful(m, b[m])
  BY <1>1, BatchShape DEF RunFits
<1> PICK next \in Run : next = [pc |-> "next", batch |-> b]
  BY DEF Run
<1> PICK fail \in Run : fail = [pc |-> "fail", batch |-> b, mail |-> e, log |-> l, left |-> left]
  BY DEF Run, Log
<1>4. next.pc = "next" /\ next.batch = b /\ next # Idle
  BY DEF Idle
<1>5. /\ fail.pc = "fail" /\ fail.batch = b /\ fail.mail = e /\ fail.log = l /\ fail # Idle
      /\ fail = [q EXCEPT !.pc = "fail"]
  BY <1>2 DEF Idle
<1>6. RunFits(next) /\ RunFits(fail)
  BY <1>3, <1>4, <1>5 DEF RunFits
<1>7. PICK r \in {next, fail} : Go(x, r)
  BY <1>5 DEF Record, SendFails, MarkFailed
<1>8. UNCHANGED <<phase, deaths, histories, req, sched>>
  BY DEF Record, SendFails, MarkFailed, counts
<1>9. faults' \in 0..MaxFaults
  BY EmailsAssumption DEF Record, SendFails, MarkFailed, counts, Fault, Settled
<1>10. emails' = emails \/ \E s \in {"SENT", "FAILED"} : emails' = Stored(e, s, l)
  BY DEF Record, SendFails, MarkFailed, Outcome
<1> DEFINE Kept == /\ emails' \in [Mails -> Row] /\ RowsGoOn /\ CopiesGoOn
                   /\ \A m \in Mails : RowFits(m)'
<1>11. Kept
  <2>1. CASE emails' = emails
    BY <1>8, <2>1, SameRows DEF histories
  <2>2. ASSUME NEW s \in {"SENT", "FAILED"}, emails' = Stored(e, s, l)
        PROVE  Kept
    <3>1. s \in Status \ {"DRAFT"} /\ s # "SCHEDULED"
      BY DEF Status
    <3>2. Truthful(e, l)' /\ UNCHANGED <<copies, simulated>>
      BY <1>3, <1>8 DEF Truthful, histories
    <3> QED
      BY <2>2, <3>1, <3>2, StoredKeeps DEF Settled
  <2> QED
    BY <1>10, <2>1, <2>2
<1>12. RunFits(r)'
  BY <1>6, <1>8, <1>11, RunStays DEF histories
<1> QED
  BY <1>1, <1>4, <1>5, <1>7, <1>8, <1>9, <1>11, <1>12, JobKeeps DEF histories, Settled

(***************************************************************************)
(* The scheduler and the process                                            *)
(***************************************************************************)
(* Nothing but who runs changes, and every executor keeps what it had or    *)
(* has nothing to do with an email.                                         *)
LEMMA RunnersKeep ==
  ASSUME IInv, SchedFits', UNCHANGED <<phase, deaths, emails, histories, req>>,
         faults' \in 0..MaxFaults,
         \A x \in Sched!Executors :
           run'[x] = run[x] \/ run'[x] = Idle \/ run'[x] = [pc |-> "list"]
  PROVE  IInv' /\ RowsGoOn
<1> USE DEF IInv
<1>1. RowsGoOn /\ CopiesGoOn /\ \A e \in Mails : RowFits(e)'
  BY SameRows DEF histories
<1>2. Settled'
  BY <1>1 DEF Settled, histories
<1>3. RequestsFit'
  BY <1>1, RequestStays DEF RequestsFit
<1>4. RunFits(Idle)' /\ RunFits([pc |-> "list"])'
  BY DEF RunFits, Idle
<1>5. RunsFit'
  BY <1>1, <1>4, RunStays DEF RunsFit, SchedFits, histories
<1> QED
  BY <1>1, <1>2, <1>3, <1>5

(* A run begins or ends, or the scheduler does anything else. *)
LEMMA SchedulerKeeps ==
  ASSUME IInv,
         \/ \E x \in Sched!Executors : ExecuteJob(x) \/ FinishJob(x) \/ ListFails(x)
         \/ Calm /\ Schedules
  PROVE  IInv' /\ RowsGoOn
<1> USE DEF IInv
<1>1. ASSUME NEW x \in Sched!Executors, ExecuteJob(x)
      PROVE  IInv' /\ RowsGoOn
  <2>1. SchedFits' /\ run' = [run EXCEPT ![x] = [pc |-> "list"]]
    BY <1>1, ExecuteKeeps DEF ExecuteJob, Go
  <2> QED
    BY <1>1, <2>1, RunnersKeep DEF ExecuteJob, counts, Settled, SchedFits
<1>2. ASSUME NEW x \in Sched!Executors, FinishJob(x) \/ ListFails(x)
      PROVE  IInv' /\ RowsGoOn
  <2>1. SchedFits' /\ run' = [run EXCEPT ![x] = Idle]
    BY <1>2, FinishKeeps DEF FinishJob, ListFails, Go
  <2>2. faults' \in 0..MaxFaults
    BY <1>2, EmailsAssumption DEF FinishJob, ListFails, Fault, counts, Settled
  <2> QED
    BY <1>2, <2>1, <2>2, RunnersKeep DEF FinishJob, ListFails, counts, SchedFits
<1>3. ASSUME Calm, Schedules
      PROVE  IInv' /\ RowsGoOn
  <2>1. SchedFits'
    BY <1>3, SchedulesKeep DEF Calm
  <2> QED
    BY <1>3, <2>1, RunnersKeep DEF Calm, counts, Settled
<1> QED
  BY <1>1, <1>2, <1>3

(* The process is told to end, ends, dies and starts again. *)
LEMMA ProcessKeeps ==
  ASSUME IInv, Shutdown \/ StopScheduler \/ Exit \/ Crash \/ Restart
  PROVE  IInv' /\ RowsGoOn
<1> USE DEF IInv
<1>1. UNCHANGED <<faults, emails, histories>>
  BY DEF Shutdown, StopScheduler, Exit, Crash, Restart, Vanish, counts
<1>2. RowsGoOn /\ CopiesGoOn /\ \A e \in Mails : RowFits(e)'
  BY <1>1, SameRows DEF histories
<1>3. Settled'
  <2>1. deaths' \in 0..MaxDeaths
    BY EmailsAssumption DEF Shutdown, StopScheduler, Exit, Crash, Restart, counts, Settled
  <2>2. phase' \in {"up", "draining", "stopping", "down"}
    BY DEF Shutdown, StopScheduler, Exit, Crash, Restart, Vanish
  <2> QED
    BY <1>1, <1>2, <2>1, <2>2 DEF Settled, histories
<1>4. CASE Shutdown \/ StopScheduler
  <2>1. /\ UNCHANGED <<req, run, isRunning, runner, ticked>> /\ phase' # "down"
        /\ running' \in BOOLEAN /\ cancelled' \in BOOLEAN
    BY <1>4 DEF Shutdown, StopScheduler, Sched!Stop, sched, SchedFits, Sched!SchedTypeOK
  <2>2. SchedFits'
    BY <2>1 DEF SchedFits, OneRun, DownIsOff, Sched!SchedTypeOK, Sched!RunsDoNotOverlap
  <2>3. RequestsFit' /\ RunsFit'
    BY <1>1, <1>2, <2>1, RequestStays, RunStays DEF RequestsFit, RunsFit, SchedFits, histories
  <2> QED
    BY <1>2, <1>3, <2>2, <2>3
<1>5. CASE Exit \/ Crash
  <2>1. Vanish
    BY <1>5 DEF Exit, Crash
  <2>2. RequestsFit'
    BY <2>1 DEF Vanish, RequestsFit, RequestFits, Request
  <2>3. RunsFit'
    BY <2>1 DEF Vanish, RunsFit, RunFits, Idle
  <2>4. SchedFits'
    <3>1. /\ run' \in [Sched!Executors -> Run]
          /\ \A x \in Sched!Executors : run'[x] = Idle /\ runner'[Mailer][x] = "off"
          /\ isRunning'[Mailer] = FALSE /\ Sched!SchedTypeOK'
      BY <2>1 DEF Vanish, Run, Sched!Die, Sched!SchedTypeOK, Sched!Places
    <3> QED
      BY <3>1 DEF SchedFits, OneRun, DownIsOff, Sched!RunsDoNotOverlap
  <2> QED
    BY <1>2, <1>3, <2>2, <2>3, <2>4
<1>6. CASE Restart
  <2>1. UNCHANGED <<req, run, isRunning, ticked>> /\ phase' = "up"
    BY <1>6 DEF Restart, Sched!Start
  <2>2. RequestsFit' /\ RunsFit'
    BY <1>1, <1>2, <2>1, RequestStays, RunStays DEF RequestsFit, RunsFit, SchedFits, histories
  <2>3. SchedFits'
    <3>1. /\ \A x \in Sched!Executors : runner[Mailer][x] = "off"
          /\ runner'[Mailer] = [runner[Mailer] EXCEPT !["loop"] = "ready"]
          /\ Sched!SchedTypeOK'
      BY <1>6 DEF Restart, Sched!Start, SchedFits, DownIsOff, Sched!SchedTypeOK, Sched!Places,
         Sched!Executors
    <3>2. runner[Mailer] \in [Sched!Executors -> Sched!Places]
      BY DEF SchedFits, Sched!SchedTypeOK
    <3>3. \A x \in Sched!Executors : runner[Mailer][x] # "running" /\ runner'[Mailer][x] # "running"
      BY <3>1, <3>2
    <3>4. OneRun'
      BY <2>1, <3>3 DEF SchedFits, OneRun, Sched!RunsDoNotOverlap
    <3> QED
      BY <2>1, <3>1, <3>4 DEF SchedFits, DownIsOff
  <2> QED
    BY <1>2, <1>3, <2>2, <2>3
<1> QED
  BY <1>4, <1>5, <1>6

(***************************************************************************)
(* The invariant                                                            *)
(***************************************************************************)
LEMMA InitInv == ASSUME Init PROVE IInv
<1>1. Settled
  <2>1. \A e \in Mails : emails[e] = NoEmail /\ \A r \in Recipients : copies[e][r] = 0
    BY DEF Init
  <2>2. \A e \in Mails : RowFits(e)
    BY <2>1 DEF RowFits, Unsent, Exists, NoEmail, Status
  <2> QED
    BY <2>2, EmailsAssumption DEF Init, Settled, Row
<1>2. RequestsFit
  BY DEF Init, RequestsFit, RequestFits, Request
<1>3. RunsFit
  BY DEF Init, RunsFit, RunFits, Idle
<1>4. SchedFits
  <2>1. /\ run \in [Sched!Executors -> Run] /\ Sched!SchedTypeOK
        /\ \A x \in Sched!Executors : run[x] = Idle /\ runner[Mailer][x] # "running"
        /\ isRunning[Mailer] = FALSE
    BY DEF Init, Run, Sched!SchedTypeOK, Sched!Places
  <2> QED
    BY <2>1 DEF Init, SchedFits, OneRun, DownIsOff, Sched!RunsDoNotOverlap
<1> QED
  BY <1>1, <1>2, <1>3, <1>4 DEF IInv

LEMMA NextInv == ASSUME IInv, [Next]_vars PROVE IInv' /\ RowsGoOn
<1>1. ASSUME NEW x \in Sched!Executors, Job(x)
      PROVE  IInv' /\ RowsGoOn
  BY <1>1, SchedulerKeeps, ListKeeps, ClaimKeeps, ClaimFailsKeeps, SendKeeps, RecordKeeps DEF Job
<1>2. CASE UNCHANGED vars
  BY <1>2 DEF vars, counts, histories, sched, IInv, Settled, RequestsFit, RunsFit, SchedFits,
     RowsGoOn, RowFits, RequestFits, RunFits, Waiting, Unsent, Truthful, Exists, OneRun,
     DownIsOff, Sched!SchedTypeOK, Sched!RunsDoNotOverlap
<1> QED
  BY <1>1, <1>2, RequestsKeep, SchedulerKeeps, ProcessKeeps DEF Next

THEOREM Inductive == Safety => []IInv
  BY InitInv, NextInv, PTL DEF Safety

(* executeJob's IsRunning guard: a run of the job never begins while another *)
(* is under way, whatever the ticker, RunJobNow and a restart do, and the    *)
(* executor it names is the one that holds emails (Scheduler.executeJob).    *)
THEOREM JobRunsAlone == Safety => []OneRun
<1>1. IInv => OneRun
  BY DEF IInv, SchedFits
<1> QED
  BY <1>1, Inductive, PTL

(* What the row of an email says somebody got, the provider accepted, but    *)
(* for the emails processEmailSend was started for                           *)
(* (ScheduledEmailJob.sendEmail, CommunicationService.processEmailSend).     *)
THEOREM LogsAreTrue == Safety => []LogIsTrue
<1>1. IInv => LogIsTrue
  BY DEF IInv, Settled, RowFits, Truthful, LogIsTrue
<1> QED
  BY <1>1, Inductive, PTL

(***************************************************************************)
(* Emails implements Outbox                                                 *)
(***************************************************************************)
(* What is held exists, and only one executor holds any. *)
HeldExists == \A e \in Held : e \in Mails /\ emails[e] # NoEmail
OneHolder == \A x \in Sched!Executors : run[x] # Idle => Held = HeldBy(run[x])
WaitingUnsent == \A e \in Mails : Waiting(e) => Unsent(e)

LEMMA HoldersFit == IInv => HeldExists /\ OneHolder /\ WaitingUnsent
<1> SUFFICES ASSUME IInv PROVE HeldExists /\ OneHolder /\ WaitingUnsent
  OBVIOUS
<1> USE DEF IInv
<1>1. ASSUME NEW e \in Held PROVE e \in Mails /\ emails[e] # NoEmail
  <2> PICK x \in Sched!Executors : e \in HeldBy(run[x])
    BY DEF Held
  <2> PICK q \in Run : q = run[x]
    BY DEF SchedFits
  <2>1. RunFits(q) /\ e \in HeldBy(q)
    BY DEF RunsFit
  <2>2. CASE q.pc \in {"next", "send", "fail"} /\ e \in DOMAIN q.batch
    BY <2>1, <2>2, RunShape, BatchShape DEF RunFits
  <2>3. CASE q.pc \in {"send", "fail"} /\ e = q.mail
    BY <2>1, <2>3, RunShape DEF RunFits
  <2> QED
    BY <2>1, <2>2, <2>3 DEF HeldBy
<1>2. ASSUME NEW x \in Sched!Executors, run[x] # Idle PROVE Held = HeldBy(run[x])
  <2>1. \A y \in Sched!Executors \ {x} : HeldBy(run[y]) = {}
    BY <1>2, AloneRuns DEF HeldBy, Idle
  <2> QED
    BY <2>1 DEF Held
<1>3. WaitingUnsent
  BY DEF Settled, RowFits, WaitingUnsent
<1> QED
  BY <1>1, <1>2, <1>3 DEF HeldExists, OneHolder

(* The same, of the next state. *)
LEMMA HoldersFitNext == IInv' => HeldExists' /\ OneHolder' /\ WaitingUnsent'
  BY HoldersFit, PTL

StageOf(e) ==
    IF emails[e] = NoEmail THEN "absent"
    ELSE IF e \in Held THEN "taken" ELSE IF Waiting(e) THEN "open" ELSE "closed"

LEMMA StageIs == Stage = [e \in Mails |-> StageOf(e)]
  BY DEF Stage, StageOf, Waiting

LEMMA StageIsNext == Stage' = [e \in Mails |-> StageOf(e)']
  BY DEF Stage, StageOf, Waiting

(* A step that leaves the rows, the runs and the copies is none of Outbox.  *)
LEMMA StutterImplements ==
  ASSUME UNCHANGED <<emails, run, copies>>
  PROVE  [Promise!Next]_(Promise!outbox)
  BY DEF Promise!outbox, Stage, Held

(* A step of a request, or of the clock, on one row: the email is accepted  *)
(* or withdrawn, or it is none of Outbox.                                   *)
LEMMA RowImplements ==
  ASSUME IInv, UNCHANGED <<run, copies>>, RowsGoOn, NEW e \in Mails,
         \A m \in Mails \ {e} : emails'[m] = emails[m]
  PROVE  [Promise!Next]_(Promise!outbox)
<1>1. HeldExists /\ Held' = Held
  BY HoldersFit DEF Held
<1>2. \A m \in Mails \ {e} : StageOf(m)' = StageOf(m)
  BY <1>1 DEF StageOf, Waiting
<1>3. PICK s : s = StageOf(e)'
  OBVIOUS
<1>4. Stage' = [Stage EXCEPT ![e] = s] /\ Stage[e] = StageOf(e)
  BY <1>2, <1>3, StageIs, StageIsNext
<1>5. CASE s = StageOf(e)
  BY <1>4, <1>5, StageIs DEF Promise!outbox
<1>6. CASE emails[e] = NoEmail /\ s # StageOf(e)
  <2>1. Stage[e] = "absent" /\ s \in {"open", "closed"}
    BY <1>1, <1>3, <1>4, <1>6 DEF StageOf, HeldExists
  <2>2. Promise!Accept(e)
    BY <1>4, <2>1 DEF Promise!Accept
  <2> QED
    BY <2>2 DEF Promise!Next
<1>7. CASE emails[e] # NoEmail /\ s # StageOf(e)
  <2>1. StageOf(e) = "open" /\ s = "closed"
    BY <1>1, <1>3, <1>7 DEF StageOf, RowsGoOn
  <2>2. Promise!Withdraw(e)
    BY <1>4, <2>1 DEF Promise!Withdraw
  <2> QED
    BY <2>2 DEF Promise!Next
<1> QED
  BY <1>5, <1>6, <1>7

(* A step that lets go of emails, and may write rows of those it held.      *)
LEMMA ReleaseImplements ==
  ASSUME IInv, IInv', UNCHANGED copies, RowsGoOn, Held' \subseteq Held,
         \A m \in Mails \ Held : emails'[m] = emails[m]
  PROVE  [Promise!Next]_(Promise!outbox)
<1> PICK closed \in SUBSET Mails, reopened \in SUBSET Mails :
      /\ closed = {m \in Held \ Held' : ~Waiting(m)'}
      /\ reopened = {m \in Held \ Held' : Waiting(m)'}
  BY HoldersFit DEF HeldExists
<1>1. \A m \in Held : emails[m] # NoEmail /\ emails'[m] # NoEmail /\ m \in Mails
  BY HoldersFit DEF HeldExists, RowsGoOn
<1>2. \A m \in closed \cup reopened : Stage[m] = "taken"
  BY <1>1, StageIs DEF StageOf
<1>3. \A m \in reopened, r \in Recipients : copies[m][r] = 0
  <2>1. \A m \in Mails : Waiting(m)' => Unsent(m)'
    BY HoldersFitNext DEF WaitingUnsent
  <2> QED
    BY <1>1, <2>1 DEF Unsent
<1>4. closed \cap reopened = {}
  OBVIOUS
<1>5. ASSUME NEW m \in Mails
      PROVE  StageOf(m)' = CASE m \in closed   -> "closed"
                             [] m \in reopened -> "open"
                             [] OTHER          -> Stage[m]
  <2>1. Stage[m] = StageOf(m)
    BY StageIs
  <2>2. CASE m \in Held \ Held'
    BY <1>1, <2>2 DEF StageOf
  <2>3. CASE m \in Held'
    BY <1>1, <2>1, <2>3 DEF StageOf
  <2>4. CASE m \notin Held
    BY <2>1, <2>4 DEF StageOf, Waiting
  <2> QED
    BY <2>2, <2>3, <2>4
<1>6. Promise!Release(closed, reopened)
  BY <1>2, <1>3, <1>4, <1>5, StageIsNext DEF Promise!Release
<1> QED
  BY <1>6 DEF Promise!Next

(* A step of a run: ListScheduled takes what is due, sending delivers to    *)
(* one addressee, the rest let go of what they held or do nothing.          *)
LEMMA JobImplements ==
  ASSUME IInv, IInv', RowsGoOn, NEW x \in Sched!Executors, Job(x)
  PROVE  [Promise!Next]_(Promise!outbox)
<1>1. HeldExists /\ OneHolder /\ WaitingUnsent /\ OneHolder'
  BY HoldersFit, HoldersFitNext
<1> PICK q \in Run : q = run[x]
  BY DEF IInv, SchedFits
<1>2. run \in [Sched!Executors -> Run] /\ RunFits(q)
  BY DEF IInv, SchedFits, RunsFit
<1>3. ASSUME NEW r, Go(x, r), q # Idle, r # Idle
      PROVE  Held = HeldBy(q) /\ Held' = HeldBy(r)
  <2>1. run'[x] = r
    BY <1>2, <1>3 DEF Go
  <2> QED
    BY <1>1, <1>3, <2>1 DEF OneHolder, HeldBy
<1>4. ASSUME ExecuteJob(x)
      PROVE  [Promise!Next]_(Promise!outbox)
  <2>1. Held' = {}
    <3>1. run'[x] = [pc |-> "list"]
      BY <1>2, <1>4 DEF ExecuteJob, Go
    <3> QED
      BY <1>1, <3>1 DEF OneHolder, HeldBy, Idle
  <2> QED
    BY <1>4, <2>1, ReleaseImplements DEF ExecuteJob, histories
<1>5. ASSUME FinishJob(x) \/ ListFails(x)
      PROVE  [Promise!Next]_(Promise!outbox)
  <2>1. q # Idle /\ run' = [run EXCEPT ![x] = Idle]
    BY <1>5 DEF FinishJob, ListFails, Go, Idle
  <2>2. Held' = {}
    <3>1. \A y \in Sched!Executors : run'[y] = Idle
      BY <1>2, <2>1, AloneRuns DEF IInv
    <3> QED
      BY <3>1 DEF Held, HeldBy, Idle
  <2> QED
    BY <1>5, <2>2, ReleaseImplements DEF FinishJob, ListFails, histories
<1>6. ASSUME ListScheduled(x)
      PROVE  [Promise!Next]_(Promise!outbox)
  <2> PICK b : b = [e \in Due |-> emails[e].log]
    OBVIOUS
  <2>0. DOMAIN b = Due
    OBVIOUS
  <2> PICK r : r = [pc |-> "next", batch |-> b]
    OBVIOUS
  <2>1. q.pc = "list" /\ q # Idle /\ r # Idle /\ r.pc = "next" /\ r.batch = b /\ Go(x, r)
    BY <1>6 DEF ListScheduled, Idle
  <2>2. Held = {} /\ Held' = Due
    BY <1>3, <2>0, <2>1 DEF HeldBy
  <2>3. \A m \in Due : m \in Mails /\ Waiting(m) /\ emails[m] # NoEmail
    BY DueWaits DEF IInv
  <2>4. emails' = emails /\ copies' = copies
    BY <1>6 DEF ListScheduled, histories
  <2>5. \A m \in Mails : Stage[m] = StageOf(m) /\ StageOf(m)' = IF m \in Due THEN "taken" ELSE Stage[m]
    BY <2>2, <2>3, <2>4, StageIs DEF StageOf, Waiting
  <2>6. \A m \in Due : Stage[m] = "open"
    BY <2>2, <2>3, <2>5 DEF StageOf
  <2> PICK taken \in SUBSET Mails : taken = Due
    BY <2>3
  <2>7. Promise!Take(taken)
    BY <2>4, <2>5, <2>6, StageIsNext DEF Promise!Take
  <2> QED
    BY <2>7 DEF Promise!Next
<1>7. ASSUME NEW e \in Mails, Claim(x, e)
      PROVE  [Promise!Next]_(Promise!outbox)
  <2> PICK b \in Batch : b = q.batch /\ e \in DOMAIN b
    BY <1>7, RunShape DEF Claim
  <2> PICK r : r = [pc |-> "send", batch |-> Drop(b, e), mail |-> e, log |-> b[e],
                    left |-> Recipients]
    OBVIOUS
  <2>1. /\ q.pc = "next" /\ q # Idle /\ r # Idle /\ r.pc = "send" /\ r.mail = e
        /\ r.batch = Drop(b, e) /\ Go(x, r)
    BY <1>7 DEF Claim, Idle
  <2>2. Held = DOMAIN b /\ Held' = (DOMAIN b \ {e}) \cup {e}
    <3>1. DOMAIN Drop(b, e) = DOMAIN b \ {e} /\ Held = HeldBy(q) /\ Held' = HeldBy(r)
      BY <1>3, <2>1, DropShape
    <3> QED
      BY <2>1, <3>1 DEF HeldBy
  <2>3. \A m \in Mails \ {e} : emails'[m] = emails[m]
    BY <1>7 DEF Claim, Stored, IInv, Settled
  <2>4. copies' = copies /\ Held' \subseteq Held /\ e \in Held
    BY <1>7, <2>2 DEF Claim, histories
  <2> QED
    BY <2>3, <2>4, ReleaseImplements
<1>8. ASSUME NEW e \in Mails, ClaimFails(x, e)
      PROVE  [Promise!Next]_(Promise!outbox)
  <2> PICK b \in Batch : b = q.batch
    BY <1>8, RunShape DEF ClaimFails
  <2>1. q.pc = "next" /\ q # Idle /\ q = [pc |-> "next", batch |-> b]
    BY <1>8, RunShape DEF ClaimFails, Idle
  <2> PICK r : r = [pc |-> "next", batch |-> Drop(b, e)]
    OBVIOUS
  <2>2. r # Idle /\ r.pc = "next" /\ r.batch = Drop(b, e) /\ Go(x, r)
    BY <1>8, <2>1 DEF ClaimFails, Idle
  <2>3. Held = DOMAIN b /\ Held' = DOMAIN b \ {e}
    <3>1. DOMAIN Drop(b, e) = DOMAIN b \ {e} /\ Held = HeldBy(q) /\ Held' = HeldBy(r)
      BY <1>3, <2>1, <2>2, DropShape
    <3> QED
      BY <2>1, <2>2, <3>1 DEF HeldBy
  <2>4. copies' = copies /\ emails' = emails
    BY <1>8 DEF ClaimFails, histories
  <2> QED
    BY <2>3, <2>4, ReleaseImplements
<1>9. ASSUME NEW p \in Recipients, NEW accepted \in BOOLEAN, Send(x, p, accepted)
      PROVE  [Promise!Next]_(Promise!outbox)
  <2>1. q.pc = "send" /\ q # Idle /\ p \in q.left
    BY <1>9 DEF Send, Idle
  <2> PICK e \in Mails, b \in Batch, l \in Log, left \in SUBSET Recipients :
        e = q.mail /\ b = q.batch /\ l = q.log /\ left = q.left
    BY <2>1, RunShape
  <2>2. q = [pc |-> "send", batch |-> b, mail |-> e, log |-> l, left |-> left]
    BY <2>1, RunShape
  <2> PICK r : r = [q EXCEPT !.left = @ \ {p},
                             !.log = [@ EXCEPT ![p] = IF accepted THEN "SENT" ELSE "FAILED"]]
    OBVIOUS
  <2>3. r.pc = "send" /\ r.batch = b /\ r.mail = e /\ r # Idle
    <3> PICK left2, l2 :
          left2 = left \ {p} /\ l2 = [l EXCEPT ![p] = IF accepted THEN "SENT" ELSE "FAILED"]
      OBVIOUS
    <3> PICK r1 : r1 = [pc |-> "send", batch |-> b, mail |-> e, log |-> l, left |-> left2]
      OBVIOUS
    <3>1. [q EXCEPT !.left = left2] = r1
      BY <2>2
    <3> PICK r2 : r2 = [pc |-> "send", batch |-> b, mail |-> e, log |-> l2, left |-> left2]
      OBVIOUS
    <3>2. [r1 EXCEPT !.log = l2] = r2
      OBVIOUS
    <3>3. ASSUME NEW c, NEW v, NEW u
          PROVE  [c EXCEPT !.left = v, !.log = u] = [[c EXCEPT !.left = v] EXCEPT !.log = u]
      OBVIOUS
    <3>4. r = [q EXCEPT !.left = left2, !.log = l2]
      OBVIOUS
    <3>5. r = r2
      BY <3>1, <3>2, <3>3, <3>4
    <3>6. r2.pc = "send" /\ r2.batch = b /\ r2.mail = e /\ r2 # Idle
      BY DEF Idle
    <3> QED
      BY <3>5, <3>6
  <2>4. Go(x, r) /\ emails' = emails
    BY <1>9 DEF Send
  <2>5. Held = DOMAIN b \cup {e} /\ Held' = Held
    BY <1>3, <2>1, <2>3, <2>4 DEF HeldBy
  <2>6. Stage[e] = "taken" /\ Stage' = Stage
    BY <1>1, <2>4, <2>5, StageIs, StageIsNext DEF StageOf, HeldExists, Waiting
  <2>7. copies[e][p] = 0
    BY <1>2, <2>1 DEF RunFits
  <2>8. copies' = IF accepted THEN [copies EXCEPT ![e][p] = @ + 1] ELSE copies
    BY <1>9, <2>7 DEF Send
  <2>9. [copies EXCEPT ![e][p] = @ + 1] = [copies EXCEPT ![e][p] = 1]
    BY <2>7
  <2>10. CASE accepted
    BY <2>6, <2>7, <2>8, <2>9, <2>10 DEF Promise!Next, Promise!Deliver
  <2>11. CASE ~accepted
    BY <2>6, <2>8, <2>11 DEF Promise!outbox
  <2> QED
    BY <2>10, <2>11
<1>10. ASSUME Record(x) \/ SendFails(x) \/ MarkFailed(x)
       PROVE  [Promise!Next]_(Promise!outbox)
  <2>1. q.pc \in {"send", "fail"} /\ q # Idle
    BY <1>10 DEF Record, SendFails, MarkFailed, Idle
  <2> PICK e \in Mails, b \in Batch, l \in Log, left \in SUBSET Recipients :
        e = q.mail /\ b = q.batch /\ l = q.log /\ left = q.left
    BY <2>1, RunShape
  <2>2. q = [pc |-> q.pc, batch |-> b, mail |-> e, log |-> l, left |-> left]
    BY <2>1, RunShape
  <2> PICK r \in {[q EXCEPT !.pc = "fail"], [pc |-> "next", batch |-> b]} : Go(x, r)
    BY <1>10 DEF Record, SendFails, MarkFailed
  <2>3. r # Idle /\ (r.pc = "next" \/ (r.pc = "fail" /\ r.mail = e)) /\ r.batch = b
    BY <2>2 DEF Idle
  <2>4. Held = DOMAIN b \cup {e} /\ Held' \subseteq Held
    BY <1>3, <2>1, <2>3 DEF HeldBy
  <2>5. \A m \in Mails \ {e} : emails'[m] = emails[m]
    BY <1>10 DEF Record, SendFails, MarkFailed, Stored, IInv, Settled
  <2>6. copies' = copies
    BY <1>10 DEF Record, SendFails, MarkFailed, histories
  <2> QED
    BY <2>4, <2>5, <2>6, ReleaseImplements
<1> QED
  BY <1>4, <1>5, <1>6, <1>7, <1>8, <1>9, <1>10 DEF Job

(* A step of a request, or of the clock. *)
LEMMA RequestImplements ==
  ASSUME IInv, RowsGoOn,
         Requests \/ (\E w \in Workers : Answers(w)) \/ (\E e \in Mails : TimeComes(e))
  PROVE  [Promise!Next]_(Promise!outbox)
<1> DEFINE OneRow(e) == /\ UNCHANGED <<run, copies>>
                       /\ \A m \in Mails \ {e} : emails'[m] = emails[m]
<1>1. ASSUME NEW e \in Mails, OneRow(e)
      PROVE  [Promise!Next]_(Promise!outbox)
  BY <1>1, RowImplements
<1>2. emails \in [Mails -> Row]
  BY DEF IInv, Settled
<1>3. ASSUME NEW e \in Mails, NEW later \in BOOLEAN, Compose(e, later)
      PROVE  OneRow(e)
  BY <1>2, <1>3 DEF Compose, histories
<1>4. ASSUME NEW e \in Mails, NEW w \in Workers, ComposeAndSend(w, e)
      PROVE  OneRow(e)
  BY <1>2, <1>4 DEF ComposeAndSend
<1>5. ASSUME NEW e \in Mails, TimeComes(e)
      PROVE  OneRow(e)
  BY <1>2, <1>5 DEF TimeComes, histories
<1>6. ASSUME NEW w \in Workers, RequestFails(w) \/ \E e \in Mails, op \in Ops : Read(w, e, op)
      PROVE  [Promise!Next]_(Promise!outbox)
  BY <1>6, StutterImplements DEF RequestFails, Read, histories
<1>7. ASSUME NEW w \in Workers, Answers(w)
      PROVE  \E e \in Mails : OneRow(e)
  <2> PICK q \in Request : q = req[w]
    BY DEF IInv, RequestsFit
  <2>1. q # Idle
    BY <1>7 DEF Answers, Cancel, Schedule, SendNow, Delete, ProcessEmailSend, Idle
  <2> PICK e \in Mails : e = q.mail
    BY <2>1, RequestShape
  <2>2. UNCHANGED <<run, copies>>
    BY <1>7 DEF Answers, Cancel, Schedule, SendNow, Delete, ProcessEmailSend, histories
  <2>3. \/ \E s, l : emails' = Stored(e, s, l)
        \/ emails' = emails \/ emails' = [emails EXCEPT ![e] = DeletedEmail]
    BY <1>7 DEF Answers, Cancel, Schedule, SendNow, Delete, ProcessEmailSend
  <2>4. \A m \in Mails \ {e} : emails'[m] = emails[m]
    BY <1>2, <2>3 DEF Stored
  <2> QED
    BY <2>2, <2>4
<1> QED
  BY <1>1, <1>3, <1>4, <1>5, <1>6, <1>7 DEF Requests

(* The process goes on, or lets go of everything. *)
LEMMA ProcessImplements ==
  ASSUME IInv, IInv', RowsGoOn,
         (Calm /\ Schedules) \/ Shutdown \/ StopScheduler \/ Exit \/ Crash \/ Restart
  PROVE  [Promise!Next]_(Promise!outbox)
<1>1. CASE (Calm /\ Schedules) \/ Shutdown \/ StopScheduler \/ Restart
  BY <1>1, StutterImplements DEF Calm, Shutdown, StopScheduler, Restart, histories
<1>2. CASE Exit \/ Crash
  <2>1. Vanish
    BY <1>2 DEF Exit, Crash
  <2>2. Held' = {}
    BY <2>1 DEF Vanish, Held, HeldBy, Idle
  <2>3. UNCHANGED <<emails, copies>>
    BY <2>1 DEF Vanish, histories
  <2> QED
    BY <2>2, <2>3, ReleaseImplements
<1> QED
  BY <1>1, <1>2

LEMMA StepImplements ==
  ASSUME IInv, IInv', RowsGoOn, [Next]_vars
  PROVE  [Promise!Next]_(Promise!outbox)
<1>1. CASE UNCHANGED vars
  BY <1>1, StutterImplements DEF vars, histories
<1> QED
  BY <1>1, RequestImplements, JobImplements, ProcessImplements DEF Next

(* Whatever users do to an email meanwhile, and wherever the process dies,  *)
(* nobody is sent two copies, and an email that was closed before a run     *)
(* read it is never sent (ScheduledEmailJob.Run and sendEmail,              *)
(* CommunicationService).                                                   *)
THEOREM PromiseIsKept == Safety => KeepsPromise
<1>1. Init => Promise!Init
  BY DEF Init, Promise!Init, Stage
<1>2. IInv /\ [Next]_vars => RowsGoOn
  BY NextInv
<1>3. IInv /\ IInv' /\ [Next]_vars => [Promise!Next]_(Promise!outbox)
  BY <1>2, StepImplements
<1> QED
  BY <1>1, <1>3, Inductive, PTL DEF Safety, KeepsPromise, Promise!Spec
=============================================================================
