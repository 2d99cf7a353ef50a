---------------------------- MODULE BillingProofs ----------------------------
(***************************************************************************)
(* Machine-checked proofs about Billing, for every calendar, any number of *)
(* invoices and concurrent requests, and all values of the thresholds.      *)
(***************************************************************************)
EXTENDS Billing, FiniteSetTheorems, TLAPS

USE DEF calendar, ledger, history, payments, jobUnchanged

(***************************************************************************)
(* The strengthening: what is remembered between two statements is still    *)
(* good enough to be written later.                                         *)
(***************************************************************************)

(* An adjustment is recorded before it is applied to its invoice. *)
PendingRecorded ==
    \A w \in Workers :
        req[w].pc = "applyAdjustment" => adjustments[req[w].adj] # NoAdjustment

(* The columns a request is about to write agree with one another, however  *)
(* old the row is that it read, and settle the invoice.                     *)
Final(stamp) == Consistent(stamp) /\ stamp.status \in {"PAID", "DISPUTED", "VOIDED"}

PendingConsistent ==
    \A w \in Workers : req[w].pc = "updateInvoice" => Final(req[w].stamp)

(* An invoice's term exists: the foreign key. *)
TermsLive == \A i \in Invoices : Exists(i) => invoices[i].term \in terms

(* A listed invoice was among the arrears at the reading of this run. *)
Listable(x, now) == <<TenantOfTerm(x.term), DaysOverdue(now, x.due)>> \in arrears

(* The job's list is of unpaid invoices, and what it has decided to suspend *)
(* is past the threshold and of the listed invoice's tenant.                *)
JobJustified ==
    /\ job.pc \in {"next", "getByTenant", "suspendSub", "suspendTenant"} =>
         \A x \in job.todo : Listable(x, job.now)
    /\ job.pc \in {"getByTenant", "suspendSub", "suspendTenant"} =>
         Listable(job.item, job.now) /\ PastSuspension(job.item, job.now)
    /\ job.pc = "suspendSub" => TenantOf[job.session] = TenantOfTerm(job.item.term)

IInv == /\ TypeOK /\ PendingRecorded /\ PendingConsistent /\ TermsLive
        /\ StampsMatchStatus /\ AmountsAddUp
        /\ JobJustified

(* An invoice that was paid and never written past another request stays    *)
(* paid until it is deleted, and nobody holds an older reading of it.       *)
Settled(i) ==
    /\ invoices[i].status \in {"PAID", "DELETED"}
    /\ \A w \in Workers : req[w].pc = "updateInvoice" => req[w].inv # i
PaymentsInv == (\A i \in paid \ crossed : Settled(i)) /\ PaidOnce

(***************************************************************************)
(* Type correctness, one group of actions at a time                         *)
(***************************************************************************)
LEMMA InitType == Init => TypeOK
  BY BillingAssumption DEF Init, TypeOK, TenantStatus, NoSub, NoRow, NoAdjustment,
     Request, Idle, Job, Subscription

LEMMA EnvironmentType ==
  ASSUME TypeOK,
         \/ Tick
         \/ \E s \in Sessions, n \in 0..MaxStudents : EnrolmentChanges(s, n)
         \/ \E m \in Terms : DeleteTerm(m)
         \/ \E s \in Sessions : DeleteSession(s)
  PROVE  TypeOK'
<1>1. CASE Tick
  BY <1>1, BillingAssumption DEF TypeOK, Tick
<1>2. CASE \E s \in Sessions, n \in 0..MaxStudents : EnrolmentChanges(s, n)
  BY <1>2, BillingAssumption DEF TypeOK, EnrolmentChanges
<1>3. CASE \E m \in Terms : DeleteTerm(m)
  BY <1>3, BillingAssumption DEF TypeOK, DeleteTerm, CascadeTerms
<1>4. CASE \E s \in Sessions : DeleteSession(s)
  BY <1>4, BillingAssumption DEF TypeOK, DeleteSession, CascadeTerms
<1> QED
  BY <1>1, <1>2, <1>3, <1>4

(* A state of the job, or of a request, is of the kind its pc says. *)
LEMMA JobShape ==
  ASSUME job \in Job
  PROVE  /\ job.pc = "next" => job \in JobTurn
         /\ job.pc \in {"getByTenant", "suspendTenant"} => job \in JobChecking
         /\ job.pc = "suspendSub" => job \in JobSuspending
  BY DEF Job, Idle, JobListing, JobTurn, JobChecking, JobSuspending

(* UPDATE subscriptions SET status: the other columns stay. *)
LEMMA SetSubType ==
  ASSUME TypeOK, NEW s \in Sessions, NEW status \in SubscriptionStatus,
         SetSubStatus(s, status)
  PROVE  subs' \in [Sessions -> Subscription \cup {NoSub}]
<1>1. CASE HasSub(s)
  <2>1. subs[s] \in Subscription
    BY <1>1 DEF TypeOK, HasSub, NoSub, SubscriptionStatus
  <2>2. [subs[s] EXCEPT !.status = status] \in Subscription
    BY <2>1 DEF Subscription
  <2>3. subs' = [subs EXCEPT ![s] = [subs[s] EXCEPT !.status = status]]
    BY <1>1 DEF SetSubStatus
  <2> QED
    BY <2>2, <2>3 DEF TypeOK
<1>2. CASE ~HasSub(s)
  BY <1>2 DEF SetSubStatus, TypeOK
<1> QED
  BY <1>1, <1>2

LEMMA JobType ==
  ASSUME TypeOK, JobStep \/ JobStatementFails \/ JobStops
  PROVE  TypeOK'
<1> USE BillingAssumption
<1>0. job \in Job
  BY DEF TypeOK
<1>1. CASE JobMark
  BY <1>1 DEF TypeOK, JobMark, Markable, Job, JobListing, Row, InvoiceStatus, NoRow, DeletedRow
<1>2. CASE JobList
  <2>1. job' \in JobTurn
    BY <1>2 DEF TypeOK, JobList, JobTurn, Listed, OverdueRows, Exists, Row,
                NoRow, DeletedRow, InvoiceStatus
  <2>2. ASSUME NEW i \in Invoices, invoices[i].status \in {"PENDING", "OVERDUE"}
        PROVE  <<TenantOfTerm(invoices[i].term), DaysOverdue(day, invoices[i].due)>>
                 \in Tenants \X (0..MaxDay)
    <3>1. invoices[i] \in Row
      BY <2>2 DEF TypeOK, NoRow, DeletedRow
    <3> QED
      BY <3>1 DEF TypeOK, Row, TenantOfTerm, DaysOverdue
  <2>3. arrears' \subseteq Tenants \X (0..MaxDay)
    BY <1>2, <2>2 DEF JobList, Arrears
  <2> QED
    BY <1>2, <2>1, <2>3 DEF TypeOK, JobList, Job
<1>3. CASE JobDone
  BY <1>3 DEF TypeOK, JobDone, Job
<1>4. CASE JobNext
  <2>1. job \in JobTurn
    BY <1>0, <1>4, JobShape DEF JobNext
  <2>2. job' \in JobTurn \cup JobChecking
    BY <1>4, <2>1 DEF JobNext, JobTurn, JobChecking
  <2>3. subs' \in [Sessions -> Subscription \cup {NoSub}] /\ faults' \in 0..MaxFaults
    BY <1>4 DEF TypeOK, JobNext, MarkAsOverdue, Subscription, SubscriptionStatus, NoSub
  <2> QED
    BY <1>4, <2>2, <2>3 DEF TypeOK, JobNext, Job
<1>5. CASE JobGetByTenant
  <2>1. job \in JobChecking
    BY <1>0, <1>5, JobShape DEF JobGetByTenant
  <2>2. job' \in JobTurn \cup JobSuspending
    BY <1>5, <2>1 DEF JobGetByTenant, JobContinues, GetByTenant, Latest,
                      JobTurn, JobChecking, JobSuspending
  <2> QED
    BY <1>5, <2>2 DEF TypeOK, JobGetByTenant, Job
<1>6. CASE JobSuspendSub
  <2>1. job \in JobSuspending
    BY <1>0, <1>6, JobShape DEF JobSuspendSub
  <2>2. job' \in JobChecking
    BY <1>6, <2>1 DEF JobSuspendSub, JobSuspending, JobChecking
  <2>3. subs' \in [Sessions -> Subscription \cup {NoSub}]
    BY <1>6, <2>1, SetSubType DEF JobSuspendSub, JobSuspending, SubscriptionStatus
  <2> QED
    BY <1>6, <2>2, <2>3 DEF TypeOK, JobSuspendSub, Job
<1>7. CASE JobSuspendTenant
  <2>1. job \in JobChecking
    BY <1>0, <1>7, JobShape DEF JobSuspendTenant
  <2>2. job' \in JobTurn
    BY <1>7, <2>1 DEF JobSuspendTenant, JobContinues, JobTurn, JobChecking
  <2> QED
    BY <1>7, <2>2 DEF TypeOK, JobSuspendTenant, Job, TenantStatus
<1>8. CASE JobStatementFails
  <2>1. job \in JobChecking \cup JobSuspending
    BY <1>0, <1>8, JobShape DEF JobStatementFails
  <2>2. job' \in JobTurn
    BY <1>8, <2>1 DEF JobStatementFails, JobContinues, JobTurn, JobChecking, JobSuspending
  <2> QED
    BY <1>8, <2>2 DEF TypeOK, JobStatementFails, Job
<1>9. CASE JobStops
  BY <1>9 DEF TypeOK, JobStops, Job
<1> QED
  BY <1>1, <1>2, <1>3, <1>4, <1>5, <1>6, <1>7, <1>8, <1>9 DEF JobStep

LEMMA RequestShape ==
  ASSUME NEW w \in Workers, req \in [Workers -> Request]
  PROVE  /\ req[w].pc = "nextTenant" => req[w] \in BulkTurn
         /\ req[w].pc = "countStudents" => req[w] \in BulkCount
         /\ req[w].pc \in {"getSub", "createSub", "number"} => req[w] \in Generating
         /\ req[w].pc = "insert" => req[w] \in Inserting
         /\ req[w].pc = "updateInvoice" => req[w] \in Updating
         /\ req[w].pc = "getSubscription" => req[w] \in Paying
         /\ req[w].pc = "updateSub" => req[w] \in UpdatingSub
         /\ req[w].pc = "applyAdjustment" => req[w] \in Adjusting
<1>1. req[w] \in Request
  OBVIOUS
<1> QED
  BY <1>1 DEF Request, Idle, BulkTurn, BulkCount, Generating, Inserting, Updating,
              Paying, UpdatingSub, Adjusting

(* To type a new req it is enough to type the one request that changes. *)
LEMMA RequestUpdate ==
  ASSUME NEW w \in Workers, NEW r, r \in Request,
         req \in [Workers -> Request], req' = [req EXCEPT ![w] = r]
  PROVE  req' \in [Workers -> Request]
  OBVIOUS

(* The return of GenerateTermInvoice. *)
LEMMA ReturnType ==
  ASSUME TypeOK, NEW w \in Workers, req[w] \in Generating \cup Inserting,
         GenerateReturns(w)
  PROVE  req' \in [Workers -> Request]
<1>1. [pc |-> "nextTenant", todo |-> req[w].todo] \in Request
  BY DEF Request, BulkTurn, Generating, Inserting
<1>2. Idle \in Request
  BY DEF Request
<1> QED
  BY <1>1, <1>2 DEF GenerateReturns, TypeOK

LEMMA BulkType ==
  ASSUME TypeOK, NEW w \in Workers,
         GenerateInvoicesForActiveTerm(w) \/ BulkNextTenant(w) \/ BulkCountStudents(w)
  PROVE  TypeOK'
<1> USE BillingAssumption
<1>0. req \in [Workers -> Request]
  BY DEF TypeOK
<1>1. CASE GenerateInvoicesForActiveTerm(w)
  <2>1. [pc |-> "nextTenant", todo |-> {t \in Tenants : tenants[t] = "ACTIVE"}] \in Request
    BY DEF Request, BulkTurn
  <2> QED
    BY <1>1, <2>1 DEF GenerateInvoicesForActiveTerm, TypeOK
<1>2. CASE BulkNextTenant(w)
  <2>1. req[w] \in BulkTurn
    BY <1>0, <1>2, RequestShape DEF BulkNextTenant
  <2>2. req' \in [Workers -> Request]
    <3>1. CASE req' = [req EXCEPT ![w] = Idle]
      BY <1>0, <3>1 DEF Request
    <3>2. ASSUME NEW t \in req[w].todo, req' = [req EXCEPT ![w].todo = req[w].todo \ {t}]
          PROVE  req' \in [Workers -> Request]
      <4>1. [req[w] EXCEPT !.todo = req[w].todo \ {t}] \in Request
        BY <2>1 DEF Request, BulkTurn
      <4> QED
        BY <1>0, <3>2, <4>1
    <3>3. ASSUME NEW t \in req[w].todo, NEW m \in BillableTerms(t),
                 req' = [req EXCEPT ![w] =
                           IF \E i \in Invoices : Exists(i) /\ invoices[i].term = m
                             THEN [pc |-> "nextTenant", todo |-> req[w].todo \ {t}]
                             ELSE [pc |-> "countStudents", term |-> m,
                                   todo |-> req[w].todo \ {t}]]
          PROVE  req' \in [Workers -> Request]
      <4>1. [pc |-> "nextTenant", todo |-> req[w].todo \ {t}] \in Request
        BY <2>1 DEF Request, BulkTurn
      <4>2. [pc |-> "countStudents", term |-> m, todo |-> req[w].todo \ {t}] \in Request
        BY <2>1 DEF Request, BulkTurn, BulkCount, BillableTerms
      <4> QED
        BY <1>0, <3>3, <4>1, <4>2
    <3> QED
      BY <1>2, <3>1, <3>2, <3>3 DEF BulkNextTenant
  <2> QED
    BY <1>2, <2>2 DEF BulkNextTenant, TypeOK
<1>3. CASE BulkCountStudents(w)
  <2>1. req[w] \in BulkCount
    BY <1>0, <1>3, RequestShape DEF BulkCountStudents
  <2>2. [pc |-> "nextTenant", todo |-> req[w].todo] \in Request
    BY <2>1 DEF Request, BulkTurn, BulkCount
  <2>3. [pc |-> "getSub", by |-> "bulk", term |-> req[w].term,
         count |-> students[SessionOf[req[w].term]], todo |-> req[w].todo] \in Request
    BY <2>1 DEF TypeOK, Request, BulkCount, Generating
  <2>4. req' \in [Workers -> Request]
    BY <1>0, <1>3, <2>2, <2>3 DEF BulkCountStudents
  <2> QED
    BY <1>3, <2>4 DEF BulkCountStudents, TypeOK
<1> QED
  BY <1>1, <1>2, <1>3

LEMMA GenerateType ==
  ASSUME TypeOK, NEW w \in Workers,
         \/ \E m \in Terms : ActivateTerm(w, m)
         \/ GetSubscriptionOfSession(w) \/ CreateSubscription(w)
         \/ NumberInvoice(w) \/ CreateInvoice(w) \/ GenerationFails(w)
  PROVE  TypeOK'
<1> USE BillingAssumption
<1>0. req \in [Workers -> Request]
  BY DEF TypeOK
<1>1. ASSUME NEW m \in Terms, ActivateTerm(w, m)
      PROVE  TypeOK'
  <2>1. [pc |-> "getSub", by |-> "activation", term |-> m,
         count |-> students[SessionOf[m]], todo |-> {}] \in Request
    BY DEF TypeOK, Request, Generating
  <2> QED
    BY <1>1, <2>1 DEF ActivateTerm, TypeOK
<1>2. CASE GetSubscriptionOfSession(w)
  <2>1. req[w] \in Generating
    BY <1>0, <1>2, RequestShape DEF GetSubscriptionOfSession
  <2>2. \A pc \in {"number", "createSub"} : [req[w] EXCEPT !.pc = pc] \in Request
    BY <2>1 DEF Request, Generating
  <2>3. req' \in [Workers -> Request]
    BY <1>0, <1>2, <2>2 DEF GetSubscriptionOfSession
  <2> QED
    BY <1>2, <2>3 DEF GetSubscriptionOfSession, TypeOK
<1>3. CASE CreateSubscription(w)
  <2>1. req[w] \in Generating
    BY <1>0, <1>3, RequestShape DEF CreateSubscription
  <2>2. CASE GenerateReturns(w) /\ UNCHANGED subs
    BY <1>3, <2>1, <2>2, ReturnType DEF CreateSubscription, TypeOK
  <2>3. ASSUME NEW x \in Latest(subs, Sessions),
               subs' = [subs EXCEPT ![SessionOf[req[w].term]] =
                          [status |-> "ACTIVE", created |-> subs[x].created + 1]],
               req' = [req EXCEPT ![w].pc = "number"]
        PROVE  TypeOK'
    <3>1. [req[w] EXCEPT !.pc = "number"] \in Request
      BY <2>1 DEF Request, Generating
    <3>2. [status |-> "ACTIVE", created |-> subs[x].created + 1] \in Subscription
      BY DEF TypeOK, Latest, Subscription, SubscriptionStatus, NoSub
    <3> QED
      BY <1>3, <2>3, <3>1, <3>2 DEF CreateSubscription, TypeOK
  <2> QED
    BY <1>3, <2>2, <2>3 DEF CreateSubscription
<1>4. CASE NumberInvoice(w)
  <2>1. req[w] \in Generating
    BY <1>0, <1>4, RequestShape DEF NumberInvoice
  <2>2. ASSUME NEW n \in Nat
        PROVE  [pc |-> "insert", by |-> req[w].by, term |-> req[w].term,
                count |-> req[w].count, todo |-> req[w].todo, number |-> n] \in Request
    BY <2>1 DEF Request, Generating, Inserting
  <2>3. GetNextInvoiceNumber(TenantOfTerm(req[w].term)) \subseteq Nat
    BY DEF TypeOK, GetNextInvoiceNumber, InvoicesOf, Exists, Row, NoRow, DeletedRow,
           InvoiceStatus
  <2>4. req' \in [Workers -> Request] /\ faults' \in 0..MaxFaults
    BY <1>0, <1>4, <2>2, <2>3 DEF NumberInvoice, TypeOK
  <2> QED
    BY <1>4, <2>4 DEF NumberInvoice, TypeOK
<1>5. CASE CreateInvoice(w)
  <2>1. req[w] \in Inserting
    BY <1>0, <1>5, RequestShape DEF CreateInvoice
  <2>2. req[w].count * Price \in Nat
    BY <2>1 DEF Inserting
  <2>3. NewInvoice(req[w].term, req[w].number, req[w].count) \in Row
    BY <2>1, <2>2 DEF NewInvoice, Row, Inserting, InvoiceStatus, TypeOK
  <2>4. invoices' \in [Invoices -> Row \cup {NoRow, DeletedRow}]
    BY <1>5, <2>3 DEF CreateInvoice, TypeOK
  <2> QED
    BY <1>5, <2>1, <2>4, ReturnType DEF CreateInvoice, TypeOK
<1>6. CASE GenerationFails(w)
  <2>2. CASE req[w].pc \in {"createSub", "insert"} /\ GenerateReturns(w)
    <3>1. req[w] \in Generating \cup Inserting
      BY <1>0, <2>2, RequestShape
    <3> QED
      BY <1>6, <2>2, <3>1, ReturnType DEF GenerationFails, TypeOK
  <2>3. CASE req[w].pc = "getSub" /\ req' = [req EXCEPT ![w].pc = "createSub"]
    <3>1. [req[w] EXCEPT !.pc = "createSub"] \in Request
      BY <1>0, <2>3, RequestShape DEF Request, Generating
    <3> QED
      BY <1>0, <1>6, <2>3, <3>1 DEF GenerationFails, TypeOK
  <2>4. CASE /\ req[w].pc = "countStudents"
             /\ req' = [req EXCEPT ![w] = [pc |-> "nextTenant", todo |-> req[w].todo]]
    <3>1. [pc |-> "nextTenant", todo |-> req[w].todo] \in Request
      BY <1>0, <2>4, RequestShape DEF Request, BulkTurn, BulkCount
    <3> QED
      BY <1>0, <1>6, <2>4, <3>1 DEF GenerationFails, TypeOK
  <2>5. ASSUME req[w].pc = "nextTenant", NEW t \in req[w].todo,
               req' = [req EXCEPT ![w].todo = req[w].todo \ {t}]
        PROVE  TypeOK'
    <3>1. [req[w] EXCEPT !.todo = req[w].todo \ {t}] \in Request
      BY <1>0, <2>5, RequestShape DEF Request, BulkTurn
    <3> QED
      BY <1>0, <1>6, <2>5, <3>1 DEF GenerationFails, TypeOK
  <2>6. ASSUME req[w].pc = "nextTenant", NEW t \in req[w].todo, NEW m \in BillableTerms(t),
               req' = [req EXCEPT ![w] = [pc |-> "countStudents", term |-> m,
                                          todo |-> req[w].todo \ {t}]]
        PROVE  TypeOK'
    <3>1. [pc |-> "countStudents", term |-> m, todo |-> req[w].todo \ {t}] \in Request
      BY <1>0, <2>6, RequestShape DEF Request, BulkTurn, BulkCount, BillableTerms
    <3> QED
      BY <1>0, <1>6, <2>6, <3>1 DEF GenerationFails, TypeOK
  <2> QED
    BY <1>6, <2>2, <2>3, <2>4, <2>5, <2>6 DEF GenerationFails
<1> QED
  BY <1>1, <1>2, <1>3, <1>4, <1>5, <1>6

(* Reading an invoice to write its stamps back later. *)
LEMMA ReadType ==
  ASSUME TypeOK, NEW w \in Workers, NEW i \in Invoices, Exists(i),
         NEW stamp \in Stamps, ReadForUpdate(w, i, stamp)
  PROVE  TypeOK'
<1>1. [pc |-> "updateInvoice", inv |-> i, stamp |-> stamp,
       session |-> SessionOf[invoices[i].term]] \in Request
  BY BillingAssumption DEF TypeOK, Request, Updating, Exists, Row, NoRow, DeletedRow,
                           InvoiceStatus
<1> QED
  BY <1>1 DEF ReadForUpdate, TypeOK

LEMMA StampsType ==
  ASSUME TypeOK, NEW i \in Invoices, Exists(i)
  PROVE  /\ invoices[i] \in Row
         /\ StampsOf(invoices[i]) \in Stamps
  BY DEF TypeOK, Exists, Row, NoRow, DeletedRow, InvoiceStatus, StampsOf, Stamps

LEMMA InvoiceType ==
  ASSUME TypeOK, NEW w \in Workers,
         \/ \E i \in Invoices : MarkInvoiceAsPaid(w, i) \/ DisputeInvoice(w, i) \/ VoidInvoice(w, i)
         \/ UpdateInvoice(w)
  PROVE  TypeOK'
<1>0. req \in [Workers -> Request]
  BY DEF TypeOK
<1>1. ASSUME NEW i \in Invoices, MarkInvoiceAsPaid(w, i)
      PROVE  TypeOK'
  BY <1>1, StampsType, ReadType DEF MarkInvoiceAsPaid, Stamps, InvoiceStatus
<1>2. ASSUME NEW i \in Invoices, DisputeInvoice(w, i)
      PROVE  TypeOK'
  BY <1>2, StampsType, ReadType DEF DisputeInvoice, Stamps, InvoiceStatus
<1>3. ASSUME NEW i \in Invoices, VoidInvoice(w, i)
      PROVE  TypeOK'
  BY <1>3, StampsType, ReadType DEF VoidInvoice, Stamps, InvoiceStatus
<1>4. CASE UpdateInvoice(w)
  <2>1. req[w] \in Updating
    BY <1>0, <1>4, RequestShape DEF UpdateInvoice
  <2>2. Idle \in Request /\ [pc |-> "getSubscription", session |-> req[w].session] \in Request
    BY <2>1 DEF Request, Updating, Paying
  <2>3. req' \in [Workers -> Request]
    BY <1>0, <1>4, <2>2 DEF UpdateInvoice
  <2>4. Exists(req[w].inv) => WriteStamps(invoices[req[w].inv], req[w].stamp) \in Row
    <3> SUFFICES ASSUME Exists(req[w].inv)
                 PROVE  WriteStamps(invoices[req[w].inv], req[w].stamp) \in Row
      OBVIOUS
    <3>1. req[w].inv \in Invoices /\ req[w].stamp \in Stamps
      BY <2>1 DEF Updating
    <3>2. invoices[req[w].inv] \in Row
      BY <3>1, StampsType
    <3> QED
      BY <3>1, <3>2 DEF Stamps, Row, WriteStamps
  <2>5. invoices' \in [Invoices -> Row \cup {NoRow, DeletedRow}]
    BY <1>4, <2>4 DEF UpdateInvoice, TypeOK
  <2>6. paid' \subseteq Invoices /\ repaid' \subseteq Invoices /\ crossed' \subseteq Invoices
    BY <1>4, <2>1 DEF UpdateInvoice, Recorded, Updating, TypeOK
  <2> QED
    BY <1>4, <2>3, <2>5, <2>6 DEF UpdateInvoice, TypeOK
<1> QED
  BY <1>1, <1>2, <1>3, <1>4

LEMMA SubscriptionType ==
  ASSUME TypeOK, NEW w \in Workers,
         \/ GetSubscriptionAfterPayment(w)
         \/ \E s \in Sessions : CancelSubscription(w, s) \/ ReactivateSubscription(w, s)
         \/ UpdateSubscription(w)
  PROVE  TypeOK'
<1>0. req \in [Workers -> Request]
  BY DEF TypeOK
<1>1. ASSUME NEW s \in Sessions, NEW status \in {"ACTIVE", "CANCELLED"},
             ReadSubForUpdate(w, s, status)
      PROVE  TypeOK'
  <2>1. [pc |-> "updateSub", session |-> s, status |-> status] \in Request
    BY DEF Request, UpdatingSub
  <2> QED
    BY <1>1, <2>1 DEF ReadSubForUpdate, TypeOK
<1>2. CASE GetSubscriptionAfterPayment(w)
  <2>1. req[w] \in Paying
    BY <1>0, <1>2, RequestShape DEF GetSubscriptionAfterPayment
  <2>2. req[w].session \in Sessions /\ Idle \in Request
    BY <2>1 DEF Paying, Request
  <2> QED
    BY <1>1, <1>2, <2>2 DEF GetSubscriptionAfterPayment, TypeOK
<1>3. ASSUME NEW s \in Sessions, CancelSubscription(w, s) \/ ReactivateSubscription(w, s)
      PROVE  TypeOK'
  BY <1>1, <1>3 DEF CancelSubscription, ReactivateSubscription
<1>4. CASE UpdateSubscription(w)
  <2>1. req[w] \in UpdatingSub
    BY <1>0, <1>4, RequestShape DEF UpdateSubscription
  <2>2. subs' \in [Sessions -> Subscription \cup {NoSub}]
    BY <1>4, <2>1, SetSubType DEF UpdateSubscription, UpdatingSub, SubscriptionStatus
  <2>3. Idle \in Request
    BY DEF Request
  <2> QED
    BY <1>4, <2>2, <2>3 DEF UpdateSubscription, TypeOK
<1> QED
  BY <1>1, <1>2, <1>3, <1>4

(* The CHECK constraints keep discount and total in their columns' range. *)
LEMMA DiscountedType ==
  ASSUME NEW row \in Row, NEW amount \in Int, Adjustable(row, amount)
  PROVE  Discounted(row, amount) \in Row
<1>1. row.discount + amount \in Nat /\ row.subtotal - (row.discount + amount) \in Nat
  BY DEF Adjustable, Row
<1> QED
  BY <1>1 DEF Discounted, Row

LEMMA AdjustmentType ==
  ASSUME TypeOK, PendingRecorded, NEW w \in Workers,
         \/ \E i \in Invoices, a \in Adjustments, type \in {"CREDIT", "CHARGE"}, n \in Amounts :
               ApplyBillingAdjustment(w, i, a, type, n)
         \/ ApplyAdjustmentToInvoice(w) \/ RequestFails(w)
  PROVE  TypeOK'
<1> USE BillingAssumption
<1>0. req \in [Workers -> Request] /\ Idle \in Request
  BY DEF TypeOK, Request
<1>1. ASSUME NEW i \in Invoices, NEW a \in Adjustments, NEW type \in {"CREDIT", "CHARGE"},
             NEW n \in Amounts, ApplyBillingAdjustment(w, i, a, type, n)
      PROVE  TypeOK'
  <2>1. [pc |-> "applyAdjustment", inv |-> i, adj |-> a] \in Request
    BY DEF Request, Adjusting
  <2>2. [inv |-> i, type |-> type, amount |-> n, state |-> "RECORDED"] \in Adjustment
    BY DEF Adjustment
  <2> QED
    BY <1>0, <1>1, <2>1, <2>2 DEF ApplyBillingAdjustment, TypeOK
<1>2. CASE ApplyAdjustmentToInvoice(w)
  <2> DEFINE i == req[w].inv
             a == req[w].adj
  <2>1. req[w] \in Adjusting
    BY <1>0, <1>2, RequestShape DEF ApplyAdjustmentToInvoice
  <2>2. i \in Invoices /\ a \in Adjustments
    BY <2>1 DEF Adjusting
  <2>3. CASE Exists(i) /\ Adjustable(invoices[i], adjustments[a].amount)
    <3>1. invoices[i] \in Row
      BY <2>2, <2>3, StampsType
    <3>2. adjustments[a] \in Adjustment
      BY <1>2, <2>2 DEF PendingRecorded, TypeOK, ApplyAdjustmentToInvoice
    <3>3. Discounted(invoices[i], adjustments[a].amount) \in Row
      BY <2>3, <3>1, <3>2, DiscountedType DEF Adjustment
    <3>4. [adjustments[a] EXCEPT !.state = "APPLIED"] \in Adjustment
      BY <3>2 DEF Adjustment
    <3> QED
      <4>1. invoices' \in [Invoices -> Row \cup {NoRow, DeletedRow}]
        BY <1>2, <2>2, <2>3, <3>3 DEF ApplyAdjustmentToInvoice, TypeOK
      <4>2. adjustments' = [adjustments EXCEPT ![a] = [adjustments[a] EXCEPT !.state = "APPLIED"]]
        BY <1>2, <2>3 DEF ApplyAdjustmentToInvoice
      <4>3. adjustments' \in [Adjustments -> Adjustment \cup {NoAdjustment}]
        BY <2>2, <3>4, <4>2 DEF TypeOK
      <4> QED
        BY <1>0, <1>2, <4>1, <4>3 DEF ApplyAdjustmentToInvoice, TypeOK
  <2>4. CASE ~(Exists(i) /\ Adjustable(invoices[i], adjustments[a].amount))
    BY <1>0, <1>2, <2>4 DEF ApplyAdjustmentToInvoice, TypeOK
  <2> QED
    BY <2>3, <2>4
<1>3. CASE RequestFails(w)
  BY <1>0, <1>3 DEF RequestFails, TypeOK
<1> QED
  BY <1>1, <1>2, <1>3

LEMMA RequestType ==
  ASSUME TypeOK, PendingRecorded, NEW w \in Workers, RequestStep(w)
  PROVE  TypeOK'
  BY BulkType, GenerateType, InvoiceType, SubscriptionType, AdjustmentType DEF RequestStep

LEMMA TypeStep ==
  ASSUME TypeOK, PendingRecorded, [Next]_vars
  PROVE  TypeOK'
<1>1. CASE UNCHANGED vars
  BY <1>1 DEF vars, TypeOK
<1>2. CASE Next
  BY <1>2, EnvironmentType, RequestType, JobType DEF Next
<1> QED
  BY <1>1, <1>2

(***************************************************************************)
(* What one step can do to an invoice: everything else about invoices       *)
(* follows from this.                                                       *)
(***************************************************************************)
Inserted(i) ==
    /\ invoices[i] = NoRow
    /\ \E m \in terms, n \in Nat, c \in 0..MaxStudents : invoices'[i] = NewInvoice(m, n, c)
Cascaded(i) ==
    Exists(i) /\ invoices[i].term \notin terms' /\ invoices'[i] = DeletedRow
Stamped(i) ==
    Exists(i) /\ \E stamp \in Stamps :
        Final(stamp) /\ invoices'[i] = WriteStamps(invoices[i], stamp)
Credited(i) ==
    /\ Exists(i)
    /\ \E n \in Int :
         Adjustable(invoices[i], n) /\ invoices'[i] = Discounted(invoices[i], n)
    /\ \E w \in Workers : ApplyAdjustmentToInvoice(w)
MarkedOverdue(i) ==
    Markable(i) /\ invoices'[i] = [invoices[i] EXCEPT !.status = "OVERDUE"]

InvoiceStep(i) ==
    \/ UNCHANGED invoices[i] /\ (Exists(i) => invoices[i].term \in terms')
    \/ Cascaded(i)
    \/ /\ UNCHANGED <<day, terms>>
       /\ Inserted(i) \/ Stamped(i) \/ Credited(i) \/ MarkedOverdue(i)

LEMMA RequestInvoiceFrame ==
  ASSUME TypeOK, PendingRecorded, PendingConsistent, TermsLive,
         NEW w \in Workers, RequestStep(w)
  PROVE  /\ UNCHANGED <<day, terms>>
         /\ \A i \in Invoices : InvoiceStep(i)
<1>0. req \in [Workers -> Request]
  BY DEF TypeOK
<1>1. CASE UNCHANGED <<day, terms, invoices>>
  BY <1>1 DEF InvoiceStep, TermsLive
<1>2. CASE CreateInvoice(w)
  <2>1. req[w] \in Inserting
    BY <1>0, <1>2, RequestShape DEF CreateInvoice
  <2>2. ASSUME NEW k \in Invoices, invoices[k] = NoRow, req[w].term \in terms,
               invoices' = [invoices EXCEPT ![k] =
                              NewInvoice(req[w].term, req[w].number, req[w].count)]
        PROVE  \A i \in Invoices : UNCHANGED invoices[i] \/ Inserted(i)
    BY <2>1, <2>2 DEF Inserting, Inserted, TypeOK
  <2>3. UNCHANGED <<day, terms>>
    BY <1>2 DEF CreateInvoice
  <2>4. \A i \in Invoices : UNCHANGED invoices[i] \/ Inserted(i)
    BY <1>2, <2>2 DEF CreateInvoice, InsertAllowed
  <2> QED
    BY <2>3, <2>4 DEF InvoiceStep, TermsLive
<1>3. CASE UpdateInvoice(w)
  <2>1. req[w] \in Updating /\ Final(req[w].stamp)
    BY <1>0, <1>3, RequestShape DEF UpdateInvoice, PendingConsistent
  <2>2. UNCHANGED <<day, terms>>
    BY <1>3 DEF UpdateInvoice
  <2>3. \A i \in Invoices : UNCHANGED invoices[i] \/ Stamped(i)
    BY <1>3, <2>1 DEF UpdateInvoice, Updating, Stamped, TypeOK
  <2> QED
    BY <2>2, <2>3 DEF InvoiceStep, TermsLive
<1>4. CASE ApplyAdjustmentToInvoice(w)
  <2>1. req[w] \in Adjusting
    BY <1>0, <1>4, RequestShape DEF ApplyAdjustmentToInvoice
  <2>2. adjustments[req[w].adj].amount \in Int
    BY <1>4, <2>1 DEF ApplyAdjustmentToInvoice, PendingRecorded, Adjusting, TypeOK, Adjustment
  <2>3. UNCHANGED <<day, terms>>
    BY <1>4 DEF ApplyAdjustmentToInvoice
  <2>4. \A i \in Invoices : UNCHANGED invoices[i] \/ Credited(i)
    BY <1>4, <2>1, <2>2 DEF ApplyAdjustmentToInvoice, Adjusting, Credited, TypeOK
  <2> QED
    BY <2>3, <2>4 DEF InvoiceStep, TermsLive
<1> QED
  BY <1>1, <1>2, <1>3, <1>4
  DEF RequestStep, ActivateTerm, GenerateInvoicesForActiveTerm, BulkNextTenant,
      BulkCountStudents, GetSubscriptionOfSession, CreateSubscription, NumberInvoice,
      GenerationFails, MarkInvoiceAsPaid, DisputeInvoice, VoidInvoice, ReadForUpdate,
      GetSubscriptionAfterPayment, CancelSubscription, ReactivateSubscription,
      ReadSubForUpdate, UpdateSubscription, ApplyBillingAdjustment, RequestFails

LEMMA InvoiceFrame ==
  ASSUME TypeOK, PendingRecorded, PendingConsistent, TermsLive, [Next]_vars
  PROVE  /\ \A i \in Invoices : InvoiceStep(i)
         /\ day' \in Int /\ day <= day' /\ terms' \subseteq terms
<1>0. day \in Int
  BY BillingAssumption DEF TypeOK
<1>1. CASE UNCHANGED <<invoices, terms>> /\ (day' = day \/ day' = day + 1)
  BY <1>0, <1>1 DEF InvoiceStep, TermsLive
<1>2. CASE (\E m \in Terms : DeleteTerm(m)) \/ (\E s \in Sessions : DeleteSession(s))
  <2>1. terms' \subseteq terms /\ day' = day
    BY <1>2 DEF DeleteTerm, DeleteSession
  <2>2. ASSUME NEW i \in Invoices
        PROVE  InvoiceStep(i)
    <3>1. ASSUME NEW m \in Terms, DeleteTerm(m)
          PROVE  InvoiceStep(i)
      BY <3>1 DEF DeleteTerm, CascadeTerms, InvoiceStep, Cascaded, TermsLive
    <3>2. ASSUME NEW s \in Sessions, DeleteSession(s)
          PROVE  InvoiceStep(i)
      BY <3>2 DEF DeleteSession, CascadeTerms, InvoiceStep, Cascaded, TermsLive, TypeOK
    <3> QED
      BY <1>2, <3>1, <3>2
  <2> QED
    BY <1>0, <2>1, <2>2
<1>3. CASE \E w \in Workers : RequestStep(w)
  BY <1>0, <1>3, RequestInvoiceFrame
<1>4. CASE JobMark
  <2>1. \A i \in Invoices : UNCHANGED invoices[i] \/ MarkedOverdue(i)
    BY <1>4 DEF JobMark, MarkedOverdue
  <2> QED
    BY <1>0, <1>4, <2>1 DEF JobMark, InvoiceStep, TermsLive
<1> QED
  BY <1>1, <1>2, <1>3, <1>4
  DEF Next, vars, Tick, EnrolmentChanges, JobStep, JobList, JobDone, JobNext,
      JobGetByTenant, JobSuspendSub, JobSuspendTenant, JobStatementFails, JobStops

(***************************************************************************)
(* The invariants, each preserved by every step                             *)
(***************************************************************************)
LEMMA InvoiceInvariants ==
  ASSUME IInv, TypeOK', [Next]_vars
  PROVE  TermsLive' /\ StampsMatchStatus' /\ AmountsAddUp'
<1> SUFFICES ASSUME NEW i \in Invoices, Exists(i)'
             PROVE  /\ invoices'[i].term \in terms'
                    /\ Consistent(StampsOf(invoices'[i]))
                    /\ invoices'[i].subtotal = invoices'[i].students * Price
                    /\ invoices'[i].total = invoices'[i].subtotal - invoices'[i].discount
                    /\ 0 <= invoices'[i].discount
                    /\ invoices'[i].discount <= invoices'[i].subtotal
  BY DEF TermsLive, StampsMatchStatus, AmountsAddUp
<1>1. InvoiceStep(i)
  BY InvoiceFrame DEF IInv
<1>2. Exists(i) => /\ invoices[i] \in Row /\ invoices[i].term \in terms
                   /\ Consistent(StampsOf(invoices[i]))
                   /\ invoices[i].subtotal = invoices[i].students * Price
                   /\ invoices[i].total = invoices[i].subtotal - invoices[i].discount
                   /\ 0 <= invoices[i].discount
                   /\ invoices[i].discount <= invoices[i].subtotal
  BY StampsType DEF IInv, TermsLive, StampsMatchStatus, AmountsAddUp
<1>3. CASE UNCHANGED invoices[i] /\ (Exists(i) => invoices[i].term \in terms')
  BY <1>2, <1>3 DEF Exists
<1>4. CASE Cascaded(i)
  BY <1>4 DEF Cascaded, Exists, DeletedRow, InvoiceStatus
<1>5. CASE UNCHANGED terms /\ Inserted(i)
  <2>1. PICK m \in terms, n \in Nat, c \in 0..MaxStudents : invoices'[i] = NewInvoice(m, n, c)
    BY <1>5 DEF Inserted
  <2>2. c * Price \in Nat
    BY BillingAssumption
  <2> QED
    BY <1>5, <2>1, <2>2 DEF NewInvoice, Consistent, StampsOf
<1>6. CASE UNCHANGED terms /\ Stamped(i)
  <2>1. PICK stamp \in Stamps :
           Final(stamp) /\ invoices'[i] = WriteStamps(invoices[i], stamp)
    BY <1>6 DEF Stamped
  <2> QED
    BY <1>2, <1>6, <2>1 DEF Stamped, WriteStamps, Final, Consistent, StampsOf, Stamps, Row
<1>7. CASE UNCHANGED terms /\ Credited(i)
  <2>1. PICK n \in Int : Adjustable(invoices[i], n) /\ invoices'[i] = Discounted(invoices[i], n)
    BY <1>7 DEF Credited
  <2>2. Exists(i)
    BY <1>7 DEF Credited
  <2>3. StampsOf(invoices'[i]) = StampsOf(invoices[i])
    BY <1>2, <2>1, <2>2 DEF Discounted, StampsOf, Row
  <2> QED
    BY <1>2, <1>7, <2>1, <2>2, <2>3 DEF Discounted, Adjustable, Row
<1>8. CASE UNCHANGED terms /\ MarkedOverdue(i)
  <2>1. Exists(i) /\ invoices[i].status = "PENDING"
    BY <1>8 DEF MarkedOverdue, Markable, Exists, InvoiceStatus
  <2> QED
    BY <1>2, <1>8, <2>1 DEF MarkedOverdue, Consistent, StampsOf, Row
<1> QED
  BY <1>1, <1>3, <1>4, <1>5, <1>6, <1>7, <1>8 DEF InvoiceStep

(* A request changes its own entry of req only, and what it leaves there to *)
(* be written is recorded and consistent.                                   *)
LEMMA PendingByRequest ==
  ASSUME IInv, NEW w \in Workers, RequestStep(w)
  PROVE  /\ \A a \in Adjustments : adjustments[a] # NoAdjustment => adjustments'[a] # NoAdjustment
         /\ \A v \in Workers \ {w} : req'[v] = req[v]
         /\ req'[w].pc = "applyAdjustment" => adjustments'[req'[w].adj] # NoAdjustment
         /\ req'[w].pc = "updateInvoice" =>
              /\ Final(req'[w].stamp)
              /\ invoices[req'[w].inv].status \notin {"PAID", "DELETED"}
         /\ \/ UNCHANGED adjustments /\ req'[w].pc # "applyAdjustment"
            \/ \E i \in Invoices, a \in Adjustments, type \in {"CREDIT", "CHARGE"}, n \in Amounts :
                 ApplyBillingAdjustment(w, i, a, type, n)
            \/ ApplyAdjustmentToInvoice(w)
<1>0. TypeOK /\ req \in [Workers -> Request]
  BY DEF IInv, TypeOK
<1>1. ASSUME NEW i \in Invoices, NEW stamp, Exists(i), ReadForUpdate(w, i, stamp),
             Final(stamp), invoices[i].status # "PAID"
      PROVE  /\ \A v \in Workers \ {w} : req'[v] = req[v]
             /\ req'[w].pc = "updateInvoice" /\ Final(req'[w].stamp)
             /\ invoices[req'[w].inv].status \notin {"PAID", "DELETED"}
             /\ UNCHANGED adjustments
  BY <1>0, <1>1 DEF ReadForUpdate, Exists, InvoiceStatus
<1>2. ASSUME NEW i \in Invoices, Exists(i)
      PROVE  Consistent(StampsOf(invoices[i])) /\ StampsOf(invoices[i]) \in Stamps
  BY <1>0, <1>2, StampsType DEF IInv, StampsMatchStatus
<1>3. ASSUME NEW i \in Invoices, MarkInvoiceAsPaid(w, i)
      PROVE  Final([StampsOf(invoices[i]) EXCEPT !.status = "PAID", !.paid = TRUE])
  BY <1>2, <1>3 DEF MarkInvoiceAsPaid, Final, Consistent, Stamps, StampsOf
<1>4. ASSUME NEW i \in Invoices, DisputeInvoice(w, i)
      PROVE  Final([StampsOf(invoices[i]) EXCEPT !.status = "DISPUTED", !.disputed = TRUE])
  BY <1>2, <1>4 DEF DisputeInvoice, Final, Consistent, Stamps, StampsOf
<1>5. ASSUME NEW i \in Invoices, VoidInvoice(w, i)
      PROVE  Final([StampsOf(invoices[i]) EXCEPT !.status = "VOIDED", !.voided = TRUE])
  BY <1>2, <1>5 DEF VoidInvoice, Final, Consistent, Stamps, StampsOf
<1>6. CASE \E i \in Invoices : MarkInvoiceAsPaid(w, i) \/ DisputeInvoice(w, i) \/ VoidInvoice(w, i)
  BY <1>1, <1>3, <1>4, <1>5, <1>6 DEF MarkInvoiceAsPaid, DisputeInvoice, VoidInvoice
<1>7. CASE \E i \in Invoices, a \in Adjustments, type \in {"CREDIT", "CHARGE"}, n \in Amounts :
               ApplyBillingAdjustment(w, i, a, type, n)
  <2>1. PICK i \in Invoices, a \in Adjustments, type \in {"CREDIT", "CHARGE"}, n \in Amounts :
               ApplyBillingAdjustment(w, i, a, type, n)
    BY <1>7
  <2>2. /\ adjustments' = [adjustments EXCEPT ![a] =
                  [inv |-> i, type |-> type, amount |-> n, state |-> "RECORDED"]]
        /\ req'[w] = IF type = "CREDIT" THEN [pc |-> "applyAdjustment", inv |-> i, adj |-> a]
                                        ELSE Idle
        /\ \A v \in Workers \ {w} : req'[v] = req[v]
    BY <1>0, <2>1 DEF ApplyBillingAdjustment
  <2>3. [inv |-> i, type |-> type, amount |-> n, state |-> "RECORDED"] # NoAdjustment
    BY DEF NoAdjustment
  <2>4. adjustments'[a] # NoAdjustment
        /\ \A b \in Adjustments : adjustments[b] # NoAdjustment => adjustments'[b] # NoAdjustment
    BY <1>0, <2>2, <2>3 DEF TypeOK
  <2> QED
    BY <1>7, <2>2, <2>4 DEF Idle
<1>8. CASE ApplyAdjustmentToInvoice(w)
  <2>1. /\ req'[w] = Idle
        /\ \A v \in Workers \ {w} : req'[v] = req[v]
    BY <1>0, <1>8 DEF ApplyAdjustmentToInvoice
  <2>2. req[w].adj \in Adjustments /\ adjustments[req[w].adj] \in Adjustment
    BY <1>0, <1>8, RequestShape DEF ApplyAdjustmentToInvoice, Adjusting, IInv, PendingRecorded, TypeOK
  <2>3. [adjustments[req[w].adj] EXCEPT !.state = "APPLIED"] # NoAdjustment
    BY <2>2 DEF Adjustment, NoAdjustment
  <2>4. \A b \in Adjustments : adjustments[b] # NoAdjustment => adjustments'[b] # NoAdjustment
    BY <1>0, <1>8, <2>2, <2>3 DEF ApplyAdjustmentToInvoice, TypeOK
  <2> QED
    BY <1>8, <2>1, <2>4 DEF Idle
<1>9. CASE /\ UNCHANGED adjustments
           /\ \A v \in Workers \ {w} : req'[v] = req[v]
           /\ req'[w].pc \notin {"applyAdjustment", "updateInvoice"}
  BY <1>9
<1>10. CASE BulkNextTenant(w)
  <2>1. req[w] \in BulkTurn
    BY <1>0, <1>10, RequestShape DEF BulkNextTenant
  <2>2. req'[w].pc \in {"idle", "nextTenant", "countStudents"}
    BY <1>0, <1>10, <2>1 DEF BulkNextTenant, Idle, BulkTurn
  <2> QED
    BY <1>0, <1>9, <1>10, <2>2 DEF BulkNextTenant
<1>11. CASE GetSubscriptionOfSession(w) \/ CreateSubscription(w) \/ NumberInvoice(w) \/ CreateInvoice(w)
  <2>1. req[w] \in Generating \cup Inserting
    BY <1>0, <1>11, RequestShape DEF GetSubscriptionOfSession, CreateSubscription,
                                     NumberInvoice, CreateInvoice
  <2>2. GenerateReturns(w) => /\ req'[w].pc \in {"idle", "nextTenant"}
                              /\ \A v \in Workers \ {w} : req'[v] = req[v]
    BY <1>0 DEF GenerateReturns, Idle
  <2>3. /\ req'[w].pc \in {"idle", "nextTenant", "createSub", "number", "insert"}
        /\ \A v \in Workers \ {w} : req'[v] = req[v]
    BY <1>0, <1>11, <2>1, <2>2 DEF GetSubscriptionOfSession, CreateSubscription, NumberInvoice,
                              CreateInvoice, Generating, Inserting
  <2> QED
    BY <1>9, <1>11, <2>3 DEF GetSubscriptionOfSession, CreateSubscription, NumberInvoice,
                             CreateInvoice
<1>12. CASE UpdateInvoice(w) \/ UpdateSubscription(w) \/ RequestFails(w)
            \/ GetSubscriptionAfterPayment(w)
            \/ \E s \in Sessions : CancelSubscription(w, s) \/ ReactivateSubscription(w, s)
  <2>1. /\ req'[w].pc \in {"idle", "getSubscription", "updateSub"}
        /\ \A v \in Workers \ {w} : req'[v] = req[v]
    BY <1>0, <1>12 DEF UpdateInvoice, UpdateSubscription, RequestFails, Idle, ReadSubForUpdate,
          GetSubscriptionAfterPayment, CancelSubscription, ReactivateSubscription
  <2> QED
    BY <1>9, <1>12, <2>1 DEF UpdateInvoice, UpdateSubscription, RequestFails, ReadSubForUpdate,
          GetSubscriptionAfterPayment, CancelSubscription, ReactivateSubscription
<1>13. CASE (\E m \in Terms : ActivateTerm(w, m)) \/ GenerateInvoicesForActiveTerm(w)
            \/ BulkCountStudents(w)
  <2>1. /\ req'[w].pc \in {"getSub", "nextTenant"}
        /\ \A v \in Workers \ {w} : req'[v] = req[v]
    BY <1>0, <1>13 DEF ActivateTerm, GenerateInvoicesForActiveTerm, BulkCountStudents
  <2> QED
    BY <1>9, <1>13, <2>1 DEF ActivateTerm, GenerateInvoicesForActiveTerm, BulkCountStudents
<1>14. CASE GenerationFails(w)
  <2>1. CASE req[w].pc = "getSub" /\ req' = [req EXCEPT ![w].pc = "createSub"]
    <3>1. req[w] \in Generating
      BY <1>0, <2>1, RequestShape
    <3>2. req'[w].pc = "createSub" /\ \A v \in Workers \ {w} : req'[v] = req[v]
      BY <1>0, <2>1, <3>1 DEF Generating
    <3> QED
      BY <1>9, <1>14, <3>2 DEF GenerationFails
  <2>2. CASE req' = [req EXCEPT ![w] = [pc |-> "nextTenant", todo |-> req[w].todo]]
    BY <1>0, <1>9, <1>14, <2>2 DEF GenerationFails
  <2>4. CASE \/ \E t : req[w].pc = "nextTenant" /\ req' = [req EXCEPT ![w].todo = req[w].todo \ {t}]
             \/ \E m, X : req' = [req EXCEPT ![w] = [pc |-> "countStudents", term |-> m, todo |-> X]]
    <3>1. req[w].pc = "nextTenant" => req[w] \in BulkTurn
      BY <1>0, RequestShape
    <3>2. /\ req'[w].pc \in {"nextTenant", "countStudents"}
          /\ \A v \in Workers \ {w} : req'[v] = req[v]
      BY <1>0, <2>4, <3>1 DEF BulkTurn
    <3> QED
      BY <1>9, <1>14, <3>2 DEF GenerationFails
  <2>3. CASE GenerateReturns(w)
    <3>1. /\ req'[w].pc \in {"idle", "nextTenant"}
          /\ \A v \in Workers \ {w} : req'[v] = req[v]
      BY <1>0, <2>3 DEF GenerateReturns, Idle
    <3> QED
      BY <1>9, <1>14, <3>1 DEF GenerationFails
  <2> QED
    BY <1>14, <2>1, <2>2, <2>3, <2>4 DEF GenerationFails
<1> QED
  BY <1>6, <1>7, <1>8, <1>10, <1>11, <1>12, <1>13, <1>14 DEF RequestStep

LEMMA PendingInvariants ==
  ASSUME IInv, TypeOK', [Next]_vars
  PROVE  PendingRecorded' /\ PendingConsistent'
<1>1. CASE UNCHANGED <<adjustments, req>>
  BY <1>1 DEF IInv, PendingRecorded, PendingConsistent, Final, Consistent
<1>2. ASSUME NEW w \in Workers, RequestStep(w)
      PROVE  PendingRecorded' /\ PendingConsistent'
  <2> SUFFICES ASSUME NEW v \in Workers
               PROVE  /\ req'[v].pc = "applyAdjustment" => adjustments'[req'[v].adj] # NoAdjustment
                      /\ req'[v].pc = "updateInvoice" => Final(req'[v].stamp)
    BY DEF PendingRecorded, PendingConsistent, Final, Consistent
  <2>1. CASE v = w
    BY <1>2, <2>1, PendingByRequest
  <2>2. CASE v # w
    <3>1. req'[v] = req[v]
      BY <1>2, <2>2, PendingByRequest
    <3>2. req[v].pc = "applyAdjustment" => req[v].adj \in Adjustments
      BY RequestShape DEF IInv, TypeOK, Adjusting
    <3> QED
      BY <1>2, <3>1, <3>2, PendingByRequest DEF IInv, PendingRecorded, PendingConsistent
  <2> QED
    BY <2>1, <2>2
<1> QED
  BY <1>1, <1>2
  DEF Next, vars, Tick, EnrolmentChanges, DeleteTerm, DeleteSession, JobStep, JobMark, JobList,
      JobDone, JobNext, JobGetByTenant, JobSuspendSub, JobSuspendTenant, JobStatementFails, JobStops

(* What the job remembers stays justified while others change the tables. *)
LEMMA JobInvariant ==
  ASSUME IInv, TypeOK', [Next]_vars
  PROVE  JobJustified'
<1>0. TypeOK /\ job \in Job /\ JobJustified
  BY DEF IInv, TypeOK
<1>1. CASE UNCHANGED <<job, arrears>>
  BY <1>0, <1>1 DEF JobJustified, Listable, PastSuspension, DaysOverdue, TenantOfTerm
<1>2. CASE JobMark \/ JobDone \/ JobStops
  BY <1>2 DEF JobMark, JobDone, JobStops, JobJustified, Idle
<1>3. CASE JobList
  <2>1. job'.pc = "next" /\ job'.now = day /\ arrears' = Arrears
    BY <1>3 DEF JobList
  <2>2. ASSUME NEW x \in job'.todo
        PROVE  <<TenantOfTerm(x.term), DaysOverdue(day, x.due)>> \in Arrears
    <3>1. PICK i \in OverdueRows : x = [inv |-> i, term |-> invoices[i].term,
                                        due |-> invoices[i].due]
      BY <1>3, <2>2 DEF JobList
    <3> QED
      BY <3>1 DEF OverdueRows, Arrears
  <2> QED
    BY <2>1, <2>2 DEF JobJustified, Listable, TenantOfTerm, DaysOverdue
<1>4. CASE JobNext
  <2>1. job \in JobTurn /\ UNCHANGED arrears
    BY <1>0, <1>4, JobShape DEF JobNext
  <2>2. PICK x \in job.todo :
          job' = IF PastSuspension(x, job.now)
                   THEN [pc |-> "getByTenant", now |-> job.now, todo |-> job.todo \ {x},
                         item |-> x]
                   ELSE [job EXCEPT !.todo = job.todo \ {x}]
    BY <1>4 DEF JobNext
  <2>3. \A y \in job.todo : Listable(y, job.now)
    BY <1>0, <1>4 DEF JobJustified, JobNext
  <2> QED
    BY <2>1, <2>2, <2>3
    DEF JobJustified, JobTurn, PastSuspension, Listable, TenantOfTerm, DaysOverdue
<1>5. CASE JobGetByTenant
  <2>1. job \in JobChecking /\ UNCHANGED arrears
    BY <1>0, <1>5, JobShape DEF JobGetByTenant
  <2>2. /\ \A y \in job.todo : Listable(y, job.now)
        /\ Listable(job.item, job.now) /\ PastSuspension(job.item, job.now)
    BY <1>0, <1>5 DEF JobJustified, JobGetByTenant
  <2>3. \A s \in GetByTenant(TenantOfTerm(job.item.term)) :
           TenantOf[s] = TenantOfTerm(job.item.term)
    BY DEF GetByTenant, Latest
  <2> QED
    BY <1>5, <2>1, <2>2, <2>3
    DEF JobGetByTenant, JobContinues, JobJustified, PastSuspension, TenantOfTerm, Listable,
        DaysOverdue
<1>6. CASE JobSuspendSub
  <2>1. job \in JobSuspending /\ UNCHANGED arrears
    BY <1>0, <1>6, JobShape DEF JobSuspendSub
  <2>2. /\ \A y \in job.todo : Listable(y, job.now)
        /\ Listable(job.item, job.now) /\ PastSuspension(job.item, job.now)
    BY <1>0, <1>6 DEF JobJustified, JobSuspendSub
  <2> QED
    BY <1>6, <2>1, <2>2
    DEF JobSuspendSub, JobJustified, PastSuspension, Listable, TenantOfTerm, DaysOverdue
<1>7. CASE JobSuspendTenant \/ JobStatementFails
  <2>1. job \in JobChecking \cup JobSuspending /\ UNCHANGED arrears
    BY <1>0, <1>7, JobShape DEF JobSuspendTenant, JobStatementFails
  <2>2. \A y \in job.todo : Listable(y, job.now)
    BY <1>0, <1>7 DEF JobJustified, JobSuspendTenant, JobStatementFails
  <2> QED
    BY <1>7, <2>1, <2>2
    DEF JobSuspendTenant, JobStatementFails, JobContinues, JobJustified, Listable,
        TenantOfTerm, DaysOverdue
<1>8. ASSUME NEW w \in Workers, RequestStep(w)
      PROVE  UNCHANGED <<job, arrears>>
  BY <1>8
  DEF RequestStep, ActivateTerm, GenerateInvoicesForActiveTerm, BulkCountStudents,
      BulkNextTenant, GetSubscriptionOfSession, CreateSubscription, NumberInvoice, CreateInvoice,
      GenerationFails, MarkInvoiceAsPaid, DisputeInvoice, VoidInvoice, ReadForUpdate, UpdateInvoice,
      GetSubscriptionAfterPayment, CancelSubscription, ReactivateSubscription,
      ReadSubForUpdate, UpdateSubscription, ApplyBillingAdjustment,
      ApplyAdjustmentToInvoice, RequestFails
<1> QED
  BY <1>1, <1>2, <1>3, <1>4, <1>5, <1>6, <1>7, <1>8
  DEF Next, vars, Tick, EnrolmentChanges, DeleteTerm, DeleteSession, JobStep

(* A listed invoice that is n days late says that its tenant owed so long. *)
LEMMA ListableOwed ==
  ASSUME TypeOK, NEW x \in Listed, NEW now, NEW n, Listable(x, now), DaysOverdue(now, x.due) >= n
  PROVE  OwedSince(TenantOfTerm(x.term), n)
  BY DEF Listable, OwedSince, TypeOK

(* How a subscription, or a tenant, comes to be flagged or suspended. *)
LEMMA SanctionCause ==
  ASSUME IInv, [Next]_vars
  PROVE  /\ \A s \in Sessions : subs'[s].status # subs[s].status =>
              /\ subs'[s].status = "PAYMENT_OVERDUE" => OwedSince(TenantOf[s], GraceDays)
              /\ subs'[s].status = "SUSPENDED" => OwedSince(TenantOf[s], SuspendDays)
         /\ \A t \in Tenants : tenants'[t] # tenants[t] => OwedSince(t, SuspendDays)
<1>0. TypeOK /\ job \in Job /\ JobJustified
  BY DEF IInv, TypeOK
<1>1. CASE UNCHANGED <<subs, tenants>>
  BY <1>1
<1>2. ASSUME NEW s \in Sessions, NEW status \in {"ACTIVE", "CANCELLED"}, SetSubStatus(s, status)
      PROVE  \A x \in Sessions : subs'[x].status \in {subs[x].status, "ACTIVE", "CANCELLED"}
  <2>1. CASE HasSub(s)
    <3>1. subs[s] \in Subscription
      BY <1>0, <2>1 DEF TypeOK, HasSub, NoSub, SubscriptionStatus
    <3> QED
      BY <1>0, <1>2, <2>1, <3>1 DEF SetSubStatus, TypeOK, Subscription
  <2>2. CASE ~HasSub(s)
    BY <1>2, <2>2 DEF SetSubStatus
  <2> QED
    BY <2>1, <2>2
<1>3. ASSUME NEW w \in Workers, RequestStep(w)
      PROVE  /\ UNCHANGED tenants
             /\ \A x \in Sessions : subs'[x].status \in {subs[x].status, "ACTIVE", "CANCELLED"}
  <2>1. CASE UpdateSubscription(w)
    <3>1. req[w] \in UpdatingSub
      BY <1>0, <2>1, RequestShape DEF UpdateSubscription, TypeOK
    <3> QED
      BY <1>2, <2>1, <3>1 DEF UpdateSubscription, UpdatingSub
  <2>2. CASE CreateSubscription(w)
    <3>1. UNCHANGED tenants /\ subs \in [Sessions -> Subscription \cup {NoSub}]
      BY <1>0, <2>2 DEF CreateSubscription, TypeOK
    <3>2. CASE UNCHANGED subs
      BY <3>1, <3>2
    <3>3. ASSUME NEW s, NEW n, subs' = [subs EXCEPT ![s] = [status |-> "ACTIVE", created |-> n]]
          PROVE  \A x \in Sessions : subs'[x].status \in {subs[x].status, "ACTIVE"}
      BY <3>1, <3>3
    <3> QED
      BY <2>2, <3>1, <3>2, <3>3 DEF CreateSubscription
  <2>3. CASE UNCHANGED <<subs, tenants>>
    BY <2>3
  <2> QED
    BY <1>3, <2>1, <2>2, <2>3
    DEF RequestStep, ActivateTerm, GenerateInvoicesForActiveTerm, BulkCountStudents,
        BulkNextTenant, GetSubscriptionOfSession, NumberInvoice, CreateInvoice,
        GenerationFails, MarkInvoiceAsPaid, DisputeInvoice, VoidInvoice, ReadForUpdate, UpdateInvoice,
        GetSubscriptionAfterPayment, CancelSubscription, ReactivateSubscription,
        ReadSubForUpdate, ApplyBillingAdjustment, ApplyAdjustmentToInvoice, RequestFails
<1>4. CASE \E s \in Sessions : DeleteSession(s)
  BY <1>0, <1>4 DEF DeleteSession, NoSub, TypeOK
<1>5. CASE JobNext
  <2>1. job \in JobTurn
    BY <1>0, <1>5, JobShape DEF JobNext
  <2>2. PICK x \in job.todo :
          IF PastGrace(x, job.now)
            THEN subs' = MarkAsOverdue(TenantOfTerm(x.term)) \/ UNCHANGED subs
            ELSE UNCHANGED subs
    BY <1>5 DEF JobNext
  <2>3. x \in Listed /\ Listable(x, job.now)
    BY <1>0, <1>5, <2>1 DEF JobTurn, JobJustified, JobNext
  <2>4. PastGrace(x, job.now) => OwedSince(TenantOfTerm(x.term), GraceDays)
    BY <1>0, <2>3, ListableOwed DEF PastGrace
  <2>5. CASE UNCHANGED subs
    BY <1>1, <1>5, <2>5 DEF JobNext
  <2>6. CASE PastGrace(x, job.now) /\ subs' = MarkAsOverdue(TenantOfTerm(x.term))
    <3>1. ASSUME NEW s \in Sessions
          PROVE  \/ subs'[s] = subs[s]
                 \/ TenantOf[s] = TenantOfTerm(x.term) /\ subs'[s].status = "PAYMENT_OVERDUE"
      <4>1. CASE TenantOf[s] = TenantOfTerm(x.term) /\ subs[s].status = "ACTIVE"
        <5>1. subs[s] \in Subscription
          BY <1>0, <4>1 DEF TypeOK, NoSub
        <5> QED
          BY <2>6, <4>1, <5>1 DEF MarkAsOverdue, Subscription
      <4>2. CASE ~(TenantOf[s] = TenantOfTerm(x.term) /\ subs[s].status = "ACTIVE")
        BY <2>6, <4>2 DEF MarkAsOverdue
      <4> QED
        BY <4>1, <4>2
    <3>2. UNCHANGED tenants
      BY <1>5 DEF JobNext
    <3> QED
      BY <2>4, <2>6, <3>1, <3>2
  <2> QED
    BY <2>2, <2>5, <2>6
<1>6. ASSUME job.pc \in {"suspendSub", "suspendTenant"}
      PROVE  OwedSince(TenantOfTerm(job.item.term), SuspendDays)
  <2>1. job \in JobChecking \cup JobSuspending
    BY <1>0, <1>6, JobShape
  <2>2. /\ job.item \in Listed /\ Listable(job.item, job.now)
        /\ DaysOverdue(job.now, job.item.due) >= SuspendDays
    BY <1>0, <1>6, <2>1 DEF JobChecking, JobSuspending, JobJustified, PastSuspension
  <2> QED
    BY <1>0, <2>2, ListableOwed
<1>7. CASE JobSuspendSub
  <2>1. /\ UNCHANGED tenants /\ SetSubStatus(job.session, "SUSPENDED")
        /\ OwedSince(TenantOf[job.session], SuspendDays)
    BY <1>0, <1>6, <1>7 DEF JobSuspendSub, JobJustified
  <2>2. ASSUME NEW x \in Sessions
        PROVE  subs'[x] = subs[x] \/ (x = job.session /\ subs'[x].status = "SUSPENDED")
    <3>1. job.session \in Sessions
      BY <1>0, <1>7, JobShape DEF JobSuspendSub, JobSuspending
    <3>2. CASE HasSub(job.session)
      <4>1. subs[job.session] \in Subscription
        BY <1>0, <3>1, <3>2 DEF TypeOK, HasSub, NoSub, SubscriptionStatus
      <4>2. subs' = [subs EXCEPT ![job.session] =
                        [subs[job.session] EXCEPT !.status = "SUSPENDED"]]
        BY <2>1, <3>2 DEF SetSubStatus
      <4> QED
        BY <1>0, <4>1, <4>2 DEF TypeOK, Subscription
    <3>3. CASE ~HasSub(job.session)
      BY <2>1, <3>3 DEF SetSubStatus
    <3> QED
      BY <3>2, <3>3
  <2> QED
    BY <2>1, <2>2
<1>8. CASE JobSuspendTenant
  BY <1>0, <1>6, <1>8 DEF JobSuspendTenant, TypeOK
<1> QED
  BY <1>1, <1>3, <1>4, <1>5, <1>7, <1>8
  DEF Next, vars, Tick, EnrolmentChanges, DeleteTerm, JobStep, JobMark, JobList, JobDone,
      JobGetByTenant, JobStatementFails, JobStops

(***************************************************************************)
(* Sums of finitely many amounts.  SumFunctionOnSet recurs on an arbitrary  *)
(* choice of the next element; three facts about it are all a ledger needs: *)
(* nothing sums to nothing, equal amounts have equal sums, and one more     *)
(* amount adds that much.  Each is proved on a smallest counterexample: no  *)
(* finite set has an endless descent of subsets.                            *)
(***************************************************************************)
(* The element the recursion takes next. *)
Pick(T) == CHOOSE x \in T : TRUE

(* g adds f up over the subsets of S: the equation SumFunctionOnSet recurs by. *)
IsSum(g, f, S) ==
    g = [T \in SUBSET S |-> IF T = {} THEN 0 ELSE f[Pick(T)] + g[T \ {Pick(T)}]]

LEMMA SumChosen ==
  \A f, S : SumFunctionOnSet(f, S) = (CHOOSE g : IsSum(g, f, S))[S]
  BY DEF SumFunctionOnSet, FoldFunctionOnSet, MapThenFoldSet, IsSum, Pick

LEMMA SumUnfold ==
  ASSUME NEW g, NEW f, NEW S, IsSum(g, f, S)
  PROVE  \A T \in SUBSET S : T # {} => /\ Pick(T) \in T
                                      /\ g[T] = f[Pick(T)] + g[T \ {Pick(T)}]
<1> SUFFICES ASSUME NEW T \in SUBSET S, T # {}
             PROVE  Pick(T) \in T /\ g[T] = f[Pick(T)] + g[T \ {Pick(T)}]
  OBVIOUS
<1>1. Pick(T) \in T
  BY DEF Pick
<1>3. DEFINE G == [U \in SUBSET S |-> IF U = {} THEN 0 ELSE f[Pick(U)] + g[U \ {Pick(U)}]]
<1>4. g = G
  BY DEF IsSum
<1>5. G[T] = f[Pick(T)] + g[T \ {Pick(T)}]
  OBVIOUS
<1> QED
  BY <1>1, <1>4, <1>5

(* The same of all sums at once. *)
LEMMA SumUnfoldEach ==
  \A g, f, S : IsSum(g, f, S) =>
    \A T \in SUBSET S : T # {} => /\ Pick(T) \in T
                                  /\ g[T] = f[Pick(T)] + g[T \ {Pick(T)}]
  BY SumUnfold

LEMMA SumEmpty ==
  ASSUME NEW g, NEW f, NEW S, IsSum(g, f, S)
  PROVE  g[{}] = 0
<1>1. DEFINE G == [U \in SUBSET S |-> IF U = {} THEN 0 ELSE f[Pick(U)] + g[U \ {Pick(U)}]]
<1>2. g = G
  BY DEF IsSum
<1>3. G[{}] = 0
  OBVIOUS
<1> QED
  BY <1>2, <1>3

(* A non-empty collection of subsets of a finite set has a minimal member. *)
LEMMA SmallestSubset ==
  ASSUME NEW S, IsFiniteSet(S), NEW C, C \subseteq SUBSET S, C # {}
  PROVE  \E T \in C : \A U \in C : U \subseteq T => U = T
<1>1. IsWellFoundedOn(StrictSubsetOrdering(S), SUBSET S)
  BY FS_StrictSubsetOrderingWellFounded, FS_FiniteSubsetsOfFinite
<1>2. PICK T \in C : \A U \in C : ~(<<U, T>> \in StrictSubsetOrdering(S))
  BY <1>1, WFMin
<1>3. ASSUME NEW U \in C, U \subseteq T, U # T
      PROVE  FALSE
  <2>1. <<U, T>> \in (SUBSET S) \X (SUBSET S)
    OBVIOUS
  <2>2. <<U, T>> \in StrictSubsetOrdering(S)
    BY <1>3, <2>1 DEF StrictSubsetOrdering
  <2> QED
    BY <1>2, <2>2
<1> QED
  BY <1>3

(* Two sums of the same amounts agree. *)
LEMMA SumsAgree ==
  ASSUME NEW g, NEW f, NEW S, IsSum(g, f, S),
         NEW h, NEW e, NEW R, IsSum(h, e, R),
         NEW T, IsFiniteSet(T), T \subseteq S, T \subseteq R,
         \A x \in T : f[x] = e[x]
  PROVE  g[T] = h[T]
<1>a. \A V \in SUBSET S : V # {} => /\ Pick(V) \in V
                                   /\ g[V] = f[Pick(V)] + g[V \ {Pick(V)}]
  BY SumUnfoldEach
<1>b. \A V \in SUBSET R : V # {} => /\ Pick(V) \in V
                                   /\ h[V] = e[Pick(V)] + h[V \ {Pick(V)}]
  BY SumUnfoldEach
<1> DEFINE C == {U \in SUBSET T : g[U] # h[U]}
<1>1. CASE C = {}
  BY <1>1
<1>2. CASE C # {}
  <2>0. C \subseteq SUBSET T
    OBVIOUS
  <2>1. \E U \in C : \A V \in C : V \subseteq U => V = U
    <3> HIDE DEF C
    <3> QED
      BY <1>2, <2>0, SmallestSubset
  <2>2. PICK U \in C : \A V \in C : V \subseteq U => V = U
    BY <2>1
  <2>9. U # {}
    <3>1. g[{}] = 0 /\ h[{}] = 0
      BY SumEmpty
    <3> QED
      BY <3>1
  <2>3. Pick(U) \in U /\ U \subseteq S /\ U \subseteq R
    BY <2>9 DEF Pick
  <2>4. g[U] = f[Pick(U)] + g[U \ {Pick(U)}]
    BY <1>a, <2>3, <2>9
  <2>5. h[U] = e[Pick(U)] + h[U \ {Pick(U)}]
    BY <1>b, <2>3, <2>9
  <2>6. g[U \ {Pick(U)}] = h[U \ {Pick(U)}]
    BY <2>2, <2>3
  <2>7. f[Pick(U)] = e[Pick(U)]
    BY <2>3
  <2> QED
    BY <2>4, <2>5, <2>6, <2>7
<1> QED
  BY <1>1, <1>2

(* The recursion has a solution on every finite set. *)
LEMMA SumExists ==
  ASSUME NEW f, NEW S, IsFiniteSet(S)
  PROVE  \E g : IsSum(g, f, S)
<1> DEFINE Chosen(V) == CHOOSE g : IsSum(g, f, V)
           Solved(V) == \E g : IsSum(g, f, V)
           C == {V \in SUBSET S : ~Solved(V)}
<1>1. CASE C = {}
  BY <1>1
<1>2. CASE C # {}
  <2>0. C \subseteq SUBSET S
    OBVIOUS
  <2>9. \E T \in C : \A V \in C : V \subseteq T => V = T
    <3> HIDE DEF C
    <3> QED
      BY <1>2, <2>0, SmallestSubset
  <2>1. PICK T \in C : \A V \in C : V \subseteq T => V = T
    BY <2>9
  <2>2. \A V \in SUBSET T : V # T => IsSum(Chosen(V), f, V)
    <3> SUFFICES ASSUME NEW V \in SUBSET T, V # T
                 PROVE  IsSum(Chosen(V), f, V)
      OBVIOUS
    <3>1. Solved(V)
      BY <2>1
    <3> QED
      BY <3>1
  <2> HIDE DEF Chosen
  <2> DEFINE Up(V) == IF V = {} THEN 0 ELSE f[Pick(V)] + Chosen(V \ {Pick(V)})[V \ {Pick(V)}]
             h == [V \in SUBSET T |-> Up(V)]
  <2>3. ASSUME NEW V \in SUBSET T, V # T
        PROVE  Up(V) = Chosen(V)[V]
    <3>1. CASE V = {}
      <4>1. Chosen(V)[{}] = 0
        BY <2>2, <2>3, SumEmpty
      <4> QED
        BY <3>1, <4>1
    <3>2. CASE V # {}
      <4>1. Pick(V) \in V
        BY <3>2 DEF Pick
      <4> DEFINE W == V \ {Pick(V)}
      <4>2. W \subseteq V /\ W \in SUBSET T /\ W # T
        BY <4>1
      <4>3. IsFiniteSet(W)
        BY <4>2, FS_Subset
      <4>4. IsSum(Chosen(W), f, W) /\ IsSum(Chosen(V), f, V)
        BY <2>2, <2>3, <4>2
      <4> HIDE DEF W
      <4>5. Chosen(W)[W] = Chosen(V)[W]
        BY <4>2, <4>3, <4>4, SumsAgree
      <4>6. Chosen(V)[V] = f[Pick(V)] + Chosen(V)[W]
        BY <3>2, <4>4, SumUnfold DEF W
      <4> QED
        BY <3>2, <4>5, <4>6 DEF W
    <3> QED
      BY <3>1, <3>2
  <2>4. ASSUME NEW V \in SUBSET T
        PROVE  Up(V) = IF V = {} THEN 0 ELSE f[Pick(V)] + h[V \ {Pick(V)}]
    <3>1. CASE V = {}
      BY <3>1
    <3>2. CASE V # {}
      <4>1. Pick(V) \in V
        BY <3>2 DEF Pick
      <4>2. V \ {Pick(V)} \in SUBSET T /\ V \ {Pick(V)} # T
        BY <4>1
      <4>3. h[V \ {Pick(V)}] = Up(V \ {Pick(V)})
        BY <4>2
      <4>4. Up(V \ {Pick(V)}) = Chosen(V \ {Pick(V)})[V \ {Pick(V)}]
        BY <2>3, <4>2
      <4> QED
        BY <3>2, <4>3, <4>4
    <3> QED
      BY <3>1, <3>2
  <2>5. IsSum(h, f, T)
    <3> HIDE DEF Up
    <3>1. h = [V \in SUBSET T |-> IF V = {} THEN 0 ELSE f[Pick(V)] + h[V \ {Pick(V)}]]
      BY <2>4
    <3> QED
      BY <3>1 DEF IsSum
  <2> QED
    BY <2>1, <2>5
<1> QED
  BY <1>1, <1>2

Splits(g, f, S) ==
    \A T \in SUBSET S : /\ g[T] \in Int
                        /\ \A x \in T : g[T] = f[x] + g[T \ {x}]

(* It does not matter which element is added last. *)
LEMMA SumSplit ==
  ASSUME NEW g, NEW f, NEW S, IsFiniteSet(S), IsSum(g, f, S),
         \A y \in S : f[y] \in Int
  PROVE  Splits(g, f, S)
<1> DEFINE Good(T) == g[T] \in Int /\ \A x \in T : g[T] = f[x] + g[T \ {x}]
           C == {T \in SUBSET S : ~Good(T)}
<1>2. ASSUME C # {}
      PROVE  FALSE
  <2>0. C \subseteq SUBSET S
    OBVIOUS
  <2>9. \E T \in C : \A V \in C : V \subseteq T => V = T
    <3> HIDE DEF C
    <3> QED
      BY <1>2, <2>0, SmallestSubset
  <2>1. PICK T \in C : \A V \in C : V \subseteq T => V = T
    BY <2>9
  <2>2. T # {}
    <3>1. g[{}] = 0
      BY SumEmpty
    <3>2. Good({})
      BY <3>1
    <3> HIDE DEF Good
    <3> QED
      BY <3>2
  <2>3. Pick(T) \in T /\ T \in SUBSET S
    BY <2>2 DEF Pick
  <2>4. g[T] = f[Pick(T)] + g[T \ {Pick(T)}]
    <3>1. \A V \in SUBSET S : V # {} => g[V] = f[Pick(V)] + g[V \ {Pick(V)}]
      BY SumUnfold
    <3> QED
      BY <2>2, <2>3, <3>1
  <2>5. \A V \in SUBSET T : V # T => Good(V)
    BY <2>1, <2>3
  <2>6. Good(T \ {Pick(T)})
    BY <2>3, <2>5
  <2>7. g[T] \in Int
    BY <2>3, <2>4, <2>6
  <2>8. ASSUME NEW x \in T
        PROVE  g[T] = f[x] + g[T \ {x}]
    <3>1. CASE x = Pick(T)
      BY <2>4, <3>1
    <3>2. CASE x # Pick(T)
      <4>1. g[T \ {Pick(T)}] = f[x] + g[(T \ {Pick(T)}) \ {x}]
        BY <2>6, <3>2
      <4>2. Good(T \ {x})
        BY <2>5
      <4>3. g[T \ {x}] = f[Pick(T)] + g[(T \ {x}) \ {Pick(T)}]
        BY <2>3, <3>2, <4>2
      <4>4. (T \ {x}) \ {Pick(T)} = (T \ {Pick(T)}) \ {x}
        OBVIOUS
      <4>5. Good((T \ {x}) \ {Pick(T)})
        BY <2>3, <2>5
      <4>6. f[x] \in Int /\ f[Pick(T)] \in Int
        BY <2>3
      <4> HIDE DEF Good
      <4>7. g[(T \ {x}) \ {Pick(T)}] \in Int
        BY <4>5 DEF Good
      <4>8. ASSUME NEW u \in Int, NEW v \in Int, NEW n \in Int
            PROVE  v + (u + n) = u + (v + n)
        OBVIOUS
      <4>9. g[T] = f[Pick(T)] + (f[x] + g[(T \ {x}) \ {Pick(T)}])
        BY <2>4, <4>1, <4>4
      <4>10. g[T] = f[x] + (f[Pick(T)] + g[(T \ {x}) \ {Pick(T)}])
        BY <4>6, <4>7, <4>8, <4>9
      <4> QED
        BY <4>3, <4>10
    <3> QED
      BY <3>1, <3>2
  <2> QED
    BY <2>1, <2>7, <2>8
<1>3. \A T \in SUBSET S : Good(T)
  <2> HIDE DEF Good
  <2> QED
    BY <1>2
<1> QED
  BY <1>3 DEF Splits

(* The same of all sums at once. *)
LEMMA SumSplitEach ==
  \A g, f, S : IsFiniteSet(S) /\ IsSum(g, f, S) /\ (\A y \in S : f[y] \in Int) => Splits(g, f, S)
  BY SumSplit

(* What SumFunctionOnSet is: nothing on the empty set, *)
LEMMA SumOfNone == \A f : SumFunctionOnSet(f, {}) = 0
<1> TAKE f
<1>1. IsSum(CHOOSE g : IsSum(g, f, {}), f, {})
  BY SumExists, FS_EmptySet
<1> QED
  BY <1>1, SumEmpty, SumChosen

(* the same for the same amounts, *)
LEMMA SumOfSame ==
  ASSUME NEW f, NEW e, NEW S, IsFiniteSet(S), \A x \in S : f[x] = e[x]
  PROVE  SumFunctionOnSet(f, S) = SumFunctionOnSet(e, S)
<1>1. IsSum(CHOOSE g : IsSum(g, f, S), f, S)
  BY SumExists
<1>2. IsSum(CHOOSE g : IsSum(g, e, S), e, S)
  BY SumExists
<1>3. (CHOOSE g : IsSum(g, f, S))[S] = (CHOOSE g : IsSum(g, e, S))[S]
  BY <1>1, <1>2, SumsAgree
<1> QED
  BY <1>3, SumChosen

(* and more by f[x] with x added. *)
LEMMA SumOfOneMore ==
  ASSUME NEW f, NEW S, IsFiniteSet(S), NEW x, x \notin S,
         \A y \in S \cup {x} : f[y] \in Int
  PROVE  /\ SumFunctionOnSet(f, S) \in Int
         /\ SumFunctionOnSet(f, S \cup {x}) = SumFunctionOnSet(f, S) + f[x]
<1> DEFINE T == S \cup {x}
           g == CHOOSE h : IsSum(h, f, T)
           k == CHOOSE h : IsSum(h, f, S)
<1>1. IsFiniteSet(T)
  BY FS_AddElement
<1>2. IsSum(g, f, T) /\ IsSum(k, f, S)
  BY <1>1, SumExists
<1>3. SumFunctionOnSet(f, T) = g[T] /\ SumFunctionOnSet(f, S) = k[S]
  BY SumChosen
<1> HIDE DEF g, k
<1>4. k[S] = g[S]
  BY <1>2, SumsAgree
<1>5. T \ {x} = S /\ x \in T /\ S \in SUBSET T /\ T \in SUBSET T
  OBVIOUS
<1>6. \A y \in T : f[y] \in Int
  OBVIOUS
<1> HIDE DEF T
<1>7. \A U \in SUBSET T : g[U] \in Int /\ \A y \in U : g[U] = f[y] + g[U \ {y}]
  <2>1. IsSum(g, f, T)
    BY <1>2
  <2>2. IsFiniteSet(T) /\ IsSum(g, f, T) /\ \A y \in T : f[y] \in Int
    BY <1>1, <1>6, <2>1
  <2>3. Splits(g, f, T)
    BY <2>2, SumSplitEach
  <2> QED
    BY <2>3 DEF Splits
<1>8. g[T] = f[x] + g[S] /\ g[S] \in Int /\ f[x] \in Int
  BY <1>5, <1>6, <1>7
<1>9. SumFunctionOnSet(f, T) = SumFunctionOnSet(f, S) + f[x]
  BY <1>3, <1>4, <1>8
<1> QED
  BY <1>3, <1>4, <1>8, <1>9 DEF T

(***************************************************************************)
(* The ledger: a discount is the sum of the credits applied                 *)
(***************************************************************************)
Applied == {a \in Adjustments : adjustments[a].state = "APPLIED"}

(* An adjustment is made to an invoice that has been there. *)
CreditsOfRows ==
    \A a \in Adjustments :
        adjustments[a] # NoAdjustment => invoices[adjustments[a].inv] # NoRow

(* What a request is about to apply is a credit of its invoice, not applied *)
(* yet, *)
CreditsPending ==
    \A w \in Workers : req[w].pc = "applyAdjustment" =>
        adjustments[req[w].adj] \in
            [inv: {req[w].inv}, type: {"CREDIT"}, amount: Int, state: {"RECORDED"}]

(* and no two requests are about to apply the same one. *)
CreditsSeparate ==
    \A v, w \in Workers :
        /\ req[v].pc = "applyAdjustment" /\ req[w].pc = "applyAdjustment"
        /\ req[v].adj = req[w].adj
        => v = w

LedgerInv == /\ IsFiniteSet(Applied) /\ CreditsOfRows
             /\ CreditsPending /\ CreditsSeparate /\ DiscountMatchesLedger

(* The credits of invoice i in a given table of adjustments. *)
AppliedIn(table, i) ==
    {a \in Adjustments : table[a].state = "APPLIED" /\ table[a].inv = i}
CreditsIn(table, i) == [a \in AppliedIn(table, i) |-> table[a].amount]

LEMMA CreditsAreIn ==
  \A i \in Invoices : /\ Credits(i) = CreditsIn(adjustments, i)
                      /\ Credits(i)' = CreditsIn(adjustments', i)
  BY DEF Credits, CreditsIn, AppliedIn

(* Tables that agree on what is applied to i agree on its credits. *)
LEMMA CreditsSame ==
  ASSUME NEW A, NEW B, NEW i,
         AppliedIn(A, i) = AppliedIn(B, i),
         \A a \in AppliedIn(A, i) : A[a].amount = B[a].amount
  PROVE  CreditsIn(A, i) = CreditsIn(B, i)
  BY DEF CreditsIn

(* One more credit adds its amount. *)
LEMMA CreditsOneMore ==
  ASSUME NEW A, NEW B, NEW i, NEW a,
         a \notin AppliedIn(A, i), AppliedIn(B, i) = AppliedIn(A, i) \cup {a},
         IsFiniteSet(AppliedIn(A, i)),
         \A x \in AppliedIn(A, i) : A[x].amount \in Int /\ B[x].amount = A[x].amount,
         B[a].amount \in Int
  PROVE  SumFunction(CreditsIn(B, i)) = SumFunction(CreditsIn(A, i)) + B[a].amount
<1> DEFINE S == AppliedIn(A, i)
           f == CreditsIn(A, i)
           h == CreditsIn(B, i)
<1>1. h = [x \in S \cup {a} |-> B[x].amount] /\ f = [x \in S |-> A[x].amount]
  BY DEF CreditsIn
<1>2. SumFunction(h) = SumFunctionOnSet(h, S \cup {a}) /\ SumFunction(f) = SumFunctionOnSet(f, S)
  BY <1>1 DEF SumFunction
<1>3. IsFiniteSet(S) /\ a \notin S /\ (\A x \in S \cup {a} : h[x] \in Int) /\ h[a] = B[a].amount
  BY <1>1
<1>4. \A x \in S : h[x] = f[x]
  BY <1>1
<1> HIDE DEF S, f, h
<1>5. SumFunctionOnSet(h, S \cup {a}) = SumFunctionOnSet(h, S) + h[a]
  BY <1>3, SumOfOneMore
<1>6. SumFunctionOnSet(h, S) = SumFunctionOnSet(f, S)
  BY <1>3, <1>4, SumOfSame
<1> QED
  BY <1>2, <1>3, <1>5, <1>6 DEF f, h

(* A step that applies no adjustment leaves a discount alone, or starts an  *)
(* invoice without one.                                                     *)
DiscountKept(i) ==
    /\ invoices[i] # NoRow => invoices'[i] # NoRow
    /\ Exists(i)' => \/ Exists(i) /\ invoices'[i].discount = invoices[i].discount
                     \/ invoices[i] = NoRow /\ invoices'[i].discount = 0

LEMMA DiscountFrame ==
  ASSUME IInv, [Next]_vars, NEW i \in Invoices
  PROVE  \/ DiscountKept(i)
         \/ \E w \in Workers : ApplyAdjustmentToInvoice(w)
<1>1. InvoiceStep(i) /\ TypeOK
  BY InvoiceFrame DEF IInv
<1>2. Exists(i) => invoices[i] \in Row
  BY <1>1, StampsType
<1>3. CASE UNCHANGED invoices[i]
  BY <1>3 DEF DiscountKept, Exists
<1>4. CASE Cascaded(i)
  BY <1>4 DEF Cascaded, DiscountKept, Exists, DeletedRow, NoRow, InvoiceStatus
<1>5. CASE Inserted(i)
  BY <1>5 DEF Inserted, NewInvoice, DiscountKept, NoRow, Exists
<1>6. CASE Stamped(i)
  <2>1. PICK stamp \in Stamps : invoices'[i] = WriteStamps(invoices[i], stamp)
    BY <1>6 DEF Stamped
  <2>2. Exists(i) /\ invoices'[i] \in Row /\ invoices'[i].discount = invoices[i].discount
    BY <1>2, <1>6, <2>1 DEF Stamped, WriteStamps, Stamps, Row
  <2> QED
    BY <2>2 DEF DiscountKept, NoRow, Row, InvoiceStatus
<1>7. CASE MarkedOverdue(i)
  <2>1. Exists(i)
    BY <1>7 DEF MarkedOverdue, Markable, Exists, InvoiceStatus
  <2>2. invoices'[i] \in Row /\ invoices'[i].discount = invoices[i].discount
    BY <1>2, <1>7, <2>1 DEF MarkedOverdue, Row, InvoiceStatus
  <2> QED
    BY <2>1, <2>2 DEF DiscountKept, NoRow, Row, InvoiceStatus
<1>8. CASE Credited(i)
  BY <1>8 DEF Credited
<1> QED
  BY <1>1, <1>3, <1>4, <1>5, <1>6, <1>7, <1>8 DEF InvoiceStep

(* A step that changes what no discount depends on keeps the ledger.        *)
LEMMA LedgerUntouched ==
  ASSUME IInv, LedgerInv, \A i \in Invoices : DiscountKept(i), UNCHANGED adjustments
  PROVE  CreditsOfRows' /\ DiscountMatchesLedger'
<1>0. TypeOK
  BY DEF IInv
<1>1. CreditsOfRows'
  <2> SUFFICES ASSUME NEW a \in Adjustments, adjustments[a] # NoAdjustment
               PROVE  invoices'[adjustments[a].inv] # NoRow
    BY DEF CreditsOfRows
  <2>1. adjustments[a].inv \in Invoices
    BY <1>0 DEF TypeOK, Adjustment
  <2> QED
    BY <2>1 DEF LedgerInv, CreditsOfRows, DiscountKept
<1>2. ASSUME NEW i \in Invoices, Exists(i)'
      PROVE  invoices'[i].discount = SumFunction(Credits(i)')
  <2>1. Credits(i)' = Credits(i)
    BY CreditsAreIn
  <2>2. CASE Exists(i) /\ invoices'[i].discount = invoices[i].discount
    BY <2>1, <2>2 DEF LedgerInv, DiscountMatchesLedger
  <2>3. CASE invoices[i] = NoRow /\ invoices'[i].discount = 0
    <3>1. AppliedIn(adjustments, i) = {}
      BY <2>3 DEF LedgerInv, CreditsOfRows, AppliedIn, NoAdjustment
    <3>2. DOMAIN Credits(i) = {}
      BY <3>1, CreditsAreIn DEF CreditsIn
    <3> QED
      BY <2>1, <2>3, <3>2, SumOfNone DEF SumFunction
  <2> QED
    BY <1>2, <2>2, <2>3 DEF DiscountKept
<1> QED
  BY <1>1, <1>2 DEF LedgerInv, DiscountMatchesLedger

(* Recording an adjustment adds a row that is not applied. *)
LEMMA LedgerRecords ==
  ASSUME IInv, LedgerInv, NEW w \in Workers, NEW j \in Invoices, NEW b \in Adjustments,
         NEW type \in {"CREDIT", "CHARGE"}, NEW n \in Amounts,
         ApplyBillingAdjustment(w, j, b, type, n)
  PROVE  LedgerInv'
<1>0. TypeOK /\ req \in [Workers -> Request]
  BY DEF IInv, TypeOK
<1> DEFINE row == [inv |-> j, type |-> type, amount |-> n, state |-> "RECORDED"]
<1>1. /\ adjustments[b] = NoAdjustment
      /\ adjustments'[b] = row
      /\ \A a \in Adjustments \ {b} : adjustments'[a] = adjustments[a]
      /\ UNCHANGED invoices
      /\ Exists(j)
  BY <1>0 DEF ApplyBillingAdjustment, TypeOK
<1>2. /\ req'[w] = IF type = "CREDIT" THEN [pc |-> "applyAdjustment", inv |-> j, adj |-> b]
                                      ELSE Idle
      /\ \A v \in Workers \ {w} : req'[v] = req[v]
  BY <1>0 DEF ApplyBillingAdjustment
<1>3. \A a \in Adjustments : /\ adjustments'[a].state = "APPLIED" <=> adjustments[a].state = "APPLIED"
                             /\ adjustments[a].state = "APPLIED" => adjustments'[a] = adjustments[a]
  BY <1>1 DEF NoAdjustment
<1>4. Applied' = Applied
  BY <1>3 DEF Applied
<1>5. CreditsOfRows'
  BY <1>1 DEF CreditsOfRows, LedgerInv, NoRow, Exists, InvoiceStatus
<1>6. ASSUME NEW v \in Workers, req'[v].pc = "applyAdjustment"
      PROVE  /\ adjustments'[req'[v].adj] \in
                   [inv: {req'[v].inv}, type: {"CREDIT"}, amount: Int, state: {"RECORDED"}]
             /\ v # w => /\ req'[v] = req[v] /\ req[v].adj # b
  <2>1. CASE v = w
    <3>1. req'[v] = [pc |-> "applyAdjustment", inv |-> j, adj |-> b] /\ type = "CREDIT"
      BY <1>2, <1>6, <2>1 DEF Idle
    <3>2. n \in Int
      BY BillingAssumption
    <3> QED
      BY <1>1, <2>1, <3>1, <3>2
  <2>2. CASE v # w
    <3>1. req'[v] = req[v] /\ req[v].adj \in Adjustments
      BY <1>0, <1>2, <1>6, <2>2, RequestShape DEF Adjusting
    <3>2. adjustments[req[v].adj] \in
            [inv: {req[v].inv}, type: {"CREDIT"}, amount: Int, state: {"RECORDED"}]
      BY <1>6, <3>1 DEF LedgerInv, CreditsPending
    <3>3. req[v].adj # b
      BY <1>1, <3>2 DEF NoAdjustment
    <3> QED
      BY <1>1, <3>1, <3>2, <3>3
  <2> QED
    BY <2>1, <2>2
<1>7. CreditsPending'
  BY <1>6 DEF CreditsPending
<1>8. CreditsSeparate'
  <2> SUFFICES ASSUME NEW v \in Workers, NEW u \in Workers, v # u,
                      req'[v].pc = "applyAdjustment", req'[u].pc = "applyAdjustment",
                      req'[v].adj = req'[u].adj
               PROVE  FALSE
    BY DEF CreditsSeparate
  <2>1. req'[w].pc = "applyAdjustment" => req'[w].adj = b
    BY <1>2 DEF Idle
  <2> QED
    BY <1>6, <2>1 DEF LedgerInv, CreditsSeparate
<1>9. ASSUME NEW i \in Invoices
      PROVE  Credits(i)' = Credits(i)
  <2>1. AppliedIn(adjustments', i) = AppliedIn(adjustments, i)
    BY <1>3 DEF AppliedIn
  <2>2. \A a \in AppliedIn(adjustments, i) : adjustments[a].amount = adjustments'[a].amount
    BY <1>3 DEF AppliedIn
  <2> QED
    BY <2>1, <2>2, CreditsSame, CreditsAreIn
<1>10. DiscountMatchesLedger'
  <2>1. ASSUME NEW i \in Invoices, Exists(i)'
        PROVE  invoices'[i].discount = SumFunction(Credits(i)')
    BY <1>1, <1>9, <2>1 DEF LedgerInv, DiscountMatchesLedger, Exists
  <2> QED
    BY <1>3, <2>1 DEF LedgerInv, DiscountMatchesLedger
<1> QED
  BY <1>4, <1>5, <1>7, <1>8, <1>10 DEF LedgerInv

(* Applying one moves its amount into the discount and into the ledger at   *)
(* once.                                                                    *)
LEMMA LedgerApplies ==
  ASSUME IInv, LedgerInv, NEW w \in Workers, ApplyAdjustmentToInvoice(w)
  PROVE  LedgerInv'
<1> DEFINE j == req[w].inv
           b == req[w].adj
           n == adjustments[b].amount
<1>0. TypeOK /\ req \in [Workers -> Request] /\ req[w] \in Adjusting
      /\ req[w].pc = "applyAdjustment"
  BY RequestShape DEF IInv, TypeOK, ApplyAdjustmentToInvoice
<1>1. j \in Invoices /\ b \in Adjustments
  BY <1>0 DEF Adjusting
<1>2. adjustments[b] \in [inv: {j}, type: {"CREDIT"}, amount: Int, state: {"RECORDED"}]
  BY <1>0 DEF LedgerInv, CreditsPending
<1>3. req'[w] = Idle /\ \A v \in Workers \ {w} : req'[v] = req[v]
  BY <1>0 DEF ApplyAdjustmentToInvoice
<1>4. ASSUME NEW v \in Workers, req'[v].pc = "applyAdjustment"
      PROVE  /\ v # w /\ req'[v] = req[v] /\ req[v].adj \in Adjustments /\ req[v].adj # b
  <2>1. v # w /\ req'[v] = req[v]
    BY <1>3, <1>4 DEF Idle
  <2>2. req[v].adj \in Adjustments
    BY <1>0, <1>4, <2>1, RequestShape DEF Adjusting
  <2>3. req[v].adj # b
    BY <1>0, <1>4, <2>1 DEF LedgerInv, CreditsSeparate
  <2> QED
    BY <2>1, <2>2, <2>3
<1>5. CreditsSeparate'
  <2> SUFFICES ASSUME NEW v \in Workers, NEW u \in Workers,
                      req'[v].pc = "applyAdjustment", req'[u].pc = "applyAdjustment",
                      req'[v].adj = req'[u].adj
               PROVE  v = u
    BY DEF CreditsSeparate
  <2> QED
    BY <1>4 DEF LedgerInv, CreditsSeparate
<1>6. \A a \in Adjustments \ {b} : adjustments'[a] = adjustments[a]
  <2>1. adjustments \in [Adjustments -> Adjustment \cup {NoAdjustment}]
    BY <1>0 DEF TypeOK
  <2> QED
    BY <1>1, <2>1 DEF ApplyAdjustmentToInvoice
<1>7. CreditsPending'
  <2> SUFFICES ASSUME NEW v \in Workers, req'[v].pc = "applyAdjustment"
               PROVE  adjustments'[req'[v].adj] \in
                   [inv: {req'[v].inv}, type: {"CREDIT"}, amount: Int, state: {"RECORDED"}]
    BY DEF CreditsPending
  <2> QED
    BY <1>4, <1>6 DEF LedgerInv, CreditsPending
<1>8. CASE UNCHANGED ledger
  <2>1. \A i \in Invoices : DiscountKept(i)
    BY <1>8 DEF DiscountKept, Exists
  <2>2. Applied' = Applied
    BY <1>8 DEF Applied
  <2> QED
    BY <1>5, <1>7, <1>8, <2>1, <2>2, LedgerUntouched DEF LedgerInv
<1>9. CASE /\ Exists(j)
           /\ invoices' = [invoices EXCEPT ![j] = Discounted(invoices[j], n)]
           /\ adjustments' = [adjustments EXCEPT ![b].state = "APPLIED"]
  <2>1. adjustments'[b] = [inv |-> j, type |-> "CREDIT", amount |-> n, state |-> "APPLIED"]
    <3>1. adjustments'[b] = [adjustments[b] EXCEPT !.state = "APPLIED"]
      BY <1>0, <1>1, <1>9 DEF TypeOK
    <3> QED
      BY <1>2, <3>1
  <2>2. invoices[j] \in Row /\ n \in Int
    BY <1>0, <1>1, <1>2, <1>9, StampsType
  <2>3. /\ invoices'[j].discount = invoices[j].discount + n
        /\ invoices'[j].status = invoices[j].status
        /\ \A i \in Invoices \ {j} : invoices'[i] = invoices[i]
    <3>1. invoices \in [Invoices -> Row \cup {NoRow, DeletedRow}]
      BY <1>0 DEF TypeOK
    <3>2. invoices'[j] = Discounted(invoices[j], n)
          /\ \A i \in Invoices \ {j} : invoices'[i] = invoices[i]
      BY <1>1, <1>9, <3>1
    <3> QED
      BY <2>2, <3>2 DEF Discounted, Row
  <2>4. Applied' = Applied \cup {b}
    BY <1>1, <1>6, <2>1 DEF Applied
  <2>5. IsFiniteSet(Applied')
    BY <2>4, FS_AddElement DEF LedgerInv
  <2>6. \A i \in Invoices : invoices[i] # NoRow => invoices'[i] # NoRow
    BY <1>9, <2>3 DEF Exists, NoRow, InvoiceStatus
  <2>7. CreditsOfRows'
    <3> SUFFICES ASSUME NEW a \in Adjustments, adjustments'[a] # NoAdjustment
                 PROVE  invoices'[adjustments'[a].inv] # NoRow
      BY DEF CreditsOfRows
    <3>1. CASE a = b
      BY <1>1, <1>9, <2>1, <2>6, <3>1 DEF Exists, NoRow, InvoiceStatus
    <3>2. CASE a # b
      <4>1. adjustments'[a] = adjustments[a] /\ adjustments[a].inv \in Invoices
        BY <1>0, <1>6, <3>2 DEF TypeOK, Adjustment
      <4> QED
        BY <2>6, <4>1 DEF LedgerInv, CreditsOfRows
    <3> QED
      BY <3>1, <3>2
  <2>8. ASSUME NEW i \in Invoices, Exists(i)'
        PROVE  invoices'[i].discount = SumFunction(Credits(i)')
    <3>1. CASE i # j
      <4>1. AppliedIn(adjustments', i) = AppliedIn(adjustments, i)
        BY <1>1, <1>2, <1>6, <2>1, <3>1 DEF AppliedIn
      <4>2. \A a \in AppliedIn(adjustments, i) : adjustments[a].amount = adjustments'[a].amount
        BY <1>2, <1>6 DEF AppliedIn
      <4>3. Credits(i)' = Credits(i)
        BY <4>1, <4>2, CreditsSame, CreditsAreIn
      <4>4. invoices'[i] = invoices[i] /\ Exists(i)
        BY <2>3, <2>8, <3>1 DEF Exists
      <4> QED
        BY <4>3, <4>4 DEF LedgerInv, DiscountMatchesLedger
    <3>2. CASE i = j
      <4>1. b \notin AppliedIn(adjustments, j)
        BY <1>2 DEF AppliedIn
      <4>2. AppliedIn(adjustments', j) = AppliedIn(adjustments, j) \cup {b}
        BY <1>1, <1>6, <2>1 DEF AppliedIn
      <4>3. AppliedIn(adjustments, j) \subseteq Applied
        BY DEF AppliedIn, Applied
      <4>4. IsFiniteSet(AppliedIn(adjustments, j))
        BY <4>3, FS_Subset DEF LedgerInv
      <4>5. \A a \in AppliedIn(adjustments, j) :
               adjustments[a].amount \in Int /\ adjustments'[a].amount = adjustments[a].amount
        BY <1>0, <1>6, <4>1 DEF AppliedIn, TypeOK, Adjustment, NoAdjustment
      <4>6. adjustments'[b].amount = n
        BY <2>1
      <4> HIDE DEF b, n, j
      <4>7. SumFunction(CreditsIn(adjustments', j)) = SumFunction(CreditsIn(adjustments, j)) + n
        BY <2>2, <4>1, <4>2, <4>4, <4>5, <4>6, CreditsOneMore
      <4>8. invoices[j].discount = SumFunction(Credits(j))
        BY <1>1, <1>9 DEF LedgerInv, DiscountMatchesLedger
      <4> QED
        BY <1>1, <2>3, <3>2, <4>7, <4>8, CreditsAreIn
    <3> QED
      BY <3>1, <3>2
  <2>9. \A a \in Adjustments : adjustments'[a].state = "APPLIED" => adjustments'[a].type = "CREDIT"
    BY <1>6, <2>1 DEF LedgerInv, DiscountMatchesLedger
  <2>10. DiscountMatchesLedger'
    BY <2>8, <2>9 DEF DiscountMatchesLedger
  <2> QED
    BY <1>5, <1>7, <2>5, <2>7, <2>10 DEF LedgerInv
<1> QED
  BY <1>8, <1>9 DEF ApplyAdjustmentToInvoice

LEMMA LedgerStep ==
  ASSUME IInv, LedgerInv, [Next]_vars
  PROVE  LedgerInv'
<1>0. TypeOK /\ req \in [Workers -> Request]
  BY DEF IInv, TypeOK
<1>1. ASSUME NEW w \in Workers, ApplyAdjustmentToInvoice(w)
      PROVE  LedgerInv'
  BY <1>1, LedgerApplies
<1>2. ASSUME NEW w \in Workers, NEW j \in Invoices, NEW b \in Adjustments,
             NEW type \in {"CREDIT", "CHARGE"}, NEW n \in Amounts,
             ApplyBillingAdjustment(w, j, b, type, n)
      PROVE  LedgerInv'
  BY <1>2, LedgerRecords
<1>3. ASSUME UNCHANGED adjustments, \A i \in Invoices : DiscountKept(i),
             \A w \in Workers : req'[w] = req[w] \/ req'[w].pc # "applyAdjustment"
      PROVE  LedgerInv'
  <2>1. Applied' = Applied
    BY <1>3 DEF Applied
  <2>2. CreditsPending' /\ CreditsSeparate'
    BY <1>3 DEF LedgerInv, CreditsPending, CreditsSeparate
  <2> QED
    BY <1>3, <2>1, <2>2, LedgerUntouched DEF LedgerInv
<1>4. CASE \A i \in Invoices : DiscountKept(i)
  <2>1. CASE UNCHANGED <<adjustments, req>>
    BY <1>3, <1>4, <2>1
  <2>2. ASSUME NEW w \in Workers, RequestStep(w)
        PROVE  LedgerInv'
    <3>1. \A v \in Workers \ {w} : req'[v] = req[v]
      BY <2>2, PendingByRequest
    <3>2. \/ UNCHANGED adjustments /\ req'[w].pc # "applyAdjustment"
          \/ \E i \in Invoices, a \in Adjustments, type \in {"CREDIT", "CHARGE"}, n \in Amounts :
               ApplyBillingAdjustment(w, i, a, type, n)
          \/ ApplyAdjustmentToInvoice(w)
      BY <2>2, PendingByRequest
    <3> QED
      BY <1>1, <1>2, <1>3, <1>4, <3>1, <3>2
  <2> QED
    BY <2>1, <2>2
    DEF Next, vars, Tick, EnrolmentChanges, DeleteTerm, DeleteSession, JobStep, JobMark, JobList,
        JobDone, JobNext, JobGetByTenant, JobSuspendSub, JobSuspendTenant, JobStatementFails,
        JobStops
<1> QED
  BY <1>1, <1>4, DiscountFrame

(***************************************************************************)
(* The theorems                                                             *)
(***************************************************************************)
LEMMA InitInv == Init => IInv
<1> SUFFICES ASSUME Init
             PROVE  IInv
  OBVIOUS
<1>1. TypeOK
  BY InitType
<1>2. \A i \in Invoices : ~Exists(i)
  BY DEF Init, Exists, NoRow, InvoiceStatus
<1>3. PendingRecorded /\ PendingConsistent
  BY DEF Init, PendingRecorded, PendingConsistent, Idle
<1>4. JobJustified
  BY DEF Init, JobJustified, Idle
<1> QED
  BY <1>1, <1>2, <1>3, <1>4 DEF IInv, TermsLive, StampsMatchStatus, AmountsAddUp

LEMMA NextInv == IInv /\ [Next]_vars => IInv'
<1> SUFFICES ASSUME IInv, [Next]_vars
             PROVE  IInv'
  OBVIOUS
<1>1. TypeOK'
  BY TypeStep DEF IInv
<1> QED
  BY <1>1, PendingInvariants, InvoiceInvariants, JobInvariant DEF IInv

(* The inductive invariant holds of every reachable state: for any number of *)
(* tenants, concurrent requests and invoices, and with every failure.        *)
THEOREM Inductive == Spec => []IInv
<1>1. Init => IInv
  BY InitInv
<1>2. IInv /\ [Next]_vars => IInv'
  BY NextInv
<1> QED
  BY <1>1, <1>2, PTL DEF Spec

(* Rows, requests and the job always have the shape the code gives them; in *)
(* particular the CHECK constraints keep discount and total non-negative.   *)
THEOREM TypeCorrect == Spec => []TypeOK
<1>1. IInv => TypeOK
  BY DEF IInv
<1> QED
  BY <1>1, Inductive, PTL

(* Although payments, disputes and voids write back what they read long     *)
(* before, an invoice's status and its stamps always tell one story.        *)
THEOREM StampsAlwaysMatchStatus == Spec => []StampsMatchStatus
<1>1. IInv => StampsMatchStatus
  BY DEF IInv
<1> QED
  BY <1>1, Inductive, PTL

(* Concurrent adjustments never break an invoice's arithmetic. *)
THEOREM AmountsAlwaysAddUp == Spec => []AmountsAddUp
<1>1. IInv => AmountsAddUp
  BY DEF IInv
<1> QED
  BY <1>1, Inductive, PTL

(* At every moment, for any number of invoices, adjustments and concurrent  *)
(* requests, an invoice charges its students at the list price less exactly *)
(* the credits applied to it: none is lost, none is counted twice.          *)
THEOREM AmountsAlwaysMatchLedger == Spec => []AmountsMatchLedger
<1>1. Init => IInv /\ LedgerInv
  <2> SUFFICES ASSUME Init
               PROVE  LedgerInv
    BY InitInv
  <2>1. Applied = {}
    BY DEF Init, Applied, NoAdjustment
  <2>2. IsFiniteSet(Applied)
    BY <2>1, FS_EmptySet
  <2>3. DiscountMatchesLedger
    BY DEF Init, DiscountMatchesLedger, Exists, NoRow, InvoiceStatus, NoAdjustment
  <2>4. CreditsOfRows /\ CreditsPending /\ CreditsSeparate
    BY DEF Init, CreditsOfRows, CreditsPending, CreditsSeparate, Idle
  <2> QED
    BY <2>2, <2>3, <2>4 DEF LedgerInv
<1>2. (IInv /\ LedgerInv) /\ [Next]_vars => (IInv /\ LedgerInv)'
  <2> SUFFICES ASSUME IInv, LedgerInv, [Next]_vars
               PROVE  IInv' /\ LedgerInv'
    OBVIOUS
  <2> QED
    BY NextInv, LedgerStep
<1>3. IInv /\ LedgerInv => AmountsMatchLedger
  BY DEF IInv, LedgerInv, AmountsMatchLedger
<1> QED
  BY <1>1, <1>2, <1>3, PTL DEF Spec

(* A subscription is flagged or suspended, and a tenant suspended, only for *)
(* an invoice that was unpaid that long when the job read the table: for    *)
(* any thresholds, any number of tenants and any interleaving of the job    *)
(* with requests.                                                           *)
THEOREM SanctionsAlwaysHaveCause == Spec => SanctionsHaveCause
<1>1. IInv /\ [Next]_vars =>
        [/\ \A s \in Sessions : subs'[s].status # subs[s].status =>
              /\ subs'[s].status = "PAYMENT_OVERDUE" => OwedSince(TenantOf[s], GraceDays)
              /\ subs'[s].status = "SUSPENDED" => OwedSince(TenantOf[s], SuspendDays)
         /\ \A t \in Tenants : tenants'[t] # tenants[t] => OwedSince(t, SuspendDays)]_vars
  BY SanctionCause
<1> QED
  BY <1>1, Inductive, PTL DEF Spec, SanctionsHaveCause

LEMMA SettledStep ==
  ASSUME IInv, [Next]_vars, NEW i \in Invoices,
         invoices[i].status \in {"PAID", "DISPUTED", "VOIDED"}
  PROVE  \/ invoices'[i] = invoices[i]
         \/ invoices'[i] = DeletedRow
         \/ /\ invoices'[i].status \in {"PAID", "DISPUTED", "VOIDED"}
            /\ invoices'[i].discount = invoices[i].discount
            /\ invoices'[i].total = invoices[i].total
<1>1. InvoiceStep(i) /\ Exists(i)
  BY InvoiceFrame DEF IInv, Exists, InvoiceStatus
<1>2. invoices[i] \in Row
  BY <1>1, StampsType DEF IInv
<1>3. ~Inserted(i) /\ ~Credited(i) /\ ~MarkedOverdue(i)
  BY DEF Inserted, NoRow, Credited, Adjustable, MarkedOverdue, Markable
<1>4. CASE Stamped(i)
  BY <1>2, <1>4 DEF Stamped, WriteStamps, Final, Row, Stamps
<1> QED
  BY <1>1, <1>3, <1>4 DEF InvoiceStep, Cascaded

(* Only a request's own write touches an invoice that is paid or gone,      *)
(* apart from its deletion.                                                 *)
LEMMA SettledRowStays ==
  ASSUME IInv, [Next]_vars, NEW i \in Invoices, Settled(i)
  PROVE  invoices'[i].status \in {"PAID", "DELETED"}
<1>0. invoices[i].status \in {"PAID", "DELETED"} /\ TypeOK
  BY DEF Settled, IInv
<1>1. CASE UNCHANGED invoices
  BY <1>0, <1>1
<1>2. CASE (\E m \in Terms : DeleteTerm(m)) \/ (\E s \in Sessions : DeleteSession(s))
  BY <1>0, <1>2 DEF DeleteTerm, DeleteSession, CascadeTerms, DeletedRow
<1>3. CASE JobMark
  BY <1>0, <1>3 DEF JobMark, Markable
<1>4. ASSUME NEW w \in Workers, CreateInvoice(w)
      PROVE  invoices'[i] = invoices[i]
  <2>1. invoices[i] # NoRow
    BY <1>0 DEF NoRow
  <2> QED
    BY <1>0, <1>4, <2>1 DEF CreateInvoice, TypeOK
<1>5. ASSUME NEW w \in Workers, UpdateInvoice(w)
      PROVE  invoices'[i] = invoices[i]
  <2>1. req[w].inv # i
    BY <1>5 DEF UpdateInvoice, Settled
  <2> QED
    BY <1>0, <1>5, <2>1 DEF UpdateInvoice, TypeOK
<1>6. ASSUME NEW w \in Workers, ApplyAdjustmentToInvoice(w)
      PROVE  invoices'[i] = invoices[i]
  BY <1>0, <1>6 DEF ApplyAdjustmentToInvoice, Adjustable, TypeOK
<1>7. ASSUME NEW w \in Workers, RequestStep(w)
      PROVE  \/ UNCHANGED invoices
             \/ CreateInvoice(w) \/ UpdateInvoice(w) \/ ApplyAdjustmentToInvoice(w)
  BY <1>7
  DEF RequestStep, ActivateTerm, GenerateInvoicesForActiveTerm, BulkNextTenant,
      BulkCountStudents, GetSubscriptionOfSession, CreateSubscription, NumberInvoice,
      GenerationFails, MarkInvoiceAsPaid, DisputeInvoice, VoidInvoice, ReadForUpdate,
      GetSubscriptionAfterPayment, CancelSubscription, ReactivateSubscription,
      ReadSubForUpdate, UpdateSubscription, ApplyBillingAdjustment, RequestFails
<1>8. CASE \E w \in Workers : RequestStep(w)
  BY <1>0, <1>1, <1>4, <1>5, <1>6, <1>7, <1>8
<1> QED
  BY <1>1, <1>2, <1>3, <1>8
  DEF Next, vars, Tick, EnrolmentChanges, JobStep, JobList, JobDone, JobNext,
      JobGetByTenant, JobSuspendSub, JobSuspendTenant, JobStatementFails, JobStops

(* And no request starts to write one. *)
LEMMA SettledStays ==
  ASSUME IInv, [Next]_vars, NEW i \in Invoices, Settled(i)
  PROVE  Settled(i)'
<1>1. invoices'[i].status \in {"PAID", "DELETED"}
  BY SettledRowStays
<1>2. CASE UNCHANGED req
  BY <1>1, <1>2 DEF Settled
<1>3. ASSUME NEW w \in Workers, RequestStep(w), NEW v \in Workers, req'[v].pc = "updateInvoice"
      PROVE  req'[v].inv # i
  <2>1. CASE v = w
    BY <1>3, <2>1, PendingByRequest DEF Settled
  <2>2. CASE v # w
    <3>1. req'[v] = req[v]
      BY <1>3, <2>2, PendingByRequest
    <3> QED
      BY <1>3, <3>1 DEF Settled
  <2> QED
    BY <2>1, <2>2
<1> QED
  BY <1>1, <1>2, <1>3
  DEF Settled, Next, vars, Tick, EnrolmentChanges, DeleteTerm, DeleteSession, JobStep, JobMark,
      JobList, JobDone, JobNext, JobGetByTenant, JobSuspendSub, JobSuspendTenant,
      JobStatementFails, JobStops

(* The write of a payment leaves the invoice settled when nobody else holds *)
(* an older reading of it.                                                  *)
LEMMA PaymentSettles ==
  ASSUME IInv, PaymentsInv, NEW w \in Workers, UpdateInvoice(w), Exists(req[w].inv)
  PROVE  PaymentsInv'
<1> DEFINE i == req[w].inv
<1>0. TypeOK /\ req \in [Workers -> Request] /\ req[w].pc = "updateInvoice" /\ [Next]_vars
  BY DEF IInv, TypeOK, UpdateInvoice, Next, RequestStep
<1>1. req[w] \in Updating /\ i \in Invoices
  BY <1>0, RequestShape DEF Updating
<1>2. Recorded(w, i, req[w].stamp.status = "PAID")
  BY DEF UpdateInvoice
<1>3. /\ invoices' = [invoices EXCEPT ![i] = WriteStamps(invoices[i], req[w].stamp)]
      /\ req'[w].pc # "updateInvoice"
      /\ \A v \in Workers \ {w} : req'[v] = req[v]
  BY <1>0 DEF UpdateInvoice, Idle
<1>4. paid \subseteq Invoices
  BY <1>0 DEF TypeOK
<1>5. ASSUME NEW k \in paid' \ crossed'
      PROVE  Settled(k)'
  <2>1. k \notin crossed /\ k \in Invoices
    BY <1>1, <1>2, <1>4, <1>5 DEF Recorded
  <2>2. CASE k \in paid
    BY <1>0, <2>1, <2>2, SettledStays DEF PaymentsInv
  <2>3. CASE k \notin paid
    <3>1. k = i /\ req[w].stamp.status = "PAID"
      BY <1>2, <1>5, <2>3 DEF Recorded
    <3>2. \A v \in Workers \ {w} : ~(req[v].pc = "updateInvoice" /\ req[v].inv = i)
      BY <1>2, <1>5, <3>1 DEF Recorded
    <3>3. invoices[i] \in Row
      BY <1>0, <1>1, StampsType
    <3>4. invoices'[k].status = "PAID"
      BY <1>0, <1>1, <1>3, <3>1, <3>3 DEF WriteStamps, Row, TypeOK
    <3>5. \A v \in Workers : req'[v].pc = "updateInvoice" => req'[v].inv # k
      BY <1>3, <3>1, <3>2
    <3> QED
      BY <3>4, <3>5 DEF Settled
  <2> QED
    BY <2>2, <2>3
<1>6. repaid' \subseteq crossed'
  <2>1. repaid \subseteq crossed /\ crossed \subseteq crossed'
    BY <1>2 DEF PaymentsInv, PaidOnce, Recorded
  <2>2. i \in paid => i \in crossed
    BY <1>0 DEF PaymentsInv, Settled
  <2> QED
    BY <1>2, <2>1, <2>2 DEF Recorded
<1> QED
  BY <1>5, <1>6 DEF PaymentsInv, PaidOnce

LEMMA PaymentsStep ==
  ASSUME IInv, PaymentsInv, [Next]_vars
  PROVE  PaymentsInv'
<1>1. CASE UNCHANGED <<paid, repaid, crossed>>
  <2>1. paid \subseteq Invoices
    BY DEF IInv, TypeOK
  <2>2. \A i \in paid \ crossed : Settled(i)'
    BY <2>1, SettledStays DEF PaymentsInv
  <2> QED
    BY <1>1, <2>2 DEF PaymentsInv, PaidOnce
<1>2. ASSUME NEW w \in Workers, UpdateInvoice(w)
      PROVE  PaymentsInv'
  <2>1. CASE Exists(req[w].inv)
    BY <1>2, <2>1, PaymentSettles
  <2>2. CASE ~Exists(req[w].inv)
    BY <1>1, <1>2, <2>2 DEF UpdateInvoice
  <2> QED
    BY <2>1, <2>2
<1>3. ASSUME NEW w \in Workers, RequestStep(w)
      PROVE  UNCHANGED <<paid, repaid, crossed>> \/ UpdateInvoice(w)
  BY <1>3
  DEF RequestStep, ActivateTerm, GenerateInvoicesForActiveTerm, BulkNextTenant,
      BulkCountStudents, GetSubscriptionOfSession, CreateSubscription, NumberInvoice,
      CreateInvoice, GenerationFails, MarkInvoiceAsPaid, DisputeInvoice, VoidInvoice,
      ReadForUpdate, GetSubscriptionAfterPayment, CancelSubscription, ReactivateSubscription,
      ReadSubForUpdate, UpdateSubscription, ApplyBillingAdjustment, ApplyAdjustmentToInvoice,
      RequestFails
<1>4. CASE \E w \in Workers : RequestStep(w)
  BY <1>1, <1>2, <1>3, <1>4
<1> QED
  BY <1>1, <1>4
  DEF Next, vars, Tick, EnrolmentChanges, DeleteTerm, DeleteSession, JobStep, JobMark, JobList,
      JobDone, JobNext, JobGetByTenant, JobSuspendSub, JobSuspendTenant, JobStatementFails,
      JobStops

(* For any number of invoices and concurrent requests, a second payment is  *)
(* taken for an invoice only if a write of it met another request that had  *)
(* read it before: one after the other, no sequence of calls pays twice.    *)
THEOREM PaidAtMostOnce == Spec => []PaidOnce
<1>1. Init => IInv /\ PaymentsInv
  BY InitInv DEF Init, PaymentsInv, PaidOnce
<1>2. (IInv /\ PaymentsInv) /\ [Next]_vars => (IInv /\ PaymentsInv)'
  <2> SUFFICES ASSUME IInv, PaymentsInv, [Next]_vars
               PROVE  IInv' /\ PaymentsInv'
    OBVIOUS
  <2> QED
    BY NextInv, PaymentsStep
<1>3. IInv /\ PaymentsInv => PaidOnce
  BY DEF PaymentsInv
<1> QED
  BY <1>1, <1>2, <1>3, PTL DEF Spec

(* A settled invoice keeps its amounts, whatever adjustments were recorded   *)
(* while it was still open.                                                 *)
THEOREM SettledAmountsStayFrozen == Spec => SettledAmountsFrozen
<1>1. IInv /\ [Next]_vars =>
        [\A i \in Invoices : invoices[i].status \in {"PAID", "DISPUTED", "VOIDED"}
            => \/ invoices'[i] = DeletedRow
               \/ /\ invoices'[i].discount = invoices[i].discount
                  /\ invoices'[i].total = invoices[i].total]_vars
  BY SettledStep
<1> QED
  BY <1>1, Inductive, PTL DEF Spec, SettledAmountsFrozen
=============================================================================
