------------------------------- MODULE Billing -------------------------------
(***************************************************************************)
(* Subscriptions, invoices, billing adjustments and the hourly job that     *)
(* chases unpaid invoices:                                                  *)
(*   internal/service/billing_service.go                                    *)
(*   internal/repository/postgres/{invoice,subscription,tenant}.go          *)
(*   internal/scheduler/jobs/overdue_invoice_job.go                         *)
(* together with the calls of the term and session services that reach the  *)
(* same tables (ActivateTerm, DeleteTerm, DeleteSession).                   *)
(*                                                                          *)
(* A database table is a function from row identifiers to rows and one SQL  *)
(* statement is one atomic step.  No billing operation opens a transaction, *)
(* so between two statements of a request every other request, and the job, *)
(* may run: req[w] holds what request w has read and has still to write,    *)
(* and job does the same for the overdue-invoice job.                       *)
(*                                                                          *)
(* The status of sessions and terms is a constant here: the UPDATE of       *)
(* SessionRepository.Update and of TermRepository.Update does not write it  *)
(* and nothing calls their Activate, Complete and Archive.  Time is counted *)
(* in days, money in units of one student's price.                          *)
(***************************************************************************)
EXTENDS Integers, FiniteSets, Functions

CONSTANTS
    Tenants, Sessions, Terms,   \* identifiers of rows of the calendar tables
    Invoices, Adjustments,      \* pools of fresh UUIDs for new rows
    Workers,                    \* HTTP requests in flight
    TenantOf, SessionOf,        \* foreign keys session -> tenant, term -> session
    ActiveSessions, ActiveTerms,\* the rows whose stored status is ACTIVE
    Price,                      \* PricePerStudentPerTermKobo
    DueDays,                    \* tenant.Configuration.InvoiceGracePeriod
    GraceDays, SuspendDays,     \* the job's gracePeriodDays and suspensionDays
    JobLimit,                   \* PaginationParams{Limit: 100} of the job's query
    Amounts,                    \* amounts an adjustment may carry
    FallbackNumbers,            \* time.Now().Unix()%10000 as invoice number
    MaxStudents, MaxDay,        \* bounds: enrolment count, clock
    MaxFaults                   \* bound: failed statements and aborted requests

ASSUME BillingAssumption ==
    /\ TenantOf \in [Sessions -> Tenants]
    /\ SessionOf \in [Terms -> Sessions]
    /\ ActiveSessions \subseteq Sessions
    /\ ActiveTerms \subseteq Terms
    /\ Price \in Nat \ {0}
    /\ DueDays \in Nat /\ GraceDays \in Nat \ {0} /\ SuspendDays \in Nat
    /\ GraceDays <= SuspendDays
    /\ JobLimit \in Nat
    /\ Amounts \subseteq Int
    /\ FallbackNumbers \subseteq Nat
    /\ MaxStudents \in Nat /\ MaxDay \in Nat /\ MaxFaults \in Nat

VARIABLES
    day,          \* the clock
    faults,       \* how many faults have happened
    sessions,     \* the session rows that exist
    terms,        \* the term rows that exist
    students,     \* active enrolments of a session
    tenants,      \* tenants.status
    subs,         \* subscriptions, keyed by session (UNIQUE(tenant, session))
    invoices,     \* invoices
    adjustments,  \* billing_adjustments
    arrears,      \* history: <<tenant, days overdue>> of each unpaid invoice, as
                  \* it was when this run of the job read the table
    paid, repaid, \* history: invoices a payment was taken for, and more than one
    crossed,      \* history: invoices written with a second update under way
    req,          \* requests in flight
    job           \* the overdue-invoice job

calendar == <<sessions, terms, students>>
ledger == <<invoices, adjustments>>
payments == <<paid, repaid, crossed>>
history == <<arrears, payments>>
vars == <<day, faults, calendar, tenants, subs, ledger, history, req, job>>

(***************************************************************************)
(* Rows                                                                     *)
(***************************************************************************)
InvoiceStatus == {"PENDING", "PAID", "OVERDUE", "DISPUTED", "VOIDED"}
SubscriptionStatus == {"ACTIVE", "PAYMENT_OVERDUE", "SUSPENDED", "CANCELLED"}
TenantStatus == {"ACTIVE", "SUSPENDED"}

(* The columns that InvoiceRepository.Update writes: the status, and whether *)
(* paid_at/payment_*, disputed_at/dispute_reason, voided_at/void_reason are  *)
(* set.                                                                      *)
Stamps == [status: InvoiceStatus, paid: BOOLEAN, disputed: BOOLEAN, voided: BOOLEAN]

Row == [term: Terms, number: Nat, status: InvoiceStatus,
        paid: BOOLEAN, disputed: BOOLEAN, voided: BOOLEAN,
        students: 0..MaxStudents, subtotal: Nat, discount: Nat, total: Nat,
        due: 0..(MaxDay + DueDays)]

NoRow == [status |-> "NONE"]        \* the identifier is not in use yet
DeletedRow == [status |-> "DELETED"] \* the row is gone; a UUID is not reused

NoSub == [status |-> "NONE", created |-> 0]
Subscription == [status: SubscriptionStatus, created: Nat]

NoAdjustment == [state |-> "NONE"]
(* state is history: whether ApplyAdjustmentToInvoice has succeeded for it. *)
Adjustment == [inv: Invoices, type: {"CREDIT", "CHARGE"}, amount: Int,
               state: {"RECORDED", "APPLIED"}]

Exists(i) == invoices[i].status \in InvoiceStatus
TenantOfTerm(m) == TenantOf[SessionOf[m]]
InvoicesOf(t) == {i \in Invoices : Exists(i) /\ TenantOfTerm(invoices[i].term) = t}
HasSub(s) == subs[s].status \in SubscriptionStatus

(* Invoice.DaysOverdue for a row that is known to be unpaid. *)
DaysOverdue(now, due) == IF now > due THEN now - due ELSE 0

(***************************************************************************)
(* Requests and the job: what is kept between two statements                *)
(***************************************************************************)
Idle == [pc |-> "idle"]

BulkTurn == [pc: {"nextTenant"}, todo: SUBSET Tenants]
BulkCount == [pc: {"countStudents"}, term: Terms, todo: SUBSET Tenants]
Generating == [pc: {"getSub", "createSub", "number"}, by: {"activation", "bulk"},
               term: Terms, count: 0..MaxStudents, todo: SUBSET Tenants]
Inserting == [pc: {"insert"}, by: {"activation", "bulk"}, term: Terms,
              count: 0..MaxStudents, todo: SUBSET Tenants, number: Nat]
Updating == [pc: {"updateInvoice"}, inv: Invoices, stamp: Stamps, session: Sessions]
Paying == [pc: {"getSubscription"}, session: Sessions]
UpdatingSub == [pc: {"updateSub"}, session: Sessions, status: {"ACTIVE", "CANCELLED"}]
Adjusting == [pc: {"applyAdjustment"}, inv: Invoices, adj: Adjustments]

Request == {Idle} \cup BulkTurn \cup BulkCount \cup Generating \cup Inserting
           \cup Updating \cup Paying \cup UpdatingSub \cup Adjusting

(* What the job keeps of an invoice it has listed. *)
Listed == [inv: Invoices, term: Terms, due: 0..(MaxDay + DueDays)]

JobListing == [pc: {"list"}]
JobTurn == [pc: {"next"}, now: 0..MaxDay, todo: SUBSET Listed]
JobChecking == [pc: {"getByTenant", "suspendTenant"}, now: 0..MaxDay,
                todo: SUBSET Listed, item: Listed]
JobSuspending == [pc: {"suspendSub"}, now: 0..MaxDay, todo: SUBSET Listed,
                  item: Listed, session: Sessions]

Job == {Idle} \cup JobListing \cup JobTurn \cup JobChecking \cup JobSuspending

(* A seeded database: the calendar and the enrolments exist, nothing is     *)
(* billed yet.                                                              *)
Init ==
    /\ day = 0 /\ faults = 0
    /\ sessions = Sessions /\ terms = Terms
    /\ students \in [Sessions -> 0..MaxStudents]
    /\ tenants = [t \in Tenants |-> "ACTIVE"]
    /\ subs = [s \in Sessions |-> NoSub]
    /\ invoices = [i \in Invoices |-> NoRow]
    /\ adjustments = [a \in Adjustments |-> NoAdjustment]
    /\ arrears = {}
    /\ paid = {} /\ repaid = {} /\ crossed = {}
    /\ req = [w \in Workers |-> Idle]
    /\ job = Idle

(***************************************************************************)
(* The environment: time passes, students enrol and leave                   *)
(***************************************************************************)
Tick ==
    /\ day < MaxDay
    /\ day' = day + 1
    /\ UNCHANGED <<faults, calendar, tenants, subs, ledger, history, req, job>>

EnrolmentChanges(s, n) ==
    /\ s \in sessions
    /\ students[s] # n
    /\ students' = [students EXCEPT ![s] = n]
    /\ UNCHANGED <<day, faults, sessions, terms, tenants, subs, ledger, history, req, job>>

(***************************************************************************)
(* Deleting a DRAFT term or session.  The foreign keys cascade: the term's  *)
(* invoices, and the session's subscription and terms, go with it.          *)
(***************************************************************************)
CascadeTerms(gone) ==
    invoices' = [i \in Invoices |->
        IF Exists(i) /\ invoices[i].term \in gone THEN DeletedRow ELSE invoices[i]]

DeleteTerm(m) ==
    /\ m \in terms \ ActiveTerms
    /\ terms' = terms \ {m}
    /\ CascadeTerms({m})
    /\ UNCHANGED <<day, faults, sessions, students, tenants, subs, adjustments,
                   history, req, job>>

DeleteSession(s) ==
    /\ s \in sessions \ ActiveSessions
    /\ sessions' = sessions \ {s}
    /\ terms' = {m \in terms : SessionOf[m] # s}
    /\ subs' = [subs EXCEPT ![s] = NoSub]
    /\ CascadeTerms({m \in Terms : SessionOf[m] = s})
    /\ UNCHANGED <<day, faults, students, tenants, adjustments, history, req, job>>

(***************************************************************************)
(* Generating a term's invoice                                              *)
(***************************************************************************)

(* TermService.ActivateTerm up to the call of GenerateTermInvoice.  The     *)
(* check for another active term reads rows that never change, the UPDATE   *)
(* of the term writes no status, so the one step that matters is the        *)
(* unlocked COUNT of the active enrolments.                                 *)
ActivateTerm(w, m) ==
    /\ req[w] = Idle
    /\ m \in terms
    /\ \A x \in ActiveTerms : SessionOf[x] = SessionOf[m] => x = m
    /\ req' = [req EXCEPT ![w] = [pc |-> "getSub", by |-> "activation", term |-> m,
                                  count |-> students[SessionOf[m]], todo |-> {}]]
    /\ UNCHANGED <<day, faults, calendar, tenants, subs, ledger, history, job>>

(* BillingService.GenerateInvoicesForActiveTerm: the list of active tenants *)
(* is read once.                                                            *)
GenerateInvoicesForActiveTerm(w) ==
    /\ req[w] = Idle
    /\ req' = [req EXCEPT ![w] = [pc |-> "nextTenant",
                                  todo |-> {t \in Tenants : tenants[t] = "ACTIVE"}]]
    /\ UNCHANGED <<day, faults, calendar, tenants, subs, ledger, history, job>>

(* The terms a bulk run bills for tenant t: active, in an active session. *)
BillableTerms(t) ==
    {m \in ActiveTerms \cap terms :
        SessionOf[m] \in ActiveSessions \cap sessions /\ TenantOfTerm(m) = t}

(* One turn of the loop over the tenants, up to the GetByTerm check. *)
BulkNextTenant(w) ==
    /\ req[w].pc = "nextTenant"
    /\ \/ /\ req[w].todo = {}
          /\ req' = [req EXCEPT ![w] = Idle]
       \/ \E t \in req[w].todo :
            LET left == req[w].todo \ {t} IN
            \/ /\ BillableTerms(t) = {}
               /\ req' = [req EXCEPT ![w].todo = left]
            \/ \E m \in BillableTerms(t) :
                 req' = [req EXCEPT ![w] =
                           IF \E i \in Invoices : Exists(i) /\ invoices[i].term = m
                             THEN [pc |-> "nextTenant", todo |-> left]
                             ELSE [pc |-> "countStudents", term |-> m, todo |-> left]]
    /\ UNCHANGED <<day, faults, calendar, tenants, subs, ledger, history, job>>

(* CountActiveStudents; a tenant without enrolments is skipped. *)
BulkCountStudents(w) ==
    /\ req[w].pc = "countStudents"
    /\ LET r == req[w]
           n == students[SessionOf[r.term]]
       IN req' = [req EXCEPT ![w] =
                    IF n = 0 THEN [pc |-> "nextTenant", todo |-> r.todo]
                    ELSE [pc |-> "getSub", by |-> "bulk", term |-> r.term,
                          count |-> n, todo |-> r.todo]]
    /\ UNCHANGED <<day, faults, calendar, tenants, subs, ledger, history, job>>

(* GenerateTermInvoice returns, with or without an invoice.  ActivateTerm   *)
(* only logs an error and answers 200; the bulk run goes on to the next     *)
(* tenant.                                                                  *)
GenerateReturns(w) ==
    req' = [req EXCEPT ![w] = IF req[w].by = "activation" THEN Idle
                              ELSE [pc |-> "nextTenant", todo |-> req[w].todo]]

(* The latest created of the subscriptions of S: ORDER BY created_at DESC LIMIT 1 *)
Latest(table, S) == {s \in S : \A x \in S : table[x].created <= table[s].created}

(* getOrCreateSubscription: the SELECT, *)
GetSubscriptionOfSession(w) ==
    /\ req[w].pc = "getSub"
    /\ req' = [req EXCEPT ![w].pc = IF HasSub(SessionOf[req[w].term])
                                      THEN "number" ELSE "createSub"]
    /\ UNCHANGED <<day, faults, calendar, tenants, subs, ledger, history, job>>

(* and the INSERT, which a concurrent one, or a deleted session, makes fail. *)
CreateSubscription(w) ==
    /\ req[w].pc = "createSub"
    /\ LET s == SessionOf[req[w].term] IN
       IF s \in sessions /\ ~HasSub(s)
         THEN /\ \E x \in Latest(subs, Sessions) :
                   subs' = [subs EXCEPT ![s] = [status |-> "ACTIVE",
                                                created |-> subs[x].created + 1]]
              /\ req' = [req EXCEPT ![w].pc = "number"]
         ELSE GenerateReturns(w) /\ UNCHANGED subs
    /\ UNCHANGED <<day, faults, calendar, tenants, ledger, history, job>>

(* MAX + 1 over the tenant's own invoices, 1 when it has none: {n} *)
GetNextInvoiceNumber(t) ==
    LET numbers == {0} \cup {invoices[i].number : i \in InvoicesOf(t)}
    IN {n + 1 : n \in {x \in numbers : \A y \in numbers : y <= x}}

(* The number is read; when the query fails it is taken from the clock. *)
NumberInvoice(w) ==
    /\ req[w].pc = "number"
    /\ LET r == req[w]
           numbered(n) == [pc |-> "insert", by |-> r.by, term |-> r.term,
                           count |-> r.count, todo |-> r.todo, number |-> n]
       IN \/ /\ \E n \in GetNextInvoiceNumber(TenantOfTerm(r.term)) :
                  req' = [req EXCEPT ![w] = numbered(n)]
             /\ UNCHANGED faults
          \/ /\ faults < MaxFaults
             /\ faults' = faults + 1
             /\ \E n \in FallbackNumbers : req' = [req EXCEPT ![w] = numbered(n)]
    /\ UNCHANGED <<day, calendar, tenants, subs, ledger, history, job>>

NewInvoice(m, n, count) ==
    [term |-> m, number |-> n, status |-> "PENDING",
     paid |-> FALSE, disputed |-> FALSE, voided |-> FALSE,
     students |-> count, subtotal |-> count * Price, discount |-> 0,
     total |-> count * Price, due |-> day + DueDays]

(* invoice_number is UNIQUE over all tenants; term_id and subscription_id   *)
(* are foreign keys.                                                        *)
InsertAllowed(m, n) ==
    /\ m \in terms
    /\ HasSub(SessionOf[m])
    /\ \A i \in Invoices : Exists(i) => invoices[i].number # n

(* InvoiceRepository.Create.  Fresh identifiers are as good as each other;  *)
(* a pool without one left counts as a failed INSERT.                       *)
CreateInvoice(w) ==
    /\ req[w].pc = "insert"
    /\ LET r == req[w]
           fresh == {i \in Invoices : invoices[i] = NoRow}
       IN IF InsertAllowed(r.term, r.number) /\ fresh # {}
            THEN LET i == CHOOSE k \in fresh : TRUE IN
                 invoices' = [invoices EXCEPT ![i] = NewInvoice(r.term, r.number, r.count)]
            ELSE UNCHANGED invoices
    /\ GenerateReturns(w)
    /\ UNCHANGED <<day, faults, calendar, tenants, subs, adjustments, history, job>>

(***************************************************************************)
(* Paying, disputing and voiding an invoice.  Each reads the row, checks it *)
(* and later writes the columns of Stamps back, with no condition on what   *)
(* the row has become meanwhile.                                            *)
(***************************************************************************)
StampsOf(row) == [status |-> row.status, paid |-> row.paid,
                  disputed |-> row.disputed, voided |-> row.voided]

ReadForUpdate(w, i, stamp) ==
    /\ req' = [req EXCEPT ![w] = [pc |-> "updateInvoice", inv |-> i, stamp |-> stamp,
                                  session |-> SessionOf[invoices[i].term]]]
    /\ UNCHANGED <<day, faults, calendar, tenants, subs, ledger, history, job>>

MarkInvoiceAsPaid(w, i) ==
    /\ req[w] = Idle /\ Exists(i)
    /\ invoices[i].status \notin {"PAID", "VOIDED"}
    /\ ReadForUpdate(w, i, [StampsOf(invoices[i]) EXCEPT !.status = "PAID", !.paid = TRUE])

MutantDisputeInvoice(w, i) == \* a paid invoice can be disputed
    /\ req[w] = Idle /\ Exists(i)
    /\ invoices[i].status # "VOIDED"
    /\ ReadForUpdate(w, i, [StampsOf(invoices[i]) EXCEPT !.status = "DISPUTED",
                                                          !.disputed = TRUE, !.paid = FALSE])

DisputeInvoice(w, i) ==
    /\ req[w] = Idle /\ Exists(i)
    /\ invoices[i].status \notin {"PAID", "VOIDED"}
    /\ ReadForUpdate(w, i, [StampsOf(invoices[i]) EXCEPT !.status = "DISPUTED",
                                                          !.disputed = TRUE])

VoidInvoice(w, i) ==
    /\ req[w] = Idle /\ Exists(i)
    /\ invoices[i].status # "PAID"
    /\ ReadForUpdate(w, i, [StampsOf(invoices[i]) EXCEPT !.status = "VOIDED",
                                                          !.voided = TRUE])

(* InvoiceRepository.Update: the UPDATE's SET list. *)
MutantWriteStamps(row, stamp) == \* writes only the columns set by this request
    [row EXCEPT !.status = stamp.status, !.paid = row.paid \/ stamp.paid,
                !.disputed = row.disputed \/ stamp.disputed,
                !.voided = row.voided \/ stamp.voided]
WriteStamps(row, stamp) ==
    [row EXCEPT !.status = stamp.status, !.paid = stamp.paid,
                !.disputed = stamp.disputed, !.voided = stamp.voided]

(* History: invoice i is written, and paid if payment holds. *)
Recorded(w, i, payment) ==
    /\ paid' = IF payment THEN paid \cup {i} ELSE paid
    /\ repaid' = IF payment /\ i \in paid THEN repaid \cup {i} ELSE repaid
    /\ crossed' = IF \E v \in Workers \ {w} : req[v].pc = "updateInvoice" /\ req[v].inv = i
                    THEN crossed \cup {i} ELSE crossed

(* The write; only MarkInvoiceAsPaid goes on, with the subscription. *)
UpdateInvoice(w) ==
    /\ req[w].pc = "updateInvoice"
    /\ LET r == req[w] IN
       IF Exists(r.inv)
         THEN /\ invoices' = [invoices EXCEPT ![r.inv] = WriteStamps(@, r.stamp)]
              /\ req' = [req EXCEPT ![w] =
                    IF r.stamp.status = "PAID"
                      THEN [pc |-> "getSubscription", session |-> r.session]
                      ELSE Idle]
              /\ Recorded(w, r.inv, r.stamp.status = "PAID")
         ELSE /\ req' = [req EXCEPT ![w] = Idle]
              /\ UNCHANGED <<invoices, payments>>
    /\ UNCHANGED <<day, faults, calendar, tenants, subs, adjustments, arrears, job>>

(***************************************************************************)
(* Subscriptions: read, then write the status back unconditionally          *)
(***************************************************************************)
ReadSubForUpdate(w, s, status) ==
    /\ req' = [req EXCEPT ![w] = [pc |-> "updateSub", session |-> s, status |-> status]]
    /\ UNCHANGED <<day, faults, calendar, tenants, subs, ledger, history, job>>

(* The last part of MarkInvoiceAsPaid: an overdue subscription is read to   *)
(* be reactivated, any other is left alone.                                 *)
GetSubscriptionAfterPayment(w) ==
    /\ req[w].pc = "getSubscription"
    /\ IF subs[req[w].session].status = "PAYMENT_OVERDUE"
         THEN ReadSubForUpdate(w, req[w].session, "ACTIVE")
         ELSE /\ req' = [req EXCEPT ![w] = Idle]
              /\ UNCHANGED <<day, faults, calendar, tenants, subs, ledger, history, job>>

CancelSubscription(w, s) ==
    /\ req[w] = Idle /\ HasSub(s)
    /\ ReadSubForUpdate(w, s, "CANCELLED")

ReactivateSubscription(w, s) ==
    /\ req[w] = Idle /\ HasSub(s)
    /\ subs[s].status \notin {"ACTIVE", "CANCELLED"}
    /\ ReadSubForUpdate(w, s, "ACTIVE")

SetSubStatus(s, status) ==
    subs' = IF HasSub(s) THEN [subs EXCEPT ![s].status = status] ELSE subs

UpdateSubscription(w) ==
    /\ req[w].pc = "updateSub"
    /\ SetSubStatus(req[w].session, req[w].status)
    /\ req' = [req EXCEPT ![w] = Idle]
    /\ UNCHANGED <<day, faults, calendar, tenants, ledger, history, job>>

(***************************************************************************)
(* Billing adjustments.  CREDIT stands for CREDIT and DISCOUNT, which are   *)
(* applied to the invoice; CHARGE for CHARGE and REFUND, only recorded.     *)
(***************************************************************************)
ApplyBillingAdjustment(w, i, a, type, amount) ==
    /\ req[w] = Idle /\ Exists(i)
    /\ adjustments[a] = NoAdjustment
    /\ adjustments' = [adjustments EXCEPT ![a] =
          [inv |-> i, type |-> type, amount |-> amount, state |-> "RECORDED"]]
    /\ req' = [req EXCEPT ![w] = IF type = "CREDIT"
                                   THEN [pc |-> "applyAdjustment", inv |-> i, adj |-> a]
                                   ELSE Idle]
    /\ UNCHANGED <<day, faults, calendar, tenants, subs, invoices, history, job>>

(* The WHERE clause of ApplyAdjustmentToInvoice and the table's CHECKs on   *)
(* discount_amount and total_amount.                                        *)
MutantAdjustable(row, amount) == \* without the status condition
    /\ row.discount + amount >= 0
    /\ row.subtotal - (row.discount + amount) >= 0

MutantUnchecked(row, amount) == row.status \in {"PENDING", "OVERDUE"} \* no CHECKs

Adjustable(row, amount) ==
    /\ row.status \in {"PENDING", "OVERDUE"}
    /\ row.discount + amount >= 0
    /\ row.subtotal - (row.discount + amount) >= 0

MutantTotal(row, amount) == \* the total forgets the earlier discount
    [row EXCEPT !.discount = row.discount + amount, !.total = row.subtotal - amount]

Discounted(row, amount) ==
    [row EXCEPT !.discount = row.discount + amount,
                !.total = row.subtotal - (row.discount + amount)]

(* One UPDATE; when it changes no row or a CHECK fails, the error is        *)
(* printed and the request succeeds all the same.                           *)
ApplyAdjustmentToInvoice(w) ==
    /\ req[w].pc = "applyAdjustment"
    /\ LET i == req[w].inv
           a == req[w].adj
           amount == adjustments[a].amount
       IN IF Exists(i) /\ Adjustable(invoices[i], amount)
            THEN /\ invoices' = [invoices EXCEPT ![i] = Discounted(invoices[i], amount)]
                 /\ adjustments' = [adjustments EXCEPT ![a].state = "APPLIED"]
            ELSE UNCHANGED ledger
    /\ req' = [req EXCEPT ![w] = Idle]
    /\ UNCHANGED <<day, faults, calendar, tenants, subs, history, job>>

(* A statement of the generation fails and the request goes on.  A failing  *)
(* SELECT of a subscription, or of a term's invoice, is taken for its       *)
(* absence; any other ends the generation, or this tenant's turn of the     *)
(* bulk run.                                                                *)
GenerationFails(w) ==
    /\ faults < MaxFaults
    /\ faults' = faults + 1
    /\ \/ /\ req[w].pc = "nextTenant"
          /\ \E t \in req[w].todo :
               LET left == req[w].todo \ {t} IN
               \/ req' = [req EXCEPT ![w].todo = left]
               \/ \E m \in BillableTerms(t) :
                    req' = [req EXCEPT ![w] =
                              [pc |-> "countStudents", term |-> m, todo |-> left]]
       \/ /\ req[w].pc = "getSub"
          /\ req' = [req EXCEPT ![w].pc = "createSub"]
       \/ /\ req[w].pc = "countStudents"
          /\ req' = [req EXCEPT ![w] = [pc |-> "nextTenant", todo |-> req[w].todo]]
       \/ /\ req[w].pc \in {"createSub", "insert"}
          /\ GenerateReturns(w)
    /\ UNCHANGED <<day, calendar, tenants, subs, ledger, history, job>>

(* A statement of a request fails, the client goes away or the process      *)
(* dies: what has been written stays written.                               *)
RequestFails(w) ==
    /\ req[w] # Idle
    /\ faults < MaxFaults
    /\ faults' = faults + 1
    /\ req' = [req EXCEPT ![w] = Idle]
    /\ UNCHANGED <<day, calendar, tenants, subs, ledger, history, job>>

(***************************************************************************)
(* OverdueInvoiceJob.Run.  The scheduler never runs it twice at a time.     *)
(***************************************************************************)
jobUnchanged == <<day, calendar, adjustments, payments, req>>

(* The WHERE clause of MarkOverdueInvoices. *)
Markable(i) == invoices[i].status = "PENDING" /\ invoices[i].due < day

(* MarkOverdueInvoices *)
JobMark ==
    /\ job = Idle
    /\ invoices' = [i \in Invoices |->
          IF Markable(i)
            THEN [invoices[i] EXCEPT !.status = "OVERDUE"] ELSE invoices[i]]
    /\ job' = [pc |-> "list"]
    /\ UNCHANGED <<faults, tenants, subs, arrears, jobUnchanged>>

MutantOverdueRows == {i \in Invoices : Exists(i) /\ invoices[i].due < day} \* forgets the status
OverdueRows ==
    {i \in Invoices : Exists(i) /\ \/ invoices[i].status = "OVERDUE"
                                   \/ invoices[i].status = "PENDING" /\ invoices[i].due < day}

(* GetOverdueInvoices: ORDER BY due_date DESC LIMIT 100, the default order  *)
(* of ValidatePaginationParams.  The rows left out are those due longest    *)
(* ago.                                                                     *)
GetOverdueInvoices(page) ==
    /\ page \subseteq OverdueRows
    /\ Cardinality(page) = IF Cardinality(OverdueRows) < JobLimit
                             THEN Cardinality(OverdueRows) ELSE JobLimit
    /\ \A i \in page : \A k \in OverdueRows \ page : invoices[k].due <= invoices[i].due

(* History: what the tenants owed when the job read the table. *)
Arrears == {<<TenantOfTerm(invoices[i].term), DaysOverdue(day, invoices[i].due)>> :
              i \in {k \in Invoices : invoices[k].status \in {"PENDING", "OVERDUE"}}}

JobList ==
    /\ job.pc = "list"
    /\ \E page \in SUBSET OverdueRows :
         /\ GetOverdueInvoices(page)
         /\ job' = [pc |-> "next", now |-> day,
                    todo |-> {[inv |-> i, term |-> invoices[i].term,
                               due |-> invoices[i].due] : i \in page}]
    /\ arrears' = Arrears
    /\ UNCHANGED <<faults, tenants, subs, invoices, jobUnchanged>>

JobDone ==
    /\ job.pc = "next" /\ job.todo = {}
    /\ job' = Idle /\ arrears' = {}
    /\ UNCHANGED <<faults, tenants, subs, invoices, jobUnchanged>>

(* SubscriptionRepository.MarkAsOverdue *)
MarkAsOverdue(t) ==
    [s \in Sessions |-> IF TenantOf[s] = t /\ subs[s].status = "ACTIVE"
                          THEN [subs[s] EXCEPT !.status = "PAYMENT_OVERDUE"] ELSE subs[s]]

MutantPastGrace(item, now) == DaysOverdue(now, item.due) > GraceDays \* off by one
PastGrace(item, now) == DaysOverdue(now, item.due) >= GraceDays
PastSuspension(item, now) == DaysOverdue(now, item.due) >= SuspendDays

(* One turn of the loop, up to the choice of suspending.  A failing         *)
(* MarkAsOverdue is logged and the turn goes on.                            *)
JobNext ==
    /\ job.pc = "next"
    /\ \E x \in job.todo :
         LET left == job.todo \ {x} IN
         /\ \A y \in job.todo : y.due <= x.due
         /\ IF PastGrace(x, job.now)
              THEN \/ subs' = MarkAsOverdue(TenantOfTerm(x.term)) /\ UNCHANGED faults
                   \/ faults < MaxFaults /\ faults' = faults + 1 /\ UNCHANGED subs
              ELSE UNCHANGED <<subs, faults>>
         /\ job' = IF PastSuspension(x, job.now)
                     THEN [pc |-> "getByTenant", now |-> job.now, todo |-> left, item |-> x]
                     ELSE [job EXCEPT !.todo = left]
    /\ UNCHANGED <<tenants, invoices, arrears, jobUnchanged>>

JobContinues == [pc |-> "next", now |-> job.now, todo |-> job.todo]

(* SubscriptionRepository.GetByTenant: the latest one that is not cancelled *)
GetByTenant(t) ==
    Latest(subs, {s \in Sessions : TenantOf[s] = t /\ HasSub(s)
                                    /\ subs[s].status # "CANCELLED"})

JobGetByTenant ==
    /\ job.pc = "getByTenant"
    /\ LET t == TenantOfTerm(job.item.term) IN
       \/ /\ GetByTenant(t) = {}
          /\ job' = JobContinues
       \/ \E s \in GetByTenant(t) :
            job' = IF subs[s].status = "SUSPENDED" THEN JobContinues
                   ELSE [pc |-> "suspendSub", now |-> job.now, todo |-> job.todo,
                         item |-> job.item, session |-> s]
    /\ UNCHANGED <<faults, tenants, subs, invoices, arrears, jobUnchanged>>

(* SubscriptionRepository.Suspend, whatever the status has become *)
JobSuspendSub ==
    /\ job.pc = "suspendSub"
    /\ SetSubStatus(job.session, "SUSPENDED")
    /\ job' = [pc |-> "suspendTenant", now |-> job.now, todo |-> job.todo, item |-> job.item]
    /\ UNCHANGED <<faults, tenants, invoices, arrears, jobUnchanged>>

(* TenantRepository.Suspend; an already suspended tenant is left alone *)
JobSuspendTenant ==
    /\ job.pc = "suspendTenant"
    /\ tenants' = [tenants EXCEPT ![TenantOfTerm(job.item.term)] = "SUSPENDED"]
    /\ job' = JobContinues
    /\ UNCHANGED <<faults, subs, invoices, arrears, jobUnchanged>>

(* A statement of a turn fails and the job goes on with the next invoice. *)
JobStatementFails ==
    /\ job.pc \in {"getByTenant", "suspendSub", "suspendTenant"}
    /\ faults < MaxFaults
    /\ faults' = faults + 1
    /\ job' = JobContinues
    /\ UNCHANGED <<tenants, subs, invoices, arrears, jobUnchanged>>

(* The job's context is cancelled by Stop, the list cannot be read, or the  *)
(* process dies.                                                            *)
JobStops ==
    /\ job # Idle
    /\ faults < MaxFaults
    /\ faults' = faults + 1
    /\ job' = Idle /\ arrears' = {}
    /\ UNCHANGED <<tenants, subs, invoices, jobUnchanged>>

JobStep == JobMark \/ JobList \/ JobDone \/ JobNext \/ JobGetByTenant
           \/ JobSuspendSub \/ JobSuspendTenant

RequestStep(w) ==
    \/ \E m \in Terms : ActivateTerm(w, m)
    \/ GenerateInvoicesForActiveTerm(w)
    \/ BulkNextTenant(w)
    \/ BulkCountStudents(w)
    \/ GetSubscriptionOfSession(w)
    \/ CreateSubscription(w)
    \/ NumberInvoice(w)
    \/ CreateInvoice(w)
    \/ GenerationFails(w)
    \/ \E i \in Invoices : MarkInvoiceAsPaid(w, i)
    \/ \E i \in Invoices : DisputeInvoice(w, i)
    \/ \E i \in Invoices : VoidInvoice(w, i)
    \/ UpdateInvoice(w)
    \/ GetSubscriptionAfterPayment(w)
    \/ \E s \in Sessions : CancelSubscription(w, s)
    \/ \E s \in Sessions : ReactivateSubscription(w, s)
    \/ UpdateSubscription(w)
    \/ \E i \in Invoices, a \in Adjustments, type \in {"CREDIT", "CHARGE"}, n \in Amounts :
          ApplyBillingAdjustment(w, i, a, type, n)
    \/ ApplyAdjustmentToInvoice(w)
    \/ RequestFails(w)

Next ==
    \/ Tick
    \/ \E s \in Sessions, n \in 0..MaxStudents : EnrolmentChanges(s, n)
    \/ \E m \in Terms : DeleteTerm(m)
    \/ \E s \in Sessions : DeleteSession(s)
    \/ \E w \in Workers : RequestStep(w)
    \/ JobStep
    \/ JobStatementFails
    \/ JobStops

Spec == Init /\ [][Next]_vars

(* The scheduler's ticker runs the job again and again, and a run that is   *)
(* not interrupted finishes: it waits for nothing but the database.         *)
FairSpec == Spec /\ WF_vars(JobStep)

(***************************************************************************)
(* Properties                                                               *)
(***************************************************************************)

(* Every table row, request and job state has the shape the code gives it. *)
TypeOK ==
    /\ day \in 0..MaxDay
    /\ faults \in 0..MaxFaults
    /\ sessions \subseteq Sessions
    /\ terms \subseteq Terms
    /\ students \in [Sessions -> 0..MaxStudents]
    /\ tenants \in [Tenants -> TenantStatus]
    /\ subs \in [Sessions -> Subscription \cup {NoSub}]
    /\ invoices \in [Invoices -> Row \cup {NoRow, DeletedRow}]
    /\ adjustments \in [Adjustments -> Adjustment \cup {NoAdjustment}]
    /\ arrears \subseteq Tenants \X (0..MaxDay)
    /\ paid \subseteq Invoices /\ repaid \subseteq Invoices /\ crossed \subseteq Invoices
    /\ req \in [Workers -> Request]
    /\ job \in Job

(* However payments, disputes, voids and the overdue job interleave, the    *)
(* stored status and the stamps beside it tell one story: paid_at is set    *)
(* exactly on paid invoices, voided_at exactly on voided ones, and a        *)
(* disputed one has its dispute recorded.  It is why InvoiceRepository.     *)
(* Update must write all these columns in one statement.                    *)
Consistent(stamp) ==
    /\ stamp.status = "PAID" <=> stamp.paid
    /\ stamp.status = "VOIDED" <=> stamp.voided
    /\ stamp.status = "DISPUTED" => stamp.disputed

StampsMatchStatus ==
    \A i \in Invoices : Exists(i) => Consistent(StampsOf(invoices[i]))

(* An invoice charges its snapshot of the student count at the list price   *)
(* (BR-009, BR-010), and concurrent adjustments never take the total below  *)
(* zero nor above that price.                                               *)
AmountsAddUp ==
    \A i \in Invoices : Exists(i) =>
        /\ invoices[i].subtotal = invoices[i].students * Price
        /\ invoices[i].total = invoices[i].subtotal - invoices[i].discount
        /\ 0 <= invoices[i].discount /\ invoices[i].discount <= invoices[i].subtotal

(* The amounts of the credits whose UPDATE of invoice i has succeeded. *)
Credits(i) ==
    [a \in {x \in Adjustments : adjustments[x].state = "APPLIED" /\ adjustments[x].inv = i}
       |-> adjustments[a].amount]

(* No adjustment is lost or counted twice: an invoice's discount is the sum *)
(* of the credits whose UPDATE has succeeded, and only credits are applied. *)
DiscountMatchesLedger ==
    /\ \A i \in Invoices : Exists(i) => invoices[i].discount = SumFunction(Credits(i))
    /\ \A a \in Adjustments : adjustments[a].state = "APPLIED" => adjustments[a].type = "CREDIT"

(* What an invoice asks for is what was counted, priced and credited. *)
AmountsMatchLedger == AmountsAddUp /\ DiscountMatchesLedger

(* Tenant t had an unpaid invoice at least n days past its due date when    *)
(* the run of the job under way read the table.                             *)
OwedSince(t, n) == \E d \in 0..MaxDay : d >= n /\ <<t, d>> \in arrears

(* Nobody is chased without cause.  A subscription becomes PAYMENT_OVERDUE  *)
(* or SUSPENDED, and a tenant SUSPENDED, only in a run of the job at whose  *)
(* reading an invoice of that tenant was unpaid past the grace period, or   *)
(* past the suspension threshold: never for another tenant's invoice, nor   *)
(* for one paid, disputed, voided or deleted before.  A payment between the *)
(* reading and the sanction does not stop it.                               *)
SanctionsHaveCause ==
    [][/\ \A s \in Sessions : subs'[s].status # subs[s].status =>
            /\ subs'[s].status = "PAYMENT_OVERDUE" => OwedSince(TenantOf[s], GraceDays)
            /\ subs'[s].status = "SUSPENDED" => OwedSince(TenantOf[s], SuspendDays)
       /\ \A t \in Tenants : tenants'[t] # tenants[t] => OwedSince(t, SuspendDays)]_vars

(* A payment is taken once for an invoice: whatever is paid, disputed,      *)
(* voided, credited or marked overdue afterwards, no second payment is      *)
(* accepted for it - unless some write of the invoice met another request   *)
(* that had read it before and had its own write still to make.             *)
PaidOnce == repaid \subseteq crossed

(* The amounts of an invoice that is paid, disputed or voided are frozen:   *)
(* an adjustment that was recorded before cannot change them any more.      *)
SettledAmountsFrozen ==
    [][\A i \in Invoices : invoices[i].status \in {"PAID", "DISPUTED", "VOIDED"}
          => \/ invoices'[i] = DeletedRow
             \/ /\ invoices'[i].discount = invoices[i].discount
                /\ invoices'[i].total = invoices[i].total]_vars

Chased(i, n) ==
    /\ Exists(i)
    /\ invoices[i].status \in {"PENDING", "OVERDUE"}
    /\ DaysOverdue(day, invoices[i].due) >= n

(* Invoice i is on the page the job reads, whichever way rows due on the     *)
(* same day are ordered.                                                    *)
OnPage(i) == Cardinality({k \in OverdueRows \ {i} : invoices[k].due >= invoices[i].due}) < JobLimit

(* BR-011: as long as an invoice stays unpaid past the grace period, among  *)
(* the JobLimit overdue ones due last, the tenant's subscriptions keep      *)
(* being flagged: whatever reactivates them in between, and although a      *)
(* statement for this or another invoice may fail.  Those due longer ago    *)
(* than a whole page are never looked at.                                   *)
LateTenantsFlagged ==
    \A i \in Invoices :
        <>[](Chased(i, GraceDays) /\ OnPage(i)) =>
            []<>(\A s \in Sessions :
                    Exists(i) /\ TenantOf[s] = TenantOfTerm(invoices[i].term)
                        => subs[s].status # "ACTIVE")
=============================================================================
