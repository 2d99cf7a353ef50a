------------------------------- MODULE Reminders -------------------------------
(***************************************************************************)
(* The loop that two jobs of the scheduler share:                           *)
(*   internal/scheduler/jobs/meeting_reminder_job.go                        *)
(*   internal/scheduler/jobs/deadline_reminder_job.go                       *)
(*                                                                          *)
(* It reminds of each thing that is due, some fixed times before.  It has   *)
(* no memory: a run looks, for each of those times, at what is due within   *)
(* one interval, and the next run, an interval later, at what comes then.   *)
(* The table it reads is another module's, which puts due in its place.     *)
(***************************************************************************)
EXTENDS Integers, FiniteSets

CONSTANTS
    Items,      \* rows of the table
    Offsets,    \* reminderMinutes, reminderHours
    Interval,   \* between two ticks
    Limit,      \* rows a query returns at most
    MaxTime     \* bound: of the clock

Time == 0..MaxTime

(* Whoever instantiates the module assumes this of the parameters. *)
RemindersParameters ==
    /\ Offsets \subseteq Nat \ {0}
    /\ Interval \in Nat \ {0} /\ Limit \in Nat /\ MaxTime \in Nat

VARIABLES
    now,
    due,        \* due[i]: when i is due, a set of one instant; none if the job
                \* need not remind of it
    job,        \* the run under way
    runs,       \* history: when runs began
    punctual,   \* history: they began exactly an interval apart
    flawless,   \* history: no statement of a run failed, none was cut short
    reminded,   \* the reminders given
    again,      \* history: one was given a second time
    since       \* history: when due[i] last changed

history == <<runs, punctual, flawless>>
reminderVars == <<job, history, reminded, again>>
vars == <<now, due, reminderVars, since>>

Reminder == [item: Items, offset: Offsets, due: Time]
Row == [item: Items, due: Time]

Idle == [pc |-> "idle"]
Listing == [pc: {"list"}, at: Time, left: SUBSET Offsets]
Sending == [pc: {"send"}, at: Time, left: SUBSET Offsets, offset: Offsets, rows: SUBSET Row]
Running == job.pc # "idle"

Init ==
    /\ now = 0
    /\ due = [i \in Items |-> {}]
    /\ job = Idle
    /\ runs = {} /\ punctual = TRUE /\ flawless = TRUE
    /\ reminded = {} /\ again = FALSE
    /\ since = [i \in Items |-> 0]

(***************************************************************************)
(* The run                                                                  *)
(***************************************************************************)
(* now := time.Now(), once for all of the run.  A tick may be late or lost; *)
(* a restart and RunJobNow run the job between two.                         *)
OnTime == runs # {} => now - Interval \in runs /\ \A r \in runs : r <= now - Interval
Begin ==
    /\ ~Running
    /\ job' = [pc |-> "list", at |-> now, left |-> Offsets]
    /\ runs' = runs \cup {now}
    /\ punctual' = (punctual /\ OnTime)
    /\ UNCHANGED <<now, due, flawless, reminded, again, since>>

(* The longest time first.  >= windowStart AND < windowEnd. *)
IsNext(k) == k \in job.left /\ \A l \in job.left : l <= k
MutantCovers(r, k, d) == r + k <= d /\ d <= r + k + Interval \* both ends
Covers(r, k, d) == r + k <= d /\ d < r + k + Interval
Due(k) == {x \in Row : x.due \in due[x.item] /\ Covers(job.at, k, x.due)}

(* ORDER BY the instant DESC LIMIT.  Rows that need no reminder take room   *)
(* too: only a page that holds the whole table leaves none out.             *)
FirstRows(rows, all) ==
    /\ rows \subseteq all /\ Cardinality(rows) <= Limit
    /\ Cardinality(Items) <= Limit => rows = all
    /\ \A x \in rows, y \in all \ rows : y.due <= x.due

List(k) ==
    /\ job.pc = "list" /\ IsNext(k)
    /\ \E rows \in SUBSET Due(k) :
         /\ FirstRows(rows, Due(k))
         /\ job' = [pc |-> "send", at |-> job.at, left |-> job.left \ {k}, offset |-> k,
                    rows |-> rows]
    /\ UNCHANGED <<now, due, history, reminded, again, since>>

(* A query that fails is logged; the loop goes on. *)
ListFails(k) ==
    /\ job.pc = "list" /\ IsNext(k)
    /\ job' = [job EXCEPT !.left = @ \ {k}]
    /\ flawless' = FALSE
    /\ UNCHANGED <<now, due, runs, punctual, reminded, again, since>>

(* The notifications of everybody in the class, on what the list said. *)
Remind(x) ==
    /\ job.pc = "send" /\ x \in job.rows
    /\ LET m == [item |-> x.item, offset |-> job.offset, due |-> x.due]
       IN  /\ reminded' = reminded \cup {m}
           /\ again' = (again \/ m \in reminded)
    /\ job' = [job EXCEPT !.rows = @ \ {x}]
    /\ UNCHANGED <<now, due, history, since>>

(* The class cannot be read, or the row of somebody not be written. *)
RemindFails(x) ==
    /\ job.pc = "send" /\ x \in job.rows
    /\ job' = [job EXCEPT !.rows = @ \ {x}]
    /\ flawless' = FALSE
    /\ UNCHANGED <<now, due, runs, punctual, reminded, again, since>>

(* The clock is read again. *)
MutantNextOffset ==
    /\ job.pc = "send" /\ job.rows = {}
    /\ job' = [pc |-> "list", at |-> now, left |-> job.left]
    /\ UNCHANGED <<now, due, history, reminded, again, since>>

NextOffset ==
    /\ job.pc = "send" /\ job.rows = {}
    /\ job' = [pc |-> "list", at |-> job.at, left |-> job.left]
    /\ UNCHANGED <<now, due, history, reminded, again, since>>

End ==
    /\ job.pc = "list" /\ job.left = {}
    /\ job' = Idle
    /\ UNCHANGED <<now, due, history, reminded, again, since>>

(* The scheduler's context is done, or the process ends. *)
CutShort ==
    /\ Running
    /\ job' = Idle
    /\ flawless' = FALSE
    /\ UNCHANGED <<now, due, runs, punctual, reminded, again, since>>

Run ==
    \/ Begin \/ NextOffset \/ End \/ CutShort
    \/ \E k \in Offsets : List(k) \/ ListFails(k)
    \/ Running /\ job.pc = "send" /\ \E x \in job.rows : Remind(x) \/ RemindFails(x)

(***************************************************************************)
(* Everything else                                                          *)
(***************************************************************************)
Observe ==
    /\ since' = [i \in Items |-> IF due'[i] = due[i] THEN since[i] ELSE now]
    /\ UNCHANGED reminderVars

Instant == {{}} \cup {{d} : d \in Time}
Environment ==
    /\ due' \in [Items -> Instant]
    /\ now' \in {t \in Time : now <= t}
    /\ Observe

Next == Run \/ Environment

Spec == Init /\ [][Next]_vars

(***************************************************************************)
(* Properties                                                               *)
(***************************************************************************)
TypeOK ==
    /\ now \in Time /\ due \in [Items -> Instant]
    /\ job \in {Idle} \cup Listing \cup Sending
    /\ runs \subseteq 0..now
    /\ punctual \in BOOLEAN /\ flawless \in BOOLEAN /\ again \in BOOLEAN
    /\ reminded \subseteq Reminder
    /\ since \in [Items -> 0..now]

(* A run has looked at the interval that instant t is in, and is over.      *)
Past(t) ==
    /\ \E r \in runs : r <= t
    /\ \E r \in runs : t < r + Interval
    /\ Running => t < job.at

(* As long as runs come exactly an interval apart each reminder comes once: *)
(* never twice, and, when nothing failed and the table had room in a page,  *)
(* not left out for anything that was due for an interval before.           *)
RemindedOnce ==
    punctual =>
      /\ ~again
      /\ flawless /\ Cardinality(Items) <= Limit =>
           \A i \in Items, k \in Offsets : \A d \in due[i] :
             since[i] + Interval <= d - k /\ Past(d - k) =>
               [item |-> i, offset |-> k, due |-> d] \in reminded
==============================================================================
