---------------------------- MODULE RemindersProofs ----------------------------
(***************************************************************************)
(* Proofs about Reminders, for any table, any number of offsets, any        *)
(* interval and page, and whatever else happens to the table.               *)
(*                                                                          *)
(* The argument: runs that begin exactly an interval apart divide time      *)
(* without gap and overlap (Spaced, NoGap), so that one run has to do with  *)
(* an instant; and what a run has still to remind of is what it has not     *)
(* looked at or has listed (Ahead), never what was reminded of (Given), and *)
(* everything of its interval that was not (Kept).                          *)
(***************************************************************************)
EXTENDS Reminders, TLAPS

Covered(r, m) == Covers(r, m.offset, m.due)
Ahead(m) ==
    \/ job.pc = "list" /\ m.offset \in job.left
    \/ /\ job.pc = "send"
       /\ \/ m.offset \in job.left
          \/ m.offset = job.offset /\ [item |-> m.item, due |-> m.due] \in job.rows

JobInv ==
    /\ Running => job.at \in runs /\ \A r \in runs : r <= job.at
    /\ job.pc = "send" =>
         /\ job.offset \notin job.left
         /\ \A x \in job.rows : Covers(job.at, job.offset, x.due)

Spaced == \A r, q \in runs : r < q => r + Interval <= q
NoGap ==
    \A t \in Int : (\E r \in runs : r <= t) /\ (\E r \in runs : t < r + Interval)
                     => \E r \in runs : r <= t /\ t < r + Interval
Given ==
    \A m \in reminded :
      /\ \E r \in runs : Covered(r, m)
      /\ Running /\ Covered(job.at, m) => ~Ahead(m)
Kept ==
    \A m \in Reminder : m.due \in due[m.item] =>
      \A r \in runs : Covered(r, m) /\ since[m.item] < r =>
        m \in reminded \/ (Running /\ job.at = r /\ Ahead(m))

RunsInv == punctual => Spaced /\ NoGap /\ Given /\ ~again
Complete == flawless /\ Cardinality(Items) <= Limit => Kept

IInv == TypeOK /\ JobInv /\ RunsInv /\ Complete

(***************************************************************************)
(* Types of the parts                                                       *)
(***************************************************************************)
LEMMA JobShape ==
  ASSUME RemindersParameters, TypeOK
  PROVE  /\ job.pc = "list" => job \in Listing
         /\ job.pc = "send" => job \in Sending
         /\ Running => job.pc \in {"list", "send"} /\ job.at \in Time /\ job.left \subseteq Offsets
         /\ now \in Int /\ Time \subseteq Int /\ Offsets \subseteq Int /\ Interval \in Int
         /\ runs \subseteq Int /\ now \in Time /\ \A r \in runs : r <= now
         /\ Interval > 0
  BY DEF RemindersParameters, TypeOK, Idle, Listing, Sending, Running, Time

(* Two runs that cover one instant are one run. *)
LEMMA OneCovers ==
  ASSUME RemindersParameters, TypeOK, Spaced, NEW r \in runs, NEW q \in runs,
         NEW k \in Offsets, NEW d \in Time, Covers(r, k, d), Covers(q, k, d)
  PROVE  r = q
  BY JobShape DEF Spaced, Covers

(***************************************************************************)
(* Steps                                                                    *)
(***************************************************************************)
LEMMA BeginKeeps == ASSUME RemindersParameters, IInv, Begin PROVE IInv'
<1>1. /\ job.pc = "idle" /\ job' = [pc |-> "list", at |-> now, left |-> Offsets]
      /\ runs' = runs \cup {now} /\ punctual' = (punctual /\ OnTime)
      /\ UNCHANGED <<now, due, flawless, reminded, again, since>>
  BY DEF Begin, Running
<1>2. /\ now \in Int /\ Interval \in Int /\ Interval > 0 /\ runs \subseteq Int
      /\ \A r \in runs : r <= now
      /\ Offsets \subseteq Int /\ Time \subseteq Int
  BY JobShape DEF IInv
<1>3. TypeOK'
  BY <1>1 DEF IInv, TypeOK, Listing, Time
<1>4. JobInv'
  BY <1>1, <1>2 DEF JobInv, Running
<1>5. ASSUME punctual' PROVE Spaced' /\ NoGap' /\ Given' /\ ~again'
  <2>1. punctual /\ OnTime /\ Spaced /\ NoGap /\ Given /\ ~again
    BY <1>1, <1>5 DEF IInv, RunsInv
  <2>2. \A r \in runs : r + Interval <= now
    BY <1>2, <2>1 DEF OnTime
  <2>3. Spaced'
    BY <1>1, <1>2, <2>1, <2>2 DEF Spaced
  <2>4. NoGap'
    <3> SUFFICES ASSUME NEW t \in Int, \E r \in runs' : r <= t, \E r \in runs' : t < r + Interval
                 PROVE  \E r \in runs' : r <= t /\ t < r + Interval
      BY DEF NoGap
    <3>1. CASE now <= t
      <4>1. PICK r \in runs' : t < r + Interval
        OBVIOUS
      <4>2. r \in Int /\ r <= now
        BY <1>1, <1>2
      <4>3. t < now + Interval
        BY <1>2, <4>1, <4>2
      <4> QED
        BY <1>1, <3>1, <4>3
    <3>2. CASE t < now
      <4>1. PICK r \in runs : r <= t
        BY <1>1, <1>2, <3>2
      <4>2. now - Interval \in runs /\ t < (now - Interval) + Interval
        BY <1>2, <2>1, <3>2, <4>1 DEF OnTime
      <4> QED
        BY <1>1, <2>1, <4>1, <4>2 DEF NoGap
    <3> QED
      BY <1>2, <3>1, <3>2
  <2>5. Given'
    <3> SUFFICES ASSUME NEW m \in reminded
                 PROVE  (\E r \in runs' : Covered(r, m)') /\ ~Covered(now, m)
      BY <1>1 DEF Given, Covered, Covers
    <3>1. PICK r \in runs : Covered(r, m)
      BY <2>1 DEF Given
    <3>2. m.offset \in Int /\ m.due \in Int
      BY <1>2 DEF IInv, TypeOK, Reminder
    <3>3. r + Interval <= now
      BY <2>2
    <3>4. ~Covered(now, m)
      BY <1>2, <3>1, <3>2, <3>3 DEF Covered, Covers
    <3> QED
      BY <1>1, <3>1, <3>4 DEF Covered, Covers
  <2> QED
    BY <1>1, <2>1, <2>3, <2>4, <2>5
<1>6. ASSUME flawless', Cardinality(Items) <= Limit PROVE Kept'
  <2>1. Kept
    BY <1>1, <1>6 DEF IInv, Complete
  <2> SUFFICES ASSUME NEW m \in Reminder, m.due \in due[m.item], NEW r \in runs',
                      Covered(r, m), since[m.item] < r
               PROVE  m \in reminded \/ (r = now /\ m.offset \in Offsets)
    BY <1>1 DEF Kept, Covered, Covers, Running, Ahead
  <2>2. CASE r = now
    BY <2>2 DEF Reminder
  <2>3. CASE r \in runs
    BY <1>1, <2>1, <2>3 DEF Kept, Running
  <2> QED
    BY <1>1, <2>2, <2>3
<1> QED
  BY <1>3, <1>4, <1>5, <1>6 DEF IInv, RunsInv, Complete

(* A step of a run that leaves its times alone keeps what is said of them.  *)
LEMMA SameRuns ==
  ASSUME RemindersParameters, IInv, UNCHANGED <<runs, punctual>>
  PROVE  punctual' => Spaced' /\ NoGap'
  BY DEF IInv, RunsInv, Spaced, NoGap

(* A step that reminds of nothing and has no more ahead of it than before   *)
(* keeps Given.                                                             *)
LEMMA LessAhead ==
  ASSUME RemindersParameters, IInv, UNCHANGED <<runs, punctual, reminded, again>>,
         Running' => Running /\ job'.at = job.at,
         \A m \in Reminder : Running' /\ Covered(job.at, m) /\ Ahead(m)' => Ahead(m)
  PROVE  RunsInv'
<1> SUFFICES ASSUME punctual' PROVE Spaced' /\ NoGap' /\ Given' /\ ~again'
  BY DEF RunsInv
<1>1. Given /\ ~again
  BY DEF IInv, RunsInv
<1>2. Given'
  BY <1>1 DEF Given, Covered, Covers, IInv, TypeOK
<1> QED
  BY <1>1, <1>2, SameRuns

LEMMA ListKeeps == ASSUME RemindersParameters, IInv, NEW k \in Offsets, List(k) PROVE IInv'
<1> PICK rows \in SUBSET Due(k) :
      /\ FirstRows(rows, Due(k))
      /\ job' = [pc |-> "send", at |-> job.at, left |-> job.left \ {k}, offset |-> k,
                 rows |-> rows]
  BY DEF List
<1>1. /\ job.pc = "list" /\ k \in job.left
      /\ UNCHANGED <<now, due, history, reminded, again, since>>
  BY DEF List, IsNext
<1>2. Running /\ job \in Listing
  BY <1>1, JobShape DEF IInv, Running
<1>3. TypeOK'
  BY <1>1, <1>2 DEF IInv, TypeOK, Listing, Sending, Due, history
<1>4. JobInv'
  BY <1>1, <1>2 DEF IInv, JobInv, Running, Due, history
<1>5. \A m \in Reminder : Ahead(m)' => Ahead(m)
  BY <1>1 DEF Ahead
<1>6. RunsInv'
  BY <1>1, <1>2, <1>5, LessAhead DEF Running, history
<1>7. ASSUME flawless', Cardinality(Items) <= Limit PROVE Kept'
  <2>1. Kept
    BY <1>1, <1>7 DEF IInv, Complete, history
  <2>2. rows = Due(k)
    BY <1>7 DEF FirstRows
  <2> SUFFICES ASSUME NEW m \in Reminder, m.due \in due[m.item], NEW r \in runs,
                      Covered(r, m), since[m.item] < r, m \notin reminded
               PROVE  job.at = r /\ Ahead(m)'
    BY <1>1 DEF Kept, Covered, Covers, Running, history
  <2>3. job.at = r /\ m.offset \in job.left
    BY <1>1, <2>1 DEF Kept, Ahead
  <2>4. CASE m.offset = k
    <3>1. [item |-> m.item, due |-> m.due] \in Due(k)
      BY <2>3, <2>4 DEF Due, Row, Reminder, Covered
    <3> QED
      BY <2>2, <2>3, <2>4, <3>1 DEF Ahead
  <2> QED
    BY <2>3, <2>4 DEF Ahead
<1> QED
  BY <1>3, <1>4, <1>6, <1>7 DEF IInv, Complete

LEMMA FailuresKeep ==
  ASSUME RemindersParameters, IInv,
         \/ \E k \in Offsets : ListFails(k)
         \/ \E x \in job.rows : RemindFails(x)
         \/ CutShort
  PROVE  IInv'
<1>1. UNCHANGED <<now, due, runs, punctual, reminded, again, since>> /\ flawless' = FALSE
  BY DEF ListFails, RemindFails, CutShort
<1>2. Complete'
  BY <1>1 DEF Complete
<1>3. ASSUME NEW k \in Offsets, ListFails(k) PROVE TypeOK' /\ JobInv' /\ RunsInv'
  <2>1. job.pc = "list" /\ job \in Listing /\ Running
    BY <1>3, JobShape DEF ListFails, IInv, Running
  <2>2. job' = [job EXCEPT !.left = @ \ {k}]
    BY <1>3 DEF ListFails
  <2>3. job' \in Listing /\ job'.pc = "list" /\ job'.at = job.at /\ job'.left \subseteq job.left
    BY <2>1, <2>2 DEF Listing
  <2>4. \A m \in Reminder : Ahead(m)' => Ahead(m)
    BY <2>1, <2>3 DEF Ahead
  <2> QED
    BY <1>1, <2>1, <2>3, <2>4, LessAhead DEF IInv, TypeOK, JobInv, Running
<1>4. ASSUME NEW x \in job.rows, RemindFails(x) PROVE TypeOK' /\ JobInv' /\ RunsInv'
  <2>1. job.pc = "send" /\ job \in Sending /\ Running
    BY <1>4, JobShape DEF RemindFails, IInv, Running
  <2>2. job' = [job EXCEPT !.rows = @ \ {x}]
    BY <1>4 DEF RemindFails
  <2>3. /\ job' \in Sending /\ job'.pc = "send" /\ job'.at = job.at /\ job'.left = job.left
        /\ job'.offset = job.offset /\ job'.rows \subseteq job.rows
    BY <2>1, <2>2 DEF Sending
  <2>4. \A m \in Reminder : Ahead(m)' => Ahead(m)
    BY <2>1, <2>3 DEF Ahead
  <2> QED
    BY <1>1, <2>1, <2>3, <2>4, LessAhead DEF IInv, TypeOK, JobInv, Running, Covers
<1>5. ASSUME CutShort PROVE TypeOK' /\ JobInv' /\ RunsInv'
  <2>1. job' = Idle /\ ~Running' /\ job'.pc # "send"
    BY <1>5 DEF CutShort, Running, Idle
  <2> QED
    BY <1>1, <2>1, LessAhead DEF IInv, TypeOK, JobInv
<1> QED
  BY <1>2, <1>3, <1>4, <1>5 DEF IInv

LEMMA RemindKeeps ==
  ASSUME RemindersParameters, IInv, job.pc = "send", NEW x \in job.rows, Remind(x)
  PROVE  IInv'
<1> DEFINE m == [item |-> x.item, offset |-> job.offset, due |-> x.due]
<1>1. /\ reminded' = reminded \cup {m} /\ again' = (again \/ m \in reminded)
      /\ job' = [job EXCEPT !.rows = @ \ {x}]
      /\ UNCHANGED <<now, due, history, since>>
  BY DEF Remind
<1>2. job \in Sending /\ Running
  BY JobShape DEF IInv, Running
<1>3. /\ job' \in Sending /\ job'.pc = "send" /\ job'.at = job.at /\ job'.left = job.left
      /\ job'.offset = job.offset /\ job'.rows = job.rows \ {x}
  BY <1>1, <1>2 DEF Sending
<1>4. x \in Row /\ x = [item |-> m.item, due |-> m.due] /\ m \in Reminder /\ m.offset = job.offset
  BY <1>2 DEF Sending, Row, Reminder
<1>5. Ahead(m) /\ Covered(job.at, m) /\ job.at \in runs
  BY <1>2, <1>4 DEF Ahead, Covered, IInv, JobInv
<1>6. job.offset \notin job.left
  BY DEF IInv, JobInv
<1> HIDE DEF m
<1>7. TypeOK'
  BY <1>1, <1>3, <1>4 DEF IInv, TypeOK, history
<1>8. JobInv'
  BY <1>1, <1>2, <1>3 DEF IInv, JobInv, Running, Covers, history
<1>9. ASSUME punctual' PROVE Spaced' /\ NoGap' /\ Given' /\ ~again'
  <2>1. Given /\ ~again
    BY <1>1, <1>9 DEF IInv, RunsInv, history
  <2>2. m \notin reminded
    BY <1>2, <1>5, <2>1 DEF Given
  <2>3. Given'
    <3> SUFFICES ASSUME NEW n \in reminded'
                 PROVE  /\ \E r \in runs : Covered(r, n)
                        /\ Covered(job.at, n) => ~Ahead(n)'
      BY <1>1, <1>3 DEF Given, Covered, Covers, Running, history
    <3>1. CASE n = m
      BY <1>3, <1>4, <1>5, <1>6, <3>1 DEF Ahead
    <3>2. CASE n \in reminded
      BY <1>2, <1>3, <2>1, <3>2 DEF Given, Ahead
    <3> QED
      BY <1>1, <3>1, <3>2
  <2> QED
    BY <1>1, <1>9, <2>1, <2>2, <2>3, SameRuns DEF history
<1>10. ASSUME flawless', Cardinality(Items) <= Limit PROVE Kept'
  <2>1. Kept
    BY <1>1, <1>10 DEF IInv, Complete, history
  <2> SUFFICES ASSUME NEW n \in Reminder, n.due \in due[n.item], NEW r \in runs,
                      Covered(r, n), since[n.item] < r, n \notin reminded, n # m
               PROVE  job.at = r /\ Ahead(n)'
    BY <1>1, <1>3 DEF Kept, Covered, Covers, Running, history
  <2>2. job.at = r /\ Ahead(n)
    BY <2>1 DEF Kept
  <2>3. n.offset = job.offset => [item |-> n.item, due |-> n.due] # x
    BY <1>4 DEF Reminder, m
  <2> QED
    BY <1>3, <2>2, <2>3 DEF Ahead
<1> QED
  BY <1>7, <1>8, <1>9, <1>10 DEF IInv, RunsInv, Complete

(* A run that goes on to the next offset, or ends, has nothing less ahead.  *)
LEMMA GoesOnKeeps == ASSUME RemindersParameters, IInv, NextOffset \/ End PROVE IInv'
<1>1. UNCHANGED <<now, due, history, reminded, again, since>> /\ Running
  BY DEF NextOffset, End, Running
<1>2. CASE NextOffset
  <2>1. job.pc = "send" /\ job.rows = {} /\ job \in Sending
    BY <1>2, JobShape DEF NextOffset, IInv
  <2>2. job' = [pc |-> "list", at |-> job.at, left |-> job.left]
    BY <1>2 DEF NextOffset
  <2>3. \A m \in Reminder : Ahead(m)' <=> Ahead(m)
    BY <2>1, <2>2 DEF Ahead
  <2>4. TypeOK' /\ JobInv'
    BY <1>1, <2>1, <2>2 DEF IInv, TypeOK, JobInv, Running, Sending, Listing, history
  <2>5. RunsInv'
    BY <1>1, <2>2, <2>3, LessAhead DEF Running, history
  <2>6. Complete'
    BY <1>1, <2>2, <2>3 DEF IInv, Complete, Kept, Covered, Covers, Running, history
  <2> QED
    BY <2>4, <2>5, <2>6 DEF IInv
<1>3. CASE End
  <2>1. job.pc = "list" /\ job.left = {} /\ job' = Idle /\ ~Running' /\ job'.pc = "idle"
    BY <1>3 DEF End, Running, Idle
  <2>2. \A m \in Reminder : ~Ahead(m)
    BY <2>1 DEF Ahead
  <2>3. TypeOK' /\ JobInv'
    BY <1>1, <2>1 DEF IInv, TypeOK, JobInv, history
  <2>4. RunsInv'
    BY <1>1, <2>1, LessAhead DEF history
  <2>5. Complete'
    BY <1>1, <2>2 DEF IInv, Complete, Kept, Covered, Covers, history
  <2> QED
    BY <2>3, <2>4, <2>5 DEF IInv
<1> QED
  BY <1>2, <1>3

(* Whatever happens to the table: what changed was not due before. *)
LEMMA EnvironmentKeeps == ASSUME RemindersParameters, IInv, Environment PROVE IInv'
<1>1. /\ due' \in [Items -> Instant] /\ now' \in Time /\ now <= now'
      /\ since' = [i \in Items |-> IF due'[i] = due[i] THEN since[i] ELSE now]
      /\ UNCHANGED <<job, runs, punctual, flawless, reminded, again>>
  BY DEF Environment, Observe, reminderVars, history
<1>2. now \in Int /\ now' \in Int /\ \A r \in runs : r \in Int /\ r <= now
  BY <1>1, JobShape DEF IInv
<1>3. TypeOK'
  <2>1. runs' \subseteq 0..now'
    BY <1>1, <1>2 DEF RemindersParameters, IInv, TypeOK
  <2>2. since' \in [Items -> 0..now']
    BY <1>1, <1>2 DEF RemindersParameters, IInv, TypeOK, Time
  <2> QED
    BY <1>1, <2>1, <2>2 DEF IInv, TypeOK
<1>4. JobInv'
  BY <1>1 DEF IInv, JobInv, Running, Covers
<1>5. RunsInv'
  BY <1>1, LessAhead DEF Running, Ahead
<1>6. ASSUME flawless', Cardinality(Items) <= Limit PROVE Kept'
  <2>1. Kept
    BY <1>1, <1>6 DEF IInv, Complete
  <2> SUFFICES ASSUME NEW m \in Reminder, m.due \in due'[m.item], NEW r \in runs,
                      Covered(r, m), since'[m.item] < r
               PROVE  m \in reminded \/ (Running /\ job.at = r /\ Ahead(m))
    BY <1>1 DEF Kept, Covered, Covers, Running, Ahead
  <2>2. m.item \in Items
    BY DEF Reminder
  <2>3. due'[m.item] = due[m.item] /\ since'[m.item] = since[m.item]
    BY <1>1, <1>2, <2>2
  <2> QED
    BY <2>1, <2>3 DEF Kept
<1> QED
  BY <1>3, <1>4, <1>5, <1>6 DEF IInv, Complete

LEMMA InitInv == ASSUME RemindersParameters, Init PROVE IInv
<1>1. TypeOK
  <2>1. now \in Time /\ 0 \in 0..now
    BY DEF RemindersParameters, Init, Time
  <2>2. due \in [Items -> Instant]
    BY DEF Init, Instant
  <2>3. since \in [Items -> 0..now]
    BY <2>1 DEF Init
  <2> QED
    BY <2>1, <2>2, <2>3 DEF Init, TypeOK
<1>2. JobInv
  BY DEF Init, JobInv, Running, Idle
<1>3. RunsInv
  BY DEF Init, RunsInv, Spaced, NoGap, Given
<1>4. Complete
  BY DEF Init, Complete, Kept
<1> QED
  BY <1>1, <1>2, <1>3, <1>4 DEF IInv

LEMMA NextInv == ASSUME RemindersParameters, IInv, [Next]_vars PROVE IInv'
<1>1. CASE UNCHANGED vars
  BY <1>1 DEF vars, reminderVars, history, IInv, TypeOK, JobInv, RunsInv, Complete, Spaced, NoGap,
     Given, Kept, Running, Ahead, Covered, Covers
<1>2. CASE Begin
  BY <1>2, BeginKeeps
<1>3. CASE NextOffset \/ End
  BY <1>3, GoesOnKeeps
<1>4. CASE CutShort
  BY <1>4, FailuresKeep
<1>5. CASE \E k \in Offsets : List(k) \/ ListFails(k)
  BY <1>5, ListKeeps, FailuresKeep
<1>6. CASE job.pc = "send" /\ \E x \in job.rows : Remind(x) \/ RemindFails(x)
  BY <1>6, RemindKeeps, FailuresKeep
<1>7. CASE Environment
  BY <1>7, EnvironmentKeeps
<1> QED
  BY <1>1, <1>2, <1>3, <1>4, <1>5, <1>6, <1>7 DEF Next, Run

(* From the invariant to the property: between two runs an interval apart   *)
(* some run covers the instant, and what it covers was reminded of.         *)
LEMMA InvGivesOnce == ASSUME RemindersParameters, IInv PROVE RemindedOnce
<1> SUFFICES ASSUME punctual, flawless, Cardinality(Items) <= Limit,
                    NEW i \in Items, NEW k \in Offsets, NEW d \in due[i],
                    since[i] + Interval <= d - k, Past(d - k)
             PROVE  [item |-> i, offset |-> k, due |-> d] \in reminded
  BY DEF RemindedOnce, IInv, RunsInv
<1> DEFINE m == [item |-> i, offset |-> k, due |-> d]
<1>1. d \in Time /\ d \in Int /\ k \in Int /\ since[i] \in Int /\ d - k \in Int
  BY JobShape DEF IInv, TypeOK, Instant
<1>2. PICK r \in runs : r <= d - k /\ d - k < r + Interval
  BY <1>1 DEF Past, IInv, RunsInv, NoGap
<1>3. r \in Int /\ Interval \in Int
  BY JobShape DEF IInv
<1>4. Covered(r, m) /\ since[i] < r
  BY <1>1, <1>2, <1>3 DEF Covered, Covers
<1>5. m \in Reminder
  BY <1>1 DEF Reminder
<1>6. ~(Running /\ job.at = r)
  <2>1. Running => job.at \in Int
    BY JobShape DEF IInv
  <2> QED
    BY <1>1, <1>2, <1>3, <2>1 DEF Past
<1>7. m.due \in due[m.item] /\ since[m.item] < r
  BY <1>4
<1>8. Kept
  BY DEF IInv, Complete
<1> HIDE DEF m
<1> QED
  BY <1>4, <1>5, <1>6, <1>7, <1>8 DEF Kept, m

(***************************************************************************)
(* The theorems                                                             *)
(***************************************************************************)
(* The invariant holds in every reachable state. *)
THEOREM Inductive == ASSUME RemindersParameters PROVE Spec => []IInv
  BY InitInv, NextInv, PTL DEF Spec

(* Each reminder comes once as long as runs are an interval apart           *)
(* (MeetingReminderJob.Run, DeadlineReminderJob.Run).                       *)
THEOREM RemindedExactlyOnce == ASSUME RemindersParameters PROVE Spec => []RemindedOnce
  BY Inductive, InvGivesOnce, PTL
==============================================================================
