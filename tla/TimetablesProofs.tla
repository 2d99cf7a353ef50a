-------------------------- MODULE TimetablesProofs --------------------------
(* Safety of Timetables.  Under any number of racing requests: what stays     *)
(* true of swap requests and archived timetables, and the types of every row *)
(* and request.  One request at a time: which timetable is in use, what the   *)
(* generator returns and that swaps lose no lesson.                          *)
EXTENDS Timetables, FiniteSetTheorems, TLAPS

(* A row is a record that has a status. *)
HasStatus(row) == "status" \in DOMAIN row

(* Both tables with a status are functions to such rows, and a timetable is   *)
(* only created under an identifier that is not in use.                       *)
RowsOK ==
    /\ timetables = [t \in Timetables |-> timetables[t]]
    /\ swaps = [s \in Swaps |-> swaps[s]]
    /\ \A t \in Timetables : HasStatus(timetables[t])
    /\ \A s \in Swaps : HasStatus(swaps[s])
    /\ performed \in [Swaps -> 0..2]

(* The swap that a request is about to carry out is one of the table. *)
ReqOK ==
    /\ req = [w \in Workers |-> req[w]]
    /\ \A w \in Workers :
         /\ req[w].pc \in {"readFirst", "readSecond", "swap", "updateSwap"} =>
              req[w].swap \in Swaps
         /\ req[w].pc = "updateSwap" => req[w].status # "APPROVED"

Inv == RowsOK /\ ReqOK

LEMMA StatusSet ==
    ASSUME NEW row, HasStatus(row), NEW st
    PROVE  /\ HasStatus([row EXCEPT !.status = st])
           /\ [row EXCEPT !.status = st].status = st
  BY DEF HasStatus

LEMMA ArchivedRows ==
    ASSUME RowsOK, NEW old
    PROVE  /\ Archived(old) = [t \in Timetables |-> Archived(old)[t]]
           /\ \A t \in Timetables :
                /\ HasStatus(Archived(old)[t])
                /\ timetables[t].status = "ARCHIVED" => Archived(old)[t].status = "ARCHIVED"
  BY StatusSet DEF RowsOK, Archived

LEMMA InitInv == Init => Inv
<1> SUFFICES ASSUME Init PROVE Inv
  OBVIOUS
<1>1. /\ "status" \in DOMAIN NoTimetable
      /\ "status" \in DOMAIN NoSwap /\ NoSwap.status # "APPROVED"
  BY DEF NoTimetable, NoSwap, None
<1>2. RowsOK
  BY <1>1 DEF Init, RowsOK, HasStatus
<1>3. ReqOK
  BY DEF Init, ReqOK, Idle
<1> QED
  BY <1>2, <1>3 DEF Inv

(***************************************************************************)
(* What most steps do: change one request, and no row                       *)
(***************************************************************************)
Carried(r) ==
    /\ r.pc \in {"readFirst", "readSecond", "swap", "updateSwap"} => r.swap \in Swaps
    /\ r.pc = "updateSwap" => r.status # "APPROVED"

Rows == <<timetables, swaps, performed>>

LEMMA BecomeOK ==
    ASSUME ReqOK, NEW w \in Workers, NEW r, Become(w, r), Carried(r)
    PROVE  ReqOK'
<1>1. req' = [v \in Workers |-> IF v = w THEN r ELSE req[v]]
  BY DEF ReqOK, Become
<1>2. \A v \in Workers : Carried(req[v])
  BY DEF ReqOK, Carried
<1>3. \A v \in Workers : Carried(req'[v])
  BY <1>1, <1>2
<1> QED
  BY <1>1, <1>3 DEF ReqOK, Carried

LEMMA FinishOK ==
    ASSUME ReqOK, NEW w \in Workers, Finish(w)
    PROVE  ReqOK'
<1>1. Carried(Idle)
  BY DEF Carried, Idle
<1> QED
  BY <1>1, BecomeOK DEF Finish

LEMMA RowsStay ==
    ASSUME RowsOK, UNCHANGED Rows
    PROVE  RowsOK'
  BY DEF Rows, RowsOK

(* An archived row is not touched, whatever else the step writes. *)
Archives == \A t \in Timetables : timetables[t].status = "ARCHIVED"
                                     => timetables'[t].status = "ARCHIVED"

LEMMA ArchiveStays ==
    ASSUME UNCHANGED Rows
    PROVE  Archives
  BY DEF Rows, Archives

(***************************************************************************)
(* The steps that write rows                                                *)
(***************************************************************************)
LEMMA CommitStep ==
    ASSUME Inv, NEW w \in Workers, CommitTimetable(w)
    PROVE  Inv' /\ Archives
<1> DEFINE r == req[w]
           fresh == {t \in Timetables : timetables[t] = NoTimetable}
<1>1. ReqOK'
  BY FinishOK DEF Inv, CommitTimetable
<1>2. CASE InsertAllowed(r.week, r.old) /\ fresh # {}
  <2>1. PICK t \in fresh :
          timetables' = [Archived(r.old) EXCEPT ![t] =
             [class |-> r.class, term |-> r.term, status |-> "DRAFT", version |-> r.version]]
    BY <1>2 DEF CommitTimetable
  <2>2. swaps' = Cascade(r.old) /\ performed' = performed
    BY <1>2 DEF CommitTimetable
  <2>3. timetables[t].status # "ARCHIVED"
    BY DEF NoTimetable, None
  <2>4. /\ Archived(r.old) = [u \in Timetables |-> Archived(r.old)[u]]
        /\ \A u \in Timetables :
             /\ HasStatus(Archived(r.old)[u])
             /\ timetables[u].status = "ARCHIVED" => Archived(r.old)[u].status = "ARCHIVED"
    BY ArchivedRows DEF Inv
  <2>5. HasStatus([class |-> r.class, term |-> r.term, status |-> "DRAFT", version |-> r.version])
    BY DEF HasStatus
  <2>6. /\ timetables' = [u \in Timetables |-> timetables'[u]]
        /\ \A u \in Timetables : HasStatus(timetables'[u])
    BY <2>1, <2>4, <2>5
  <2>7. Archives
    BY <2>1, <2>3, <2>4 DEF Archives
  <2>8. /\ swaps' = [s \in Swaps |-> swaps'[s]]
        /\ \A s \in Swaps : swaps'[s] = swaps[s] \/ swaps'[s] = DeletedSwap
    BY <2>2 DEF Cascade
  <2>9. HasStatus(DeletedSwap)
    BY DEF HasStatus, DeletedSwap
  <2>10. RowsOK'
    BY <2>2, <2>6, <2>8, <2>9 DEF Inv, RowsOK
  <2> QED
    BY <1>1, <2>7, <2>10 DEF Inv
<1>3. CASE ~(InsertAllowed(r.week, r.old) /\ fresh # {})
  <2>1. UNCHANGED Rows
    BY <1>3 DEF CommitTimetable, Rows, plans
  <2> QED
    BY <1>1, <2>1, RowsStay, ArchiveStays DEF Inv
<1> QED
  BY <1>2, <1>3

LEMMA PublishStep ==
    ASSUME Inv, NEW w \in Workers, Publish(w)
    PROVE  Inv' /\ Archives
<1> DEFINE id == req[w].id
           old == req[w].old
<1>1. ReqOK' /\ UNCHANGED <<swaps, performed>>
  BY FinishOK DEF Inv, Publish
<1>2. /\ Archived(old) = [u \in Timetables |-> Archived(old)[u]]
      /\ \A u \in Timetables :
           /\ HasStatus(Archived(old)[u])
           /\ timetables[u].status = "ARCHIVED" => Archived(old)[u].status = "ARCHIVED"
  BY ArchivedRows DEF Inv
<1>3. CASE Publishable(id)
  <2>1. timetables' = [u \in Timetables |-> IF u = id
                        THEN [Archived(old)[u] EXCEPT !.status = "PUBLISHED"]
                        ELSE Archived(old)[u]]
    BY <1>2, <1>3 DEF Publish
  <2>2. \A u \in Timetables : HasStatus(timetables'[u])
    BY <1>2, <2>1, StatusSet
  <2>3. Archives
    BY <1>2, <1>3, <2>1 DEF Archives, Publishable
  <2>4. RowsOK'
    BY <1>1, <2>1, <2>2 DEF Inv, RowsOK
  <2> QED
    BY <1>1, <2>3, <2>4 DEF Inv
<1>4. CASE ~Publishable(id)
  <2>1. UNCHANGED Rows
    BY <1>1, <1>4 DEF Publish, Rows
  <2> QED
    BY <1>1, <2>1, RowsStay, ArchiveStays DEF Inv
<1> QED
  BY <1>3, <1>4

LEMMA InsertSwapStep ==
    ASSUME Inv, NEW w \in Workers, InsertSwap(w)
    PROVE  Inv' /\ Archives
<1> DEFINE r == req[w]
<1>1. ReqOK' /\ UNCHANGED <<timetables, performed>>
  BY FinishOK DEF Inv, InsertSwap
<1>2. CASE UNCHANGED swaps
  <2>1. UNCHANGED Rows
    BY <1>1, <1>2 DEF Rows
  <2> QED
    BY <1>1, <2>1, RowsStay, ArchiveStays DEF Inv
<1>3. CASE ~UNCHANGED swaps
  <2>1. PICK s \in Swaps :
          swaps' = [swaps EXCEPT ![s] =
             [status |-> "PENDING", from |-> r.from, to |-> r.to,
              fromTutor |-> r.fromTutor, toTutor |-> r.toTutor]]
    BY <1>3 DEF InsertSwap
  <2> DEFINE row == [status |-> "PENDING", from |-> r.from, to |-> r.to,
                     fromTutor |-> r.fromTutor, toTutor |-> r.toTutor]
  <2>2. HasStatus(row)
    BY DEF HasStatus
  <2>3. swaps' = [q \in Swaps |-> IF q = s THEN row ELSE swaps[q]]
    BY <2>1 DEF Inv, RowsOK
  <2> HIDE DEF row
  <2>4. RowsOK'
    BY <1>1, <2>2, <2>3 DEF Inv, RowsOK
  <2> QED
    BY <1>1, <2>4 DEF Inv, Archives
<1> QED
  BY <1>2, <1>3

LEMMA UpdateSwapStep ==
    ASSUME Inv, NEW w \in Workers, UpdateSwapRequest(w)
    PROVE  Inv' /\ Archives
<1> DEFINE s == req[w].swap
           st == req[w].status
<1>1. ReqOK' /\ UNCHANGED <<timetables, performed>>
  BY FinishOK DEF Inv, UpdateSwapRequest
<1>3. CASE UNCHANGED swaps
  <2>1. UNCHANGED Rows
    BY <1>1, <1>3 DEF Rows
  <2> QED
    BY <1>1, <2>1, RowsStay, ArchiveStays DEF Inv
<1>4. CASE ~UNCHANGED swaps
  <2>1. swaps' = [q \in Swaps |-> IF q = s THEN [swaps[q] EXCEPT !.status = st] ELSE swaps[q]]
    BY <1>4 DEF Inv, RowsOK, UpdateSwapRequest
  <2>2. \A q \in Swaps : /\ HasStatus(swaps'[q])
                          /\ swaps'[q].status \in {swaps[q].status, st}
    BY <2>1, StatusSet DEF Inv, RowsOK
  <2>3. RowsOK'
    BY <1>1, <2>1, <2>2 DEF Inv, RowsOK
  <2> QED
    BY <1>1, <2>3 DEF Inv, Archives
<1> QED
  BY <1>3, <1>4

LEMMA SwapStep ==
    ASSUME Inv, NEW w \in Workers, SwapPeriods(w)
    PROVE  Inv' /\ Archives
<1> DEFINE s == req[w].swap
<1>1. ReqOK' /\ UNCHANGED timetables
  BY FinishOK DEF Inv, SwapPeriods
<1>2. s \in Swaps
  BY DEF Inv, ReqOK, SwapPeriods
<1>3. CASE UNCHANGED <<swaps, performed>>
  <2>1. UNCHANGED Rows
    BY <1>1, <1>3 DEF Rows
  <2> QED
    BY <1>1, <2>1, RowsStay, ArchiveStays DEF Inv
<1>4. CASE ~UNCHANGED <<swaps, performed>>
  <2>1. /\ swaps' = [swaps EXCEPT ![s].status = "APPROVED"]
        /\ performed' = [performed EXCEPT ![s] = IF @ < 2 THEN @ + 1 ELSE @]
    BY <1>4 DEF SwapPeriods
  <2>2. swaps' = [q \in Swaps |-> IF q = s THEN [swaps[q] EXCEPT !.status = "APPROVED"]
                                  ELSE swaps[q]]
    BY <2>1 DEF Inv, RowsOK
  <2>3. /\ swaps' = [q \in Swaps |-> swaps'[q]]
        /\ \A q \in Swaps : HasStatus(swaps'[q])
        /\ \A q \in Swaps : q # s => swaps'[q] = swaps[q]
    BY <2>2, StatusSet DEF Inv, RowsOK
  <2>4. performed' \in [Swaps -> 0..2]
    BY <1>2, <2>1 DEF Inv, RowsOK
  <2>5. RowsOK'
    BY <1>1, <2>3, <2>4 DEF Inv, RowsOK
  <2> QED
    BY <1>1, <2>5 DEF Inv, Archives
<1> QED
  BY <1>3, <1>4

(***************************************************************************)
(* The steps that only read                                                 *)
(***************************************************************************)
LEMMA ReadStep ==
    ASSUME Inv, NEW w \in Workers, UNCHANGED Rows,
           \/ Finish(w)
           \/ \E r : Become(w, r) /\ Carried(r)
    PROVE  Inv' /\ Archives
<1>1. ReqOK'
  BY FinishOK, BecomeOK DEF Inv
<1> QED
  BY <1>1, RowsStay, ArchiveStays DEF Inv

LEMMA GenerateStep ==
    ASSUME Inv, NEW w \in Workers, NEW cl, NEW tm, NEW cfg, GenerateTimetable(w, cl, tm, cfg)
    PROVE  Inv' /\ Archives
<1>1. PICK old, version : Become(w, Plan(cl, tm, cfg, old, version))
  BY DEF GenerateTimetable
<1>2. Carried(Plan(cl, tm, cfg, old, version))
  BY DEF Carried, Plan
<1>3. UNCHANGED Rows
  BY DEF GenerateTimetable, tables, plans, Rows
<1> QED
  BY <1>1, <1>2, <1>3, ReadStep

LEMMA PlanStep ==
    ASSUME Inv, NEW w \in Workers, PlanPeriods(w)
    PROVE  Inv' /\ Archives
<1> DEFINE r == req[w]
           planned(week) == [pc |-> "commit", class |-> r.class, term |-> r.term, cfg |-> r.cfg,
                             tutors |-> r.tutors, old |-> r.old, version |-> r.version,
                             week |-> week]
<1>1. PICK week : Become(w, planned(week))
  BY DEF PlanPeriods
<1>2. Carried(planned(week))
  BY DEF Carried
<1>3. UNCHANGED Rows
  BY DEF PlanPeriods, tables, plans, Rows
<1> QED
  BY <1>1, <1>2, <1>3, ReadStep

LEMMA FindPublishedStep ==
    ASSUME Inv, NEW w \in Workers, GetPublishedTimetable(w)
    PROVE  Inv' /\ Archives
<1>1. PICK old : Become(w, [pc |-> "publish", id |-> req[w].id, old |-> old])
  BY DEF GetPublishedTimetable
<1>2. Carried([pc |-> "publish", id |-> req[w].id, old |-> old])
  BY DEF Carried
<1>3. UNCHANGED Rows
  BY DEF GetPublishedTimetable, tables, plans, Rows
<1> QED
  BY <1>1, <1>2, <1>3, ReadStep

LEMMA RequestSwapStep ==
    ASSUME Inv, NEW w \in Workers,
           \/ \E t : PublishTimetable(w, t)
           \/ \E key : CreateSwapRequest(w, key)
           \/ GetTargetPeriod(w)
           \/ HasPendingRequest(w)
    PROVE  Inv' /\ Archives
<1>1. UNCHANGED Rows
  BY DEF PublishTimetable, CreateSwapRequest, GetTargetPeriod, HasPendingRequest,
         tables, plans, Rows
<1>2. CASE \E t : PublishTimetable(w, t)
  <2>1. PICK t : Become(w, [pc |-> "findPublished", id |-> t])
    BY <1>2 DEF PublishTimetable
  <2>2. Carried([pc |-> "findPublished", id |-> t])
    BY DEF Carried
  <2> QED
    BY <1>1, <2>1, <2>2, ReadStep
<1>3. CASE \E key : CreateSwapRequest(w, key)
  <2>1. PICK key : Become(w, [pc |-> "readTarget", from |-> key, mine |-> At(key)])
    BY <1>3 DEF CreateSwapRequest
  <2>2. Carried([pc |-> "readTarget", from |-> key, mine |-> At(key)])
    BY DEF Carried
  <2> QED
    BY <1>1, <2>1, <2>2, ReadStep
<1>4. CASE GetTargetPeriod(w)
  <2> DEFINE next(to) == [pc |-> "hasPending", from |-> req[w].from, to |-> to,
                          fromTutor |-> req[w].mine.tutor, toTutor |-> At(to).tutor]
  <2>1. PICK to : Finish(w) \/ Become(w, next(to))
    BY <1>4 DEF GetTargetPeriod
  <2>2. Carried(next(to))
    BY DEF Carried
  <2> HIDE DEF next
  <2> QED
    BY <1>1, <2>1, <2>2, ReadStep
<1>5. CASE HasPendingRequest(w)
  <2>1. Finish(w) \/ Become(w, [req[w] EXCEPT !.pc = "insertSwap"])
    BY <1>5 DEF HasPendingRequest
  <2>2. Carried([req[w] EXCEPT !.pc = "insertSwap"])
    BY <1>5 DEF HasPendingRequest, Carried, Inv, ReqOK
  <2> QED
    BY <1>1, <2>1, <2>2, ReadStep
<1> QED
  BY <1>2, <1>3, <1>4, <1>5

LEMMA AnswerStep ==
    ASSUME Inv, NEW w \in Workers, NEW s \in Swaps,
           \/ RejectSwapRequest(w, s) \/ EscalateSwapRequest(w, s) \/ CancelSwapRequest(w, s)
    PROVE  Inv' /\ Archives
<1>1. PICK st \in {"REJECTED", "ESCALATED", "CANCELLED"} : Answer(w, s, st)
  BY DEF RejectSwapRequest, EscalateSwapRequest, CancelSwapRequest
<1>2. Become(w, [pc |-> "updateSwap", swap |-> s, status |-> st]) /\ UNCHANGED Rows
  BY <1>1 DEF Answer, tables, plans, Rows
<1>3. Carried([pc |-> "updateSwap", swap |-> s, status |-> st])
  BY <1>1 DEF Carried
<1> QED
  BY <1>2, <1>3, ReadStep

LEMMA ApproveStep ==
    ASSUME Inv, NEW w \in Workers, NEW s \in Swaps,
           ApproveSwapRequest(w, s) \/ AdminOverrideSwapRequest(w, s)
    PROVE  Inv' /\ Archives
<1>1. PICK admin \in BOOLEAN : Become(w, [pc |-> "readFirst", swap |-> s, admin |-> admin])
  BY DEF ApproveSwapRequest, AdminOverrideSwapRequest
<1>2. Carried([pc |-> "readFirst", swap |-> s, admin |-> admin])
  BY DEF Carried
<1>3. UNCHANGED Rows
  BY DEF ApproveSwapRequest, AdminOverrideSwapRequest, tables, plans, Rows
<1> QED
  BY <1>1, <1>2, <1>3, ReadStep

LEMMA ReadPeriodStep ==
    ASSUME Inv, NEW w \in Workers, GetFirstPeriod(w) \/ GetSecondPeriod(w)
    PROVE  Inv' /\ Archives
<1> DEFINE r == req[w]
           one == [pc |-> "readSecond", swap |-> r.swap, admin |-> r.admin,
                   first |-> At(FirstKey(r.swap))]
           two == [pc |-> "swap", swap |-> r.swap, admin |-> r.admin, first |-> r.first,
                   second |-> At(swaps[r.swap].to)]
<1>1. r.swap \in Swaps
  BY DEF GetFirstPeriod, GetSecondPeriod, Inv, ReqOK
<1>2. Finish(w) \/ Become(w, one) \/ Become(w, two)
  BY DEF GetFirstPeriod, GetSecondPeriod
<1>3. Carried(one) /\ Carried(two)
  BY <1>1 DEF Carried
<1>4. UNCHANGED Rows
  BY DEF GetFirstPeriod, GetSecondPeriod, tables, plans, Rows
<1> HIDE DEF one, two
<1> QED
  BY <1>2, <1>3, <1>4, ReadStep

LEMMA FailStep ==
    ASSUME Inv, NEW w \in Workers, RequestFails(w)
    PROVE  Inv' /\ Archives
  BY ReadStep DEF RequestFails, tables, plans, Rows

LEMMA QuietStep ==
    ASSUME Inv, \/ \E c, tutor : ReassignTutor(c, tutor)
                \/ UNCHANGED vars
    PROVE  Inv' /\ Archives
<1>1. UNCHANGED Rows /\ req' = req
  BY DEF ReassignTutor, vars, tables, plans, Rows
<1> QED
  BY <1>1, RowsStay, ArchiveStays DEF Inv, ReqOK

LEMMA NextInv == Inv /\ [Next]_vars => Inv' /\ Archives
<1> SUFFICES ASSUME Inv, [Next]_vars PROVE Inv' /\ Archives
  OBVIOUS
<1>1. CASE \/ \E c \in Courses : \E tutor \in Candidates[c] : ReassignTutor(c, tutor)
           \/ UNCHANGED vars
  BY <1>1, QuietStep
<1>2. ASSUME NEW w \in Workers, RequestStep(w)
      PROVE  Inv' /\ Archives
  <2>1. CASE \E cl \in Classes, tm \in Terms, cfg \in Configs : GenerateTimetable(w, cl, tm, cfg)
    BY <2>1, GenerateStep
  <2>2. CASE PlanPeriods(w)
    BY <2>2, PlanStep
  <2>3. CASE CommitTimetable(w)
    BY <2>3, CommitStep
  <2>4. CASE \/ \E t \in Timetables : PublishTimetable(w, t)
             \/ \E key \in Key : CreateSwapRequest(w, key)
             \/ GetTargetPeriod(w) \/ HasPendingRequest(w)
    BY <2>4, RequestSwapStep
  <2>5. CASE GetPublishedTimetable(w)
    BY <2>5, FindPublishedStep
  <2>6. CASE Publish(w)
    BY <2>6, PublishStep
  <2>7. CASE InsertSwap(w)
    BY <2>7, InsertSwapStep
  <2>8. CASE \E s \in Swaps :
               RejectSwapRequest(w, s) \/ EscalateSwapRequest(w, s) \/ CancelSwapRequest(w, s)
    BY <2>8, AnswerStep
  <2>9. CASE \E s \in Swaps : ApproveSwapRequest(w, s) \/ AdminOverrideSwapRequest(w, s)
    BY <2>9, ApproveStep
  <2>10. CASE UpdateSwapRequest(w)
    BY <2>10, UpdateSwapStep
  <2>11. CASE GetFirstPeriod(w) \/ GetSecondPeriod(w)
    BY <2>11, ReadPeriodStep
  <2>12. CASE SwapPeriods(w)
    BY <2>12, SwapStep
  <2>13. CASE RequestFails(w)
    BY <2>13, FailStep
  <2> QED
    BY <1>2, <2>1, <2>2, <2>3, <2>4, <2>5, <2>6, <2>7, <2>8, <2>9, <2>10, <2>11, <2>12, <2>13
       DEF RequestStep
<1> QED
  BY <1>1, <1>2 DEF Next

LEMMA InvAlways == Spec => []Inv
<1>1. Inv /\ [Next]_vars => Inv'
  BY NextInv
<1> QED
  BY InitInv, <1>1, PTL DEF Spec

(* No race of generations, publications and swaps brings an archived          *)
(* timetable back.                                                           *)
THEOREM ArchivedForGood == Spec => ArchivedStaysArchived
<1>1. Inv /\ [Next]_vars =>
        [\A t \in Timetables : timetables[t].status = "ARCHIVED"
          => timetables'[t].status = "ARCHIVED"]_vars
  BY NextInv DEF Archives
<1> QED
  BY InvAlways, <1>1, PTL DEF Spec, ArchivedStaysArchived

(***************************************************************************)
(* The generator's loop: induction over its slots                           *)
(***************************************************************************)
LEMMA LeastNat ==
  ASSUME NEW C, C \subseteq Nat, C # {}
  PROVE  \E n \in C : \A m \in C : n <= m
<1>1. IsWellFoundedOn(OpToRel(<, Nat), Nat)
  BY NatLessThanWellFounded
<1>2. PICK n \in C : \A m \in C : ~(<<m, n>> \in OpToRel(<, Nat))
  BY <1>1, WFMin
<1>3. ASSUME NEW m \in C
      PROVE  n <= m
  <2>1. <<m, n>> \in Nat \X Nat
    OBVIOUS
  <2>2. ~(m < n)
    BY <1>2, <2>1 DEF OpToRel
  <2> QED
    BY <2>2
<1> QED
  BY <1>3

LEMMA MinOf ==
  ASSUME NEW S, S \subseteq Nat, S # {}
  PROVE  /\ Min(S) \in S
         /\ \A m \in S : Min(S) <= m
<1>1. \E n \in S : \A m \in S : n <= m
  BY LeastNat
<1> QED
  BY <1>1 DEF Min

Fill(f, cfg, tutors, order, busy, n) ==
    f = [k \in 0..n |-> IF k = 0 THEN [week |-> EmptyWeek, next |-> 1]
                        ELSE FillSlot(cfg, tutors, order, busy, f[k - 1], k)]

LEMMA FillChosen ==
  \A cfg, tutors, order, busy :
    GeneratePeriods(cfg, tutors, order, busy) =
      (CHOOSE f : Fill(f, cfg, tutors, order, busy, SlotCount(cfg)))[SlotCount(cfg)].week
  BY DEF GeneratePeriods, Fill

LEMMA DivBound ==
  ASSUME NEW k \in Nat, NEW l \in Nat \ {0}, NEW n \in Nat, k < l * n
  PROVE  (k \div l) \in 0..(n - 1)
<1>1. k \div l \in Nat
  OBVIOUS
<1>2. l * (k \div l) <= k
  OBVIOUS
<1>3. ASSUME n <= k \div l
      PROVE  FALSE
  <2>1. l * n <= l * (k \div l)
    BY <1>1, <1>3
  <2> QED
    BY <1>1, <1>2, <2>1
<1> QED
  BY <1>1, <1>3

Start == [week |-> EmptyWeek, next |-> 1]

LEMMA FillExists ==
  ASSUME NEW cfg, NEW tutors, NEW order, NEW busy, NEW N \in Nat
  PROVE  \E f : Fill(f, cfg, tutors, order, busy, N)
<1> DEFINE Solved(n) == \E f : Fill(f, cfg, tutors, order, busy, n)
           C == {n \in Nat : ~Solved(n)}
<1>1. ASSUME C # {}
      PROVE  FALSE
  <2>1. \E n \in C : \A m \in C : n <= m
    <3>1. C \subseteq Nat
      OBVIOUS
    <3> HIDE DEF C
    <3> QED
      BY <1>1, <3>1, LeastNat
  <2>2. PICK n \in C : \A m \in C : n <= m
    BY <2>1
  <2>3. CASE n = 0
    <3> DEFINE f == [k \in 0..0 |-> Start]
    <3>1. f = [k \in 0..0 |-> IF k = 0 THEN Start ELSE FillSlot(cfg, tutors, order, busy, f[k - 1], k)]
      OBVIOUS
    <3>2. Fill(f, cfg, tutors, order, busy, 0)
      BY <3>1 DEF Fill, Start
    <3> QED
      BY <2>3, <3>2
  <2>4. CASE n # 0
    <3>1. n - 1 \in Nat /\ n - 1 \notin C /\ n \in Nat
      BY <2>2, <2>4
    <3>2. PICK f : Fill(f, cfg, tutors, order, busy, n - 1)
      BY <3>1
    <3>3. f = [k \in 0..(n - 1) |-> IF k = 0 THEN Start
                                    ELSE FillSlot(cfg, tutors, order, busy, f[k - 1], k)]
      BY <3>2 DEF Fill, Start
    <3> DEFINE h == [k \in 0..n |-> IF k = n THEN FillSlot(cfg, tutors, order, busy, f[n - 1], n)
                                    ELSE f[k]]
    <3>4. ASSUME NEW k \in 0..n, k # 0
          PROVE  h[k - 1] = f[k - 1]
      BY <3>1, <3>4
    <3>5. ASSUME NEW k \in 0..n
          PROVE  h[k] = IF k = 0 THEN Start ELSE FillSlot(cfg, tutors, order, busy, h[k - 1], k)
      <4>1. CASE k = 0
        BY <2>4, <3>1, <3>3, <4>1
      <4>2. CASE k # 0 /\ k = n
        BY <3>4, <4>2
      <4>3. CASE k # 0 /\ k # n
        <5>1. k \in 0..(n - 1)
          BY <3>1, <4>3
        <5>2. f[k] = FillSlot(cfg, tutors, order, busy, f[k - 1], k)
          BY <3>3, <4>3, <5>1
        <5> QED
          BY <3>4, <4>3, <5>2
      <4> QED
        BY <4>1, <4>2, <4>3
    <3>6. h = [k \in 0..n |-> IF k = 0 THEN Start
                              ELSE FillSlot(cfg, tutors, order, busy, h[k - 1], k)]
      <4>1. h = [k \in 0..n |-> h[k]]
        OBVIOUS
      <4> HIDE DEF h
      <4> QED
        BY <3>5, <4>1
    <3>7. Fill(h, cfg, tutors, order, busy, n)
      BY <3>6 DEF Fill, Start
    <3> QED
      BY <2>2, <3>7
  <2> QED
    BY <2>3, <2>4
<1>2. \A n \in Nat : Solved(n)
  <2> HIDE DEF Solved
  <2> QED
    BY <1>1
<1> QED
  BY <1>2

LEMMA FillInduction ==
  ASSUME NEW cfg, NEW tutors, NEW order, NEW busy, NEW N \in Nat,
         NEW f, Fill(f, cfg, tutors, order, busy, N),
         NEW S, Start \in S[0],
         \A k \in 1..N : \A s \in S[k - 1] : FillSlot(cfg, tutors, order, busy, s, k) \in S[k]
  PROVE  f[N] \in S[N]
<1> DEFINE C == {n \in 0..N : f[n] \notin S[n]}
<1>1. ASSUME C # {}
      PROVE  FALSE
  <2>1. \E n \in C : \A m \in C : n <= m
    <3>1. C \subseteq Nat
      OBVIOUS
    <3> HIDE DEF C
    <3> QED
      BY <1>1, <3>1, LeastNat
  <2>2. PICK n \in C : \A m \in C : n <= m
    BY <2>1
  <2>3. f = [k \in 0..N |-> IF k = 0 THEN Start
                            ELSE FillSlot(cfg, tutors, order, busy, f[k - 1], k)]
    BY DEF Fill, Start
  <2>4. n # 0
    BY <2>3
  <2>5. n \in 1..N /\ n - 1 \in 0..N /\ n - 1 \notin C
    BY <2>2, <2>4
  <2>6. f[n - 1] \in S[n - 1]
    BY <2>5
  <2>7. f[n] = FillSlot(cfg, tutors, order, busy, f[n - 1], n)
    BY <2>3, <2>5
  <2> QED
    BY <2>5, <2>6, <2>7
<1> QED
  BY <1>1

(* What holds of the empty week and is kept by every slot holds of the plan. *)
LEMMA GenerateInduction ==
  ASSUME NEW cfg, NEW tutors, NEW order, NEW busy, SlotCount(cfg) \in Nat,
         NEW S, Start \in S[0],
         \A k \in 1..SlotCount(cfg) : \A s \in S[k - 1] :
            FillSlot(cfg, tutors, order, busy, s, k) \in S[k]
  PROVE  \E s \in S[SlotCount(cfg)] : GeneratePeriods(cfg, tutors, order, busy) = s.week
<1> DEFINE N == SlotCount(cfg)
           f == CHOOSE h : Fill(h, cfg, tutors, order, busy, N)
<1>1. Fill(f, cfg, tutors, order, busy, N)
  BY FillExists
<1>2. GeneratePeriods(cfg, tutors, order, busy) = f[N].week
  BY FillChosen
<1> HIDE DEF f, N
<1>3. f[N] \in S[N]
  BY <1>1, FillInduction DEF N
<1> QED
  BY <1>2, <1>3 DEF N

(***************************************************************************)
(* Types                                                                    *)
(***************************************************************************)
Teaches(x, given) == <<x.course, x.tutor>> \in given

(* What a request carries is of its kind, is of a timetable that exists, and *)
(* every lesson in it is one its tutor was given.                            *)
Good(r, tts, given) ==
    /\ r \in Request
    /\ r.pc \in {"plan", "commit", "publish"} => r.old = None \/ tts[r.old] # NoTimetable
    /\ r.pc \in {"plan", "commit"} => \A c \in Courses : <<c, r.tutors[c]>> \in given
    /\ r.pc = "commit" => \A x \in Lessons(r.week) : Teaches(x, given)
    /\ r.pc \in {"readSecond", "swap"} => Teaches(r.first, given)
    /\ r.pc = "swap" => Teaches(r.second, given)

(* A swap request has both its periods: the foreign keys. *)
SwapsHavePeriods ==
    \A s \in Swaps : Exists(s) => HasPeriod(swaps[s].from) /\ HasPeriod(swaps[s].to)

(* An identifier not in use has no periods. *)
UnusedIsEmpty == \A t \in Timetables : timetables[t] = NoTimetable => periods[t] = EmptyWeek

TutorsGiven == \A c \in Courses : <<c, tutorOf[c]>> \in assigned

(* The first part of TypeOK: all but the history of crossed answers. *)
Shaped ==
    /\ faults \in 0..MaxFaults
    /\ tutorOf \in [Courses -> Nat] /\ assigned \subseteq Courses \X Nat
    /\ timetables \in [Timetables -> Timetable \cup {NoTimetable}]
    /\ periods \in [Timetables -> Week]
    /\ swaps \in [Swaps -> SwapRequest \cup {NoSwap, DeletedSwap}]
    /\ performed \in [Swaps -> 0..2]
    /\ req \in [Workers -> Request]

Typed == /\ Shaped /\ SwapsHavePeriods /\ UnusedIsEmpty
         /\ TutorsGiven /\ TutorTeachesCourse
         /\ \A w \in Workers : Good(req[w], timetables, assigned)

LEMMA Shape ==
  ASSUME NEW r \in Request
  PROVE  /\ r.pc = "plan" => r \in Generating
         /\ r.pc = "commit" => r \in Committing
         /\ r.pc = "findPublished" => r.id \in Timetables
         /\ r.pc = "publish" => r.id \in Timetables /\ r.old \in Timetables \cup {None}
         /\ r.pc = "readTarget" => r.from \in Key /\ r.mine \in Period
         /\ r.pc \in {"hasPending", "insertSwap"} =>
              /\ r.from \in Key /\ r.to \in Key /\ r.fromTutor \in Nat /\ r.toTutor \in Nat
              /\ [r EXCEPT !.pc = "insertSwap"] \in Request
              /\ [r EXCEPT !.pc = "insertSwap"].pc = "insertSwap"
         /\ r.pc \in {"readFirst", "readSecond", "swap"} =>
              r.swap \in Swaps /\ r.admin \in BOOLEAN
         /\ r.pc \in {"readSecond", "swap"} => r.first \in Period
         /\ r.pc = "swap" => r.second \in Period
         /\ r.pc = "updateSwap" =>
              r.swap \in Swaps /\ r.status \in {"REJECTED", "ESCALATED", "CANCELLED"}
  BY DEF Request, Idle, Generating, Committing, Publishing, Requesting, Swapping, Answering

LEMMA ConfigOK ==
  ASSUME NEW cfg \in Configs
  PROVE  /\ cfg.limit \in Nat \ {0} /\ cfg.duration \in Nat \ {0}
         /\ cfg.start \in Nat /\ cfg.breakAfter \in Nat /\ cfg.break \in Nat
         /\ Len(cfg.days) \in Nat
         /\ SlotCount(cfg) \in 1..MaxSlot /\ MaxSlot \in Nat
         /\ SlotCount(cfg) = cfg.limit * Len(cfg.days)
  BY TimetablesAssumption DEF Slots, SlotCount

LEMMA LessonType ==
  ASSUME NEW cfg \in Configs, NEW tutors \in [Courses -> Nat], NEW c \in Courses,
         NEW k \in 1..SlotCount(cfg)
  PROVE  /\ Lesson(cfg, tutors, c, k) \in Period
         /\ Lesson(cfg, tutors, c, k).course = c
         /\ Lesson(cfg, tutors, c, k).tutor = tutors[c]
<1>1. k - 1 \in Nat /\ k - 1 < cfg.limit * Len(cfg.days)
  BY ConfigOK
<1>2. (k - 1) \div cfg.limit \in 0..(Len(cfg.days) - 1)
  BY <1>1, ConfigOK, DivBound
<1>3. ((k - 1) \div cfg.limit) + 1 \in 1..Len(cfg.days)
  BY <1>2, ConfigOK
<1>4. DayOf(cfg, k) \in Days
  BY <1>3 DEF DayOf, Days
<1>5. NumberOf(cfg, k) \in Nat /\ NumberOf(cfg, k) >= 1
  <2>1. (k - 1) % cfg.limit \in 0..(cfg.limit - 1)
    BY <1>1, ConfigOK
  <2> QED
    BY <2>1, ConfigOK DEF NumberOf
<1>6. Begin(cfg, NumberOf(cfg, k)) \in Nat
  <2> DEFINE n == NumberOf(cfg, k)
  <2>1. n - 1 \in Nat /\ cfg.duration \in Nat
    BY <1>5, ConfigOK
  <2> HIDE DEF n
  <2>2. (n - 1) * cfg.duration \in Nat
    BY <2>1
  <2>3. (IF n > cfg.breakAfter THEN cfg.break ELSE 0) \in Nat
    BY ConfigOK
  <2> QED
    BY <2>2, <2>3, ConfigOK DEF Begin, n
<1>7. ASSUME NEW m \in Nat
      PROVE  m % DayMinutes \in 0..(DayMinutes - 1)
  BY DEF DayMinutes
<1>8. Begin(cfg, NumberOf(cfg, k)) + cfg.duration \in Nat
  BY <1>6, ConfigOK
<1>9. tutors[c] \in Nat
  OBVIOUS
<1> QED
  BY <1>4, <1>5, <1>6, <1>7, <1>8, <1>9 DEF Lesson, Period

LEMMA NoPeriodIsNone == NoPeriod \notin Period
<1> SUFFICES ASSUME NoPeriod \in Period
             PROVE  FALSE
  OBVIOUS
<1> QED
  BY DEF NoPeriod, Period

LEMMA OrderType ==
  ASSUME NEW cs, cs \subseteq Courses, NEW tutors, NEW order \in Orders(cs, tutors)
  PROVE  /\ order \in [1..Len(order) -> cs]
         /\ Len(order) \in Nat /\ Len(order) = Cardinality(cs)
         /\ \A i, j \in 1..Len(order) : order[i] = order[j] => i = j
<1>1. Cardinality(cs) \in Nat
  BY TimetablesAssumption, FS_Subset, FS_CardinalityType
<1>2. order \in [1..Cardinality(cs) -> cs]
  BY DEF Orders
<1>3. Len(order) = Cardinality(cs)
  BY <1>1, <1>2
<1> QED
  BY <1>1, <1>2, <1>3 DEF Orders

(* The plans of a generation: weeks of lessons its courses' tutors give. *)
Plans(tutors) ==
    {week \in Week : \A k \in Slots : week[k] # NoPeriod => week[k].tutor = tutors[week[k].course]}

LEMMA FillType ==
  ASSUME NEW cfg \in Configs, NEW tutors \in [Courses -> Nat],
         NEW order, order \in [1..Len(order) -> Courses], Len(order) \in Nat,
         NEW busy, NEW k \in 1..SlotCount(cfg),
         NEW done \in [week: Plans(tutors), next: Nat]
  PROVE  FillSlot(cfg, tutors, order, busy, done, k) \in [week: Plans(tutors), next: Nat]
<1> DEFINE n == Len(order)
           cs == {order[i] : i \in 1..n}
           first == IF NumberOf(cfg, k) = 1 THEN 1 ELSE done.next
           fit == {i \in 1..n : Fits(cfg, tutors, cs, done.week, busy, order[i], k)}
           ahead == {i \in fit : i >= first}
           i == Min(IF ahead # {} THEN ahead ELSE fit)
           week == [done.week EXCEPT ![k] = Lesson(cfg, tutors, order[i], k)]
<1>1. FillSlot(cfg, tutors, order, busy, done, k) =
        IF fit = {} THEN [week |-> done.week, next |-> 1] ELSE [week |-> week, next |-> i + 1]
  BY DEF FillSlot
<1>2. CASE fit = {}
  BY <1>1, <1>2
<1>3. CASE fit # {}
  <2> DEFINE S == IF ahead # {} THEN ahead ELSE fit
  <2>1. fit \subseteq 1..n /\ ahead \subseteq fit
    OBVIOUS
  <2> HIDE DEF fit, ahead
  <2>2. S \subseteq 1..n /\ S # {}
    BY <1>3, <2>1
  <2>3. S \subseteq Nat
    BY <2>2
  <2> HIDE DEF S
  <2>4. Min(S) \in 1..n
    BY <2>2, <2>3, MinOf
  <2>5. i \in 1..n /\ i + 1 \in Nat
    BY <2>4 DEF S
  <2> HIDE DEF i
  <2>6. order[i] \in Courses
    BY <2>5
  <2> DEFINE new == Lesson(cfg, tutors, order[i], k)
  <2>7. new \in Period /\ new.tutor = tutors[new.course]
    BY <2>6, LessonType
  <2> HIDE DEF new
  <2>8. k \in Slots /\ done.week \in Week
    BY ConfigOK DEF Slots, Plans
  <2>9. week \in Week
    BY <2>7, <2>8 DEF Week, new
  <2>10. \A j \in Slots : week[j] = IF j = k THEN new ELSE done.week[j]
    BY <2>8 DEF Week, new
  <2> HIDE DEF week
  <2>11. \A j \in Slots : done.week[j] # NoPeriod => done.week[j].tutor = tutors[done.week[j].course]
    BY DEF Plans
  <2>12. \A j \in Slots : week[j] # NoPeriod => week[j].tutor = tutors[week[j].course]
    BY <2>7, <2>10, <2>11
  <2>13. week \in Plans(tutors)
    BY <2>9, <2>12 DEF Plans
  <2> QED
    BY <1>1, <1>3, <2>5, <2>13
<1> QED
  BY <1>2, <1>3

LEMMA GenerateType ==
  ASSUME NEW cfg \in Configs, NEW tutors \in [Courses -> Nat],
         NEW order, order \in [1..Len(order) -> Courses], Len(order) \in Nat, NEW busy
  PROVE  GeneratePeriods(cfg, tutors, order, busy) \in Plans(tutors)
<1> DEFINE R == [week: Plans(tutors), next: Nat]
           S == [k \in 0..SlotCount(cfg) |-> R]
<1>1. SlotCount(cfg) \in Nat
  BY ConfigOK
<1>2. Start \in R
  <2>1. EmptyWeek \in Plans(tutors)
    BY DEF EmptyWeek, Plans, Week
  <2> QED
    BY <2>1 DEF Start
<1>3. \A k \in 1..SlotCount(cfg) : \A s \in R : FillSlot(cfg, tutors, order, busy, s, k) \in R
  BY FillType
<1> HIDE DEF R
<1>4. Start \in S[0]
  BY <1>1, <1>2
<1>5. \A k \in 1..SlotCount(cfg) : S[k] = R /\ S[k - 1] = R
  BY <1>1
<1>6. S[SlotCount(cfg)] = R
  BY <1>1
<1> HIDE DEF S
<1>7. \A k \in 1..SlotCount(cfg) : \A s \in S[k - 1] :
         FillSlot(cfg, tutors, order, busy, s, k) \in S[k]
  BY <1>3, <1>5
<1>8. \E s \in S[SlotCount(cfg)] : GeneratePeriods(cfg, tutors, order, busy) = s.week
  BY <1>1, <1>4, <1>7, GenerateInduction
<1> QED
  BY <1>6, <1>8 DEF R

(***************************************************************************)
(* Steps                                                                    *)
(***************************************************************************)
(* What a request carries stays good while rows are added, not taken away. *)
LEMMA GoodStays ==
  ASSUME NEW r, NEW T, NEW U, NEW A, NEW B, Good(r, T, A), A \subseteq B,
         \A t \in Timetables : T[t] # NoTimetable => U[t] # NoTimetable
  PROVE  Good(r, U, B)
<1>1. r \in Request
  BY DEF Good
<1>2. r.pc \in {"plan", "commit", "publish"} => r.old \in Timetables \cup {None}
  BY <1>1, Shape DEF Generating, Committing
<1>3. \A x : Teaches(x, A) => Teaches(x, B)
  BY DEF Teaches
<1> QED
  BY <1>1, <1>2, <1>3 DEF Good

(* One request changes; the tables it does not take rows from. *)
LEMMA RequestsStay ==
  ASSUME Typed, NEW w \in Workers, NEW r, Become(w, r),
         Good(r, timetables', assigned'), assigned \subseteq assigned',
         \A t \in Timetables : timetables[t] # NoTimetable => timetables'[t] # NoTimetable
  PROVE  /\ req' \in [Workers -> Request]
         /\ \A v \in Workers : Good(req'[v], timetables', assigned')
<1>1. req \in [Workers -> Request] /\ r \in Request
  BY DEF Typed, Shaped, Good
<1>2. req' \in [Workers -> Request] /\ \A v \in Workers : req'[v] = IF v = w THEN r ELSE req[v]
  BY <1>1 DEF Become
<1>3. \A v \in Workers : Good(req[v], timetables', assigned')
  BY GoodStays DEF Typed
<1> QED
  BY <1>2, <1>3

LEMMA IdleGood == \A T, A : Good(Idle, T, A)
  BY DEF Good, Request, Idle

LEMMA ReadOnly ==
  ASSUME Typed, NEW w \in Workers, NEW r, Become(w, r), Good(r, timetables, assigned),
         UNCHANGED tables, faults' \in 0..MaxFaults
  PROVE  Typed'
<1>1. UNCHANGED <<tutorOf, assigned, timetables, periods, swaps, performed>>
  BY DEF tables, courses, plans
<1>2. /\ req' \in [Workers -> Request]
      /\ \A v \in Workers : Good(req'[v], timetables', assigned')
  BY <1>1, RequestsStay
<1>3. SwapsHavePeriods' /\ UnusedIsEmpty' /\ TutorsGiven' /\ TutorTeachesCourse'
  BY <1>1 DEF Typed, SwapsHavePeriods, UnusedIsEmpty, TutorsGiven, TutorTeachesCourse,
              Exists, HasPeriod, At, Lessons
<1> QED
  BY <1>1, <1>2, <1>3 DEF Typed, Shaped

LEMMA FaultOK ==
  ASSUME Typed, faults' = faults \/ (faults < MaxFaults /\ faults' = faults + 1)
  PROVE  faults' \in 0..MaxFaults
  BY TimetablesAssumption DEF Typed, Shaped

LEMMA InitTyped == Init => Typed
<1> SUFFICES ASSUME Init
             PROVE  Typed
  OBVIOUS
<1>1. EmptyWeek \in Week /\ Lessons(EmptyWeek) = {}
  BY DEF EmptyWeek, Week, Lessons
<1>2. Idle \in Request
  BY DEF Request
<1>3. Shaped
  BY <1>1, <1>2, TimetablesAssumption DEF Init, Shaped
<1>4. \A w \in Workers : Good(req[w], timetables, assigned)
  BY IdleGood DEF Init
<1>5. TutorsGiven /\ TutorTeachesCourse
  BY <1>1 DEF Init, TutorsGiven, TutorTeachesCourse
<1>6. SwapsHavePeriods /\ UnusedIsEmpty
  BY DEF Init, SwapsHavePeriods, UnusedIsEmpty, Exists, NoSwap, None, SwapRequestStatus
<1> QED
  BY <1>3, <1>4, <1>5, <1>6 DEF Typed

LEMMA ReassignTyped ==
  ASSUME Typed, NEW c \in Courses, NEW tutor \in Candidates[c], ReassignTutor(c, tutor)
  PROVE  Typed'
<1>1. tutor \in Nat
  BY TimetablesAssumption
<1>2. /\ tutorOf' = [tutorOf EXCEPT ![c] = tutor] /\ assigned' = assigned \cup {<<c, tutor>>}
      /\ UNCHANGED <<faults, timetables, periods, swaps, performed, req>>
  BY DEF ReassignTutor, plans
<1>3. Shaped'
  BY <1>1, <1>2 DEF Typed, Shaped
<1>4. TutorsGiven'
  BY <1>2 DEF Typed, Shaped, TutorsGiven
<1>5. SwapsHavePeriods' /\ UnusedIsEmpty' /\ TutorTeachesCourse'
  BY <1>2 DEF Typed, SwapsHavePeriods, UnusedIsEmpty, TutorTeachesCourse,
              Exists, HasPeriod, At, Lessons
<1>6. \A w \in Workers : Good(req[w], timetables, assigned')
  BY <1>2, GoodStays DEF Typed
<1>7. \A w \in Workers : Good(req'[w], timetables', assigned')
  BY <1>2, <1>6
<1> QED
  BY <1>3, <1>4, <1>5, <1>7 DEF Typed

LEMMA GenerateTyped ==
  ASSUME Typed, NEW w \in Workers, NEW cl \in Classes, NEW tm \in Terms, NEW cfg \in Configs,
         GenerateTimetable(w, cl, tm, cfg)
  PROVE  Typed'
<1>1. UNCHANGED tables /\ faults' \in 0..MaxFaults
  BY FaultOK DEF GenerateTimetable
<1>2. PICK old \in Timetables \cup {None}, version \in Nat :
        /\ Become(w, Plan(cl, tm, cfg, old, version))
        /\ old = None \/ timetables[old] # NoTimetable
  <2>1. CASE Become(w, Plan(cl, tm, cfg, None, 1))
    BY <2>1
  <2>2. ASSUME NEW t \in Newest(LiveOf(cl, tm)),
               Become(w, Plan(cl, tm, cfg, t, timetables[t].version + 1))
        PROVE  \E old \in Timetables \cup {None}, version \in Nat :
                 /\ Become(w, Plan(cl, tm, cfg, old, version))
                 /\ old = None \/ timetables[old] # NoTimetable
    <3>1. t \in Timetables /\ timetables[t].status \in Live
      BY DEF Newest, LiveOf
    <3>2. timetables[t] # NoTimetable
      BY <3>1 DEF NoTimetable, Live, None
    <3>3. timetables[t].version + 1 \in Nat
      BY <3>1, <3>2 DEF Typed, Shaped, Timetable
    <3> QED
      BY <2>2, <3>1, <3>2, <3>3
  <2> QED
    BY <2>1, <2>2 DEF GenerateTimetable
<1> DEFINE r == Plan(cl, tm, cfg, old, version)
<1>3. r \in Generating
  BY DEF Plan, Generating, Typed, Shaped
<1>4. Good(r, timetables, assigned)
  <2>1. /\ r \in Request /\ r.pc = "plan" /\ r.old = old /\ r.tutors = tutorOf
    BY <1>3 DEF Plan, Request
  <2> HIDE DEF r
  <2> QED
    BY <1>2, <2>1 DEF Good, Typed, TutorsGiven
<1> QED
  BY <1>1, <1>2, <1>4, ReadOnly

LEMMA PlanTyped ==
  ASSUME Typed, NEW w \in Workers, PlanPeriods(w)
  PROVE  Typed'
<1> DEFINE r == req[w]
           cs == CoursesOf(r.class, r.term)
           busy == UNION {Lessons(periods[t]) :
                            t \in {u \in Timetables : timetables[u].status \in Live /\ u # r.old}}
           planned(week) == [pc |-> "commit", class |-> r.class, term |-> r.term, cfg |-> r.cfg,
                             tutors |-> r.tutors, old |-> r.old, version |-> r.version,
                             week |-> week]
<1>1. UNCHANGED tables /\ UNCHANGED faults
  BY DEF PlanPeriods
<1>2. PICK order \in Orders(cs, r.tutors) :
        Become(w, planned(GeneratePeriods(r.cfg, r.tutors, order, busy)))
  BY DEF PlanPeriods
<1>3. r.pc = "plan" /\ r \in Request /\ Good(r, timetables, assigned)
  BY DEF PlanPeriods, Typed, Shaped
<1>4. /\ r \in Generating /\ r.cfg \in Configs /\ r.tutors \in [Courses -> Nat]
      /\ r.class \in Classes /\ r.term \in Terms /\ r.version \in Nat
      /\ r.old \in Timetables \cup {None}
  BY <1>3, Shape DEF Generating
<1>5. r.old = None \/ timetables[r.old] # NoTimetable
  BY <1>3 DEF Good
<1>6. \A c \in Courses : <<c, r.tutors[c]>> \in assigned
  BY <1>3 DEF Good
<1>7. cs \subseteq Courses
  BY DEF CoursesOf
<1>8. order \in [1..Len(order) -> Courses] /\ Len(order) \in Nat
  <2> HIDE DEF cs, r
  <2>1. order \in [1..Len(order) -> cs] /\ Len(order) \in Nat
    BY <1>7, OrderType
  <2> QED
    BY <1>7, <2>1
<1> HIDE DEF r, cs, busy
<1> DEFINE week == GeneratePeriods(r.cfg, r.tutors, order, busy)
<1>9. week \in Plans(r.tutors)
  BY <1>4, <1>8, GenerateType
<1> HIDE DEF week
<1>10. planned(week) \in Request /\ planned(week).pc = "commit"
  BY <1>4, <1>9 DEF Request, Committing, Plans
<1>11. \A x \in Lessons(week) : Teaches(x, assigned)
  <2> SUFFICES ASSUME NEW k \in Slots, week[k] # NoPeriod
               PROVE  Teaches(week[k], assigned)
    BY DEF Lessons
  <2>1. week[k] \in Period /\ week[k].tutor = r.tutors[week[k].course]
    BY <1>9 DEF Plans, Week
  <2>2. week[k].course \in Courses
    BY <2>1 DEF Period
  <2> QED
    BY <1>6, <2>1, <2>2 DEF Teaches
<1>12. Good(planned(week), timetables, assigned)
  <2>1. /\ planned(week).old = r.old /\ planned(week).tutors = r.tutors
        /\ planned(week).week = week
    OBVIOUS
  <2> HIDE DEF planned
  <2> QED
    BY <1>5, <1>6, <1>10, <1>11, <2>1 DEF Good
<1>13. Become(w, planned(week))
  BY <1>2 DEF week
<1>14. faults' \in 0..MaxFaults
  BY <1>1 DEF Typed, Shaped
<1> QED
  BY <1>1, <1>12, <1>13, <1>14, ReadOnly

LEMMA PublishReads ==
  ASSUME Typed, NEW w \in Workers,
         (\E t \in Timetables : PublishTimetable(w, t)) \/ GetPublishedTimetable(w)
  PROVE  Typed'
<1>1. UNCHANGED tables /\ faults' \in 0..MaxFaults
  BY FaultOK DEF PublishTimetable, GetPublishedTimetable
<1>2. ASSUME NEW t \in Timetables, PublishTimetable(w, t)
      PROVE  Typed'
  <2>1. Become(w, [pc |-> "findPublished", id |-> t])
    BY <1>2 DEF PublishTimetable
  <2>2. Good([pc |-> "findPublished", id |-> t], timetables, assigned)
    BY DEF Good, Request, Publishing
  <2> QED
    BY <1>1, <2>1, <2>2, ReadOnly
<1>3. CASE GetPublishedTimetable(w)
  <2> DEFINE t == req[w].id
             next(old) == [pc |-> "publish", id |-> t, old |-> old]
  <2>1. t \in Timetables
    BY <1>3, Shape DEF GetPublishedTimetable, Typed, Shaped
  <2>2. PICK old \in Timetables \cup {None} :
          /\ Become(w, next(old))
          /\ old = None \/ timetables[old] # NoTimetable
    <3>1. CASE Become(w, next(None))
      BY <3>1
    <3>2. ASSUME NEW u, u \in LiveOf(timetables[t].class, timetables[t].term), Become(w, next(u))
          PROVE  \E old \in Timetables \cup {None} :
                   Become(w, next(old)) /\ (old = None \/ timetables[old] # NoTimetable)
      <4>1. u \in Timetables /\ timetables[u] # NoTimetable
        BY <3>2 DEF LiveOf, Live, NoTimetable, None
      <4> QED
        BY <3>2, <4>1
    <3> QED
      BY <1>3, <3>1, <3>2 DEF GetPublishedTimetable, Newest
  <2>3. Good(next(old), timetables, assigned)
    BY <2>1, <2>2 DEF Good, Request, Publishing
  <2> QED
    BY <1>1, <2>2, <2>3, ReadOnly
<1> QED
  BY <1>2, <1>3

LEMMA SwapRow ==
  ASSUME Typed, NEW s \in Swaps, Exists(s)
  PROVE  /\ swaps[s] \in SwapRequest
         /\ swaps[s].from \in Key /\ swaps[s].to \in Key
         /\ HasPeriod(swaps[s].from) /\ HasPeriod(swaps[s].to)
  BY DEF Typed, Shaped, Exists, NoSwap, DeletedSwap, None, SwapRequestStatus, SwapRequest,
         SwapsHavePeriods

LEMMA KeyParts ==
  ASSUME NEW key \in Key
  PROVE  key[1] \in Timetables /\ key[2] \in Slots
  BY DEF Key

(* Archiving gives rows again, of the timetables that there were. *)
LEMMA ArchivedType ==
  ASSUME Typed, NEW old, old \in Timetables => timetables[old] # NoTimetable
  PROVE  /\ Archived(old) \in [Timetables -> Timetable \cup {NoTimetable}]
         /\ \A t \in Timetables : /\ Archived(old)[t] = NoTimetable <=> timetables[t] = NoTimetable
                                  /\ t # old => Archived(old)[t] = timetables[t]
<1>1. NoTimetable \notin Timetable
  <2> SUFFICES ASSUME NoTimetable \in Timetable
               PROVE  FALSE
    OBVIOUS
  <2> QED
    BY DEF NoTimetable, Timetable, None, Live
<1>2. \A row \in Timetable : [row EXCEPT !.status = "ARCHIVED"] \in Timetable
  BY DEF Timetable
<1>3. timetables \in [Timetables -> Timetable \cup {NoTimetable}]
  BY DEF Typed, Shaped
<1>4. ASSUME NEW t \in Timetables
      PROVE  /\ Archived(old)[t] \in Timetable \cup {NoTimetable}
             /\ Archived(old)[t] = NoTimetable <=> timetables[t] = NoTimetable
             /\ t # old => Archived(old)[t] = timetables[t]
  <2>1. Archived(old)[t] = IF t = old THEN [timetables[t] EXCEPT !.status = "ARCHIVED"]
                           ELSE timetables[t]
    BY DEF Archived
  <2>2. CASE t = old
    <3>1. timetables[t] \in Timetable
      BY <1>3, <2>2
    <3>2. Archived(old)[t] \in Timetable
      BY <1>2, <2>1, <2>2, <3>1
    <3> QED
      BY <1>1, <2>2, <3>1, <3>2
  <2>3. CASE t # old
    BY <1>3, <2>1, <2>3
  <2> QED
    BY <2>2, <2>3
<1>5. Archived(old) = [t \in Timetables |-> Archived(old)[t]]
  BY DEF Archived
<1> QED
  BY <1>4, <1>5

LEMMA CommitTyped ==
  ASSUME Typed, NEW w \in Workers, CommitTimetable(w)
  PROVE  Typed'
<1> DEFINE r == req[w]
           fresh == {t \in Timetables : timetables[t] = NoTimetable}
<1>1. /\ r.pc = "commit" /\ r \in Request /\ Good(r, timetables, assigned)
      /\ Become(w, Idle) /\ UNCHANGED <<faults, courses>>
  BY DEF CommitTimetable, Typed, Shaped, Finish
<1>2. /\ r \in Committing /\ r.class \in Classes /\ r.term \in Terms /\ r.version \in Nat
      /\ r.old \in Timetables \cup {None} /\ r.week \in Week
  BY <1>1, Shape DEF Committing
<1>3. r.old \in Timetables => timetables[r.old] # NoTimetable
  BY <1>1, TimetablesAssumption DEF Good
<1>4. \A x \in Lessons(r.week) : Teaches(x, assigned)
  BY <1>1 DEF Good
<1>5. faults' \in 0..MaxFaults
  BY <1>1 DEF Typed, Shaped
<1>6. CASE UNCHANGED plans
  BY <1>1, <1>5, <1>6, IdleGood, ReadOnly DEF tables
<1>7. CASE ~(UNCHANGED plans)
  <2>1. PICK t \in fresh :
          /\ timetables' = [Archived(r.old) EXCEPT ![t] =
                [class |-> r.class, term |-> r.term, status |-> "DRAFT", version |-> r.version]]
          /\ periods' = [Kept(r.old) EXCEPT ![t] = r.week]
    BY <1>7 DEF CommitTimetable
  <2>2. swaps' = Cascade(r.old) /\ UNCHANGED performed
    BY <1>7 DEF CommitTimetable
  <2>3. t \in Timetables /\ timetables[t] = NoTimetable /\ t # r.old
    BY <2>1, <1>3
  <2> HIDE DEF r, fresh
  <2> DEFINE row == [class |-> r.class, term |-> r.term, status |-> "DRAFT",
                     version |-> r.version]
  <2>4. row \in Timetable /\ row # NoTimetable
    BY <1>2 DEF Timetable, Live, NoTimetable, None
  <2> HIDE DEF row
  <2>5. /\ timetables' \in [Timetables -> Timetable \cup {NoTimetable}]
        /\ \A u \in Timetables : timetables'[u] = NoTimetable =>
             u # t /\ timetables[u] = NoTimetable
        /\ \A u \in Timetables : timetables[u] # NoTimetable => timetables'[u] # NoTimetable
    <3>1. timetables' = [Archived(r.old) EXCEPT ![t] = row]
      BY <2>1 DEF row
    <3> QED
      BY <1>3, <2>3, <2>4, <3>1, ArchivedType
  <2>6. \A u \in Timetables : periods'[u] = IF u = t THEN r.week
                                            ELSE IF u = r.old THEN EmptyWeek ELSE periods[u]
    BY <2>1, <2>3 DEF Kept
  <2>7. EmptyWeek \in Week /\ Lessons(EmptyWeek) = {} /\ periods \in [Timetables -> Week]
    BY DEF EmptyWeek, Week, Lessons, Typed, Shaped
  <2>8. periods' \in [Timetables -> Week]
    BY <1>2, <2>1, <2>3, <2>7 DEF Kept
  <2>9. \A s \in Swaps :
          /\ swaps'[s] = DeletedSwap \/ swaps'[s] = swaps[s]
          /\ Exists(s)' => /\ Exists(s) /\ swaps'[s] = swaps[s]
                           /\ swaps[s].from[1] # r.old /\ swaps[s].to[1] # r.old
    <3>1. DeletedSwap.status \notin SwapRequestStatus
      BY DEF DeletedSwap, SwapRequestStatus
    <3> QED
      BY <2>2, <3>1 DEF Cascade, Exists
  <2>10. swaps' \in [Swaps -> SwapRequest \cup {NoSwap, DeletedSwap}]
    <3>1. swaps' = [s \in Swaps |-> swaps'[s]]
      BY <2>2 DEF Cascade
    <3>2. \A s \in Swaps : swaps'[s] \in SwapRequest \cup {NoSwap, DeletedSwap}
      BY <2>9 DEF Typed, Shaped
    <3> QED
      BY <3>1, <3>2
  <2>11. periods[t] = EmptyWeek
    BY <2>3 DEF Typed, UnusedIsEmpty
  <2>12. \A key \in Key : HasPeriod(key) /\ key[1] # r.old => HasPeriod(key)'
    <3>1. \A key \in Key : HasPeriod(key) => key[1] # t
      BY <2>11, KeyParts DEF HasPeriod, At, EmptyWeek
    <3> QED
      BY <2>6, <3>1, KeyParts DEF HasPeriod, At
  <2>13. SwapsHavePeriods'
    <3> SUFFICES ASSUME NEW s \in Swaps, Exists(s)'
                 PROVE  HasPeriod(swaps[s].from)' /\ HasPeriod(swaps[s].to)'
      BY DEF SwapsHavePeriods
    <3> DEFINE from == swaps[s].from
               to == swaps[s].to
    <3>1. /\ Exists(s) /\ swaps'[s] = swaps[s] /\ from[1] # r.old /\ to[1] # r.old
      BY <2>9
    <3>2. from \in Key /\ to \in Key /\ HasPeriod(from) /\ HasPeriod(to)
      BY <3>1, SwapRow
    <3>3. /\ periods'[from[1]][from[2]] # NoPeriod /\ periods'[to[1]][to[2]] # NoPeriod
      BY <2>12, <3>1, <3>2 DEF HasPeriod, At
    <3> QED
      BY <3>1, <3>3 DEF HasPeriod, At
  <2>14. UnusedIsEmpty'
    <3>1. \A u \in Timetables : timetables'[u] = NoTimetable => u # r.old \/ periods'[u] = EmptyWeek
      BY <2>5, <2>6
    <3> QED
      BY <2>5, <2>6, <3>1 DEF Typed, UnusedIsEmpty
  <2>15. assigned' = assigned /\ tutorOf' = tutorOf
    BY <1>1 DEF courses
  <2>16. TutorTeachesCourse'
    <3>1. \A u \in Timetables : \A x \in Lessons(periods[u]) : Teaches(x, assigned)
      BY DEF Typed, TutorTeachesCourse, Teaches
    <3>2. \A u \in Timetables : \A x \in Lessons(periods'[u]) : Teaches(x, assigned)
      BY <1>4, <2>6, <2>7, <3>1
    <3> QED
      BY <2>15, <3>2 DEF TutorTeachesCourse, Teaches, Lessons
  <2>17. TutorsGiven'
    BY <2>15 DEF Typed, TutorsGiven
  <2>18. Shaped'
    <3>1. req' \in [Workers -> Request]
      BY <1>1, <2>5, <2>15, IdleGood, RequestsStay
    <3> QED
      BY <1>5, <2>2, <2>5, <2>8, <2>10, <2>15, <3>1 DEF Typed, Shaped
  <2>19. \A v \in Workers : Good(req'[v], timetables', assigned')
    BY <1>1, <2>5, <2>15, IdleGood, RequestsStay
  <2> QED
    BY <2>13, <2>14, <2>16, <2>17, <2>18, <2>19 DEF Typed
<1> QED
  BY <1>6, <1>7

LEMMA PublishTyped ==
  ASSUME Typed, NEW w \in Workers, Publish(w)
  PROVE  Typed'
<1> DEFINE r == req[w]
<1>1. /\ r.pc = "publish" /\ r \in Request /\ Good(r, timetables, assigned)
      /\ Become(w, Idle)
      /\ UNCHANGED <<faults, tutorOf, assigned, periods, swaps, performed>>
  BY DEF Publish, Typed, Shaped, Finish, courses
<1>2. r.id \in Timetables /\ (r.old \in Timetables => timetables[r.old] # NoTimetable)
  BY <1>1, Shape, TimetablesAssumption DEF Good
<1>3. timetables' = IF Publishable(r.id)
                    THEN [Archived(r.old) EXCEPT ![r.id].status = "PUBLISHED"] ELSE timetables
  BY DEF Publish
<1> HIDE DEF r
<1>4. /\ timetables' \in [Timetables -> Timetable \cup {NoTimetable}]
      /\ \A u \in Timetables : timetables'[u] = NoTimetable <=> timetables[u] = NoTimetable
  <2>1. CASE ~Publishable(r.id)
    BY <1>3, <2>1 DEF Typed, Shaped
  <2>2. CASE Publishable(r.id)
    <3> DEFINE A == Archived(r.old)
               row == [A[r.id] EXCEPT !.status = "PUBLISHED"]
    <3>1. timetables[r.id] # NoTimetable
      BY <2>2 DEF Publishable, NoTimetable, None
    <3>2. /\ A \in [Timetables -> Timetable \cup {NoTimetable}]
          /\ \A u \in Timetables : A[u] = NoTimetable <=> timetables[u] = NoTimetable
      BY <1>2, ArchivedType
    <3>3. A[r.id] \in Timetable
      BY <1>2, <3>1, <3>2
    <3>4. timetables' = [A EXCEPT ![r.id] = row]
      BY <1>3, <2>2
    <3> HIDE DEF A
    <3>5. row \in Timetable /\ row # NoTimetable
      BY <3>3 DEF Timetable, Live, NoTimetable, None
    <3> HIDE DEF row
    <3> QED
      BY <1>2, <3>1, <3>2, <3>4, <3>5
  <2> QED
    BY <2>1, <2>2
<1>5. /\ req' \in [Workers -> Request]
      /\ \A v \in Workers : Good(req'[v], timetables', assigned')
  BY <1>1, <1>4, IdleGood, RequestsStay
<1>6. UnusedIsEmpty'
  BY <1>1, <1>4 DEF Typed, UnusedIsEmpty
<1>7. SwapsHavePeriods' /\ TutorsGiven' /\ TutorTeachesCourse'
  BY <1>1 DEF Typed, SwapsHavePeriods, TutorsGiven, TutorTeachesCourse, Exists, HasPeriod, At,
              Lessons
<1>8. Shaped'
  BY <1>1, <1>4, <1>5 DEF Typed, Shaped
<1> QED
  BY <1>5, <1>6, <1>7, <1>8 DEF Typed

LEMMA PeriodType ==
  ASSUME Typed, NEW key \in Key
  PROVE  /\ At(key) \in Period \cup {NoPeriod}
         /\ HasPeriod(key) => At(key) \in Period /\ Teaches(At(key), assigned)
<1>1. key[1] \in Timetables /\ key[2] \in Slots
  BY KeyParts
<1>2. At(key) \in Period \cup {NoPeriod}
  BY <1>1 DEF Typed, Shaped, Week, At
<1>3. HasPeriod(key) => At(key) \in Lessons(periods[key[1]])
  BY <1>1 DEF HasPeriod, At, Lessons
<1> QED
  BY <1>1, <1>2, <1>3 DEF HasPeriod, Typed, TutorTeachesCourse, Teaches

LEMMA PeriodFields ==
  ASSUME NEW x \in Period
  PROVE  x.tutor \in Nat /\ x.course \in Courses
  BY DEF Period

(* Asking for a swap, up to its INSERT. *)
LEMMA AskingTyped ==
  ASSUME Typed, NEW w \in Workers,
         (\E key \in Key : CreateSwapRequest(w, key)) \/ GetTargetPeriod(w) \/ HasPendingRequest(w)
  PROVE  Typed'
<1>1. UNCHANGED tables /\ UNCHANGED faults
  BY DEF CreateSwapRequest, GetTargetPeriod, HasPendingRequest
<1>2. faults' \in 0..MaxFaults
  BY <1>1 DEF Typed, Shaped
<1>3. Finish(w) => Typed'
  BY <1>1, <1>2, IdleGood, ReadOnly DEF Finish
<1>4. ASSUME NEW key \in Key, CreateSwapRequest(w, key)
      PROVE  Typed'
  <2> DEFINE next == [pc |-> "readTarget", from |-> key, mine |-> At(key)]
  <2>1. Become(w, next) /\ At(key) \in Period
    BY <1>4, PeriodType DEF CreateSwapRequest
  <2>2. Good(next, timetables, assigned)
    BY <2>1 DEF Good, Request, Requesting
  <2> QED
    BY <1>1, <1>2, <2>1, <2>2, ReadOnly
<1>5. CASE GetTargetPeriod(w)
  <2> DEFINE r == req[w]
             next(to) == [pc |-> "hasPending", from |-> r.from, to |-> to,
                          fromTutor |-> r.mine.tutor, toTutor |-> At(to).tutor]
  <2>1. r.from \in Key /\ r.mine \in Period
    BY <1>5, Shape DEF GetTargetPeriod, Typed, Shaped
  <2>2. ASSUME NEW to \in Key, HasPeriod(to), Become(w, next(to))
        PROVE  Typed'
    <3>1. At(to).tutor \in Nat /\ r.mine.tutor \in Nat
      BY <2>1, <2>2, PeriodType, PeriodFields
    <3>2. Good(next(to), timetables, assigned)
      BY <2>1, <3>1 DEF Good, Request, Requesting
    <3> QED
      BY <1>1, <1>2, <2>2, <3>2, ReadOnly
  <2> QED
    BY <1>3, <1>5, <2>2 DEF GetTargetPeriod
<1>6. CASE HasPendingRequest(w)
  <2> DEFINE next == [req[w] EXCEPT !.pc = "insertSwap"]
  <2>1. next \in Request /\ next.pc = "insertSwap"
    BY <1>6, Shape DEF HasPendingRequest, Typed, Shaped
  <2>2. Become(w, next) \/ Finish(w)
    BY <1>6 DEF HasPendingRequest
  <2> HIDE DEF next
  <2>3. Good(next, timetables, assigned)
    BY <2>1 DEF Good
  <2> QED
    BY <1>1, <1>2, <1>3, <2>2, <2>3, ReadOnly
<1> QED
  BY <1>4, <1>5, <1>6

(* Steps that write requests for swaps and nothing else. *)
LEMMA SwapsWritten ==
  ASSUME Typed, NEW w \in Workers, Finish(w),
         UNCHANGED <<faults, courses, timetables, periods, performed>>,
         swaps' \in [Swaps -> SwapRequest \cup {NoSwap, DeletedSwap}],
         \A s \in Swaps : Exists(s)' =>
            HasPeriod(swaps'[s].from) /\ HasPeriod(swaps'[s].to)
  PROVE  Typed'
<1>1. Become(w, Idle) /\ UNCHANGED <<faults, tutorOf, assigned, timetables, periods, performed>>
  BY DEF Finish, courses
<1>2. /\ req' \in [Workers -> Request]
      /\ \A v \in Workers : Good(req'[v], timetables', assigned')
  BY <1>1, IdleGood, RequestsStay
<1>3. UnusedIsEmpty' /\ TutorsGiven' /\ TutorTeachesCourse'
  BY <1>1 DEF Typed, UnusedIsEmpty, TutorsGiven, TutorTeachesCourse, Lessons
<1>4. SwapsHavePeriods'
  BY <1>1 DEF SwapsHavePeriods, HasPeriod, At
<1>5. Shaped'
  BY <1>1, <1>2 DEF Typed, Shaped
<1> QED
  BY <1>2, <1>3, <1>4, <1>5 DEF Typed

LEMMA InsertSwapTyped ==
  ASSUME Typed, NEW w \in Workers, InsertSwap(w)
  PROVE  Typed'
<1> DEFINE r == req[w]
           row == [status |-> "PENDING", from |-> r.from, to |-> r.to,
                   fromTutor |-> r.fromTutor, toTutor |-> r.toTutor]
<1>1. /\ r.pc = "insertSwap" /\ r \in Request /\ Finish(w)
      /\ UNCHANGED <<faults, courses, timetables, periods, performed>>
  BY DEF InsertSwap, Typed, Shaped
<1>2. row \in SwapRequest
  BY <1>1, Shape DEF SwapRequest, SwapRequestStatus
<1>3. CASE UNCHANGED swaps
  BY <1>1, <1>3, SwapsWritten DEF Typed, Shaped, SwapsHavePeriods, Exists
<1>4. CASE ~(UNCHANGED swaps)
  <2>1. PICK s \in Swaps : swaps' = [swaps EXCEPT ![s] = row]
    BY <1>4 DEF InsertSwap
  <2>2. HasPeriod(row.from) /\ HasPeriod(row.to)
    BY <1>4 DEF InsertSwap
  <2> HIDE DEF row, r
  <2>3. \A u \in Swaps : swaps'[u] = IF u = s THEN row ELSE swaps[u]
    BY <2>1 DEF Typed, Shaped
  <2>4. swaps' \in [Swaps -> SwapRequest \cup {NoSwap, DeletedSwap}]
    BY <1>2, <2>1 DEF Typed, Shaped
  <2>5. \A u \in Swaps : Exists(u)' => HasPeriod(swaps'[u].from) /\ HasPeriod(swaps'[u].to)
    BY <2>2, <2>3 DEF Typed, SwapsHavePeriods, Exists
  <2> QED
    BY <1>1, <2>4, <2>5, SwapsWritten
<1> QED
  BY <1>3, <1>4

LEMMA AnswerTyped ==
  ASSUME Typed, NEW w \in Workers, NEW s \in Swaps,
         \/ RejectSwapRequest(w, s) \/ EscalateSwapRequest(w, s) \/ CancelSwapRequest(w, s)
  PROVE  Typed'
<1>1. PICK st \in {"REJECTED", "ESCALATED", "CANCELLED"} : Answer(w, s, st)
  BY DEF RejectSwapRequest, EscalateSwapRequest, CancelSwapRequest
<1> DEFINE next == [pc |-> "updateSwap", swap |-> s, status |-> st]
<1>2. Become(w, next) /\ UNCHANGED tables /\ faults' \in 0..MaxFaults
  BY <1>1 DEF Answer, Typed, Shaped
<1>3. Good(next, timetables, assigned)
  BY DEF Good, Request, Answering
<1> QED
  BY <1>2, <1>3, ReadOnly

LEMMA UpdateSwapTyped ==
  ASSUME Typed, NEW w \in Workers, UpdateSwapRequest(w)
  PROVE  Typed'
<1> DEFINE r == req[w]
<1>1. /\ r.swap \in Swaps /\ r.status \in {"REJECTED", "ESCALATED", "CANCELLED"}
      /\ Finish(w) /\ UNCHANGED <<faults, courses, timetables, periods, performed>>
      /\ swaps' = IF Exists(r.swap) THEN [swaps EXCEPT ![r.swap].status = r.status] ELSE swaps
  BY Shape DEF UpdateSwapRequest, Typed, Shaped
<1> HIDE DEF r
<1>2. CASE ~Exists(r.swap)
  BY <1>1, <1>2, SwapsWritten DEF Typed, Shaped, SwapsHavePeriods, Exists
<1>3. CASE Exists(r.swap)
  <2> DEFINE row == [swaps[r.swap] EXCEPT !.status = r.status]
  <2>1. swaps[r.swap] \in SwapRequest
    BY <1>1, <1>3, SwapRow
  <2>2. row \in SwapRequest /\ row.from = swaps[r.swap].from /\ row.to = swaps[r.swap].to
    BY <1>1, <2>1 DEF SwapRequest, SwapRequestStatus
  <2>3. swaps' = [swaps EXCEPT ![r.swap] = row]
    BY <1>1, <1>3
  <2> HIDE DEF row
  <2>4. swaps' \in [Swaps -> SwapRequest \cup {NoSwap, DeletedSwap}]
    BY <1>1, <2>2, <2>3 DEF Typed, Shaped
  <2>5. \A u \in Swaps : swaps'[u] = IF u = r.swap THEN row ELSE swaps[u]
    BY <2>3 DEF Typed, Shaped
  <2>6. \A u \in Swaps : Exists(u) => HasPeriod(swaps[u].from) /\ HasPeriod(swaps[u].to)
    BY DEF Typed, SwapsHavePeriods
  <2>7. \A u \in Swaps : Exists(u)' => HasPeriod(swaps'[u].from) /\ HasPeriod(swaps'[u].to)
    BY <1>3, <2>2, <2>5, <2>6 DEF Exists
  <2> QED
    BY <1>1, <2>4, <2>7, SwapsWritten
<1> QED
  BY <1>2, <1>3

LEMMA ApproveTyped ==
  ASSUME Typed, NEW w \in Workers, NEW s \in Swaps,
         ApproveSwapRequest(w, s) \/ AdminOverrideSwapRequest(w, s)
  PROVE  Typed'
<1>1. PICK admin \in BOOLEAN : Become(w, [pc |-> "readFirst", swap |-> s, admin |-> admin])
  BY DEF ApproveSwapRequest, AdminOverrideSwapRequest
<1>2. UNCHANGED tables /\ faults' \in 0..MaxFaults
  BY DEF ApproveSwapRequest, AdminOverrideSwapRequest, Typed, Shaped
<1>3. Good([pc |-> "readFirst", swap |-> s, admin |-> admin], timetables, assigned)
  BY DEF Good, Request, Swapping
<1> QED
  BY <1>1, <1>2, <1>3, ReadOnly

LEMMA PeriodReadsTyped ==
  ASSUME Typed, NEW w \in Workers, GetFirstPeriod(w) \/ GetSecondPeriod(w)
  PROVE  Typed'
<1> DEFINE r == req[w]
           s == r.swap
           one == [pc |-> "readSecond", swap |-> s, admin |-> r.admin, first |-> At(swaps[s].from)]
           two == [pc |-> "swap", swap |-> s, admin |-> r.admin, first |-> r.first,
                   second |-> At(swaps[s].to)]
<1>1. UNCHANGED tables /\ faults' \in 0..MaxFaults
  BY DEF GetFirstPeriod, GetSecondPeriod, Typed, Shaped
<1>2. /\ r \in Request /\ Good(r, timetables, assigned) /\ s \in Swaps /\ r.admin \in BOOLEAN
      /\ r.pc = "readSecond" => r.first \in Period
  BY Shape DEF GetFirstPeriod, GetSecondPeriod, Typed, Shaped
<1>3. CASE Finish(w)
  BY <1>1, <1>3, IdleGood, ReadOnly DEF Finish
<1>4. CASE Exists(s)
  <2>1. /\ At(swaps[s].from) \in Period /\ Teaches(At(swaps[s].from), assigned)
        /\ At(swaps[s].to) \in Period /\ Teaches(At(swaps[s].to), assigned)
    BY <1>2, <1>4, SwapRow, PeriodType
  <2>2. CASE r.pc = "readFirst"
    <3>1. Become(w, one)
      BY <1>4, <2>2 DEF GetFirstPeriod, GetSecondPeriod, FirstKey
    <3>2. one \in Request /\ one.pc = "readSecond" /\ one.first = At(swaps[s].from)
      BY <1>2, <2>1 DEF Request, Swapping
    <3> HIDE DEF one
    <3>3. Good(one, timetables, assigned)
      BY <2>1, <3>2 DEF Good
    <3> QED
      BY <1>1, <3>1, <3>3, ReadOnly
  <2>3. CASE r.pc = "readSecond"
    <3>1. Become(w, two)
      BY <1>4, <2>3 DEF GetFirstPeriod, GetSecondPeriod
    <3>2. Teaches(r.first, assigned) /\ r.first \in Period
      BY <1>2, <2>3 DEF Good
    <3>3. /\ two \in Request /\ two.pc = "swap" /\ two.first = r.first
          /\ two.second = At(swaps[s].to)
      BY <1>2, <2>1, <3>2 DEF Request, Swapping
    <3> HIDE DEF two
    <3>4. Good(two, timetables, assigned)
      BY <2>1, <3>2, <3>3 DEF Good
    <3> QED
      BY <1>1, <3>1, <3>4, ReadOnly
  <2> QED
    BY <2>2, <2>3 DEF GetFirstPeriod, GetSecondPeriod
<1> QED
  BY <1>3, <1>4 DEF GetFirstPeriod, GetSecondPeriod

(* The two UPDATEs of a swap: tutor and course change, both together. *)
LEMMA TakingType ==
  ASSUME NEW x \in Period, NEW y \in Period, NEW given, Teaches(y, given)
  PROVE  Taking(x, y) \in Period /\ Teaches(Taking(x, y), given)
<1>1. y.tutor \in Nat /\ y.course \in Courses
  BY PeriodFields
<1>2. [x EXCEPT !.tutor = y.tutor] \in Period /\ [x EXCEPT !.tutor = y.tutor].tutor = y.tutor
  BY <1>1 DEF Period
<1>3. PICK z \in Period : z = [x EXCEPT !.tutor = y.tutor] /\ z.tutor = y.tutor
  BY <1>2
<1>4. /\ [z EXCEPT !.course = y.course] \in Period
      /\ [z EXCEPT !.course = y.course].course = y.course
      /\ [z EXCEPT !.course = y.course].tutor = y.tutor
  BY <1>1, <1>3 DEF Period
<1>5. Taking(x, y) = [z EXCEPT !.course = y.course]
  BY <1>3 DEF Taking
<1> QED
  BY <1>4, <1>5 DEF Teaches

LEMMA SwapTyped ==
  ASSUME Typed, NEW w \in Workers, SwapPeriods(w)
  PROVE  Typed'
<1> DEFINE r == req[w]
           s == swaps[r.swap]
           one == Taking(At(s.from), r.second)
           two == Taking(At(s.to), r.first)
<1>1. /\ r.pc = "swap" /\ r \in Request /\ Good(r, timetables, assigned) /\ r.swap \in Swaps
      /\ r.first \in Period /\ r.second \in Period
      /\ Finish(w) /\ UNCHANGED <<faults, courses, timetables>>
  BY Shape DEF SwapPeriods, Typed, Shaped
<1>2. CASE UNCHANGED <<periods, swaps, performed>>
  BY <1>1, <1>2, SwapsWritten DEF Typed, Shaped, SwapsHavePeriods, Exists
<1>3. CASE ~UNCHANGED <<periods, swaps, performed>>
  <2>1. /\ Exists(r.swap)
        /\ periods' = [periods EXCEPT ![s.from[1]][s.from[2]] = one, ![s.to[1]][s.to[2]] = two]
        /\ swaps' = [swaps EXCEPT ![r.swap].status = "APPROVED"]
        /\ performed' = [performed EXCEPT ![r.swap] = IF @ < 2 THEN @ + 1 ELSE @]
    BY <1>3 DEF SwapPeriods
  <2>2. /\ s \in SwapRequest /\ s.from \in Key /\ s.to \in Key
        /\ HasPeriod(s.from) /\ HasPeriod(s.to)
    BY <1>1, <2>1, SwapRow
  <2>3. Teaches(r.first, assigned) /\ Teaches(r.second, assigned)
    BY <1>1 DEF Good
  <2>4. /\ one \in Period /\ Teaches(one, assigned)
        /\ two \in Period /\ Teaches(two, assigned)
    BY <1>1, <2>2, <2>3, PeriodType, TakingType
  <2> DEFINE key == s.from
             kez == s.to
  <2>5. key[1] \in Timetables /\ key[2] \in Slots /\ kez[1] \in Timetables /\ kez[2] \in Slots
    BY <2>2, KeyParts
  <2>6. periods' = [periods EXCEPT ![key[1]][key[2]] = one, ![kez[1]][kez[2]] = two]
    BY <2>1
  <2>7. periods \in [Timetables -> Week]
    BY DEF Typed, Shaped
  <2>8. HasPeriod(key) /\ HasPeriod(kez)
    BY <2>2
  <2>9. UNCHANGED <<faults, tutorOf, assigned, timetables>> /\ Become(w, Idle)
    BY <1>1 DEF courses, Finish
  <2>10. r.swap \in Swaps /\ swaps' = [swaps EXCEPT ![r.swap] = [s EXCEPT !.status = "APPROVED"]]
    BY <1>1, <2>1
  <2>11. performed' \in [Swaps -> 0..2]
    <3>1. performed \in [Swaps -> 0..2]
      BY DEF Typed, Shaped
    <3> DEFINE n == performed[r.swap]
    <3>2. n \in 0..2
      BY <1>1, <3>1
    <3>3. performed' = [performed EXCEPT ![r.swap] = IF n < 2 THEN n + 1 ELSE n]
      BY <2>1
    <3> HIDE DEF n
    <3>4. (IF n < 2 THEN n + 1 ELSE n) \in 0..2
      BY <3>2
    <3> QED
      BY <1>1, <3>1, <3>3, <3>4
  <2>12. [s EXCEPT !.status = "APPROVED"] \in SwapRequest
    BY <2>2 DEF SwapRequest, SwapRequestStatus
  <2>13. [s EXCEPT !.status = "APPROVED"].from = key /\ [s EXCEPT !.status = "APPROVED"].to = kez
    BY <2>2 DEF SwapRequest
  <2> HIDE DEF one, two
  <2>14. \A t \in Timetables : \A k \in Slots :
           periods'[t][k] = IF t = kez[1] /\ k = kez[2] THEN two
                            ELSE IF t = key[1] /\ k = key[2] THEN one ELSE periods[t][k]
    BY <2>5, <2>6, <2>7 DEF Week
  <2>15. periods' \in [Timetables -> Week]
    BY <2>4, <2>5, <2>6, <2>7 DEF Week
  <2> DEFINE id == r.swap
             row == [s EXCEPT !.status = "APPROVED"]
  <2>16. swaps' \in [Swaps -> SwapRequest \cup {NoSwap, DeletedSwap}]
    BY <2>10, <2>12 DEF Typed, Shaped
  <2>17. \A u \in Swaps : swaps'[u] = IF u = id THEN row ELSE swaps[u]
    BY <2>10 DEF Typed, Shaped
  <2>18. \A x \in Period : x # NoPeriod
    BY NoPeriodIsNone
  <2>19. \A c \in Key : HasPeriod(c) => HasPeriod(c)'
    BY <2>4, <2>14, <2>18, KeyParts DEF HasPeriod, At
  <2>20. row.from = key /\ row.to = kez
    BY <2>13
  <2>21. Exists(id)
    BY <2>1
  <2> HIDE DEF row, id, s, r
  <2>22. SwapsHavePeriods'
    <3> SUFFICES ASSUME NEW u \in Swaps, Exists(u)'
                 PROVE  HasPeriod(swaps[u].from)' /\ HasPeriod(swaps[u].to)'
      BY DEF SwapsHavePeriods
    <3>1. Exists(u)
      BY <2>17, <2>21 DEF Exists
    <3>2. swaps'[u].from = swaps[u].from /\ swaps'[u].to = swaps[u].to
      BY <2>17, <2>20 DEF s, id
    <3>3. /\ swaps[u].from \in Key /\ swaps[u].to \in Key
          /\ HasPeriod(swaps[u].from) /\ HasPeriod(swaps[u].to)
      BY <3>1, SwapRow
    <3> DEFINE from == swaps[u].from
               to == swaps[u].to
    <3>4. periods'[from[1]][from[2]] # NoPeriod /\ periods'[to[1]][to[2]] # NoPeriod
      BY <2>19, <3>3 DEF HasPeriod, At
    <3> QED
      BY <3>2, <3>4 DEF HasPeriod, At
  <2>23. UnusedIsEmpty'
    <3> SUFFICES ASSUME NEW t \in Timetables, timetables[t] = NoTimetable
                 PROVE  periods'[t] = EmptyWeek
      BY <2>9 DEF UnusedIsEmpty
    <3>1. periods[t] = EmptyWeek
      BY DEF Typed, UnusedIsEmpty
    <3>2. t # key[1] /\ t # kez[1]
      BY <2>5, <2>8, <3>1 DEF HasPeriod, At, EmptyWeek
    <3>3. periods'[t] = periods[t]
      BY <2>5, <2>6, <2>7, <3>2
    <3> QED
      BY <3>1, <3>3
  <2>24. TutorTeachesCourse'
    <3> SUFFICES ASSUME NEW t \in Timetables, NEW k \in Slots, periods'[t][k] # NoPeriod
                 PROVE  Teaches(periods'[t][k], assigned)
      BY <2>9 DEF TutorTeachesCourse, Lessons, Teaches
    <3>1. periods[t][k] # NoPeriod => Teaches(periods[t][k], assigned)
      BY DEF Typed, TutorTeachesCourse, Lessons, Teaches
    <3> QED
      BY <2>4, <2>14, <3>1
  <2>25. /\ req' \in [Workers -> Request]
         /\ \A v \in Workers : Good(req'[v], timetables', assigned')
    BY <2>9, IdleGood, RequestsStay
  <2>26. TutorsGiven'
    BY <2>9 DEF Typed, TutorsGiven
  <2>27. Shaped'
    BY <2>9, <2>11, <2>15, <2>16, <2>25 DEF Typed, Shaped
  <2> QED
    BY <2>22, <2>23, <2>24, <2>25, <2>26, <2>27 DEF Typed
<1> QED
  BY <1>2, <1>3

LEMMA FailTyped ==
  ASSUME Typed, NEW w \in Workers, RequestFails(w)
  PROVE  Typed'
<1>1. UNCHANGED tables /\ faults' \in 0..MaxFaults /\ Become(w, Idle)
  BY FaultOK DEF RequestFails, Finish
<1> QED
  BY <1>1, IdleGood, ReadOnly

LEMMA IdleTyped == Typed /\ UNCHANGED vars => Typed'
<1> SUFFICES ASSUME Typed, UNCHANGED vars
             PROVE  Typed'
  OBVIOUS
<1>1. UNCHANGED <<faults, tutorOf, assigned, timetables, periods, swaps, performed, req>>
  BY DEF vars, tables, courses, plans
<1>2. Shaped' /\ \A w \in Workers : Good(req'[w], timetables', assigned')
  BY <1>1 DEF Typed, Shaped
<1>3. SwapsHavePeriods' /\ UnusedIsEmpty' /\ TutorsGiven' /\ TutorTeachesCourse'
  BY <1>1 DEF Typed, SwapsHavePeriods, UnusedIsEmpty, TutorsGiven, TutorTeachesCourse,
              Exists, HasPeriod, At, Lessons
<1> QED
  BY <1>2, <1>3 DEF Typed

LEMMA NextTyped == Typed /\ [Next]_vars => Typed'
<1> SUFFICES ASSUME Typed, [Next]_vars
             PROVE  Typed'
  OBVIOUS
<1>1. ASSUME NEW w \in Workers, RequestStep(w)
      PROVE  Typed'
  <2>1. CASE \E cl \in Classes, tm \in Terms, cfg \in Configs : GenerateTimetable(w, cl, tm, cfg)
    BY <2>1, GenerateTyped
  <2>2. CASE PlanPeriods(w) \/ CommitTimetable(w)
    BY <2>2, PlanTyped, CommitTyped
  <2>3. CASE (\E t \in Timetables : PublishTimetable(w, t)) \/ GetPublishedTimetable(w)
    BY <2>3, PublishReads
  <2>4. CASE Publish(w)
    BY <2>4, PublishTyped
  <2>5. CASE \/ \E key \in Key : CreateSwapRequest(w, key)
             \/ GetTargetPeriod(w) \/ HasPendingRequest(w)
    BY <2>5, AskingTyped
  <2>6. CASE InsertSwap(w) \/ UpdateSwapRequest(w)
    BY <2>6, InsertSwapTyped, UpdateSwapTyped
  <2>7. ASSUME NEW s \in Swaps,
               \/ RejectSwapRequest(w, s) \/ EscalateSwapRequest(w, s) \/ CancelSwapRequest(w, s)
               \/ ApproveSwapRequest(w, s) \/ AdminOverrideSwapRequest(w, s)
        PROVE  Typed'
    BY <2>7, AnswerTyped, ApproveTyped
  <2>8. CASE GetFirstPeriod(w) \/ GetSecondPeriod(w)
    BY <2>8, PeriodReadsTyped
  <2>9. CASE SwapPeriods(w) \/ RequestFails(w)
    BY <2>9, SwapTyped, FailTyped
  <2> QED
    BY <1>1, <2>1, <2>2, <2>3, <2>4, <2>5, <2>6, <2>7, <2>8, <2>9 DEF RequestStep
<1> QED
  BY <1>1, ReassignTyped, IdleTyped DEF Next

LEMMA TypedAlways == Spec => []Typed
<1>1. Init => Typed
  BY InitTyped
<1>2. Typed /\ [Next]_vars => Typed'
  BY NextTyped
<1> QED
  BY <1>1, <1>2, PTL DEF Spec

(***************************************************************************)
(* Swap requests and the answers to them                                    *)
(***************************************************************************)
Working(r) == r.pc \in {"readFirst", "readSecond", "swap", "updateSwap"}
Open(s) == Exists(s) /\ swaps[s].status # "APPROVED"

(* An identifier that is not in use is nobody's; and unless answers crossed,  *)
(* the exchange and APPROVED come together, when nobody else is at it.        *)
AnswerOK(s) ==
    /\ swaps[s] = NoSwap => performed[s] = 0 /\ \A v \in Workers : ~Handles(v, s)
    /\ s \notin crossed =>
         /\ performed[s] \in {0, 1}
         /\ Exists(s) => (swaps[s].status = "APPROVED" <=> performed[s] = 1)
         /\ performed[s] = 1 => \A v \in Workers : ~Handles(v, s)
AnswersOK == crossed \subseteq Swaps /\ \A s \in Swaps : AnswerOK(s)

LEMMA SwapStatuses ==
  /\ NoSwap.status \notin SwapRequestStatus /\ DeletedSwap.status \notin SwapRequestStatus
  /\ DeletedSwap # NoSwap
  /\ \A row : row.status \in SwapRequestStatus => row # NoSwap
  BY DEF NoSwap, DeletedSwap, None, SwapRequestStatus

LEMMA OthersKeep ==
  ASSUME Inv, NEW w \in Workers, NEW r, Become(w, r)
  PROVE  req'[w] = r /\ \A v \in Workers \ {w} : req'[v] = req[v]
  BY DEF Inv, ReqOK, Become

(* A request that goes on with its swap request, or takes up an open one.     *)
LEMMA ReadKeepsAnswers ==
  ASSUME Inv, AnswersOK, NEW w \in Workers, NEW r, Become(w, r),
         UNCHANGED <<swaps, performed, crossed>>,
         Working(r) => \/ Working(req[w]) /\ r.swap = req[w].swap
                       \/ Open(r.swap)
  PROVE  AnswersOK'
<1>1. req'[w] = r /\ \A v \in Workers \ {w} : req'[v] = req[v]
  BY OthersKeep
<1>2. ASSUME NEW s \in Swaps PROVE AnswerOK(s)'
  <2>1. \A v \in Workers : Handles(v, s)' => Handles(v, s) \/ Open(s)
    BY <1>1 DEF Handles, Working
  <2>2. AnswerOK(s)
    BY DEF AnswersOK
  <2>3. Open(s) => swaps[s] # NoSwap /\ (s \notin crossed => performed[s] # 1)
    BY <2>2, SwapStatuses DEF Open, Exists, AnswerOK
  <2>4. (\A v \in Workers : ~Handles(v, s)) /\ ~Open(s) => \A v \in Workers : ~Handles(v, s)'
    BY <2>1
  <2> QED
    BY <2>2, <2>3, <2>4 DEF AnswerOK, Exists
<1> QED
  BY <1>2 DEF AnswersOK

LEMMA IdleWorks == ~Working(Idle)
  BY DEF Working, Idle

(* The steps that write no answer. *)
LEMMA ReadsKeepAnswers ==
  ASSUME Inv, Typed, AnswersOK, NEW w \in Workers,
         \/ \E cl \in Classes, tm \in Terms, cfg \in Configs : GenerateTimetable(w, cl, tm, cfg)
         \/ PlanPeriods(w) \/ GetPublishedTimetable(w) \/ Publish(w)
         \/ \E t \in Timetables : PublishTimetable(w, t)
         \/ \E key \in Key : CreateSwapRequest(w, key)
         \/ GetTargetPeriod(w) \/ HasPendingRequest(w)
         \/ \E s \in Swaps :
              \/ RejectSwapRequest(w, s) \/ EscalateSwapRequest(w, s) \/ CancelSwapRequest(w, s)
              \/ ApproveSwapRequest(w, s) \/ AdminOverrideSwapRequest(w, s)
         \/ GetFirstPeriod(w) \/ GetSecondPeriod(w) \/ RequestFails(w)
  PROVE  AnswersOK'
<1>1. UNCHANGED <<swaps, performed, crossed>>
  BY DEF GenerateTimetable, PlanPeriods, GetPublishedTimetable, Publish, PublishTimetable,
         CreateSwapRequest, GetTargetPeriod, HasPendingRequest, RejectSwapRequest,
         EscalateSwapRequest, CancelSwapRequest, Answer, ApproveSwapRequest,
         AdminOverrideSwapRequest, GetFirstPeriod, GetSecondPeriod, RequestFails, tables, plans
<1>2. ASSUME NEW r, Become(w, r), ~Working(r)
      PROVE  AnswersOK'
  BY <1>1, <1>2, ReadKeepsAnswers
<1>3. Finish(w) => AnswersOK'
  BY <1>2, IdleWorks DEF Finish
<1>4. CASE \E cl \in Classes, tm \in Terms, cfg \in Configs : GenerateTimetable(w, cl, tm, cfg)
  <2>1. PICK cl, tm, cfg, old, version : Become(w, Plan(cl, tm, cfg, old, version))
    BY <1>4 DEF GenerateTimetable
  <2>2. ~Working(Plan(cl, tm, cfg, old, version))
    BY DEF Plan, Working
  <2> QED
    BY <1>2, <2>1, <2>2
<1>5. CASE PlanPeriods(w)
  <2>1. PICK r : Become(w, r) /\ r.pc = "commit"
    BY <1>5 DEF PlanPeriods
  <2> QED
    BY <1>2, <2>1 DEF Working
<1>6. CASE \/ GetPublishedTimetable(w) \/ Publish(w)
           \/ \E t \in Timetables : PublishTimetable(w, t)
           \/ \E key \in Key : CreateSwapRequest(w, key)
           \/ GetTargetPeriod(w) \/ RequestFails(w)
  <2>1. CASE GetPublishedTimetable(w)
    <3>1. PICK old : Become(w, [pc |-> "publish", id |-> req[w].id, old |-> old])
      BY <2>1 DEF GetPublishedTimetable
    <3> QED
      BY <1>2, <3>1 DEF Working
  <2>2. CASE \E t \in Timetables : PublishTimetable(w, t)
    <3>1. PICK t : Become(w, [pc |-> "findPublished", id |-> t])
      BY <2>2 DEF PublishTimetable
    <3> QED
      BY <1>2, <3>1 DEF Working
  <2>3. CASE \E key \in Key : CreateSwapRequest(w, key)
    <3>1. PICK key : Become(w, [pc |-> "readTarget", from |-> key, mine |-> At(key)])
      BY <2>3 DEF CreateSwapRequest
    <3> QED
      BY <1>2, <3>1 DEF Working
  <2>4. CASE GetTargetPeriod(w)
    <3>1. PICK to : \/ Finish(w)
                    \/ Become(w, [pc |-> "hasPending", from |-> req[w].from, to |-> to,
                                  fromTutor |-> req[w].mine.tutor, toTutor |-> At(to).tutor])
      BY <2>4 DEF GetTargetPeriod
    <3> QED
      BY <1>2, <1>3, <3>1 DEF Working
  <2>5. CASE Publish(w) \/ RequestFails(w)
    BY <1>3, <2>5 DEF Publish, RequestFails
  <2> QED
    BY <1>6, <2>1, <2>2, <2>3, <2>4, <2>5
<1>7. CASE HasPendingRequest(w)
  <2> PICK q \in Request : q = req[w]
    BY DEF Typed, Shaped
  <2>1. [q EXCEPT !.pc = "insertSwap"].pc = "insertSwap"
    BY <1>7, Shape DEF HasPendingRequest
  <2>2. Finish(w) \/ Become(w, [q EXCEPT !.pc = "insertSwap"])
    BY <1>7 DEF HasPendingRequest
  <2> QED
    BY <1>2, <1>3, <2>1, <2>2 DEF Working
<1>8. ASSUME NEW s \in Swaps,
             \/ RejectSwapRequest(w, s) \/ EscalateSwapRequest(w, s) \/ CancelSwapRequest(w, s)
             \/ ApproveSwapRequest(w, s) \/ AdminOverrideSwapRequest(w, s)
      PROVE  AnswersOK'
  <2>1. swaps[s].status \in {"PENDING", "REJECTED", "ESCALATED"}
    BY <1>8 DEF RejectSwapRequest, EscalateSwapRequest, CancelSwapRequest, ApproveSwapRequest,
       AdminOverrideSwapRequest, Approvable
  <2>2. Open(s)
    BY <2>1 DEF Open, Exists, SwapRequestStatus
  <2>3. PICK r : Become(w, r) /\ r.swap = s
    BY <1>8 DEF RejectSwapRequest, EscalateSwapRequest, CancelSwapRequest, Answer, ApproveSwapRequest,
       AdminOverrideSwapRequest
  <2> QED
    BY <1>1, <2>2, <2>3, ReadKeepsAnswers
<1>9. CASE GetFirstPeriod(w) \/ GetSecondPeriod(w)
  <2>1. Working(req[w])
    BY <1>9 DEF GetFirstPeriod, GetSecondPeriod, Working
  <2>2. PICK r : Become(w, r) /\ (r = Idle \/ r.swap = req[w].swap)
    BY <1>9 DEF GetFirstPeriod, GetSecondPeriod, Finish
  <2> QED
    BY <1>1, <2>1, <2>2, IdleWorks, ReadKeepsAnswers
<1> QED
  BY <1>4, <1>5, <1>6, <1>7, <1>8, <1>9

(* A request that finishes handles nothing. *)
LEMMA FinishHandles ==
  ASSUME Inv, NEW w \in Workers, Finish(w)
  PROVE  \A v \in Workers, s \in Swaps : Handles(v, s)' => v # w /\ Handles(v, s)
<1>1. req'[w] = Idle /\ \A v \in Workers \ {w} : req'[v] = req[v]
  BY OthersKeep DEF Finish
<1> QED
  BY <1>1 DEF Handles, Idle

(* The cascade takes requests away that nobody can answer any more. *)
LEMMA CommitKeepsAnswers ==
  ASSUME Inv, AnswersOK, NEW w \in Workers, CommitTimetable(w)
  PROVE  AnswersOK'
<1>1. /\ Finish(w) /\ UNCHANGED <<performed, crossed>>
      /\ \/ swaps' = swaps
         \/ swaps' = Cascade(req[w].old)
  BY DEF CommitTimetable, plans
<1>2. ASSUME NEW s \in Swaps PROVE AnswerOK(s)'
  <2>1. swaps'[s] = swaps[s] \/ swaps'[s] = DeletedSwap
    BY <1>1 DEF Cascade
  <2>2. \A v \in Workers : Handles(v, s)' => Handles(v, s)
    BY <1>1, FinishHandles
  <2>3. AnswerOK(s)
    BY DEF AnswersOK
  <2> QED
    BY <1>1, <2>1, <2>2, <2>3, SwapStatuses DEF AnswerOK, Exists
<1> QED
  BY <1>1, <1>2 DEF AnswersOK

LEMMA InsertKeepsAnswers ==
  ASSUME Inv, AnswersOK, NEW w \in Workers, InsertSwap(w)
  PROVE  AnswersOK'
<1>1. Finish(w) /\ UNCHANGED <<performed, crossed>>
  BY DEF InsertSwap
<1>2. swaps' = swaps \/ \E q \in Swaps : \E row :
        swaps[q] = NoSwap /\ row.status = "PENDING" /\ swaps' = [swaps EXCEPT ![q] = row]
  BY DEF InsertSwap
<1>3. ASSUME NEW s \in Swaps PROVE AnswerOK(s)'
  <2>1. \A v \in Workers : Handles(v, s)' => Handles(v, s)
    BY <1>1, FinishHandles
  <2>2. AnswerOK(s)
    BY DEF AnswersOK
  <2>3. CASE swaps'[s] = swaps[s]
    BY <1>1, <2>1, <2>2, <2>3 DEF AnswerOK, Exists
  <2>4. CASE swaps'[s] # swaps[s]
    <3>1. swaps[s] = NoSwap /\ swaps'[s].status = "PENDING"
      BY <1>2, <2>4 DEF Inv, RowsOK
    <3>2. swaps'[s] # NoSwap
      BY <3>1, SwapStatuses DEF SwapRequestStatus
    <3> QED
      BY <1>1, <2>1, <2>2, <3>1, <3>2 DEF AnswerOK, Exists
  <2> QED
    BY <2>3, <2>4
<1> QED
  BY <1>1, <1>3 DEF AnswersOK

(* Whoever answers is the only one to handle the request, or it is crossed.   *)
LEMMA AnsweredAlone ==
  ASSUME Inv, AnswersOK, NEW w \in Workers, Finish(w), NEW s \in Swaps, Answered(w, s)
  PROVE  /\ crossed' \subseteq Swaps
         /\ \A q \in Swaps \ {s} : q \in crossed' <=> q \in crossed
         /\ s \notin crossed' => /\ s \notin crossed
                                 /\ \A v \in Workers : ~Handles(v, s)'
<1>1. \A v \in Workers : Handles(v, s)' => v # w /\ Handles(v, s)
  BY FinishHandles
<1> QED
  BY <1>1 DEF Answered, AnswersOK

LEMMA UpdateKeepsAnswers ==
  ASSUME Inv, Typed, AnswersOK, NEW w \in Workers, UpdateSwapRequest(w)
  PROVE  AnswersOK'
<1> PICK r \in Request : r = req[w]
  BY DEF Typed, Shaped
<1> PICK q : q = r.swap
  OBVIOUS
<1>1. Finish(w) /\ UNCHANGED performed /\ r.pc = "updateSwap"
  BY DEF UpdateSwapRequest
<1>2. q \in Swaps /\ r.status \in {"REJECTED", "ESCALATED", "CANCELLED"}
  BY <1>1, Shape
<1>3. CASE ~Exists(q)
  <2>1. UNCHANGED <<swaps, crossed>>
    BY <1>3 DEF UpdateSwapRequest
  <2> QED
    BY <1>1, <2>1, ReadKeepsAnswers, IdleWorks DEF Finish
<1>4. CASE Exists(q)
  <2>1. swaps' = [swaps EXCEPT ![q].status = r.status] /\ Answered(w, q)
    BY <1>4 DEF UpdateSwapRequest
  <2>2. /\ crossed' \subseteq Swaps
        /\ \A s \in Swaps \ {q} : s \in crossed' <=> s \in crossed
        /\ q \notin crossed' => q \notin crossed /\ \A v \in Workers : ~Handles(v, q)'
    BY <1>1, <1>2, <2>1, AnsweredAlone
  <2>3. AnswerOK(q)'
    <3>1. swaps'[q].status = r.status
      BY <1>2, <2>1, StatusSet DEF Inv, RowsOK
    <3>2. swaps'[q] # NoSwap
      BY <1>2, <3>1, SwapStatuses DEF SwapRequestStatus
    <3>3. q \notin crossed => performed[q] = 0
      BY <1>1, <1>2 DEF AnswersOK, AnswerOK, Handles
    <3> QED
      BY <1>1, <1>2, <2>2, <3>1, <3>2, <3>3 DEF AnswerOK, Exists
  <2>4. ASSUME NEW s \in Swaps \ {q} PROVE AnswerOK(s)'
    <3>1. swaps'[s] = swaps[s]
      BY <2>1 DEF Inv, RowsOK
    <3>2. \A v \in Workers : Handles(v, s)' => Handles(v, s)
      BY <1>1, FinishHandles
    <3>3. AnswerOK(s)
      BY DEF AnswersOK
    <3>4. s \in crossed' <=> s \in crossed
      BY <2>2
    <3> QED
      BY <1>1, <3>1, <3>2, <3>3, <3>4 DEF AnswerOK, Exists
  <2> QED
    BY <2>2, <2>3, <2>4 DEF AnswersOK
<1> QED
  BY <1>3, <1>4

LEMMA SwapKeepsAnswers ==
  ASSUME Inv, Typed, AnswersOK, NEW w \in Workers, SwapPeriods(w)
  PROVE  AnswersOK'
<1> PICK r \in Request : r = req[w]
  BY DEF Typed, Shaped
<1> PICK q : q = r.swap
  OBVIOUS
<1>1. Finish(w) /\ r.pc = "swap"
  BY DEF SwapPeriods
<1>2. q \in Swaps
  BY <1>1, Shape
<1>3. CASE UNCHANGED <<swaps, performed, crossed>>
  BY <1>1, <1>3, ReadKeepsAnswers, IdleWorks DEF Finish
<1>4. CASE ~UNCHANGED <<swaps, performed, crossed>>
  <2>1. /\ Exists(q) /\ Answered(w, q)
        /\ swaps' = [swaps EXCEPT ![q].status = "APPROVED"]
        /\ performed' = [performed EXCEPT ![q] = IF @ < 2 THEN @ + 1 ELSE @]
    BY <1>4 DEF SwapPeriods
  <2>2. /\ crossed' \subseteq Swaps
        /\ \A s \in Swaps \ {q} : s \in crossed' <=> s \in crossed
        /\ q \notin crossed' => q \notin crossed /\ \A v \in Workers : ~Handles(v, q)'
    BY <1>1, <1>2, <2>1, AnsweredAlone
  <2>3. AnswerOK(q)'
    <3>1. swaps'[q].status = "APPROVED"
      BY <1>2, <2>1, StatusSet DEF Inv, RowsOK
    <3>2. swaps'[q] # NoSwap
      BY <1>2, <3>1, SwapStatuses DEF SwapRequestStatus
    <3>3. q \notin crossed => performed[q] = 0
      BY <1>1, <1>2 DEF AnswersOK, AnswerOK, Handles
    <3>4. q \notin crossed => performed'[q] = 1
      BY <1>2, <2>1, <3>3 DEF Inv, RowsOK
    <3> QED
      BY <1>2, <2>2, <3>1, <3>2, <3>4 DEF AnswerOK, Exists
  <2>4. ASSUME NEW s \in Swaps \ {q} PROVE AnswerOK(s)'
    <3>1. swaps'[s] = swaps[s] /\ performed'[s] = performed[s]
      BY <2>1 DEF Inv, RowsOK
    <3>2. \A v \in Workers : Handles(v, s)' => Handles(v, s)
      BY <1>1, FinishHandles
    <3>3. AnswerOK(s)
      BY DEF AnswersOK
    <3>4. s \in crossed' <=> s \in crossed
      BY <2>2
    <3> QED
      BY <3>1, <3>2, <3>3, <3>4 DEF AnswerOK, Exists
  <2> QED
    BY <2>2, <2>3, <2>4 DEF AnswersOK
<1> QED
  BY <1>3, <1>4

LEMMA AnswersStep ==
  ASSUME Inv, Typed, AnswersOK, [Next]_vars
  PROVE  AnswersOK'
<1>1. CASE UNCHANGED vars \/ \E c \in Courses : \E tutor \in Candidates[c] : ReassignTutor(c, tutor)
  <2>1. UNCHANGED <<swaps, performed, crossed, req>>
    BY <1>1 DEF vars, tables, plans, ReassignTutor
  <2> QED
    BY <2>1 DEF AnswersOK, AnswerOK, Exists, Handles
<1>2. ASSUME NEW w \in Workers, RequestStep(w)
      PROVE  AnswersOK'
  BY <1>2, ReadsKeepAnswers, CommitKeepsAnswers, InsertKeepsAnswers, UpdateKeepsAnswers,
     SwapKeepsAnswers DEF RequestStep
<1> QED
  BY <1>1, <1>2 DEF Next

LEMMA AnswersOKAlways == Spec => []AnswersOK
<1>1. Init => AnswersOK
  BY SwapStatuses DEF Init, AnswersOK, AnswerOK, Exists, Handles, Idle
<1>2. Inv /\ Typed /\ AnswersOK /\ [Next]_vars => AnswersOK'
  BY AnswersStep
<1> QED
  BY <1>1, <1>2, InvAlways, TypedAlways, PTL DEF Spec

(* Where no two answers to a swap request crossed, its periods are exchanged  *)
(* at most once, and it says APPROVED just when they were, for any number of  *)
(* requests, timetables and swaps and any order of their steps.               *)
THEOREM AnswersAlwaysStand == Spec => []AnswersStand
<1>1. AnswersOK => AnswersStand
  BY DEF AnswersOK, AnswerOK, AnswersStand
<1> QED
  BY <1>1, AnswersOKAlways, PTL

(* However requests race, every row and every request keeps the shape the    *)
(* code gives it: no swap request is left with a period that is gone.        *)
THEOREM TypeCorrect == Spec => []TypeOK
<1>1. Typed /\ AnswersOK => TypeOK
  BY DEF Typed, Shaped, AnswersOK, TypeOK
<1> QED
  BY <1>1, TypedAlways, AnswersOKAlways, PTL

(* However swaps and generations race, the tutor of a period has been        *)
(* assigned the course of that period.                                       *)
THEOREM TutorsTeachTheirCourses == Spec => []TutorTeachesCourse
<1>1. Typed => TutorTeachesCourse
  BY DEF Typed
<1> QED
  BY <1>1, TypedAlways, PTL

(***************************************************************************)
(* One request at a time                                                    *)
(***************************************************************************)
(* Once a class has a timetable of a term it always has one in use: a newer  *)
(* one takes its place in the same transaction.                              *)
SomeIsLive ==
    \A t \in Timetables : timetables[t] # NoTimetable =>
        \E u \in Timetables : /\ timetables[u].status \in Live
                              /\ timetables[u].class = timetables[t].class
                              /\ timetables[u].term = timetables[t].term

(* What a generation has read of its predecessor is still so when it commits, *)
(* and a publication never finds another published timetable.                *)
Current(r, tts) ==
    /\ r.pc \in {"plan", "commit"} =>
         IF r.old = None
         THEN \A t \in Timetables : tts[t] # NoTimetable =>
                tts[t].class # r.class \/ tts[t].term # r.term
         ELSE /\ tts[r.old].status \in Live
              /\ tts[r.old].class = r.class /\ tts[r.old].term = r.term
              /\ r.version = tts[r.old].version + 1
    /\ r.pc = "findPublished" => tts[r.id].status = "DRAFT"
    /\ r.pc = "publish" => r.old = None

Succession(w) == LiveIsNewest /\ SomeIsLive /\ Current(req[w], timetables)

LEMMA IdleCurrent == \A T : Current(Idle, T)
  BY DEF Current, Idle

LEMMA NoRow == NoTimetable.status \notin Live \cup {"ARCHIVED"}
  BY DEF NoTimetable, Live, None

(* Steps that write no timetable. *)
LEMMA SuccessionStays ==
  ASSUME NEW w, Succession(w), UNCHANGED timetables, Current(req'[w], timetables)
  PROVE  Succession(w)'
<1>1. LiveIsNewest' /\ SomeIsLive'
  BY DEF Succession, LiveIsNewest, SomeIsLive
<1>2. Current(req'[w], timetables')
  OBVIOUS
<1> QED
  BY <1>1, <1>2 DEF Succession

LEMMA BecomeIs ==
  ASSUME Typed, NEW w \in Workers, NEW r, Become(w, r)
  PROVE  req'[w] = r
  BY DEF Typed, Shaped, Become

LEMMA GenerateCurrent ==
  ASSUME Typed, NEW w \in Workers, Succession(w), MaxFaults = 0,
         NEW cl \in Classes, NEW tm \in Terms, NEW cfg \in Configs,
         GenerateTimetable(w, cl, tm, cfg)
  PROVE  Succession(w)'
<1>1. UNCHANGED timetables
  BY DEF GenerateTimetable, tables, plans
<1>2. ~(faults < MaxFaults)
  BY DEF Typed, Shaped
<1>3. CASE LiveOf(cl, tm) = {} /\ Become(w, Plan(cl, tm, cfg, None, 1))
  <2> DEFINE r == Plan(cl, tm, cfg, None, 1)
  <2>1. r.pc = "plan" /\ r.old = None /\ r.class = cl /\ r.term = tm
    BY DEF Plan
  <2>2. req'[w] = r
    BY <1>3, BecomeIs
  <2> HIDE DEF r
  <2>3. \A t \in Timetables : timetables[t] # NoTimetable =>
          timetables[t].class # cl \/ timetables[t].term # tm
    BY <1>3 DEF Succession, SomeIsLive, LiveOf
  <2>4. Current(r, timetables)
    BY <2>1, <2>3 DEF Current
  <2> QED
    BY <1>1, <2>2, <2>4, SuccessionStays
<1>4. ASSUME NEW t \in Newest(LiveOf(cl, tm)),
             Become(w, Plan(cl, tm, cfg, t, timetables[t].version + 1))
      PROVE  Succession(w)'
  <2> DEFINE r == Plan(cl, tm, cfg, t, timetables[t].version + 1)
  <2>1. /\ r.pc = "plan" /\ r.old = t /\ r.class = cl /\ r.term = tm
        /\ r.version = timetables[t].version + 1
    BY DEF Plan
  <2>2. req'[w] = r
    BY <1>4, BecomeIs
  <2> HIDE DEF r
  <2>3. /\ t \in Timetables /\ timetables[t].status \in Live
        /\ timetables[t].class = cl /\ timetables[t].term = tm
    BY DEF Newest, LiveOf
  <2>4. t # None
    BY <2>3, TimetablesAssumption
  <2>5. Current(r, timetables)
    BY <2>1, <2>3, <2>4 DEF Current
  <2> QED
    BY <1>1, <2>2, <2>5, SuccessionStays
<1> QED
  BY <1>2, <1>3, <1>4 DEF GenerateTimetable

LEMMA PlanCurrent ==
  ASSUME Typed, NEW w \in Workers, Succession(w), PlanPeriods(w)
  PROVE  Succession(w)'
<1> DEFINE r == req[w]
           planned(week) == [pc |-> "commit", class |-> r.class, term |-> r.term, cfg |-> r.cfg,
                             tutors |-> r.tutors, old |-> r.old, version |-> r.version,
                             week |-> week]
<1>1. UNCHANGED timetables /\ r.pc = "plan"
  BY DEF PlanPeriods, tables, plans
<1>2. \E week : Become(w, planned(week))
  BY DEF PlanPeriods
<1>3. PICK week : Become(w, planned(week))
  BY <1>2
<1> DEFINE next == planned(week)
<1>4. req'[w] = next
  BY <1>3, BecomeIs
<1>5. /\ next.pc = "commit" /\ next.old = r.old /\ next.class = r.class
      /\ next.term = r.term /\ next.version = r.version
  OBVIOUS
<1>6. Current(r, timetables)
  BY DEF Succession
<1> HIDE DEF r, next
<1>7. Current(next, timetables)
  BY <1>1, <1>5, <1>6 DEF Current
<1> QED
  BY <1>1, <1>4, <1>7, SuccessionStays

LEMMA CommitCurrent ==
  ASSUME Typed, NEW w \in Workers, Succession(w), CommitTimetable(w)
  PROVE  Succession(w)'
<1> DEFINE r == req[w]
<1>1. r.pc = "commit" /\ r \in Request /\ req'[w] = Idle /\ Current(r, timetables)
  BY BecomeIs DEF CommitTimetable, Finish, Typed, Shaped, Succession
<1>2. r.class \in Classes /\ r.term \in Terms /\ r.version \in Nat
      /\ r.old \in Timetables \cup {None}
  BY <1>1, Shape DEF Committing
<1>3. CASE UNCHANGED plans
  BY <1>1, <1>3, IdleCurrent, SuccessionStays DEF plans
<1>4. CASE ~UNCHANGED plans
  <2>1. PICK t \in Timetables :
          /\ timetables[t] = NoTimetable
          /\ timetables' = [Archived(r.old) EXCEPT ![t] =
                [class |-> r.class, term |-> r.term, status |-> "DRAFT", version |-> r.version]]
    BY <1>4 DEF CommitTimetable
  <2> DEFINE old == r.old
             cl == r.class
             tm == r.term
             version == r.version
             row == [class |-> cl, term |-> tm, status |-> "DRAFT", version |-> version]
  <2>2. /\ old = None => \A u \in Timetables : timetables[u] # NoTimetable =>
                           timetables[u].class # cl \/ timetables[u].term # tm
        /\ old # None => /\ old \in Timetables /\ timetables[old].status \in Live
                         /\ timetables[old].class = cl /\ timetables[old].term = tm
                         /\ version = timetables[old].version + 1
    BY <1>1, <1>2 DEF Current
  <2>3. row.class = cl /\ row.term = tm /\ row.status \in Live /\ row.version = version
    BY DEF Live
  <2> HIDE DEF row, r
  <2>4. \A u \in Timetables : timetables[u].status \in Live => timetables[u] # NoTimetable
    BY NoRow
  <2>5. old # None => timetables[old] \in Timetable
    BY <2>2, <2>4 DEF Typed, Shaped
  <2>6. \A u \in Timetables :
          timetables'[u] = IF u = t THEN row
                           ELSE IF u = old THEN [timetables[u] EXCEPT !.status = "ARCHIVED"]
                           ELSE timetables[u]
    BY <2>1 DEF Archived, row
  <2>7. old # None => t # old
    BY <2>1, <2>2, <2>4
  <2>8. old # None => /\ timetables'[old].status = "ARCHIVED"
                      /\ timetables'[old].class = cl /\ timetables'[old].term = tm
                      /\ timetables'[old].version < version
    <3> SUFFICES ASSUME old # None
                 PROVE  /\ timetables'[old].status = "ARCHIVED"
                        /\ timetables'[old].class = cl /\ timetables'[old].term = tm
                        /\ timetables'[old].version < version
      OBVIOUS
    <3> DEFINE was == timetables[old]
    <3>1. was \in Timetable
      BY <2>5
    <3>2. timetables'[old] = [was EXCEPT !.status = "ARCHIVED"]
      BY <2>2, <2>6, <2>7
    <3>3. was.class = cl /\ was.term = tm /\ version = was.version + 1
      BY <2>2
    <3> HIDE DEF was, version, cl, tm, old
    <3>4. /\ [was EXCEPT !.status = "ARCHIVED"].status = "ARCHIVED"
          /\ [was EXCEPT !.status = "ARCHIVED"].class = was.class
          /\ [was EXCEPT !.status = "ARCHIVED"].term = was.term
          /\ [was EXCEPT !.status = "ARCHIVED"].version = was.version
          /\ was.version \in Nat
      BY <3>1 DEF Timetable
    <3> QED
      BY <3>2, <3>3, <3>4
  <2>9. /\ timetables'[t] = row
        /\ \A u \in Timetables : u # t /\ u # old => timetables'[u] = timetables[u]
    BY <2>6
  <2> HIDE DEF old, cl, tm, version
  <2>10. old \in Timetables => old # None
    BY TimetablesAssumption
  <2>11. \A u \in Timetables : u # t /\ u # old /\ timetables[u] # NoTimetable
                               /\ timetables[u].class = cl /\ timetables[u].term = tm =>
           /\ old # None
           /\ timetables[u].status = "ARCHIVED" /\ timetables[u].version < version
    <3> SUFFICES ASSUME NEW u \in Timetables, u # t, u # old, timetables[u] # NoTimetable,
                        timetables[u].class = cl, timetables[u].term = tm
                 PROVE  /\ old # None
                        /\ timetables[u].status = "ARCHIVED" /\ timetables[u].version < version
      OBVIOUS
    <3>1. old # None
      BY <2>2
    <3>2. /\ timetables[u].status = "ARCHIVED"
          /\ timetables[u].version < timetables[old].version
      BY <2>2, <3>1 DEF Succession, LiveIsNewest
    <3>3. timetables[u].version \in Nat /\ timetables[old].version \in Nat
      BY <2>2, <2>5, <3>1 DEF Typed, Shaped, Timetable
    <3> QED
      BY <2>2, <3>1, <3>2, <3>3
  <2>12. "ARCHIVED" \notin Live
    BY DEF Live
  <2>13. LiveIsNewest'
    <3> SUFFICES ASSUME NEW a \in Timetables, NEW b \in Timetables,
                        timetables'[a].status \in Live, timetables'[b] # NoTimetable, a # b,
                        timetables'[a].class = timetables'[b].class,
                        timetables'[a].term = timetables'[b].term
                 PROVE  /\ timetables'[b].status = "ARCHIVED"
                        /\ timetables'[b].version < timetables'[a].version
      BY DEF LiveIsNewest
    <3>1. a # old
      BY <2>8, <2>10, <2>12
    <3>2. CASE a = t
      <4>1. CASE b = old
        BY <2>3, <2>8, <2>9, <2>10, <3>2, <4>1
      <4>2. CASE b # old
        BY <2>3, <2>9, <2>11, <3>2, <4>2
      <4> QED
        BY <4>1, <4>2
    <3>3. CASE a # t
      <4>1. timetables'[a] = timetables[a] /\ timetables[a] # NoTimetable
        BY <2>4, <2>9, <3>1, <3>3
      <4>2. b # t /\ b # old
        BY <2>3, <2>8, <2>9, <2>10, <2>11, <2>12, <3>1, <3>3, <4>1
      <4> QED
        BY <2>9, <4>1, <4>2 DEF Succession, LiveIsNewest
    <3> QED
      BY <3>2, <3>3
  <2>14. SomeIsLive'
    <3> SUFFICES ASSUME NEW b \in Timetables, timetables'[b] # NoTimetable
                 PROVE  \E u \in Timetables : /\ timetables'[u].status \in Live
                                              /\ timetables'[u].class = timetables'[b].class
                                              /\ timetables'[u].term = timetables'[b].term
      BY DEF SomeIsLive
    <3>1. CASE b \in {t, old}
      BY <2>3, <2>8, <2>9, <2>10, <3>1
    <3>2. CASE b \notin {t, old}
      <4>1. timetables'[b] = timetables[b]
        BY <2>9, <3>2
      <4>2. PICK u \in Timetables : /\ timetables[u].status \in Live
                                    /\ timetables[u].class = timetables[b].class
                                    /\ timetables[u].term = timetables[b].term
        BY <4>1 DEF Succession, SomeIsLive
      <4>3. u # t
        BY <2>1, <2>4, <4>2
      <4>4. CASE u = old
        BY <2>2, <2>3, <2>9, <2>10, <4>1, <4>2, <4>4
      <4>5. CASE u # old
        BY <2>9, <4>1, <4>2, <4>3, <4>5
      <4> QED
        BY <4>4, <4>5
    <3> QED
      BY <3>1, <3>2
  <2>15. Current(req'[w], timetables')
    BY <1>1, IdleCurrent
  <2> QED
    BY <2>13, <2>14, <2>15 DEF Succession
<1> QED
  BY <1>3, <1>4

LEMMA FindPublishedCurrent ==
  ASSUME Typed, NEW w \in Workers, Succession(w), MaxFaults = 0, GetPublishedTimetable(w)
  PROVE  Succession(w)'
<1> DEFINE t == req[w].id
           next(old) == [pc |-> "publish", id |-> t, old |-> old]
<1>1. UNCHANGED timetables /\ t \in Timetables /\ timetables[t].status = "DRAFT"
  BY Shape DEF GetPublishedTimetable, tables, plans, Typed, Shaped, Succession, Current
<1>2. ~(faults < MaxFaults)
  BY DEF Typed, Shaped
<1>3. \A u \in LiveOf(timetables[t].class, timetables[t].term) : timetables[u].status = "DRAFT"
  <2> SUFFICES ASSUME NEW u \in LiveOf(timetables[t].class, timetables[t].term), u # t
               PROVE  FALSE
    BY <1>1
  <2>1. /\ u \in Timetables /\ timetables[u].status \in Live
        /\ timetables[u].class = timetables[t].class /\ timetables[u].term = timetables[t].term
    BY DEF LiveOf
  <2>2. timetables[t] # NoTimetable
    BY <1>1 DEF NoTimetable, None
  <2>3. timetables[t].status = "ARCHIVED"
    BY <1>1, <2>1, <2>2 DEF Succession, LiveIsNewest
  <2> QED
    BY <1>1, <2>3
<1>4. {u \in LiveOf(timetables[t].class, timetables[t].term) :
         timetables[u].status = "PUBLISHED"} = {}
  BY <1>3
<1>5. Become(w, next(None))
  BY <1>2, <1>4 DEF GetPublishedTimetable, Newest
<1>6. req'[w] = next(None)
  BY <1>5, BecomeIs
<1>7. Current(next(None), timetables)
  BY DEF Current
<1> QED
  BY <1>1, <1>6, <1>7, SuccessionStays

LEMMA PublishCurrent ==
  ASSUME Typed, NEW w \in Workers, Succession(w), Publish(w)
  PROVE  Succession(w)'
<1> DEFINE t == req[w].id
<1>1. /\ t \in Timetables /\ req[w].old = None /\ req'[w] = Idle
      /\ timetables' = IF Publishable(t) THEN [Archived(None) EXCEPT ![t].status = "PUBLISHED"]
                       ELSE timetables
  BY Shape, BecomeIs DEF Publish, Finish, Typed, Shaped, Succession, Current
<1> HIDE DEF t
<1>2. CASE ~Publishable(t)
  BY <1>1, <1>2, IdleCurrent, SuccessionStays
<1>3. CASE Publishable(t)
  <2> DEFINE row == [timetables[t] EXCEPT !.status = "PUBLISHED"]
  <2>1. timetables[t].status = "DRAFT" /\ timetables[t] \in Timetable
    <3>1. timetables[t].status = "DRAFT"
      BY <1>3 DEF Publishable
    <3>2. timetables[t] # NoTimetable
      BY <3>1 DEF NoTimetable, None
    <3> QED
      BY <1>1, <3>1, <3>2 DEF Typed, Shaped
  <2>2. /\ row.status \in Live /\ timetables[t].status \in Live
        /\ row.class = timetables[t].class
        /\ row.term = timetables[t].term /\ row.version = timetables[t].version
    BY <2>1 DEF Timetable, Live
  <2>3. \A u \in Timetables : Archived(None)[u] = timetables[u]
    BY TimetablesAssumption DEF Archived
  <2>4. timetables' = [Archived(None) EXCEPT ![t] = [Archived(None)[t] EXCEPT !.status = "PUBLISHED"]]
    BY <1>1, <1>3
  <2>5. \A u \in Timetables : timetables'[u] = IF u = t THEN row ELSE timetables[u]
    BY <1>1, <2>3, <2>4 DEF Archived
  <2> HIDE DEF row
  <2>6. row # NoTimetable /\ timetables[t] # NoTimetable
    BY <2>2, NoRow
  <2>7. \A u \in Timetables :
          /\ timetables'[u].status \in Live <=> timetables[u].status \in Live
          /\ timetables'[u].status = "ARCHIVED" <=> timetables[u].status = "ARCHIVED"
          /\ timetables'[u] = NoTimetable <=> timetables[u] = NoTimetable
          /\ timetables'[u].class = timetables[u].class
          /\ timetables'[u].term = timetables[u].term
          /\ timetables'[u].version = timetables[u].version
    BY <1>1, <2>2, <2>5, <2>6 DEF Live
  <2>8. LiveIsNewest'
    <3> SUFFICES ASSUME NEW a \in Timetables, NEW b \in Timetables,
                        timetables'[a].status \in Live, timetables'[b] # NoTimetable, a # b,
                        timetables'[a].class = timetables'[b].class,
                        timetables'[a].term = timetables'[b].term
                 PROVE  /\ timetables'[b].status = "ARCHIVED"
                        /\ timetables'[b].version < timetables'[a].version
      BY DEF LiveIsNewest
    <3>1. /\ timetables[a].status \in Live /\ timetables[b] # NoTimetable
          /\ timetables[a].class = timetables[b].class /\ timetables[a].term = timetables[b].term
      BY <2>7
    <3>2. timetables[b].status = "ARCHIVED" /\ timetables[b].version < timetables[a].version
      BY <3>1 DEF Succession, LiveIsNewest
    <3> QED
      BY <2>7, <3>2
  <2>9. SomeIsLive'
    <3> SUFFICES ASSUME NEW b \in Timetables, timetables'[b] # NoTimetable
                 PROVE  \E u \in Timetables : /\ timetables'[u].status \in Live
                                              /\ timetables'[u].class = timetables'[b].class
                                              /\ timetables'[u].term = timetables'[b].term
      BY DEF SomeIsLive
    <3>1. PICK u \in Timetables : /\ timetables[u].status \in Live
                                  /\ timetables[u].class = timetables[b].class
                                  /\ timetables[u].term = timetables[b].term
      BY <2>7 DEF Succession, SomeIsLive
    <3> QED
      BY <2>7, <3>1
  <2>10. Current(req'[w], timetables')
    BY <1>1, IdleCurrent
  <2> QED
    BY <2>8, <2>9, <2>10 DEF Succession
<1> QED
  BY <1>2, <1>3

(* Steps about swaps, failures, and the first step of a publication. *)
LEMMA OtherCurrent ==
  ASSUME Typed, NEW w \in Workers, Succession(w),
         \/ \E t \in Timetables : PublishTimetable(w, t)
         \/ \E key \in Key : CreateSwapRequest(w, key)
         \/ GetTargetPeriod(w) \/ HasPendingRequest(w) \/ InsertSwap(w)
         \/ \E s \in Swaps :
              \/ RejectSwapRequest(w, s) \/ EscalateSwapRequest(w, s) \/ CancelSwapRequest(w, s)
              \/ ApproveSwapRequest(w, s) \/ AdminOverrideSwapRequest(w, s)
         \/ UpdateSwapRequest(w)
         \/ GetFirstPeriod(w) \/ GetSecondPeriod(w) \/ SwapPeriods(w)
         \/ RequestFails(w)
  PROVE  Succession(w)'
<1> DEFINE Quiet(pc) == pc \notin {"plan", "commit", "findPublished", "publish"}
<1>1. UNCHANGED timetables
  BY DEF tables, plans, PublishTimetable, CreateSwapRequest, GetTargetPeriod, HasPendingRequest,
         InsertSwap, RejectSwapRequest, EscalateSwapRequest, CancelSwapRequest, Answer,
         ApproveSwapRequest, AdminOverrideSwapRequest, UpdateSwapRequest, GetFirstPeriod,
         GetSecondPeriod, SwapPeriods, RequestFails
<1>2. ASSUME NEW r, Become(w, r), Quiet(r.pc)
      PROVE  Succession(w)'
  <2>1. req'[w] = r
    BY <1>2, BecomeIs
  <2>2. Current(r, timetables)
    BY <1>2 DEF Current
  <2> QED
    BY <1>1, <2>1, <2>2, SuccessionStays
<1>3. Finish(w) => Succession(w)'
  BY <1>2 DEF Finish, Idle
<1>4. ASSUME NEW t \in Timetables, PublishTimetable(w, t)
      PROVE  Succession(w)'
  <2> DEFINE next == [pc |-> "findPublished", id |-> t]
  <2>1. req'[w] = next /\ timetables[t].status = "DRAFT"
    BY <1>4, BecomeIs DEF PublishTimetable
  <2>2. Current(next, timetables)
    BY <2>1 DEF Current
  <2> QED
    BY <1>1, <2>1, <2>2, SuccessionStays
<1>5. ASSUME NEW key \in Key, CreateSwapRequest(w, key)
      PROVE  Succession(w)'
  BY <1>2, <1>5 DEF CreateSwapRequest
<1>6. CASE GetTargetPeriod(w)
  BY <1>2, <1>3, <1>6 DEF GetTargetPeriod
<1>7. CASE HasPendingRequest(w)
  <2> DEFINE next == [req[w] EXCEPT !.pc = "insertSwap"]
  <2>1. next.pc = "insertSwap"
    BY <1>7, Shape DEF HasPendingRequest, Typed, Shaped
  <2>2. Become(w, next) \/ Finish(w)
    BY <1>7 DEF HasPendingRequest
  <2> HIDE DEF next
  <2> QED
    BY <1>2, <1>3, <2>1, <2>2
<1>8. ASSUME NEW s \in Swaps,
             \/ RejectSwapRequest(w, s) \/ EscalateSwapRequest(w, s) \/ CancelSwapRequest(w, s)
             \/ ApproveSwapRequest(w, s) \/ AdminOverrideSwapRequest(w, s)
      PROVE  Succession(w)'
  <2>1. CASE \E st : Answer(w, s, st)
    BY <1>2, <2>1 DEF Answer
  <2>2. CASE \E admin : Become(w, [pc |-> "readFirst", swap |-> s, admin |-> admin])
    BY <1>2, <2>2
  <2> QED
    BY <1>8, <2>1, <2>2 DEF RejectSwapRequest, EscalateSwapRequest, CancelSwapRequest,
         ApproveSwapRequest, AdminOverrideSwapRequest
<1>9. CASE GetFirstPeriod(w) \/ GetSecondPeriod(w)
  BY <1>2, <1>3, <1>9 DEF GetFirstPeriod, GetSecondPeriod
<1>10. CASE InsertSwap(w) \/ UpdateSwapRequest(w) \/ SwapPeriods(w) \/ RequestFails(w)
  BY <1>3, <1>10 DEF InsertSwap, UpdateSwapRequest, SwapPeriods, RequestFails
<1> QED
  BY <1>4, <1>5, <1>6, <1>7, <1>8, <1>9, <1>10

LEMMA NextCurrent ==
  ASSUME NEW w, Workers = {w}, MaxFaults = 0
  PROVE  Typed /\ Succession(w) /\ [Next]_vars => Succession(w)'
<1> SUFFICES ASSUME Typed, Succession(w), [Next]_vars
             PROVE  Succession(w)'
  OBVIOUS
<1>1. w \in Workers
  OBVIOUS
<1>2. CASE RequestStep(w)
  <2>1. CASE \E cl \in Classes, tm \in Terms, cfg \in Configs : GenerateTimetable(w, cl, tm, cfg)
    BY <1>1, <2>1, GenerateCurrent
  <2>2. CASE PlanPeriods(w) \/ CommitTimetable(w)
    BY <1>1, <2>2, PlanCurrent, CommitCurrent
  <2>3. CASE GetPublishedTimetable(w) \/ Publish(w)
    BY <1>1, <2>3, FindPublishedCurrent, PublishCurrent
  <2> QED
    BY <1>1, <1>2, <2>1, <2>2, <2>3, OtherCurrent DEF RequestStep
<1>3. CASE \E c \in Courses : \E tutor \in Candidates[c] : ReassignTutor(c, tutor)
  <2>1. UNCHANGED <<timetables, req>>
    BY <1>3 DEF ReassignTutor, plans
  <2>2. Current(req'[w], timetables)
    BY <2>1 DEF Succession
  <2> QED
    BY <2>1, <2>2, SuccessionStays
<1>4. CASE UNCHANGED vars
  <2>1. UNCHANGED <<timetables, req>>
    BY <1>4 DEF vars, tables, plans
  <2>2. Current(req'[w], timetables)
    BY <2>1 DEF Succession
  <2> QED
    BY <2>1, <2>2, SuccessionStays
<1> QED
  BY <1>2, <1>3, <1>4 DEF Next

(* One request after the other and no statement failing, a class has at most  *)
(* one timetable of a term in use, the newest; with two requests, or a failed *)
(* SELECT taken for "none", the code gives it two.                           *)
THEOREM LiveOneIsNewest ==
  ASSUME NEW w, Workers = {w}, MaxFaults = 0
  PROVE  Spec => []LiveIsNewest
<1>1. Init => Succession(w)
  <2> SUFFICES ASSUME Init
               PROVE  Succession(w)
    OBVIOUS
  <2>1. \A t \in Timetables : timetables[t] = NoTimetable
    BY DEF Init
  <2>2. req[w] = Idle
    BY DEF Init
  <2> QED
    BY <2>1, <2>2, NoRow, IdleCurrent DEF Succession, LiveIsNewest, SomeIsLive
<1>2. Typed /\ Succession(w) /\ [Next]_vars => Succession(w)'
  BY NextCurrent
<1>3. Succession(w) => LiveIsNewest
  BY DEF Succession
<1> QED
  BY <1>1, <1>2, <1>3, TypedAlways, PTL DEF Spec

(***************************************************************************)
(* What the generator returns                                               *)
(***************************************************************************)
(* The week of a configuration: each day once, over before midnight, and no  *)
(* more periods than the column's CHECK allows.                              *)
DayFits(cfg) ==
    /\ \A i, j \in 1..Len(cfg.days) : cfg.days[i] = cfg.days[j] => i = j
    /\ Begin(cfg, cfg.limit) + cfg.duration < DayMinutes
    /\ cfg.limit <= 15

LEMMA ProductGrows ==
  ASSUME NEW m \in Nat, NEW n \in Nat, NEW d \in Nat, m <= n
  PROVE  m * d <= n * d
<1>1. n - m \in Nat
  OBVIOUS
<1>2. (n - m) * d \in Nat
  BY <1>1
<1>3. n * d = m * d + (n - m) * d
  OBVIOUS
<1>4. m * d \in Nat
  OBVIOUS
<1> QED
  BY <1>2, <1>3, <1>4

(* The periods of a day follow each other. *)
LEMMA BeginsInOrder ==
  ASSUME NEW cfg \in Configs, NEW m \in Nat \ {0}, NEW n \in Nat \ {0}, m < n
  PROVE  /\ Begin(cfg, m) \in Nat /\ Begin(cfg, n) \in Nat
         /\ Begin(cfg, m) + cfg.duration <= Begin(cfg, n)
<1> DEFINE d == cfg.duration
           late(i) == IF i > cfg.breakAfter THEN cfg.break ELSE 0
<1>1. d \in Nat /\ cfg.start \in Nat /\ cfg.breakAfter \in Nat /\ cfg.break \in Nat
  BY ConfigOK
<1>2. Begin(cfg, m) = cfg.start + (m - 1) * d + late(m)
      /\ Begin(cfg, n) = cfg.start + (n - 1) * d + late(n)
  BY DEF Begin
<1> HIDE DEF d
<1>3. late(m) \in Nat /\ late(n) \in Nat /\ late(m) <= late(n)
  BY <1>1
<1> HIDE DEF late
<1>4. m * d <= (n - 1) * d
  BY <1>1, ProductGrows
<1>5. m * d = (m - 1) * d + d
  BY <1>1
<1>6. (m - 1) * d \in Nat /\ (n - 1) * d \in Nat
  BY <1>1
<1>7. Begin(cfg, m) \in Nat /\ Begin(cfg, n) \in Nat
  BY <1>1, <1>2, <1>3, <1>6
<1>8. (m - 1) * d + d <= (n - 1) * d
  BY <1>4, <1>5
<1> DEFINE x == (m - 1) * d
           y == (n - 1) * d
<1>9. cfg.start + x + late(m) + d <= cfg.start + y + late(n)
  <2>1. x \in Nat /\ y \in Nat /\ x + d <= y
    BY <1>6, <1>8
  <2> HIDE DEF x, y
  <2> QED
    BY <1>1, <1>3, <2>1
<1> QED
  BY <1>2, <1>7, <1>9 DEF d

LEMMA DivMod ==
  ASSUME NEW x \in Nat, NEW l \in Nat \ {0}
  PROVE  x = l * (x \div l) + (x % l)
<1> DEFINE product == l * (x \div l)
           rest == x % l
<1>1. rest = x - product
  OBVIOUS
<1>2. product \in Int
  OBVIOUS
<1> HIDE DEF product, rest
<1>3. x = product + rest
  BY <1>1, <1>2
<1> QED
  BY <1>3 DEF product, rest

LEMMA DayAndNumber ==
  ASSUME NEW cfg \in Configs, NEW k \in 1..SlotCount(cfg)
  PROVE  /\ NumberOf(cfg, k) \in 1..cfg.limit
         /\ ((k - 1) \div cfg.limit) + 1 \in 1..Len(cfg.days)
         /\ k - 1 = cfg.limit * ((k - 1) \div cfg.limit) + (NumberOf(cfg, k) - 1)
<1>1. k - 1 \in Nat /\ k - 1 < cfg.limit * Len(cfg.days) /\ cfg.limit \in Nat \ {0}
  BY ConfigOK
<1>2. (k - 1) \div cfg.limit \in 0..(Len(cfg.days) - 1)
  BY <1>1, ConfigOK, DivBound
<1>3. ((k - 1) \div cfg.limit) + 1 \in 1..Len(cfg.days)
  BY <1>2, ConfigOK
<1>4. (k - 1) % cfg.limit \in 0..(cfg.limit - 1)
  BY <1>1
<1>5. NumberOf(cfg, k) \in 1..cfg.limit /\ NumberOf(cfg, k) - 1 = ((k - 1) % cfg.limit)
  BY <1>1, <1>4 DEF NumberOf
<1>6. k - 1 = cfg.limit * ((k - 1) \div cfg.limit) + ((k - 1) % cfg.limit)
  BY <1>1, DivMod
<1> DEFINE product == cfg.limit * ((k - 1) \div cfg.limit)
<1>7. k - 1 = product + (NumberOf(cfg, k) - 1)
  <2> HIDE DEF product
  <2> QED
    BY <1>5, <1>6 DEF product
<1> QED
  BY <1>3, <1>5, <1>7

(* A period of a fitting day begins where calculatePeriodTime says and ends   *)
(* on the same day.                                                          *)
LEMMA LessonTimes ==
  ASSUME NEW cfg \in Configs, DayFits(cfg), NEW tutors, NEW c, NEW k \in 1..SlotCount(cfg)
  PROVE  LET n == NumberOf(cfg, k)
             x == Lesson(cfg, tutors, c, k)
         IN  /\ x.day = DayOf(cfg, k) /\ x.number = n /\ n \in 1..15
             /\ x.from = Begin(cfg, n) /\ x.to = Begin(cfg, n) + cfg.duration
             /\ x.from < x.to
<1> DEFINE n == NumberOf(cfg, k)
           b == Begin(cfg, n)
<1>1. n \in 1..cfg.limit /\ cfg.limit \in Nat \ {0} /\ cfg.duration \in Nat \ {0}
  BY DayAndNumber, ConfigOK
<1>2. b \in Nat /\ b + cfg.duration < DayMinutes
  <2>1. CASE n = cfg.limit
    <3>1. n \in Nat \ {0} /\ n + 1 \in Nat \ {0} /\ n < n + 1
      BY <1>1
    <3>2. b \in Nat
      BY <3>1, BeginsInOrder
    <3> QED
      BY <2>1, <3>2 DEF DayFits
  <2>2. CASE n < cfg.limit
    <3>1. /\ b \in Nat /\ Begin(cfg, cfg.limit) \in Nat
          /\ b + cfg.duration <= Begin(cfg, cfg.limit)
      BY <1>1, <2>2, BeginsInOrder
    <3> QED
      BY <1>1, <3>1 DEF DayFits, DayMinutes
  <2> QED
    BY <1>1, <2>1, <2>2
<1>3. n \in 1..15
  <2>1. cfg.limit <= 15
    BY DEF DayFits
  <2> HIDE DEF n
  <2> QED
    BY <1>1, <2>1
<1>4. /\ Lesson(cfg, tutors, c, k).day = DayOf(cfg, k)
      /\ Lesson(cfg, tutors, c, k).number = n
      /\ Lesson(cfg, tutors, c, k).from = b % DayMinutes
      /\ Lesson(cfg, tutors, c, k).to = (b + cfg.duration) % DayMinutes
  BY DEF Lesson
<1> HIDE DEF n, b
<1>5. b % DayMinutes = b /\ (b + cfg.duration) % DayMinutes = b + cfg.duration
  BY <1>1, <1>2 DEF DayMinutes
<1> QED
  BY <1>1, <1>2, <1>3, <1>4, <1>5 DEF n, b

(* Two slots of a week never overlap. *)
LEMMA SlotsApart ==
  ASSUME NEW cfg \in Configs, DayFits(cfg), NEW tutors, NEW c, NEW e,
         NEW j \in 1..SlotCount(cfg), NEW k \in 1..SlotCount(cfg), j # k
  PROVE  ~Overlap(Lesson(cfg, tutors, c, j), Lesson(cfg, tutors, e, k))
<1> DEFINE x == Lesson(cfg, tutors, c, j)
           y == Lesson(cfg, tutors, e, k)
           m == NumberOf(cfg, j)
           n == NumberOf(cfg, k)
           p == (j - 1) \div cfg.limit
           q == (k - 1) \div cfg.limit
<1> SUFFICES ASSUME x.day = y.day
             PROVE  x.to <= y.from \/ y.to <= x.from
  <2>1. /\ x.from \in Nat /\ x.to \in Nat /\ y.from \in Nat /\ y.to \in Nat
    <3>1. m \in Nat \ {0} /\ n \in Nat \ {0} /\ cfg.duration \in Nat
      BY DayAndNumber, ConfigOK
    <3>2. Begin(cfg, m) \in Nat /\ Begin(cfg, n) \in Nat
      BY <3>1, BeginsInOrder
    <3> QED
      BY <3>1, <3>2, LessonTimes
  <2> HIDE DEF x, y
  <2> QED
    BY <2>1 DEF Overlap, x, y
<1>1. /\ x.day = DayOf(cfg, j) /\ x.from = Begin(cfg, m) /\ x.to = Begin(cfg, m) + cfg.duration
      /\ y.day = DayOf(cfg, k) /\ y.from = Begin(cfg, n) /\ y.to = Begin(cfg, n) + cfg.duration
  BY LessonTimes
<1>2. /\ m \in 1..cfg.limit /\ n \in 1..cfg.limit /\ cfg.limit \in Nat
      /\ p + 1 \in 1..Len(cfg.days) /\ q + 1 \in 1..Len(cfg.days)
      /\ j - 1 = cfg.limit * p + (m - 1) /\ k - 1 = cfg.limit * q + (n - 1)
  BY DayAndNumber, ConfigOK
<1>3. cfg.days[p + 1] = cfg.days[q + 1]
  BY <1>1 DEF DayOf
<1>4. p + 1 = q + 1
  BY <1>2, <1>3 DEF DayFits
<1>5. p \in Int /\ q \in Int
  BY ConfigOK
<1>6. p = q
  BY <1>4, <1>5
<1> HIDE DEF m, n, p, q, x, y
<1>7. m # n
  BY <1>2, <1>6
<1>8. m \in Nat \ {0} /\ n \in Nat \ {0}
  BY <1>2
<1>9. CASE m < n
  <2>1. Begin(cfg, m) + cfg.duration <= Begin(cfg, n)
    BY <1>8, <1>9, BeginsInOrder
  <2> QED
    BY <1>1, <2>1
<1>10. CASE n < m
  <2>1. Begin(cfg, n) + cfg.duration <= Begin(cfg, m)
    BY <1>8, <1>10, BeginsInOrder
  <2> QED
    BY <1>1, <2>1
<1> QED
  BY <1>2, <1>7, <1>9, <1>10

LEMMA SlotsFinite == IsFiniteSet(Slots) /\ MaxSlot \in Nat
<1>1. MaxSlot \in Nat
  BY TimetablesAssumption
<1> QED
  BY <1>1, FS_Interval DEF Slots

LEMMA GivenType ==
  ASSUME NEW week, NEW c
  PROVE  Given(week, c) \in Nat
<1> DEFINE mine == {k \in Slots : week[k].course = c}
<1>1. IsFiniteSet(mine)
  BY SlotsFinite, FS_Subset
<1> HIDE DEF mine
<1>2. Cardinality(mine) \in Nat
  BY <1>1, FS_CardinalityType
<1> QED
  BY <1>2 DEF Given, mine

(* A lesson more counts for its course and for no other. *)
LEMMA GivenOneMore ==
  ASSUME NEW week \in Week, NEW k \in Slots, week[k] = NoPeriod, NEW x \in Period,
         NEW c \in Courses
  PROVE  LET more == [week EXCEPT ![k] = x]
         IN  /\ c = x.course => Given(more, c) = Given(week, c) + 1
             /\ c # x.course => Given(more, c) = Given(week, c)
<1> DEFINE more == [week EXCEPT ![k] = x]
           before == {j \in Slots : week[j].course = c}
           after == {j \in Slots : more[j].course = c}
<1>1. \A j \in Slots : more[j] = IF j = k THEN x ELSE week[j]
  BY DEF Week
<1>2. NoPeriod.course # c
  BY TimetablesAssumption DEF NoPeriod
<1>3. k \notin before
  BY <1>2
<1>4. IsFiniteSet(before)
  BY SlotsFinite, FS_Subset
<1> HIDE DEF more
<1>5. CASE c = x.course
  <2>1. after = before \cup {k}
    BY <1>1, <1>5
  <2> HIDE DEF before, after
  <2>2. Cardinality(after) = Cardinality(before) + 1
    BY <1>3, <1>4, <2>1, FS_AddElement
  <2>3. Given(more, c) = Cardinality(after) /\ Given(week, c) = Cardinality(before)
    BY DEF Given, before, after
  <2> QED
    BY <1>5, <2>2, <2>3 DEF more
<1>6. CASE c # x.course
  <2>1. after = before
    BY <1>1, <1>2, <1>6
  <2> HIDE DEF before, after
  <2>2. Given(more, c) = Cardinality(after) /\ Given(week, c) = Cardinality(before)
    BY DEF Given, before, after
  <2> QED
    BY <1>6, <2>1, <2>2 DEF more
<1> QED
  BY <1>5, <1>6

LEMMA QuotaType ==
  ASSUME NEW cfg \in Configs, NEW cs, cs \subseteq Courses, NEW c \in cs
  PROVE  Quota(cfg, cs, c) \in Nat
<1>1. IsFiniteSet(cs) /\ cs # {}
  BY TimetablesAssumption, FS_Subset
<1>2. Cardinality(cs) \in Nat \ {0}
  BY <1>1, FS_CardinalityType, FS_EmptySet
<1>3. SlotCount(cfg) \div Cardinality(cs) \in Nat
  <2> DEFINE l == SlotCount(cfg)
             m == Cardinality(cs)
  <2>1. l \in Nat /\ m \in Nat \ {0}
    BY <1>2, ConfigOK
  <2> HIDE DEF l, m
  <2>2. l \div m \in Nat
    BY <2>1
  <2> QED
    BY <2>2 DEF l, m
<1>4. MaxPeriods[c] \in Nat
  BY TimetablesAssumption
<1> QED
  BY <1>3, <1>4 DEF Quota

(* A course that gets nothing in a slot has its quota or is busy elsewhere. *)
Served(cfg, tutors, cs, busy, week, c, k) ==
    \/ Given(week, c) = Quota(cfg, cs, c)
    \/ \E x \in busy \cup Lessons(week) : Clash(Lesson(cfg, tutors, c, k), x)

(* The loop after slot k: nothing beyond it is filled, no course has more     *)
(* than its quota, nothing clashes with what is taken, and no slot up to k    *)
(* was left free that a course could have had.                               *)
Filling(cfg, tutors, cs, busy, k) ==
    {s \in [week: Week, next: Nat] :
       /\ \A j \in Slots : s.week[j] # NoPeriod =>
            /\ j \in 1..SlotCount(cfg) /\ j <= k
            /\ \E c \in cs : s.week[j] = Lesson(cfg, tutors, c, j)
       /\ \A c \in cs : Given(s.week, c) <= Quota(cfg, cs, c)
       /\ \A j \in Slots : \A y \in busy : s.week[j] # NoPeriod => ~Clash(s.week[j], y)
       /\ \A j \in 1..SlotCount(cfg) : j <= k /\ s.week[j] = NoPeriod =>
            \A c \in cs : Served(cfg, tutors, cs, busy, s.week, c, j)}

LEMMA FillStep ==
  ASSUME NEW cfg \in Configs, NEW tutors \in [Courses -> Nat], NEW cs, cs \subseteq Courses,
         NEW order, order \in [1..Len(order) -> cs], Len(order) \in Nat,
         \A c \in cs : \E i \in 1..Len(order) : order[i] = c,
         NEW busy, NEW k \in 1..SlotCount(cfg),
         NEW s \in Filling(cfg, tutors, cs, busy, k - 1)
  PROVE  FillSlot(cfg, tutors, order, busy, s, k) \in Filling(cfg, tutors, cs, busy, k)
<1> DEFINE n == Len(order)
           first == IF NumberOf(cfg, k) = 1 THEN 1 ELSE s.next
           fit == {i \in 1..n : Fits(cfg, tutors, cs, s.week, busy, order[i], k)}
           ahead == {i \in fit : i >= first}
           pick == Min(IF ahead # {} THEN ahead ELSE fit)
           new == Lesson(cfg, tutors, order[pick], k)
           week == [s.week EXCEPT ![k] = new]
<1>1. cs = {order[i] : i \in 1..n}
  OBVIOUS
<1>2. FillSlot(cfg, tutors, order, busy, s, k) =
        IF fit = {} THEN [week |-> s.week, next |-> 1] ELSE [week |-> week, next |-> pick + 1]
  BY <1>1 DEF FillSlot
<1>3. /\ s.week \in Week /\ k \in Slots
      /\ \A j \in Slots : s.week[j] # NoPeriod =>
            /\ j \in 1..SlotCount(cfg) /\ j <= k - 1
            /\ \E c \in cs : s.week[j] = Lesson(cfg, tutors, c, j)
      /\ \A c \in cs : Given(s.week, c) <= Quota(cfg, cs, c)
      /\ \A j \in Slots : \A y \in busy : s.week[j] # NoPeriod => ~Clash(s.week[j], y)
      /\ \A j \in 1..SlotCount(cfg) : j <= k - 1 /\ s.week[j] = NoPeriod =>
            \A c \in cs : Served(cfg, tutors, cs, busy, s.week, c, j)
  BY ConfigOK DEF Filling, Slots
<1>4. SlotCount(cfg) \in Nat /\ MaxSlot \in Nat
  BY ConfigOK
<1>5. CASE fit = {}
  <2>1. \A c \in cs : Served(cfg, tutors, cs, busy, s.week, c, k)
    <3> SUFFICES ASSUME NEW c \in cs
                 PROVE  Served(cfg, tutors, cs, busy, s.week, c, k)
      OBVIOUS
    <3>1. PICK i \in 1..n : order[i] = c
      OBVIOUS
    <3>2. ~Fits(cfg, tutors, cs, s.week, busy, c, k)
      BY <1>5, <3>1
    <3>3. Given(s.week, c) \in Nat /\ Quota(cfg, cs, c) \in Nat
      BY GivenType, QuotaType
    <3>4. Given(s.week, c) <= Quota(cfg, cs, c)
      BY <1>3
    <3> QED
      BY <3>2, <3>3, <3>4 DEF Fits, Served
  <2>2. \A j \in 1..SlotCount(cfg) : j <= k => j <= k - 1 \/ j = k
    BY <1>4
  <2>3. \A j \in 1..SlotCount(cfg) : j <= k - 1 => j <= k
    BY <1>4
  <2> DEFINE t == [week |-> s.week, next |-> 1]
  <2>4. t \in [week: Week, next: Nat] /\ t.week = s.week
    BY <1>3
  <2> HIDE DEF t
  <2>5. t \in Filling(cfg, tutors, cs, busy, k)
    BY <1>3, <2>1, <2>2, <2>3, <2>4 DEF Filling
  <2> QED
    BY <1>2, <1>5, <2>5 DEF t
<1>6. CASE fit # {}
  <2>1. pick \in fit /\ pick \in 1..n
    <3> DEFINE S == IF ahead # {} THEN ahead ELSE fit
    <3>1. S \subseteq fit /\ S # {} /\ fit \subseteq 1..n
      BY <1>6
    <3>2. S \subseteq Nat
      BY <3>1
    <3> HIDE DEF S
    <3>3. Min(S) \in S
      BY <3>1, <3>2, MinOf
    <3> QED
      BY <3>1, <3>3 DEF S
  <2>2. Fits(cfg, tutors, cs, s.week, busy, order[pick], k) /\ order[pick] \in cs
    BY <2>1
  <2> HIDE DEF pick
  <2> DEFINE e == order[pick]
  <2>3. new \in Period /\ new.course = e
    BY <2>2, LessonType
  <2>4. new = Lesson(cfg, tutors, e, k) /\ e \in cs
    BY <2>2
  <2>5. /\ Given(s.week, e) < Quota(cfg, cs, e)
        /\ \A x \in busy \cup Lessons(s.week) : ~Clash(new, x)
    BY <2>2 DEF Fits
  <2> HIDE DEF e, new, fit
  <2>6. s.week[k] = NoPeriod
    BY <1>3, <1>4
  <2>7. week \in Week /\ \A j \in Slots : week[j] = IF j = k THEN new ELSE s.week[j]
    BY <1>3, <2>3 DEF Week
  <2>8. \A c \in cs : Given(week, c) = IF c = e THEN Given(s.week, c) + 1 ELSE Given(s.week, c)
    BY <1>3, <2>3, <2>6, GivenOneMore
  <2> HIDE DEF week
  <2>9. new # NoPeriod
    BY <2>3, NoPeriodIsNone
  <2>10. Lessons(s.week) \subseteq Lessons(week)
    BY <2>6, <2>7 DEF Lessons
  <2>11. \A c \in cs : /\ Given(s.week, c) \in Nat /\ Quota(cfg, cs, c) \in Nat
                       /\ Given(week, c) <= Quota(cfg, cs, c)
    BY <1>3, <2>5, <2>8, GivenType, QuotaType
  <2>12. \A j : \A c \in cs : Served(cfg, tutors, cs, busy, s.week, c, j) =>
                               Served(cfg, tutors, cs, busy, week, c, j)
    <3> SUFFICES ASSUME NEW j, NEW c \in cs, Served(cfg, tutors, cs, busy, s.week, c, j)
                 PROVE  Served(cfg, tutors, cs, busy, week, c, j)
      OBVIOUS
    <3>1. CASE Given(s.week, c) = Quota(cfg, cs, c)
      <4>1. c # e
        BY <2>5, <2>11, <3>1
      <4> QED
        BY <2>8, <3>1, <4>1 DEF Served
    <3>2. CASE \E x \in busy \cup Lessons(s.week) : Clash(Lesson(cfg, tutors, c, j), x)
      BY <2>10, <3>2 DEF Served
    <3> QED
      BY <3>1, <3>2 DEF Served
  <2>13. \A j \in Slots : week[j] # NoPeriod =>
            /\ j \in 1..SlotCount(cfg) /\ j <= k
            /\ \E c \in cs : week[j] = Lesson(cfg, tutors, c, j)
    <3> SUFFICES ASSUME NEW j \in Slots, week[j] # NoPeriod
                 PROVE  /\ j \in 1..SlotCount(cfg) /\ j <= k
                        /\ \E c \in cs : week[j] = Lesson(cfg, tutors, c, j)
      OBVIOUS
    <3>1. CASE j = k
      BY <1>4, <2>4, <2>7, <3>1
    <3>2. CASE j # k
      BY <1>3, <1>4, <2>7, <3>2
    <3> QED
      BY <3>1, <3>2
  <2>14. \A j \in Slots : \A y \in busy : week[j] # NoPeriod => ~Clash(week[j], y)
    BY <1>3, <2>5, <2>7
  <2>15. \A j \in 1..SlotCount(cfg) : j <= k /\ week[j] = NoPeriod =>
            \A c \in cs : Served(cfg, tutors, cs, busy, week, c, j)
    <3> SUFFICES ASSUME NEW j \in 1..SlotCount(cfg), j <= k, week[j] = NoPeriod, NEW c \in cs
                 PROVE  Served(cfg, tutors, cs, busy, week, c, j)
      OBVIOUS
    <3>1. j \in Slots /\ j # k
      BY <1>3, <2>7, <2>9, ConfigOK DEF Slots
    <3>2. j <= k - 1 /\ s.week[j] = NoPeriod
      BY <1>4, <2>7, <3>1
    <3> QED
      BY <1>3, <2>12, <3>2
  <2> DEFINE t == [week |-> week, next |-> pick + 1]
  <2>16. t \in [week: Week, next: Nat] /\ t.week = week
    BY <2>1, <2>7
  <2> HIDE DEF t
  <2>17. t \in Filling(cfg, tutors, cs, busy, k)
    BY <2>11, <2>13, <2>14, <2>15, <2>16 DEF Filling
  <2> QED
    BY <1>2, <1>6, <2>17 DEF t
<1> QED
  BY <1>5, <1>6

(* What generatePeriods returns, for any order it goes through the courses.  *)
SoundPlan(cfg, tutors, cs, busy, week) ==
    /\ \A j, k \in Slots : j # k /\ {week[j], week[k]} \cap {NoPeriod} = {}
                             => ~Overlap(week[j], week[k])
    /\ \A c \in cs : Given(week, c) <= Quota(cfg, cs, c)
    /\ \A k \in 1..SlotCount(cfg) : week[k] = NoPeriod =>
          \A c \in cs : Served(cfg, tutors, cs, busy, week, c, k)
    /\ \A x \in Lessons(week) :
          x.from < x.to /\ x.number <= 15 /\ \A y \in busy : ~Clash(x, y)

LEMMA OrderAll ==
  ASSUME NEW cs, cs \subseteq Courses, NEW tutors, NEW order \in Orders(cs, tutors)
  PROVE  \A c \in cs : \E i \in 1..Len(order) : order[i] = c
<1>1. IsFiniteSet(cs)
  BY TimetablesAssumption, FS_Subset
<1>2. /\ order \in [1..Len(order) -> cs] /\ Len(order) \in Nat /\ Len(order) = Cardinality(cs)
      /\ \A i, j \in 1..Len(order) : order[i] = order[j] => i = j
  BY OrderType
<1> DEFINE S == 1..Len(order)
<1>3. order \in Injection(S, cs)
  BY <1>2 DEF Injection, IsInjective
<1>4. Cardinality(S) = Len(order)
  BY <1>2, FS_Interval
<1> HIDE DEF S
<1>5. order \in Surjection(S, cs)
  BY <1>1, <1>2, <1>3, <1>4, FS_Injection
<1> QED
  BY <1>5 DEF Surjection, S

LEMMA GenerateSound ==
  ASSUME NEW cfg \in Configs, DayFits(cfg), NEW tutors \in [Courses -> Nat],
         NEW cs, cs \subseteq Courses, NEW order \in Orders(cs, tutors), NEW busy
  PROVE  SoundPlan(cfg, tutors, cs, busy, GeneratePeriods(cfg, tutors, order, busy))
<1> DEFINE N == SlotCount(cfg)
           S == [k \in 0..N |-> Filling(cfg, tutors, cs, busy, k)]
<1>1. N \in Nat /\ N <= MaxSlot /\ MaxSlot \in Nat
  BY ConfigOK
<1>2. Start \in Filling(cfg, tutors, cs, busy, 0)
  <2>1. /\ EmptyWeek \in Week /\ \A k \in Slots : EmptyWeek[k] = NoPeriod
    BY DEF EmptyWeek, Week
  <2>2. \A c \in cs : {k \in Slots : EmptyWeek[k].course = c} = {}
    BY <2>1, TimetablesAssumption DEF NoPeriod
  <2>3. \A c \in cs : Given(EmptyWeek, c) = 0
    BY <2>2, FS_EmptySet DEF Given
  <2>4. \A c \in cs : Given(EmptyWeek, c) <= Quota(cfg, cs, c)
    BY <2>3, QuotaType
  <2>5. \A j \in 1..N : ~(j <= 0)
    BY <1>1
  <2>6. Start \in [week: Week, next: Nat] /\ Start.week = EmptyWeek
    BY <2>1 DEF Start
  <2> QED
    BY <2>1, <2>4, <2>5, <2>6 DEF Filling
<1>3. /\ order \in [1..Len(order) -> cs] /\ Len(order) \in Nat
      /\ \A c \in cs : \E i \in 1..Len(order) : order[i] = c
  <2>1. order \in [1..Len(order) -> cs] /\ Len(order) \in Nat
    BY OrderType
  <2>2. \A c \in cs : \E i \in 1..Len(order) : order[i] = c
    BY OrderAll
  <2> QED
    BY <2>1, <2>2
<1>4. \A k \in 1..N : \A s \in Filling(cfg, tutors, cs, busy, k - 1) :
         FillSlot(cfg, tutors, order, busy, s, k) \in Filling(cfg, tutors, cs, busy, k)
  BY <1>3, FillStep
<1>5. Start \in S[0]
  BY <1>1, <1>2
<1>6. /\ \A k \in 1..N : S[k] = Filling(cfg, tutors, cs, busy, k)
                        /\ S[k - 1] = Filling(cfg, tutors, cs, busy, k - 1)
      /\ S[N] = Filling(cfg, tutors, cs, busy, N)
  BY <1>1
<1> HIDE DEF S
<1>7. \A k \in 1..SlotCount(cfg) : \A s \in S[k - 1] :
         FillSlot(cfg, tutors, order, busy, s, k) \in S[k]
  BY <1>4, <1>6
<1>8. \E s \in S[SlotCount(cfg)] : GeneratePeriods(cfg, tutors, order, busy) = s.week
  BY <1>1, <1>5, <1>7, GenerateInduction
<1>9. PICK s \in Filling(cfg, tutors, cs, busy, N) :
        GeneratePeriods(cfg, tutors, order, busy) = s.week
  BY <1>6, <1>8
<1> DEFINE week == s.week
<1>10. /\ \A j \in Slots : week[j] # NoPeriod =>
            j \in 1..N /\ \E c \in cs : week[j] = Lesson(cfg, tutors, c, j)
       /\ \A c \in cs : Given(week, c) <= Quota(cfg, cs, c)
       /\ \A j \in Slots : \A y \in busy : week[j] # NoPeriod => ~Clash(week[j], y)
       /\ \A j \in 1..N : j <= N /\ week[j] = NoPeriod =>
            \A c \in cs : Served(cfg, tutors, cs, busy, week, c, j)
  BY DEF Filling
<1> HIDE DEF week
<1>11. \A j \in 1..N : j <= N
  BY <1>1
<1>12. \A j, k \in Slots : j # k /\ {week[j], week[k]} \cap {NoPeriod} = {}
                             => ~Overlap(week[j], week[k])
  <2> SUFFICES ASSUME NEW j \in Slots, NEW k \in Slots, j # k,
                      week[j] # NoPeriod, week[k] # NoPeriod
               PROVE  ~Overlap(week[j], week[k])
    OBVIOUS
  <2>1. PICK c \in cs : j \in 1..N /\ week[j] = Lesson(cfg, tutors, c, j)
    BY <1>10
  <2>2. PICK e \in cs : k \in 1..N /\ week[k] = Lesson(cfg, tutors, e, k)
    BY <1>10
  <2>3. ~Overlap(Lesson(cfg, tutors, c, j), Lesson(cfg, tutors, e, k))
    BY <2>1, <2>2, SlotsApart
  <2> QED
    BY <2>1, <2>2, <2>3
<1>13. \A x \in Lessons(week) :
          x.from < x.to /\ x.number <= 15 /\ \A y \in busy : ~Clash(x, y)
  <2> SUFFICES ASSUME NEW j \in Slots, week[j] # NoPeriod
               PROVE  /\ week[j].from < week[j].to /\ week[j].number <= 15
                      /\ \A y \in busy : ~Clash(week[j], y)
    BY DEF Lessons
  <2>1. PICK c \in cs : j \in 1..N /\ week[j] = Lesson(cfg, tutors, c, j)
    BY <1>10
  <2>2. week[j].from < week[j].to /\ week[j].number \in 1..15
    BY <2>1, LessonTimes
  <2> QED
    BY <1>10, <2>2
<1>14. SoundPlan(cfg, tutors, cs, busy, week)
  BY <1>10, <1>11, <1>12, <1>13 DEF SoundPlan
<1> QED
  BY <1>9, <1>14 DEF week

(***************************************************************************)
(* Plans are carried out, one request at a time                             *)
(***************************************************************************)
ArchivedIsEmpty ==
    \A t \in Timetables : timetables[t].status = "ARCHIVED" => periods[t] = EmptyWeek

LEMMA IdleIsNoPlan == Idle.pc # "commit"
  BY DEF Idle

LEMMA PlanSound ==
  ASSUME Typed, NEW w, Workers = {w}, \A cfg \in Configs : DayFits(cfg),
         ArchivedIsEmpty, PlanPeriods(w)
  PROVE  PlanIsSound'
<1> DEFINE r == req[w]
           cs == CoursesOf(r.class, r.term)
           busy == UNION {Lessons(periods[t]) :
                            t \in {u \in Timetables : timetables[u].status \in Live /\ u # r.old}}
           planned(week) == [pc |-> "commit", class |-> r.class, term |-> r.term, cfg |-> r.cfg,
                             tutors |-> r.tutors, old |-> r.old, version |-> r.version,
                             week |-> week]
<1>1. UNCHANGED <<timetables, periods>> /\ r.pc = "plan" /\ r \in Request
  BY DEF PlanPeriods, tables, plans, Typed, Shaped
<1>2. PICK order \in Orders(cs, r.tutors) :
        Become(w, planned(GeneratePeriods(r.cfg, r.tutors, order, busy)))
  BY DEF PlanPeriods
<1>3. r.cfg \in Configs /\ r.tutors \in [Courses -> Nat] /\ cs \subseteq Courses
  BY <1>1, Shape DEF Generating, CoursesOf
<1> DEFINE week == GeneratePeriods(r.cfg, r.tutors, order, busy)
<1>4. SoundPlan(r.cfg, r.tutors, cs, busy, week)
  <2> HIDE DEF r, cs, busy
  <2> QED
    BY <1>2, <1>3, GenerateSound
<1>5. req'[w] = planned(week)
  BY <1>2, BecomeIs
<1>6. busy = PeriodsBut(r.old)
  <2>1. Lessons(EmptyWeek) = {}
    BY DEF EmptyWeek, Lessons
  <2>2. \A t \in Timetables : timetables[t].status \notin Live => Lessons(periods[t]) = {}
    <3> SUFFICES ASSUME NEW t \in Timetables, timetables[t].status \notin Live
                 PROVE  periods[t] = EmptyWeek
      BY <2>1
    <3>1. timetables[t] = NoTimetable \/ timetables[t].status = "ARCHIVED"
      BY DEF Typed, Shaped, Timetable
    <3> QED
      BY <3>1 DEF Typed, UnusedIsEmpty, ArchivedIsEmpty
  <2> HIDE DEF r
  <2> QED
    BY <2>2 DEF PeriodsBut
<1> DEFINE next == planned(week)
           old == r.old
<1>7. /\ next.class = r.class /\ next.term = r.term /\ next.cfg = r.cfg
      /\ next.tutors = r.tutors /\ next.old = r.old /\ next.week = week
  OBVIOUS
<1>8. UNION {Lessons(periods'[t]) : t \in Timetables \ {old}} = busy
  BY <1>1, <1>6 DEF PeriodsBut
<1> HIDE DEF week, next
<1>9. /\ SoundPlan(next.cfg, next.tutors, CoursesOf(next.class, next.term), busy, next.week)
      /\ UNION {Lessons(periods'[t]) : t \in Timetables \ {next.old}} = busy
  BY <1>4, <1>7, <1>8
<1>10. req'[w] = next
  BY <1>5 DEF next
<1> HIDE DEF r, cs, busy, old
<1>11. PICK n, taken : n = next /\ taken = busy
  OBVIOUS
<1>12. /\ req'[w] = n
       /\ SoundPlan(n.cfg, n.tutors, CoursesOf(n.class, n.term), taken, n.week)
       /\ UNION {Lessons(periods'[t]) : t \in Timetables \ {n.old}} = taken
  BY <1>9, <1>10, <1>11
<1>13. Sound(n, taken)
  BY <1>12 DEF Sound, SoundPlan, Served
<1>14. \A x \in Lessons(n.week) :
         x.from < x.to /\ x.number <= 15 /\ \A y \in taken : ~Clash(x, y)
  BY <1>12 DEF SoundPlan
<1>15. PeriodsBut(n.old)' = taken
  BY <1>12 DEF PeriodsBut
<1>16. Sound(n, PeriodsBut(n.old)') /\ InsertAllowed(n.week, n.old)'
  BY <1>13, <1>14, <1>15 DEF InsertAllowed
<1> QED
  BY <1>12, <1>16 DEF PlanIsSound, PeriodsBut, InsertAllowed

(* One request at a time, in all: nothing a request has read is stale. *)
DaysFit == \A cfg \in Configs : DayFits(cfg)
Tidy(w) == Succession(w) /\ ArchivedIsEmpty /\ (DaysFit => PlanIsSound)

(* Steps that change neither a timetable nor a period. *)
LEMMA TidyStays ==
  ASSUME NEW w, Workers = {w}, Tidy(w), Succession(w)', UNCHANGED <<timetables, periods>>,
         req'[w].pc # "commit" \/ UNCHANGED req
  PROVE  Tidy(w)'
<1>1. ArchivedIsEmpty'
  BY DEF Tidy, ArchivedIsEmpty
<1>2. CASE req'[w].pc # "commit"
  <2>1. PlanIsSound'
    BY <1>2 DEF PlanIsSound
  <2> QED
    BY <1>1, <2>1 DEF Tidy
<1>3. CASE UNCHANGED req
  <2>1. DaysFit => PlanIsSound'
    BY <1>3 DEF Tidy, PlanIsSound, PeriodsBut, InsertAllowed
  <2> QED
    BY <1>1, <2>1 DEF Tidy
<1> QED
  BY <1>2, <1>3

LEMMA CommitTidy ==
  ASSUME Typed, NEW w, Workers = {w}, Tidy(w), Succession(w)', CommitTimetable(w)
  PROVE  Tidy(w)'
<1> DEFINE r == req[w]
<1>1. r.pc = "commit" /\ r \in Request /\ req'[w] = Idle
  BY BecomeIs DEF CommitTimetable, Finish, Typed, Shaped
<1>2. PlanIsSound'
  BY <1>1, IdleIsNoPlan DEF PlanIsSound
<1>3. r.old \in Timetables \cup {None}
  BY <1>1, Shape DEF Committing
<1>4. CASE UNCHANGED plans
  BY <1>1, <1>4, TidyStays, IdleIsNoPlan DEF plans
<1>5. CASE ~UNCHANGED plans
  <2>1. PICK t \in Timetables :
          /\ timetables[t] = NoTimetable
          /\ timetables' = [Archived(r.old) EXCEPT ![t] =
                [class |-> r.class, term |-> r.term, status |-> "DRAFT", version |-> r.version]]
          /\ periods' = [Kept(r.old) EXCEPT ![t] = r.week]
    BY <1>5 DEF CommitTimetable
  <2> HIDE DEF r
  <2>2. timetables'[t].status # "ARCHIVED"
    BY <2>1 DEF Archived
  <2>3. \A u \in Timetables : u # t =>
          /\ u = r.old => periods'[u] = EmptyWeek
          /\ u # r.old => timetables'[u] = timetables[u] /\ periods'[u] = periods[u]
    BY <2>1 DEF Archived, Kept
  <2>4. ArchivedIsEmpty'
    <3> SUFFICES ASSUME NEW u \in Timetables, timetables'[u].status = "ARCHIVED"
                 PROVE  periods'[u] = EmptyWeek
      BY DEF ArchivedIsEmpty
    <3> QED
      BY <2>2, <2>3 DEF Tidy, ArchivedIsEmpty
  <2> QED
    BY <1>2, <2>4 DEF Tidy
<1> QED
  BY <1>4, <1>5

LEMMA PublishTidy ==
  ASSUME Typed, NEW w, Workers = {w}, Tidy(w), Succession(w)', Publish(w)
  PROVE  Tidy(w)'
<1> DEFINE t == req[w].id
<1>1. /\ t \in Timetables /\ req[w].old = None /\ req'[w] = Idle /\ UNCHANGED periods
      /\ timetables' = IF Publishable(t) THEN [Archived(None) EXCEPT ![t].status = "PUBLISHED"]
                       ELSE timetables
  BY Shape, BecomeIs DEF Publish, Finish, Typed, Shaped, Tidy, Succession, Current
<1> HIDE DEF t
<1>2. PlanIsSound'
  BY <1>1, IdleIsNoPlan DEF PlanIsSound
<1>3. \A u \in Timetables : u # t => timetables'[u] = timetables[u]
  <2>1. \A u \in Timetables : Archived(None)[u] = timetables[u]
    BY TimetablesAssumption DEF Archived
  <2> QED
    BY <1>1, <2>1 DEF Archived
<1>4. timetables'[t].status # "ARCHIVED"
      \/ timetables'[t] = timetables[t]
  <2>1. CASE ~Publishable(t)
    BY <1>1, <2>1
  <2>2. CASE Publishable(t)
    <3> DEFINE row == Archived(None)[t]
    <3>1. row = timetables[t]
      BY <1>1, TimetablesAssumption DEF Archived
    <3>2. timetables[t] \in Timetable
      <4>1. timetables[t] # NoTimetable
        BY <2>2 DEF Publishable, NoTimetable, None
      <4> QED
        BY <1>1, <4>1 DEF Typed, Shaped
    <3>3. timetables' = [Archived(None) EXCEPT ![t] = [row EXCEPT !.status = "PUBLISHED"]]
      BY <1>1, <2>2
    <3>4. timetables'[t] = [row EXCEPT !.status = "PUBLISHED"]
      BY <1>1, <3>3 DEF Archived
    <3> HIDE DEF row
    <3>5. [row EXCEPT !.status = "PUBLISHED"].status = "PUBLISHED"
      BY <3>1, <3>2 DEF Timetable
    <3> QED
      BY <3>4, <3>5
  <2> QED
    BY <2>1, <2>2
<1>5. ArchivedIsEmpty'
  BY <1>1, <1>3, <1>4 DEF Tidy, ArchivedIsEmpty
<1> QED
  BY <1>2, <1>5 DEF Tidy

(* A swap touches timetables that are in use. *)
LEMMA SwapTidy ==
  ASSUME Typed, NEW w, Workers = {w}, Tidy(w), Succession(w)', SwapPeriods(w)
  PROVE  Tidy(w)'
<1> DEFINE s == req[w].swap
           from == swaps[s].from
           to == swaps[s].to
<1>1. s \in Swaps /\ req'[w] = Idle /\ UNCHANGED timetables
  BY Shape, BecomeIs DEF SwapPeriods, Finish, Typed, Shaped
<1>2. PlanIsSound'
  BY <1>1, IdleIsNoPlan DEF PlanIsSound
<1>3. CASE UNCHANGED periods
  BY <1>1, <1>3, TidyStays, IdleIsNoPlan
<1>4. CASE ~UNCHANGED periods
  <2>1. PICK one, two :
          periods' = [periods EXCEPT ![from[1]][from[2]] = one, ![to[1]][to[2]] = two]
    BY <1>4 DEF SwapPeriods
  <2>2. Exists(s)
    BY <1>4 DEF SwapPeriods
  <2>3. from \in Key /\ to \in Key /\ HasPeriod(from) /\ HasPeriod(to)
    BY <1>1, <2>2, SwapRow
  <2> HIDE DEF from, to
  <2>4. /\ from[1] \in Timetables /\ to[1] \in Timetables
        /\ from[2] \in Slots /\ to[2] \in Slots
    BY <2>3, KeyParts
  <2>5. timetables[from[1]].status # "ARCHIVED" /\ timetables[to[1]].status # "ARCHIVED"
    BY <2>3, <2>4 DEF Tidy, ArchivedIsEmpty, HasPeriod, At, EmptyWeek
  <2>6. \A u \in Timetables : u # from[1] /\ u # to[1] => periods'[u] = periods[u]
    BY <2>1, <2>4 DEF Typed, Shaped
  <2>7. ArchivedIsEmpty'
    BY <1>1, <2>5, <2>6 DEF Tidy, ArchivedIsEmpty
  <2> QED
    BY <1>2, <2>7 DEF Tidy
<1> QED
  BY <1>3, <1>4

LEMMA NextTidy ==
  ASSUME NEW w, Workers = {w}, MaxFaults = 0
  PROVE  Typed /\ Tidy(w) /\ [Next]_vars => Tidy(w)'
<1> SUFFICES ASSUME Typed, Tidy(w), [Next]_vars
             PROVE  Tidy(w)'
  OBVIOUS
<1>1. w \in Workers
  OBVIOUS
<1>2. Succession(w)'
  BY NextCurrent DEF Tidy
<1>3. CASE PlanPeriods(w)
  <2>1. DaysFit => PlanIsSound'
    BY <1>3, PlanSound DEF Tidy, DaysFit
  <2>2. ArchivedIsEmpty'
    BY <1>3 DEF PlanPeriods, tables, plans, Tidy, ArchivedIsEmpty
  <2> QED
    BY <1>2, <2>1, <2>2 DEF Tidy
<1>4. CASE CommitTimetable(w) \/ Publish(w) \/ SwapPeriods(w)
  BY <1>2, <1>4, CommitTidy, PublishTidy, SwapTidy
<1>5. CASE UNCHANGED <<timetables, periods, req>>
  BY <1>2, <1>5, TidyStays
<1>6. ASSUME NEW r, Become(w, r), r.pc # "commit", UNCHANGED <<timetables, periods>>
      PROVE  Tidy(w)'
  <2>1. req'[w] = r
    BY <1>1, <1>6, BecomeIs
  <2> QED
    BY <1>2, <1>6, <2>1, TidyStays
<1>7. Finish(w) /\ UNCHANGED <<timetables, periods>> => Tidy(w)'
  BY <1>6, IdleIsNoPlan DEF Finish
<1>8. CASE \E cl \in Classes, tm \in Terms, cfg \in Configs : GenerateTimetable(w, cl, tm, cfg)
  BY <1>6, <1>8 DEF GenerateTimetable, Plan, tables, plans
<1>9. CASE (\E t \in Timetables : PublishTimetable(w, t)) \/ GetPublishedTimetable(w)
  BY <1>6, <1>9 DEF PublishTimetable, GetPublishedTimetable, tables, plans
<1>10. CASE (\E key \in Key : CreateSwapRequest(w, key)) \/ GetTargetPeriod(w)
  BY <1>6, <1>7, <1>10 DEF CreateSwapRequest, GetTargetPeriod, tables, plans
<1>11. CASE HasPendingRequest(w)
  <2> DEFINE next == [req[w] EXCEPT !.pc = "insertSwap"]
  <2>1. next.pc = "insertSwap" /\ UNCHANGED <<timetables, periods>>
    BY <1>1, <1>11, Shape DEF HasPendingRequest, Typed, Shaped, tables, plans
  <2>2. Become(w, next) \/ Finish(w)
    BY <1>11 DEF HasPendingRequest
  <2> HIDE DEF next
  <2> QED
    BY <1>6, <1>7, <2>1, <2>2
<1>12. CASE InsertSwap(w) \/ UpdateSwapRequest(w) \/ RequestFails(w)
  BY <1>7, <1>12 DEF InsertSwap, UpdateSwapRequest, RequestFails, tables, plans
<1>13. ASSUME NEW s \in Swaps,
              \/ RejectSwapRequest(w, s) \/ EscalateSwapRequest(w, s) \/ CancelSwapRequest(w, s)
              \/ ApproveSwapRequest(w, s) \/ AdminOverrideSwapRequest(w, s)
       PROVE  Tidy(w)'
  <2>1. UNCHANGED <<timetables, periods>>
    BY <1>13 DEF RejectSwapRequest, EscalateSwapRequest, CancelSwapRequest, Answer,
                 ApproveSwapRequest, AdminOverrideSwapRequest, tables, plans
  <2>2. \E r : Become(w, r) /\ r.pc # "commit"
    <3>1. CASE \E st : Answer(w, s, st)
      BY <3>1 DEF Answer
    <3>2. CASE \E admin : Become(w, [pc |-> "readFirst", swap |-> s, admin |-> admin])
      BY <3>2
    <3> QED
      BY <1>13, <3>1, <3>2 DEF RejectSwapRequest, EscalateSwapRequest, CancelSwapRequest,
                 ApproveSwapRequest, AdminOverrideSwapRequest
  <2> QED
    BY <1>6, <2>1, <2>2
<1>14. CASE GetFirstPeriod(w) \/ GetSecondPeriod(w)
  BY <1>6, <1>7, <1>14 DEF GetFirstPeriod, GetSecondPeriod, tables, plans
<1>15. CASE RequestStep(w)
  BY <1>3, <1>4, <1>8, <1>9, <1>10, <1>11, <1>12, <1>13, <1>14, <1>15 DEF RequestStep
<1>16. CASE \E c \in Courses : \E tutor \in Candidates[c] : ReassignTutor(c, tutor)
  BY <1>5, <1>16 DEF ReassignTutor, plans
<1>17. CASE UNCHANGED vars
  BY <1>5, <1>17 DEF vars, tables, plans
<1> QED
  BY <1>15, <1>16, <1>17 DEF Next

LEMMA InitTidy ==
  ASSUME NEW w, Workers = {w}
  PROVE  Init => Tidy(w)
<1> SUFFICES ASSUME Init
             PROVE  Tidy(w)
  OBVIOUS
<1>1. /\ \A t \in Timetables : timetables[t] = NoTimetable
      /\ \A v \in Workers : req[v] = Idle
  BY DEF Init
<1>2. Succession(w)
  BY <1>1, NoRow, IdleCurrent DEF Succession, LiveIsNewest, SomeIsLive
<1> QED
  BY <1>1, <1>2, NoRow, IdleIsNoPlan DEF Tidy, ArchivedIsEmpty, PlanIsSound

LEMMA TidyAlways ==
  ASSUME NEW w, Workers = {w}, MaxFaults = 0
  PROVE  Spec => []Tidy(w)
<1>1. Init => Tidy(w)
  BY InitTidy
<1>2. Typed /\ Tidy(w) /\ [Next]_vars => Tidy(w)'
  BY NextTidy
<1> QED
  BY <1>1, <1>2, TypedAlways, PTL DEF Spec

(* One request after the other, whatever the courses, the configuration and   *)
(* the timetables there are: a plan has no two lessons at a time, gives no    *)
(* course more than its quota, leaves a slot free only if no course could     *)
(* have it, and its INSERT meets no exclusion or CHECK constraint.           *)
THEOREM PlansAreSound ==
  ASSUME NEW w, Workers = {w}, MaxFaults = 0, \A cfg \in Configs : DayFits(cfg)
  PROVE  Spec => []PlanIsSound
<1>1. Tidy(w) => PlanIsSound
  BY DEF Tidy, DaysFit
<1> QED
  BY <1>1, TidyAlways, PTL

(***************************************************************************)
(* Swaps move lessons and lose none, one request at a time                  *)
(***************************************************************************)
(* The periods of a swap request are two, of one class; what an approval has *)
(* read of them is still so.                                                *)
SwapsInClass ==
    \A s \in Swaps : Exists(s) =>
        /\ swaps[s].from # swaps[s].to
        /\ timetables[swaps[s].from[1]].class = timetables[swaps[s].to[1]].class

InClass(r, tts) == tts[r.from[1]].class = tts[r.to[1]].class
AsRead(x, weeks, key) == x = weeks[key[1]][key[2]]

Fresh(r, tts, weeks, table) ==
    /\ r.pc \in {"hasPending", "insertSwap"} => InClass(r, tts)
    /\ r.pc \in {"readSecond", "swap"} => AsRead(r.first, weeks, table[r.swap].from)
    /\ r.pc = "swap" => AsRead(r.second, weeks, table[r.swap].to)

Consented(w) == SwapsInClass /\ Fresh(req[w], timetables, periods, swaps)

LEMMA IdleFresh == \A T, W, S : Fresh(Idle, T, W, S)
  BY DEF Fresh, Idle

LEMMA ConsentedStays ==
  ASSUME NEW w, Consented(w), UNCHANGED <<timetables, periods, swaps>>, NEW r, req'[w] = r,
         Fresh(r, timetables, periods, swaps)
  PROVE  Consented(w)'
<1>1. SwapsInClass'
  BY DEF Consented, SwapsInClass, Exists
<1>2. Fresh(req'[w], timetables', periods', swaps')
  OBVIOUS
<1> QED
  BY <1>1, <1>2 DEF Consented

(* Rows of timetables that swap requests refer to keep their class. *)
LEMMA CommitConsented ==
  ASSUME Typed, NEW w \in Workers, Consented(w), CommitTimetable(w)
  PROVE  Consented(w)'
<1> DEFINE r == req[w]
<1>1. /\ r.pc = "commit" /\ r \in Request /\ req'[w] = Idle
  BY BecomeIs DEF CommitTimetable, Finish, Typed, Shaped
<1>2. CASE UNCHANGED plans
  BY <1>1, <1>2, IdleFresh, ConsentedStays DEF plans
<1>3. CASE ~UNCHANGED plans
  <2>1. PICK t \in Timetables :
          /\ timetables[t] = NoTimetable
          /\ timetables' = [Archived(r.old) EXCEPT ![t] =
                [class |-> r.class, term |-> r.term, status |-> "DRAFT", version |-> r.version]]
          /\ swaps' = Cascade(r.old)
    BY <1>3 DEF CommitTimetable
  <2> HIDE DEF r
  <2>2. \A u \in Timetables : u # t /\ u # r.old => timetables'[u] = timetables[u]
    BY <2>1 DEF Archived
  <2>3. DeletedSwap.status \notin SwapRequestStatus
    BY DEF DeletedSwap, SwapRequestStatus
  <2>4. SwapsInClass'
    <3> SUFFICES ASSUME NEW s \in Swaps, Exists(s)'
                 PROVE  /\ swaps'[s].from # swaps'[s].to
                        /\ timetables'[swaps'[s].from[1]].class =
                             timetables'[swaps'[s].to[1]].class
      BY DEF SwapsInClass
    <3>1. /\ Exists(s) /\ swaps'[s] = swaps[s]
          /\ swaps[s].from[1] # r.old /\ swaps[s].to[1] # r.old
      BY <2>1, <2>3 DEF Cascade, Exists
    <3>2. /\ swaps[s].from \in Key /\ swaps[s].to \in Key
          /\ HasPeriod(swaps[s].from) /\ HasPeriod(swaps[s].to)
      BY <3>1, SwapRow
    <3>3. \A key \in Key : HasPeriod(key) => key[1] # t
      BY <2>1, KeyParts DEF Typed, UnusedIsEmpty, HasPeriod, At, EmptyWeek
    <3>4. /\ timetables'[swaps[s].from[1]] = timetables[swaps[s].from[1]]
          /\ timetables'[swaps[s].to[1]] = timetables[swaps[s].to[1]]
      BY <2>2, <3>1, <3>2, <3>3, KeyParts
    <3> QED
      BY <3>1, <3>4 DEF Consented, SwapsInClass
  <2> QED
    BY <1>1, <2>4, IdleFresh DEF Consented
<1> QED
  BY <1>2, <1>3

LEMMA PublishConsented ==
  ASSUME Typed, NEW w \in Workers, Consented(w), Publish(w)
  PROVE  Consented(w)'
<1> DEFINE r == req[w]
<1>1. /\ r.pc = "publish" /\ r \in Request /\ Good(r, timetables, assigned)
      /\ req'[w] = Idle /\ UNCHANGED <<periods, swaps>>
  BY BecomeIs DEF Publish, Finish, Typed, Shaped
<1>2. r.id \in Timetables /\ (r.old \in Timetables => timetables[r.old] # NoTimetable)
  BY <1>1, Shape, TimetablesAssumption DEF Good
<1>3. timetables' = IF Publishable(r.id)
                    THEN [Archived(r.old) EXCEPT ![r.id].status = "PUBLISHED"] ELSE timetables
  BY DEF Publish
<1> HIDE DEF r
<1>4. \A row \in Timetable : /\ [row EXCEPT !.status = "ARCHIVED"].class = row.class
                             /\ [row EXCEPT !.status = "ARCHIVED"] \in Timetable
                             /\ [row EXCEPT !.status = "PUBLISHED"].class = row.class
  BY DEF Timetable
<1>5. \A u \in Timetables : timetables[u] \in Timetable => timetables'[u].class = timetables[u].class
  <2>1. CASE ~Publishable(r.id)
    BY <1>3, <2>1
  <2>2. CASE Publishable(r.id)
    <3> DEFINE A == Archived(r.old)
    <3>1. \A u \in Timetables : timetables[u] \in Timetable =>
            A[u] \in Timetable /\ A[u].class = timetables[u].class
      BY <1>4 DEF Archived
    <3>2. timetables' = [A EXCEPT ![r.id] = [A[r.id] EXCEPT !.status = "PUBLISHED"]]
      BY <1>3, <2>2
    <3>3. DOMAIN A = Timetables
      BY DEF Archived
    <3> HIDE DEF A
    <3>4. \A u \in Timetables : timetables'[u] = IF u = r.id
                                THEN [A[u] EXCEPT !.status = "PUBLISHED"] ELSE A[u]
      BY <1>2, <3>2, <3>3
    <3> QED
      BY <1>4, <3>1, <3>4
  <2> QED
    BY <2>1, <2>2
<1>6. \A key \in Key : HasPeriod(key) => timetables[key[1]] \in Timetable
  BY KeyParts DEF Typed, Shaped, UnusedIsEmpty, HasPeriod, At, EmptyWeek
<1>7. SwapsInClass'
  <2> SUFFICES ASSUME NEW s \in Swaps, Exists(s)
               PROVE  /\ swaps[s].from # swaps[s].to
                      /\ timetables'[swaps[s].from[1]].class = timetables'[swaps[s].to[1]].class
    BY <1>1 DEF SwapsInClass, Exists
  <2>1. /\ swaps[s].from \in Key /\ swaps[s].to \in Key
        /\ HasPeriod(swaps[s].from) /\ HasPeriod(swaps[s].to)
    BY SwapRow
  <2> QED
    BY <1>5, <1>6, <2>1, KeyParts DEF Consented, SwapsInClass
<1> QED
  BY <1>1, <1>7, IdleFresh DEF Consented

LEMMA InsertSwapConsented ==
  ASSUME Typed, NEW w \in Workers, Consented(w), InsertSwap(w)
  PROVE  Consented(w)'
<1> DEFINE r == req[w]
           row == [status |-> "PENDING", from |-> r.from, to |-> r.to,
                   fromTutor |-> r.fromTutor, toTutor |-> r.toTutor]
<1>1. r.pc = "insertSwap" /\ req'[w] = Idle /\ UNCHANGED <<timetables, periods, performed>>
  BY BecomeIs DEF InsertSwap, Finish
<1>2. InClass(r, timetables)
  BY <1>1 DEF Consented, Fresh
<1>3. CASE UNCHANGED swaps
  BY <1>1, <1>3, IdleFresh, ConsentedStays DEF plans
<1>4. CASE ~UNCHANGED swaps
  <2>1. PICK s \in Swaps : swaps' = [swaps EXCEPT ![s] = row]
    BY <1>4 DEF InsertSwap
  <2>2. r.from # r.to
    BY <1>4 DEF InsertSwap
  <2>3. row.from = r.from /\ row.to = r.to
    OBVIOUS
  <2> HIDE DEF row, r
  <2>4. \A u \in Swaps : swaps'[u] = IF u = s THEN row ELSE swaps[u]
    BY <2>1 DEF Typed, Shaped
  <2>5. SwapsInClass'
    BY <1>1, <1>2, <2>2, <2>3, <2>4 DEF Consented, SwapsInClass, Exists, InClass
  <2> QED
    BY <1>1, <2>5, IdleFresh DEF Consented
<1> QED
  BY <1>3, <1>4

(* Writing a status leaves the two periods as they are. *)
LEMMA StatusConsented ==
  ASSUME Typed, NEW w \in Workers, Consented(w), NEW id \in Swaps, NEW st, Exists(id),
         swaps' = [swaps EXCEPT ![id].status = st], UNCHANGED timetables, req'[w] = Idle
  PROVE  Consented(w)'
<1> DEFINE row == [swaps[id] EXCEPT !.status = st]
<1>1. swaps[id] \in SwapRequest
  BY SwapRow
<1>2. row.from = swaps[id].from /\ row.to = swaps[id].to
  BY <1>1 DEF SwapRequest
<1>3. swaps' = [swaps EXCEPT ![id] = row]
  OBVIOUS
<1> HIDE DEF row
<1>4. \A u \in Swaps : swaps'[u] = IF u = id THEN row ELSE swaps[u]
  BY <1>3 DEF Typed, Shaped
<1>5. \A u \in Swaps : Exists(u)' => /\ Exists(u)
                                     /\ swaps'[u].from = swaps[u].from
                                     /\ swaps'[u].to = swaps[u].to
  BY <1>2, <1>4 DEF Exists
<1>6. SwapsInClass'
  <2> SUFFICES ASSUME NEW u \in Swaps, Exists(u)'
               PROVE  /\ swaps'[u].from # swaps'[u].to
                      /\ timetables'[swaps'[u].from[1]].class =
                           timetables'[swaps'[u].to[1]].class
    BY DEF SwapsInClass
  <2>1. swaps'[u].from = swaps[u].from /\ swaps'[u].to = swaps[u].to /\ Exists(u)
    BY <1>5
  <2> QED
    BY <2>1 DEF Consented, SwapsInClass
<1> QED
  BY <1>6, IdleFresh DEF Consented

LEMMA ReadsConsented ==
  ASSUME Typed, NEW w \in Workers, Consented(w), GetFirstPeriod(w) \/ GetSecondPeriod(w)
  PROVE  Consented(w)'
<1> DEFINE r == req[w]
           s == r.swap
           one == [pc |-> "readSecond", swap |-> s, admin |-> r.admin, first |-> At(swaps[s].from)]
           two == [pc |-> "swap", swap |-> s, admin |-> r.admin, first |-> r.first,
                   second |-> At(swaps[s].to)]
<1>1. UNCHANGED plans /\ Fresh(r, timetables, periods, swaps)
  BY DEF GetFirstPeriod, GetSecondPeriod, tables, Consented
<1>2. CASE Finish(w)
  <2>1. req'[w] = Idle
    BY <1>2, BecomeIs DEF Finish
  <2> QED
    BY <1>1, <2>1, IdleFresh, ConsentedStays DEF plans
<1>3. CASE r.pc = "readFirst" /\ Become(w, one)
  <2>1. req'[w] = one
    BY <1>3, BecomeIs
  <2>2. one.pc = "readSecond" /\ one.swap = s /\ one.first = At(swaps[s].from)
    OBVIOUS
  <2> HIDE DEF one
  <2>3. Fresh(one, timetables, periods, swaps)
    BY <2>2 DEF Fresh, AsRead, At
  <2> QED
    BY <1>1, <2>1, <2>3, ConsentedStays DEF plans
<1>4. CASE r.pc = "readSecond" /\ Become(w, two)
  <2>1. req'[w] = two
    BY <1>4, BecomeIs
  <2>2. /\ two.pc = "swap" /\ two.swap = s /\ two.first = r.first
        /\ two.second = At(swaps[s].to)
    OBVIOUS
  <2> HIDE DEF two
  <2>3. Fresh(two, timetables, periods, swaps)
    BY <1>1, <1>4, <2>2 DEF Fresh, AsRead, At
  <2> QED
    BY <1>1, <2>1, <2>3, ConsentedStays DEF plans
<1> QED
  BY <1>2, <1>3, <1>4 DEF GetFirstPeriod, GetSecondPeriod, FirstKey

(* The remaining steps write no row of a timetable, period or swap request. *)
LEMMA QuietConsented ==
  ASSUME Typed, NEW w \in Workers, Consented(w),
         \/ \E cl \in Classes, tm \in Terms, cfg \in Configs : GenerateTimetable(w, cl, tm, cfg)
         \/ PlanPeriods(w)
         \/ \E t \in Timetables : PublishTimetable(w, t)
         \/ GetPublishedTimetable(w)
         \/ \E key \in Key : CreateSwapRequest(w, key)
         \/ GetTargetPeriod(w) \/ HasPendingRequest(w)
         \/ \E s \in Swaps :
              \/ RejectSwapRequest(w, s) \/ EscalateSwapRequest(w, s) \/ CancelSwapRequest(w, s)
              \/ ApproveSwapRequest(w, s) \/ AdminOverrideSwapRequest(w, s)
         \/ RequestFails(w)
  PROVE  Consented(w)'
<1> DEFINE Quiet(pc) == pc \notin {"hasPending", "insertSwap", "readSecond", "swap"}
<1>1. UNCHANGED plans
  BY DEF tables, GenerateTimetable, PlanPeriods, PublishTimetable, GetPublishedTimetable,
         CreateSwapRequest, GetTargetPeriod, HasPendingRequest, RejectSwapRequest,
         EscalateSwapRequest, CancelSwapRequest, Answer, ApproveSwapRequest,
         AdminOverrideSwapRequest, RequestFails
<1>2. ASSUME NEW r, Become(w, r), Fresh(r, timetables, periods, swaps)
      PROVE  Consented(w)'
  <2>1. req'[w] = r
    BY <1>2, BecomeIs
  <2> QED
    BY <1>1, <1>2, <2>1, ConsentedStays DEF plans
<1>3. ASSUME NEW r, Become(w, r), Quiet(r.pc)
      PROVE  Consented(w)'
  <2>1. Fresh(r, timetables, periods, swaps)
    BY <1>3 DEF Fresh
  <2> QED
    BY <1>2, <1>3, <2>1
<1>4. Finish(w) => Consented(w)'
  BY <1>3 DEF Finish, Idle
<1>5. CASE \E cl \in Classes, tm \in Terms, cfg \in Configs : GenerateTimetable(w, cl, tm, cfg)
  BY <1>3, <1>5 DEF GenerateTimetable, Plan
<1>6. CASE PlanPeriods(w)
  BY <1>3, <1>6 DEF PlanPeriods
<1>7. CASE (\E t \in Timetables : PublishTimetable(w, t)) \/ GetPublishedTimetable(w)
  BY <1>3, <1>7 DEF PublishTimetable, GetPublishedTimetable
<1>8. CASE \E key \in Key : CreateSwapRequest(w, key)
  BY <1>3, <1>8 DEF CreateSwapRequest
<1>9. CASE GetTargetPeriod(w)
  <2> DEFINE r == req[w]
             next(to) == [pc |-> "hasPending", from |-> r.from, to |-> to,
                          fromTutor |-> r.mine.tutor, toTutor |-> At(to).tutor]
  <2>1. ASSUME NEW to \in Key, SameClassAndDay(r.from, r.mine, to), Become(w, next(to))
        PROVE  Consented(w)'
    <3>1. Fresh(next(to), timetables, periods, swaps)
      BY <2>1 DEF Fresh, InClass, SameClassAndDay
    <3> QED
      BY <1>2, <2>1, <3>1
  <2> QED
    BY <1>4, <1>9, <2>1 DEF GetTargetPeriod
<1>10. CASE HasPendingRequest(w)
  <2> DEFINE r == req[w]
             next == [r EXCEPT !.pc = "insertSwap"]
  <2>1. next.pc = "insertSwap" /\ next.from = r.from /\ next.to = r.to
    BY <1>10, Shape DEF HasPendingRequest, Typed, Shaped
  <2>2. Become(w, next) \/ Finish(w)
    BY <1>10 DEF HasPendingRequest
  <2>3. InClass(r, timetables)
    BY <1>10 DEF HasPendingRequest, Consented, Fresh
  <2> HIDE DEF next, r
  <2>4. Fresh(next, timetables, periods, swaps)
    BY <2>1, <2>3 DEF Fresh, InClass
  <2> QED
    BY <1>2, <1>4, <2>2, <2>4
<1>11. ASSUME NEW s \in Swaps,
              \/ RejectSwapRequest(w, s) \/ EscalateSwapRequest(w, s) \/ CancelSwapRequest(w, s)
              \/ ApproveSwapRequest(w, s) \/ AdminOverrideSwapRequest(w, s)
       PROVE  Consented(w)'
  <2>1. CASE \E st : Answer(w, s, st)
    BY <1>3, <2>1 DEF Answer
  <2>2. CASE \E admin : Become(w, [pc |-> "readFirst", swap |-> s, admin |-> admin])
    BY <1>3, <2>2
  <2> QED
    BY <1>11, <2>1, <2>2 DEF RejectSwapRequest, EscalateSwapRequest, CancelSwapRequest,
                 ApproveSwapRequest, AdminOverrideSwapRequest
<1>12. CASE RequestFails(w)
  BY <1>4, <1>12 DEF RequestFails
<1> QED
  BY <1>5, <1>6, <1>7, <1>8, <1>9, <1>10, <1>11, <1>12

(* Exchanging the courses of two slots changes no course's number of them. *)
LEMMA GivenExchanged ==
  ASSUME NEW week, NEW after, NEW j \in Slots, NEW k \in Slots, j # k, NEW c,
         after[j].course = week[k].course, after[k].course = week[j].course,
         \A i \in Slots : i # j /\ i # k => after[i] = week[i]
  PROVE  Given(after, c) = Given(week, c)
<1> DEFINE B == {i \in Slots : week[i].course = c}
           A == {i \in Slots : after[i].course = c}
<1>1. \A i \in Slots : /\ i \in A <=> after[i].course = c
                       /\ i \in B <=> week[i].course = c
  OBVIOUS
<1>2. A \subseteq Slots /\ B \subseteq Slots
  OBVIOUS
<1>3. Given(after, c) = Cardinality(A) /\ Given(week, c) = Cardinality(B)
  BY DEF Given
<1> HIDE DEF A, B
<1>4. IsFiniteSet(A) /\ IsFiniteSet(B)
  BY <1>2, SlotsFinite, FS_Subset
<1>5. CASE j \in B <=> k \in B
  <2>1. \A i \in Slots : i \in A <=> i \in B
    BY <1>1, <1>5
  <2>2. A = B
    BY <1>2, <2>1
  <2> QED
    BY <1>3, <2>2
<1>6. ASSUME NEW m \in Slots, NEW n \in Slots, m # n, m \in B, n \notin B, {m, n} = {j, k}
      PROVE  Cardinality(A) = Cardinality(B)
  <2>1. \A i \in Slots : i \in A <=> i = n \/ (i \in B /\ i # m)
    BY <1>1, <1>6
  <2> DEFINE rest == B \ {m}
  <2>2. A = rest \cup {n} /\ n \notin rest
    BY <1>2, <1>6, <2>1
  <2>3. B = rest \cup {m} /\ m \notin rest
    BY <1>6
  <2>4. IsFiniteSet(rest)
    BY <1>4, FS_Subset
  <2> HIDE DEF rest
  <2>5. Cardinality(A) = Cardinality(rest) + 1 /\ Cardinality(B) = Cardinality(rest) + 1
    BY <2>2, <2>3, <2>4, FS_AddElement
  <2> QED
    BY <2>5
<1>7. CASE j \in B /\ k \notin B
  BY <1>3, <1>6, <1>7
<1>8. CASE j \notin B /\ k \in B
  BY <1>3, <1>6, <1>8
<1> QED
  BY <1>5, <1>7, <1>8

(* Lessons are moved within a week and a week that has some gets no others. *)
WeeksKept ==
    \A t \in Timetables : Lessons(periods[t]) # {} /\ Lessons(periods'[t]) # {} =>
        \A c \in Courses : Given(periods'[t], c) = Given(periods[t], c)

LEMMA PeriodsKept == UNCHANGED periods => WeeksKept
  BY DEF WeeksKept

LEMMA CommitKeeps ==
  ASSUME Typed, NEW w \in Workers, CommitTimetable(w)
  PROVE  WeeksKept
<1> DEFINE r == req[w]
<1>1. CASE UNCHANGED periods
  BY <1>1, PeriodsKept
<1>2. CASE ~UNCHANGED periods
  <2>1. PICK t \in Timetables :
          timetables[t] = NoTimetable /\ periods' = [Kept(r.old) EXCEPT ![t] = r.week]
    BY <1>2 DEF CommitTimetable, plans
  <2>2. Lessons(EmptyWeek) = {} /\ periods[t] = EmptyWeek
    BY <2>1 DEF EmptyWeek, Lessons, Typed, UnusedIsEmpty
  <2> HIDE DEF r
  <2>3. \A u \in Timetables : u # t =>
          /\ u = r.old => periods'[u] = EmptyWeek
          /\ u # r.old => periods'[u] = periods[u]
    BY <2>1 DEF Kept
  <2> QED
    BY <2>2, <2>3 DEF WeeksKept
<1> QED
  BY <1>1, <1>2

(* The timetable of a period is in use, and in one term a class has one. *)
LEMMA OneTimetable ==
  ASSUME Typed, NEW w, Tidy(w), NEW from \in Key, NEW to \in Key,
         HasPeriod(from), HasPeriod(to), \A x, y \in Terms : x = y,
         timetables[from[1]].class = timetables[to[1]].class
  PROVE  from[1] = to[1]
<1> SUFFICES ASSUME from[1] # to[1]
             PROVE  FALSE
  OBVIOUS
<1>1. from[1] \in Timetables /\ to[1] \in Timetables
  BY KeyParts
<1>2. \A key \in Key : HasPeriod(key) =>
        /\ timetables[key[1]] \in Timetable /\ timetables[key[1]].status # "ARCHIVED"
  <2> SUFFICES ASSUME NEW key \in Key, HasPeriod(key)
               PROVE  /\ timetables[key[1]] \in Timetable
                      /\ timetables[key[1]].status # "ARCHIVED"
    OBVIOUS
  <2>1. key[1] \in Timetables /\ key[2] \in Slots
    BY KeyParts
  <2>2. periods[key[1]] # EmptyWeek
    BY <2>1 DEF HasPeriod, At, EmptyWeek
  <2>3. timetables[key[1]] # NoTimetable
    BY <2>1, <2>2 DEF Typed, UnusedIsEmpty
  <2>4. timetables[key[1]].status # "ARCHIVED"
    BY <2>1, <2>2 DEF Tidy, ArchivedIsEmpty
  <2> QED
    BY <2>1, <2>3, <2>4 DEF Typed, Shaped
<1> DEFINE a == timetables[from[1]]
           b == timetables[to[1]]
<1>3. a \in Timetable /\ b \in Timetable /\ a.status # "ARCHIVED" /\ b.status # "ARCHIVED"
  BY <1>2
<1>4. a.status \in Live /\ a.term = b.term /\ a # NoTimetable /\ b # NoTimetable
  <2>1. NoTimetable.status \notin Live
    BY NoRow
  <2> HIDE DEF a, b
  <2>2. a.status \in Live /\ b.status \in Live /\ a.term \in Terms /\ b.term \in Terms
    BY <1>3 DEF Timetable
  <2> QED
    BY <2>1, <2>2
<1>5. b.status = "ARCHIVED"
  BY <1>1, <1>4 DEF Tidy, Succession, LiveIsNewest
<1> QED
  BY <1>3, <1>5

LEMMA SwapKeeps ==
  ASSUME Typed, NEW w \in Workers, Tidy(w), Consented(w), \A x, y \in Terms : x = y,
         SwapPeriods(w)
  PROVE  Consented(w)' /\ WeeksKept
<1> DEFINE r == req[w]
           s == swaps[r.swap]
           from == s.from
           to == s.to
           one == Taking(At(from), r.second)
           two == Taking(At(to), r.first)
<1>1. /\ r.pc = "swap" /\ r.swap \in Swaps /\ req'[w] = Idle /\ UNCHANGED timetables
      /\ r.first \in Period /\ r.second \in Period
  BY Shape, BecomeIs DEF SwapPeriods, Finish, Typed, Shaped
<1>2. CASE UNCHANGED <<periods, swaps, performed>>
  <2>1. Consented(w)'
    BY <1>1, <1>2, IdleFresh, ConsentedStays DEF plans
  <2> QED
    BY <1>2, <2>1, PeriodsKept
<1>3. CASE ~UNCHANGED <<periods, swaps, performed>>
  <2>1. /\ Exists(r.swap)
        /\ periods' = [periods EXCEPT ![from[1]][from[2]] = one, ![to[1]][to[2]] = two]
        /\ swaps' = [swaps EXCEPT ![r.swap].status = "APPROVED"]
    BY <1>3 DEF SwapPeriods
  <2>2. Consented(w)'
    BY <1>1, <2>1, StatusConsented
  <2>3. /\ from \in Key /\ to \in Key /\ HasPeriod(from) /\ HasPeriod(to)
    BY <1>1, <2>1, SwapRow
  <2>4. from # to /\ timetables[from[1]].class = timetables[to[1]].class
    BY <1>1, <2>1 DEF Consented, SwapsInClass
  <2>5. At(from) \in Period /\ At(to) \in Period
    BY <2>3, PeriodType
  <2>6. r.first = At(from) /\ r.second = At(to)
    BY <1>1 DEF Consented, Fresh, AsRead, At
  <2>7. one.course = At(to).course /\ two.course = At(from).course
    <3>1. \A x, y \in Period : Taking(x, y).course = y.course
      <4> SUFFICES ASSUME NEW x \in Period, NEW y \in Period
                   PROVE  Taking(x, y).course = y.course
        OBVIOUS
      <4>1. [x EXCEPT !.tutor = y.tutor] \in Period
        BY PeriodFields DEF Period
      <4>2. PICK z \in Period : z = [x EXCEPT !.tutor = y.tutor]
        BY <4>1
      <4>3. [z EXCEPT !.course = y.course].course = y.course
        BY DEF Period
      <4> QED
        BY <4>2, <4>3 DEF Taking
    <3> QED
      BY <1>1, <2>5, <2>6, <3>1
  <2> HIDE DEF one, two, from, to
  <2>8. from[1] = to[1]
    BY <2>3, <2>4, OneTimetable
  <2>9. /\ from[1] \in Timetables /\ from[2] \in Slots /\ to[2] \in Slots
    BY <2>3, KeyParts
  <2>10. from[2] # to[2]
    BY <2>3, <2>4, <2>8 DEF Key
  <2> DEFINE t == from[1]
             j == from[2]
             k == to[2]
             week == periods[t]
             after == periods'[t]
  <2>11. week \in Week
    BY <2>9 DEF Typed, Shaped
  <2>12. /\ after[j] = one /\ after[k] = two
         /\ \A i \in Slots : i # j /\ i # k => after[i] = week[i]
         /\ \A u \in Timetables : u # t => periods'[u] = periods[u]
    <3>1. /\ periods \in [Timetables -> Week] /\ t \in Timetables /\ to[1] = t
          /\ j \in Slots /\ k \in Slots /\ j # k
      BY <2>8, <2>9, <2>10 DEF Typed, Shaped
    <3>2. periods' = [periods EXCEPT ![t][j] = one, ![t][k] = two]
      BY <2>1, <3>1
    <3> HIDE DEF t, j, k
    <3> QED
      BY <3>1, <3>2 DEF Week
  <2>13. week[j] = At(from) /\ week[k] = At(to)
    BY <2>8 DEF At
  <2>14. \A c \in Courses : Given(after, c) = Given(week, c)
    <3> SUFFICES ASSUME NEW c \in Courses
                 PROVE  Given(after, c) = Given(week, c)
      OBVIOUS
    <3>1. after[j].course = week[k].course /\ after[k].course = week[j].course
      BY <2>7, <2>12, <2>13
    <3>2. j \in Slots /\ k \in Slots /\ j # k
      BY <2>9, <2>10
    <3>3. \A i \in Slots : i # j /\ i # k => after[i] = week[i]
      BY <2>12
    <3> HIDE DEF j, k, week, after
    <3> QED
      BY <3>1, <3>2, <3>3, GivenExchanged
  <2>15. WeeksKept
    BY <2>9, <2>12, <2>14 DEF WeeksKept
  <2> QED
    BY <2>2, <2>15
<1> QED
  BY <1>2, <1>3

LEMMA NextConsented ==
  ASSUME NEW w, Workers = {w}, \A x, y \in Terms : x = y
  PROVE  Typed /\ Tidy(w) /\ Consented(w) /\ [Next]_vars => Consented(w)' /\ WeeksKept
<1> SUFFICES ASSUME Typed, Tidy(w), Consented(w), [Next]_vars
             PROVE  Consented(w)' /\ WeeksKept
  OBVIOUS
<1>1. w \in Workers
  OBVIOUS
<1> DEFINE Reading ==
             \/ \E cl \in Classes, tm \in Terms, cfg \in Configs : GenerateTimetable(w, cl, tm, cfg)
             \/ PlanPeriods(w)
             \/ \E t \in Timetables : PublishTimetable(w, t)
             \/ GetPublishedTimetable(w)
             \/ \E key \in Key : CreateSwapRequest(w, key)
             \/ GetTargetPeriod(w) \/ HasPendingRequest(w)
             \/ \E s \in Swaps :
                  \/ RejectSwapRequest(w, s) \/ EscalateSwapRequest(w, s) \/ CancelSwapRequest(w, s)
                  \/ ApproveSwapRequest(w, s) \/ AdminOverrideSwapRequest(w, s)
             \/ RequestFails(w)
<1>2. CASE Reading
  <2>1. UNCHANGED periods
    BY <1>2 DEF tables, plans, GenerateTimetable, PlanPeriods, PublishTimetable,
         GetPublishedTimetable, CreateSwapRequest, GetTargetPeriod, HasPendingRequest,
         RejectSwapRequest, EscalateSwapRequest, CancelSwapRequest, Answer, ApproveSwapRequest,
         AdminOverrideSwapRequest, RequestFails
  <2>2. Consented(w)'
    BY <1>1, <1>2, QuietConsented
  <2> QED
    BY <2>1, <2>2, PeriodsKept
<1>3. CASE GetFirstPeriod(w) \/ GetSecondPeriod(w)
  BY <1>1, <1>3, ReadsConsented, PeriodsKept DEF GetFirstPeriod, GetSecondPeriod, tables, plans
<1>4. CASE CommitTimetable(w)
  BY <1>1, <1>4, CommitConsented, CommitKeeps
<1>5. CASE Publish(w)
  BY <1>1, <1>5, PublishConsented, PeriodsKept DEF Publish
<1>6. CASE InsertSwap(w)
  BY <1>1, <1>6, InsertSwapConsented, PeriodsKept DEF InsertSwap
<1>7. CASE UpdateSwapRequest(w)
  <2> DEFINE r == req[w]
  <2>1. /\ r.swap \in Swaps /\ req'[w] = Idle /\ UNCHANGED <<timetables, periods, performed>>
        /\ swaps' = IF Exists(r.swap) THEN [swaps EXCEPT ![r.swap].status = r.status] ELSE swaps
    BY <1>1, <1>7, Shape, BecomeIs DEF UpdateSwapRequest, Finish, Typed, Shaped
  <2> HIDE DEF r
  <2>2. CASE Exists(r.swap)
    BY <1>1, <2>1, <2>2, StatusConsented, PeriodsKept
  <2>3. CASE ~Exists(r.swap)
    BY <1>1, <2>1, <2>3, IdleFresh, ConsentedStays, PeriodsKept DEF plans
  <2> QED
    BY <2>2, <2>3
<1>8. CASE SwapPeriods(w)
  BY <1>1, <1>8, SwapKeeps
<1>9. CASE UNCHANGED <<plans, req>>
  <2>1. Fresh(req[w], timetables, periods, swaps)
    BY DEF Consented
  <2>2. Consented(w)'
    BY <1>9, <2>1, ConsentedStays DEF plans
  <2> QED
    BY <1>9, <2>2, PeriodsKept DEF plans
<1>10. CASE RequestStep(w)
  BY <1>2, <1>3, <1>4, <1>5, <1>6, <1>7, <1>8, <1>10 DEF RequestStep
<1>11. CASE \E c \in Courses : \E tutor \in Candidates[c] : ReassignTutor(c, tutor)
  BY <1>9, <1>11 DEF ReassignTutor
<1>12. CASE UNCHANGED vars
  BY <1>9, <1>12 DEF vars, tables
<1> QED
  BY <1>10, <1>11, <1>12 DEF Next

(* One request after the other and within one term, a swap moves lessons and  *)
(* loses none: each course keeps its number of periods.                      *)
THEOREM SwapsKeepLessons ==
  ASSUME NEW w, Workers = {w}, MaxFaults = 0,
         \A x, y \in Terms : x = y
  PROVE  Spec => LessonsKept
<1>1. Init => Consented(w)
  <2> SUFFICES ASSUME Init
               PROVE  Consented(w)
    OBVIOUS
  <2>1. req[w] = Idle /\ \A s \in Swaps : swaps[s] = NoSwap
    BY DEF Init
  <2>2. NoSwap.status \notin SwapRequestStatus
    BY DEF NoSwap, None, SwapRequestStatus
  <2> QED
    BY <2>1, <2>2, IdleFresh DEF Consented, SwapsInClass, Exists
<1>2. Typed /\ Tidy(w) /\ Consented(w) /\ [Next]_vars => Consented(w)' /\ WeeksKept
  BY NextConsented
<1>3. Spec => []Tidy(w)
  BY TidyAlways
<1>4. WeeksKept => [\A t \in Timetables : Lessons(periods[t]) # {} /\ Lessons(periods'[t]) # {} =>
                   \A c \in Courses : Given(periods'[t], c) = Given(periods[t], c)]_vars
  BY DEF WeeksKept
<1> QED
  BY <1>1, <1>2, <1>3, <1>4, TypedAlways, PTL DEF Spec, LessonsKept
=============================================================================
