------------------------------ MODULE MCBilling ------------------------------
(* A small calendar for model-checking Billing.                             *)
EXTENDS Billing, TLC

CONSTANTS t1, s1, m1

(* One tenant with one session of one term. *)
OneTenantOf == s1 :> t1
OneSessionOf == m1 :> s1

(* A credit, and a negative one that takes a credit back. *)
SmallAmounts == {-1, 1}

(* On day 0 nothing is overdue and the job changes nothing: the requests     *)
(* alone, of a session and a term that are ACTIVE and so not to be deleted.  *)
RequestsNext ==
    \/ \E s \in Sessions, n \in 0..MaxStudents : EnrolmentChanges(s, n)
    \/ \E w \in Workers : RequestStep(w)
RequestsSpec == Init /\ [][RequestsNext]_vars

(* Requests and adjustments are interchangeable. *)
Interchangeable == Permutations(Workers) \cup Permutations(Adjustments)
=============================================================================
