-------------------------------- MODULE Outbox --------------------------------
(***************************************************************************)
(* What the delivery of scheduled emails promises, whoever composes,        *)
(* cancels or sends them and however often the server dies: an email is     *)
(* open until a run of the job takes it; while it is taken each addressee   *)
(* is sent at most one copy; it may be put back only if nobody was sent     *)
(* any; and once it is closed nothing is ever sent again.  Emails.tla       *)
(* implements this module.                                                  *)
(***************************************************************************)
EXTENDS Naturals

CONSTANTS Mails, Addressees

VARIABLES
    stage,      \* [Mails -> Stages]
    copies      \* copies[m][r]: how many copies of m were sent to r

outbox == <<stage, copies>>

Stages == {"absent", "open", "taken", "closed"}

Init ==
    /\ stage = [m \in Mails |-> "absent"]
    /\ copies = [m \in Mails |-> [r \in Addressees |-> 0]]

(* A mail becomes known: one to be sent when its time comes, or another.    *)
Accept(m) ==
    /\ stage[m] = "absent"
    /\ \E s \in {"open", "closed"} : stage' = [stage EXCEPT ![m] = s]
    /\ UNCHANGED copies

Withdraw(m) ==
    /\ stage[m] = "open"
    /\ stage' = [stage EXCEPT ![m] = "closed"]
    /\ UNCHANGED copies

Take(taken) ==
    /\ \A m \in taken : stage[m] = "open"
    /\ stage' = [m \in Mails |-> IF m \in taken THEN "taken" ELSE stage[m]]
    /\ UNCHANGED copies

Deliver(m, r) ==
    /\ stage[m] = "taken" /\ copies[m][r] = 0
    /\ copies' = [copies EXCEPT ![m][r] = 1]
    /\ UNCHANGED stage

(* The mails of closed are done with, those of reopened wait again.         *)
Release(closed, reopened) ==
    /\ \A m \in closed \cup reopened : stage[m] = "taken"
    /\ \A m \in reopened, r \in Addressees : copies[m][r] = 0
    /\ closed \cap reopened = {}
    /\ stage' = [m \in Mails |-> CASE m \in closed   -> "closed"
                                   [] m \in reopened -> "open"
                                   [] OTHER          -> stage[m]]
    /\ UNCHANGED copies

Next ==
    \/ \E m \in Mails : Accept(m) \/ Withdraw(m)
    \/ \E taken \in SUBSET Mails : Take(taken)
    \/ \E m \in Mails, r \in Addressees : Deliver(m, r)
    \/ \E closed, reopened \in SUBSET Mails : Release(closed, reopened)

Spec == Init /\ [][Next]_outbox
==============================================================================
