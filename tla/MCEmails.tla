------------------------------- MODULE MCEmails -------------------------------
(***************************************************************************)
(* Instances of Emails for TLC. *)
(***************************************************************************)
EXTENDS Emails, TLC

CONSTANTS e1, e2, u1, u2, w1, w2, mailer

OneMail == {e1}
TwoMails == {e1, e2}
TwoRecipients == {u1, u2}
OneWorker == {w1}
TwoWorkers == {w1, w2}
==============================================================================
