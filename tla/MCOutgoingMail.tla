--------------------------- MODULE MCOutgoingMail ---------------------------
(* One or two messages, two workers, and editors with older copies. *)
EXTENDS OutgoingMail
CONSTANTS m1, m2, w1, w2, e1
OneMail == {m1}
TwoMails == {m1, m2}
TwoWorkers == {w1, w2}
OneEditor == {e1}
=============================================================================
