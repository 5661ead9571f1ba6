---------------------------- MODULE MCMailIntake ----------------------------
(* Two servers and the webhook; a letter that is pushed too, and an automatic reply. *)
EXTENDS MailIntake

CONSTANTS m1, m2
=============================================================================
