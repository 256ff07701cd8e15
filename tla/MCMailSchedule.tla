--------------------------- MODULE MCMailSchedule ---------------------------
(* MailSchedule on small instances; the values are in the configurations.  *)
EXTENDS MailSchedule
=============================================================================
