------------------------------- MODULE TaskLife -------------------------------
(***************************************************************************)
(* What mail.cpp promises about a timed task, whatever the number of       *)
(* threads, commands and retries it takes: a task is stored, and then      *)
(* taken by the scheduler or cancelled by the administrator, not both; a   *)
(* taken task is sent, put back or lost; what was sent, cancelled or lost  *)
(* stays so.  A task leaves this order only if a command about it went     *)
(* unanswered.                                                             *)
(***************************************************************************)
CONSTANT Task
VARIABLE life

Stages == {"none", "stored", "taken", "sent", "cancelled", "lost", "doubtful"}

Init == life = [s \in Task |-> "none"]

Move(s, from, to) == life[s] = from /\ life' = [life EXCEPT ![s] = to]

Store(s)   == Move(s, "none", "stored")
Take(s)    == Move(s, "stored", "taken")
Cancel(s)  == Move(s, "stored", "cancelled")
Send(s)    == Move(s, "taken", "sent")
PutBack(s) == Move(s, "taken", "stored")
Lose(s)    == Move(s, "taken", "lost")
Doubt(s)   == Move(s, life[s], "doubtful")

Next == \E s \in Task :
  Store(s) \/ Take(s) \/ Cancel(s) \/ Send(s) \/ PutBack(s) \/ Lose(s) \/ Doubt(s)

Spec == Init /\ [][Next]_life
=============================================================================
