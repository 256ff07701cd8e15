------------------------------- MODULE RedisCall -------------------------------
(***************************************************************************)
(* What a caller of the Redis client is promised: a call is run on the     *)
(* server, at most twice; it is answered only after it was run, or is      *)
(* reported as failed, run or not.  A run may come after the call returned, *)
(* which MailSchedule and MailIndex leave aside.                           *)
(***************************************************************************)
EXTENDS Naturals

CONSTANT Call

VARIABLES
  stage, \* of a call: "new", "open", "answered" or "failed"
  ran    \* how often it was run

vars == <<stage, ran>>

Init == stage = [n \in Call |-> "new"] /\ ran = [n \in Call |-> 0]

Move(n, from, to) == stage[n] = from /\ stage' = [stage EXCEPT ![n] = to] /\ UNCHANGED ran

Open(n)   == Move(n, "new", "open")
Answer(n) == ran[n] > 0 /\ Move(n, "open", "answered")
Fail(n)   == Move(n, "open", "failed")

Run(n) ==
  /\ stage[n] # "new" /\ ran[n] < 2
  /\ ran' = [ran EXCEPT ![n] = @ + 1] /\ UNCHANGED stage

Next == \E n \in Call : Open(n) \/ Run(n) \/ Answer(n) \/ Fail(n)

Spec == Init /\ [][Next]_vars
=============================================================================
