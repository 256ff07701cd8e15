-------------------------------- MODULE MCMail --------------------------------
(* Mail on a small instance; the threads of the index have the names of    *)
(* the sockets of the client, in other behaviours.                         *)
EXTENDS Mail, TLC

Symmetry == Permutations(Caller) \cup Permutations(Socket)

-----------------------------------------------------------------------------
(* What no later step and no property looks at is left out of the view.    *)

\* Between two tasks or requests a thread has nothing in hand.
Free(t) == pc[t] \in {"idle", "done", "range", "next"}
At(t)   == IF Free(t) THEN <<IF pc[t] = "done" THEN "idle" ELSE pc[t]>> ELSE <<pc[t], arg[t]>>

\* Of the mail it matters that there is one, and how often a task was sent only
\* while every command on it had a certain outcome.
Sent == [s \in Task |-> IF s \in doubtful THEN 0 ELSE sent[s]]

View ==
  <<part, redis.tasks, redis.mail = None, due, [t \in Thread |-> At(t)], tries, todo, used,
    faults, crashes, accepted, cancelled, Sent, doubtful, dropped, index, client>>
===============================================================================
