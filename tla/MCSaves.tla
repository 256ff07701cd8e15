-------------------------------- MODULE MCSaves --------------------------------
(* Storage on a small instance.                                            *)
EXTENDS Storage, TLC

CONSTANTS a1, a2

\* Both accounts hash to one stripe: two that do not have nothing in common.
Stripes == a1 :> 1 @@ a2 :> 1

Symmetry == Permutations(Thread) \cup Permutations(ListAcc)

-----------------------------------------------------------------------------
(* What no later step and no property looks at is left out of the view.    *)

\* A download is still to be served: the marks and the clock matter.
Downloads == requests < MaxRequests \/ \E t \in Thread : pc[t] = "load"
Unmarked(m) == IF m.of = None THEN m ELSE [m EXCEPT !.down = 0]

\* Which save was the last of an account whose save is half done; what comes next
\* decides it anew.
Last == [a \in SaveAcc |-> IF a \in torn THEN None ELSE last[a]]

View ==
  <<part, blob, account, lock, pc, acc, val, bl, requests, faults, crashes, Last, over, torn, gone,
    IF Downloads THEN <<meta, kept, now, served, unmarked>>
    ELSE <<[a \in SaveAcc |-> Unmarked(meta[a])], [t \in Thread |-> Unmarked(kept[t])]>>,
    lists, rows>>
===============================================================================
