------------------------------ MODULE MCPlayers ------------------------------
(* Players on small instances: waves and maps on two connections of one    *)
(* account and one of another.                                             *)
EXTENDS Players, TLC

CONSTANTS c1, c2, c3, a1, a2

Twins == {c1, c2}
Owner == c1 :> a1 @@ c2 :> a1 @@ c3 :> a2

\* Tokens have the names of two ids, workers those of two maps, in other
\* behaviours, and with them their symmetry.
Symmetry ==
  Permutations(Twins) \cup Permutations(Token) \cup Permutations(Map) \cup Permutations(Psw \ Short)

-----------------------------------------------------------------------------
\* The arguments of a request that returned: the next one overwrites them
\* before it looks at them (Start), and a property asks only what a validation
\* answered.  States that differ in nothing else are one to TLC.
Request(w) ==
  CASE loginPc[w] \notin {"idle", "done"} ->
         <<loginPc[w], kind[w], wacc[w], oldPsw[w], new[w], tok[w], stale[w]>>
    [] loginPc[w] = "done" /\ kind[w] = "validate" -> <<"validated", tok[w], ans[w], w \in unread>>
    [] OTHER -> <<"free">>

Seen ==
  <<part, vars, maps, account, rows, expired, cache, faults, owner, under, ended, excused,
    [w \in Worker |-> Request(w)]>>
===============================================================================
