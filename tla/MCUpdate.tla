------------------------------- MODULE MCUpdate -------------------------------
(* Serving on a small instance: three connections of one peer, one of      *)
(* another.                                                                *)
EXTENDS Serving, TLC

CONSTANTS c1, c2, c3, c4, p1, p2

From == [c \in Conn |-> IF c = c4 THEN p2 ELSE p1]

Symmetry == Permutations(Thread) \cup Permutations(Client)
===============================================================================
