----------------------------- MODULE MCPushHub -----------------------------
(* PushHub on small instances.                                             *)
EXTENDS PushHub, TLC

Symmetry == Permutations(Conn) \cup Permutations(Acc) \cup Permutations(Fd)
=============================================================================
