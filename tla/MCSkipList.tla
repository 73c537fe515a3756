----------------------------- MODULE MCSkipList -----------------------------
(* Instances of SkipList for TLC: a table several threads race on, and a   *)
(* store opened with the logs of two full tables.                          *)
EXTENDS SkipList, TLC

Symmetric == Permutations(Threads)
=============================================================================
