------------------------------- MODULE MCWal -------------------------------
(* The write-ahead log with two or three callers, for TLC. *)
EXTENDS Wal, TLC

CallerSymmetry == Permutations(Threads)
=============================================================================
