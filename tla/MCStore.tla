------------------------------ MODULE MCStore ------------------------------
(* Small instances of Store. *)
EXTENDS StoreProperties, TLC

WriterSymmetry == Permutations(Writers)
=============================================================================
