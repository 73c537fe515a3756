---------------------------- MODULE MCFlushQueue ----------------------------
(* FlushQueue on small instances. *)
EXTENDS FlushQueue

=============================================================================
