---------------------------- MODULE MCMutexQueue ----------------------------
(* An instance of MutexQueue for TLC. *)
EXTENDS MutexQueue

(* Below zero, zero, and up to one more than malloc has blocks for. *)
AnyCapacity == -1 .. 3
=============================================================================
