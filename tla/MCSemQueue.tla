----------------------------- MODULE MCSemQueue -----------------------------
(* Instances of SemQueue for TLC. *)
EXTENDS SemQueue

AnyCapacity == -1 .. 2
=============================================================================
