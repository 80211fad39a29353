--------------------------- MODULE MCCondvarQueue ---------------------------
(* Instances of CondvarQueue for TLC. *)
EXTENDS CondvarQueue

AnyCapacity == -1 .. 2
=============================================================================
