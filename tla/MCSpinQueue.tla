---------------------------- MODULE MCSpinQueue ----------------------------
(* Instances of SpinQueue for TLC. *)
EXTENDS SpinQueue

UpToTwo == -1 .. 2
=============================================================================
