---------------------------- MODULE MCRacyQueue ----------------------------
(* Instances of RacyQueue for TLC. *)
EXTENDS RacyQueue, TLC

AnyCapacity  == -1 .. 2
NodeSymmetry == Permutations(Node)
=============================================================================
