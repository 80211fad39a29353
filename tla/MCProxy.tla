------------------------------ MODULE MCProxy ------------------------------
(* An instance of Proxy for TLC. *)
EXTENDS Proxy, TLC

CONSTANTS c1, c2

(* The first client's request line is in the first piece; the other one's  *)
(* takes both.                                                             *)
LineEnds == c1 :> 1 @@ c2 :> 2
=============================================================================
