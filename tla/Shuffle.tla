------------------------------ MODULE Shuffle ------------------------------
(***************************************************************************)
(* What the threads of lab2/code/2.3 do to the list, whatever lock guards  *)
(* it: neighbours change places, the first element never moves, and no     *)
(* element is lost or doubled.                                             *)
(***************************************************************************)
EXTENDS Naturals, Sequences

CONSTANT Storages   \* the lists main may build

VARIABLE order

Init == order \in Storages

Exchange(k) ==
  order' = [order EXCEPT ![k] = order[k + 1], ![k + 1] = order[k]]

Next == \E k \in 2 .. Len(order) - 1 : Exchange(k)

Spec == Init /\ [][Next]_order
=============================================================================
