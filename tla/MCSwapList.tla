---------------------------- MODULE MCSwapList ----------------------------
(* Instances of SwapList for TLC. *)
EXTENDS SwapList, TLC

CONSTANTS n1, n2, n3, n4, n5

AnySize   == {<<>>, <<n1>>, <<n2, n1>>, <<n3, n2, n1>>, <<n5, n4, n3, n2, n1>>}
UpToFour  == {<<n2, n1>>, <<n3, n2, n1>>, <<n4, n3, n2, n1>>}
Lengths   == n1 :> 1 @@ n2 :> 1 @@ n3 :> 2 @@ n4 :> 1 @@ n5 :> 1

OneFinder   == <<"increasing", "swap1", "swap2", "monitor">>
OneSwapper  == <<"decreasing", "equal", "swap1", "monitor">>
=============================================================================
