---------------------------- MODULE NetPosition -----------------------------
(***************************************************************************)
(* What a netted futures position promises, whatever its lots, margin and  *)
(* risk plan: an intent moves the signed quantity by exactly what it asked *)
(* for, and a risk exit brings it to zero.                                 *)
(***************************************************************************)
EXTENDS Integers

CONSTANT Sizes  \* quantities an intent can ask for: positive integers

VARIABLE net    \* quantity held: positive long, negative short

Init == net = 0

Buy  == \E q \in Sizes : net' = net + q
Sell == \E q \in Sizes : net' = net - q
Exit == net' = 0

Next == Buy \/ Sell \/ Exit

Spec == Init /\ [][Next]_net
=============================================================================
