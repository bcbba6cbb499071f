---------------------------- MODULE MCReconcile ----------------------------
(***************************************************************************)
(* Small instances of Reconcile for TLC.                                   *)
(***************************************************************************)
EXTENDS Reconcile

CONSTANTS c1, b1, o1, o2, p1, x1

OneCode    == {c1}
OneBuyer   == {b1}
Nobody     == {}
OneOrder   == {o1}
TwoOrders  == {o1, o2}
OneCaller  == {p1}
OneExpirer == {x1}

EvenFunders == <<1, 1>>   \* 50% each

(* 50%, at most 3, on a cart of 2 or more *)
HalfOff == [type |-> "percent", value |-> 5, maxDiscount |-> 3, minSubtotal |-> 2]
OddCart == {9}   \* the discount is 3
BigCart == {10}
=============================================================================
