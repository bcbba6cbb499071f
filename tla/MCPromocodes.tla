---------------------------- MODULE MCPromocodes ----------------------------
(***************************************************************************)
(* Small instances of Promocodes for TLC.  Orders are alike, and so are    *)
(* requests and expiry jobs: they may be permuted where only safety is     *)
(* checked.                                                                *)
(***************************************************************************)
EXTENDS Promocodes, TLC

CONSTANTS c1, b1, b2, o1, o2, o3, p1, p2, x1, x2

OneCode    == {c1}
OneBuyer   == {b1}
TwoBuyers  == {b1, b2}
Nobody     == {}
SecondBuyer == {b2}
OneOrder   == {o1}
TwoOrders  == {o1, o2}
ThreeOrders == {o1, o2, o3}
OneCaller  == {p1}
TwoCallers == {p1, p2}
OneExpirer == {x1}
TwoExpirers == {x1, x2}
MCSymmetry == Permutations(TwoOrders) \cup Permutations(TwoCallers) \cup Permutations(TwoExpirers)
OrderCallerSymmetry == Permutations(ThreeOrders) \cup Permutations(TwoCallers)

OneFunder    == <<1>>          \* 100%
EvenFunders  == <<1, 1>>       \* 50% each
TwoFunders   == <<1, 2>>       \* a third and two thirds
ThreeFunders == <<1, 2, 2>>    \* 20%, 40%, 40%
FourFunders  == <<1, 3, 3, 3>> \* 10%, 30%, 30%, 30%

(* 50%, at most 3, on a cart of 2 or more *)
HalfOff == [type |-> "percent", value |-> 5, maxDiscount |-> 3, minSubtotal |-> 2]
FixedTwo == [type |-> "fixed", value |-> 2, maxDiscount |-> 100, minSubtotal |-> 0]
FixedTen == [type |-> "fixed", value |-> 10, maxDiscount |-> 100, minSubtotal |-> 0]
SmallCart == {4}      \* a discount of 2
BigCart == {10}
=============================================================================
