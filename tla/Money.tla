------------------------------- MODULE Money -------------------------------
(***************************************************************************)
(* The arithmetic of a promocode (modules/promocodes/money.ts): what a     *)
(* code takes off a cart, how the funders share it, how a settlement is    *)
(* spread over the holds.  Amounts are whole minor units.  Shares are      *)
(* numerators over a common whole: the rounding of the floating-point      *)
(* product amount * share itself is left out.                              *)
(***************************************************************************)
EXTENDS Integers, Sequences, Functions

Round(a, b) == (2 * a + b) \div (2 * b)   \* Math.round(a / b), for a >= 0 and b > 0

LesserOf(a, b) == IF a < b THEN a ELSE b

(* BASIS_POINTS stands for the whole of a percentage. *)
Compute(discount, subtotal, BASIS_POINTS) ==
  IF subtotal < discount.minSubtotal THEN {}
  ELSE LET raw == IF discount.type = "percent" THEN (subtotal * discount.value) \div BASIS_POINTS
                                               ELSE discount.value
       IN  { LesserOf(LesserOf(raw, discount.maxDiscount), subtotal) }

(* What rounding left over, or took too much, goes on the first part. *)
Mutant_NoDrift(parts, total) == parts
WithDrift(parts, total) == [parts EXCEPT ![1] = @ + (total - SumFunction(parts))]

Split(amount, shares, whole) ==
  WithDrift([i \in DOMAIN shares |-> Round(amount * shares[i], whole)], amount)

Mutant_PerHead(total, holds) ==
  WithDrift([i \in DOMAIN holds |-> Round(total * holds[i], Len(holds))], total)
Proportion(total, holds) ==
  LET held == SumFunction(holds) IN
  IF held = 0 THEN [i \in DOMAIN holds |-> 0]
  ELSE WithDrift([i \in DOMAIN holds |-> Round(total * holds[i], held)], total)

FundersAreValid(shares, whole) ==
  /\ shares /= <<>>
  /\ \A i \in DOMAIN shares : shares[i] \in 0..whole
  /\ SumFunction(shares) = whole
=============================================================================
