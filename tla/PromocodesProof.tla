-------------------------- MODULE PromocodesProof --------------------------
(***************************************************************************)
(* Promocodes for every number of orders, requests, expiry jobs and        *)
(* funders: type correctness with the closing of holds (one inductive      *)
(* invariant), the lock on the code, the budget in uses and in spend, and  *)
(* the books: what orders and postings add up to, and what reconcile reads *)
(* of them.                                                                *)
(***************************************************************************)
EXTENDS Reconcile, SumLemmas

LEMMA ComputeType ==
  ASSUME NEW subtotal \in Nat
  PROVE  Compute(Discount, subtotal, BasisPoints) \subseteq Nat
<1>1. Discount.value \in Nat /\ Discount.maxDiscount \in Nat /\ BasisPoints \in Nat \ {0}
  BY DiscountAssumption
<1>2. subtotal * Discount.value \in Nat
  BY <1>1
<1>3. (subtotal * Discount.value) \div BasisPoints \in Nat
  BY <1>1, <1>2
<1> QED BY <1>1, <1>3 DEF Compute, LesserOf

(* What the four answers of reserve do to a request. *)
LEMMA AnswerType ==
  ASSUME call \in [Caller -> CallType], NEW p \in Caller,
         NEW a \in {"redemption", "refused", "error"}, Answer(p, a)
  PROVE  /\ call' \in [Caller -> CallType]
         /\ call'[p].pc = "answered"
         /\ \A q \in Caller \ {p} : call'[q] = call[q]
BY DEF Answer, CallType

(* The release of what is left of a row of postings. *)
LEMMA ReleasedType ==
  ASSUME NEW row \in Posting, row.capture \in 0..row.hold
  PROVE  /\ Released(row) \in Posting
         /\ Released(row).hold = Released(row).capture + Released(row).release
         /\ Released(row).hold = row.hold
BY DEF Released, Posting

---------------------------------------------------------------------------
(* The inductive invariant: a row is released from what is held and not    *)
(* captured, and that is an amount only while the order's holds are as     *)
(* HoldsCloseWithOrder says.                                               *)

TypeInv == TypeOK /\ HoldsCloseWithOrder

LEMMA TypeInit == Init => TypeInv
<1> SUFFICES ASSUME Init PROVE TypeInv
  OBVIOUS
<1>1. redemption \in [Order -> RedemptionType]
  BY DEF Init, NoRedemption, RedemptionType
<1>2. ledger \in [Order -> [Funder -> Posting]]
  BY DEF Init, NoPostings, Posting
<1>3. call \in [Caller -> CallType]
  BY DEF Init, IdleCall, CallType
<1>4. HoldsCloseWithOrder
  BY DEF Init, NoRedemption, NoPostings, HoldsCloseWithOrder
<1> QED BY <1>1, <1>2, <1>3, <1>4, BoundsAssumption DEF Init, TypeInv, TypeOK, IdleCall

(* The requests, one lemma for what they do to call. *)
LEMMA RequestType ==
  ASSUME TypeOK, NEW p \in Caller, Reserve(p)
  PROVE  /\ call' \in [Caller -> CallType]
         /\ \A q \in Caller : call'[q].pc \in {"validating", "holding"} =>
              call'[q].order \in Order /\ call'[q].code \in Code /\ call'[q].buyer \in Buyer
<1>1. CASE Look(p)
  <2>1. PICK o \in Order, c \in Code, b \in Buyer :
          call' = [call EXCEPT ![p] = [IdleCall EXCEPT
                     !.pc = IF redemption[o].status = "none" THEN "validating" ELSE "answered",
                     !.answer = IF redemption[o].status = "none" THEN "none" ELSE "redemption",
                     !.order = o, !.code = c, !.buyer = b]]
    BY <1>1 DEF Look
  <2>2. /\ call'[p] \in CallType
        /\ call'[p].order = o /\ call'[p].code = c /\ call'[p].buyer = b
    BY <2>1 DEF IdleCall, CallType, TypeOK
  <2>3. call' = [call EXCEPT ![p] = call'[p]]
    BY <2>1 DEF TypeOK
  <2> QED BY <2>2, <2>3 DEF TypeOK
<1>2. CASE Validate(p)
  <2>1. CASE \E amount \in Nat : call' = [call EXCEPT ![p].pc = "holding", ![p].amount = amount]
    <3>1. PICK amount \in Nat : call' = [call EXCEPT ![p].pc = "holding", ![p].amount = amount]
      BY <2>1
    <3>2. call'[p] = [call[p] EXCEPT !.pc = "holding", !.amount = amount] /\ call[p] \in CallType
      BY <3>1 DEF TypeOK
    <3>3. call'[p] \in CallType
      BY <3>2 DEF CallType
    <3>4. call' \in [Caller -> CallType]
      BY <3>1, <3>3 DEF TypeOK
    <3>5. \A q \in Caller \ {p} : call'[q] = call[q]
      BY <3>1 DEF TypeOK
    <3>6. call[p].pc = "validating" /\ call'[p].order = call[p].order
          /\ call'[p].code = call[p].code /\ call'[p].buyer = call[p].buyer
      BY <1>2, <3>2 DEF Validate, CallType
    <3> QED BY <3>4, <3>5, <3>6 DEF TypeOK
  <2>2. CASE Answer(p, "refused")
    BY <2>2, AnswerType DEF TypeOK
  <2> QED BY <1>2, <2>1, <2>2, ComputeType, BoundsAssumption DEF Validate
<1>3. CASE HoldCommits(p) \/ HoldThrows(p)
  BY <1>3, AnswerType DEF HoldCommits, HoldThrows, TypeOK
<1>4. CASE NextCall(p)
  BY <1>4 DEF NextCall, TypeOK, IdleCall, CallType
<1> QED BY <1>1, <1>2, <1>3, <1>4 DEF Reserve

LEMMA EndedRowType ==
  ASSUME redemption \in [Order -> RedemptionType], NEW o \in Order,
         NEW amount \in Nat, NEW status \in {"settled", "released"},
         redemption' = [redemption EXCEPT ![o].status = status, ![o].amount = amount]
  PROVE  /\ redemption' \in [Order -> RedemptionType]
         /\ redemption'[o].status = status
         /\ \A q \in Order \ {o} : redemption'[q] = redemption[q]
<1>1. redemption'[o] = [redemption[o] EXCEPT !.status = status, !.amount = amount]
  OBVIOUS
<1>2. redemption[o] \in RedemptionType
  OBVIOUS
<1>3. redemption'[o] \in RedemptionType /\ redemption'[o].status = status
  BY <1>1, <1>2 DEF RedemptionType
<1> QED BY <1>3

(* A row leaves "reserved" with its postings closed. *)
LEMMA ClosingRow ==
  ASSUME TypeInv, NEW o \in Order, redemption[o].status = "reserved",
         NEW status \in {"settled", "released"}, NEW amount \in Nat,
         NEW captured \in [Funder -> Nat], \A i \in Funder : captured[i] \in 0..ledger[o][i].hold,
         redemption' = [redemption EXCEPT ![o].status = status, ![o].amount = amount],
         ledger' = [ledger EXCEPT ![o] = [i \in Funder |-> Released([@[i] EXCEPT !.capture = captured[i]])]]
  PROVE  /\ redemption' \in [Order -> RedemptionType]
         /\ ledger' \in [Order -> [Funder -> Posting]]
         /\ HoldsCloseWithOrder'
<1>1. redemption' \in [Order -> RedemptionType] /\ redemption'[o].status = status
  BY EndedRowType DEF TypeInv, TypeOK
<1>2. ASSUME NEW i \in Funder
      PROVE  /\ ledger'[o][i] \in Posting
             /\ ledger'[o][i].hold = ledger'[o][i].capture + ledger'[o][i].release
  <2> DEFINE row == [ledger[o][i] EXCEPT !.capture = captured[i]]
  <2>0. ledger[o][i] \in Posting /\ captured[i] \in 0..ledger[o][i].hold
    BY DEF TypeInv, TypeOK
  <2>1. row \in Posting /\ row.capture \in 0..row.hold
    BY <2>0 DEF Posting
  <2>2. ledger'[o][i] = Released(row)
    BY DEF TypeInv, TypeOK
  <2> QED BY <2>1, <2>2, ReleasedType
<1>3. \A q \in Order \ {o} : redemption'[q] = redemption[q] /\ ledger'[q] = ledger[q]
  BY DEF TypeInv, TypeOK
<1>4. DOMAIN ledger' = Order /\ ledger'[o] \in [Funder -> Posting]
  BY <1>2 DEF TypeInv, TypeOK
<1>5. ledger' \in [Order -> [Funder -> Posting]]
  BY <1>3, <1>4 DEF TypeInv, TypeOK
<1>6. HoldsCloseWithOrder'
  <2> SUFFICES ASSUME NEW q \in Order, NEW i \in Funder
               PROVE  IF redemption'[q].status \in {"settled", "released"}
                      THEN ledger'[q][i].hold = ledger'[q][i].capture + ledger'[q][i].release
                      ELSE ledger'[q][i].capture = 0 /\ ledger'[q][i].release = 0
    BY DEF HoldsCloseWithOrder
  <2>1. CASE q = o
    BY <1>1, <1>2, <2>1
  <2>2. CASE q /= o
    BY <1>3, <2>2 DEF TypeInv, HoldsCloseWithOrder
  <2> QED BY <2>1, <2>2
<1> QED BY <1>1, <1>5, <1>6

LEMMA ReleasedRow ==
  ASSUME TypeInv, NEW o \in Order, redemption[o].status = "reserved", ReleaseRow(o)
  PROVE  /\ redemption' \in [Order -> RedemptionType]
         /\ ledger' \in [Order -> [Funder -> Posting]]
         /\ HoldsCloseWithOrder'
<1> DEFINE none == [i \in Funder |-> 0]
<1>1. \A i \in Funder : ledger[o][i].capture = 0
  BY DEF TypeInv, HoldsCloseWithOrder
<1>2. none \in [Funder -> Nat] /\ \A i \in Funder : none[i] \in 0..ledger[o][i].hold
  BY DEF TypeInv, TypeOK, Posting
<1>3. redemption' = [redemption EXCEPT ![o].status = "released", ![o].amount = redemption[o].amount]
  BY DEF ReleaseRow, TypeInv, TypeOK, RedemptionType
<1>4. \A i \in Funder : ledger[o][i] = [ledger[o][i] EXCEPT !.capture = none[i]]
  BY <1>1 DEF TypeInv, TypeOK, Posting
<1>5. ledger' = [ledger EXCEPT ![o] = [i \in Funder |-> Released([@[i] EXCEPT !.capture = none[i]])]]
  BY <1>4 DEF ReleaseRow, TypeInv, TypeOK
<1>6. redemption[o].amount \in Nat
  BY DEF TypeInv, TypeOK, RedemptionType
<1> HIDE DEF none
<1> QED BY <1>2, <1>3, <1>5, <1>6, ClosingRow

LEMMA TypeStep == TypeInv /\ [Next]_vars => TypeInv'
<1> SUFFICES ASSUME TypeInv, [Next]_vars PROVE TypeInv'
  OBVIOUS
<1> USE DEF TypeInv
<1>1. ASSUME NEW c \in Code, CreatePromocode(c) \/ PatchStatus(c) PROVE TypeInv'
  BY <1>1 DEF CreatePromocode, PatchStatus, TypeOK, HoldsCloseWithOrder
<1>2. ASSUME NEW p \in Caller, Reserve(p) PROVE TypeInv'
  <2>1. UNCHANGED <<codeStatus, due, faults>>
    BY <1>2 DEF Reserve, Look, Validate, HoldCommits, HoldThrows, NextCall
  <2>2. /\ redemption' \in [Order -> RedemptionType]
        /\ ledger' \in [Order -> [Funder -> Posting]]
        /\ HoldsCloseWithOrder'
    <3>1. CASE HoldCommits(p)
      <4> DEFINE o == call[p].order  parts == Split(call[p].amount, Shares, Whole)
      <4>1. o \in Order /\ call[p] \in CallType /\ call[p].code \in Code /\ call[p].buyer \in Buyer
        BY <3>1 DEF HoldCommits, TypeOK
      <4>2. \A i \in Funder : parts[i] \in Nat
        BY <3>1 DEF HoldCommits
      <4>3. redemption' = [redemption EXCEPT ![o] =
               [status |-> "reserved", code |-> call[p].code, buyer |-> call[p].buyer,
                amount |-> call[p].amount, expired |-> FALSE]]
        BY <3>1 DEF HoldCommits
      <4>4. ledger' = [ledger EXCEPT ![o] =
               [i \in Funder |-> [hold |-> parts[i], capture |-> 0, release |-> 0]]]
        BY <3>1 DEF HoldCommits, Placed
      <4> HIDE DEF o, parts
      <4>5. redemption' \in [Order -> RedemptionType] /\ redemption'[o].status = "reserved"
        BY <4>1, <4>3 DEF TypeOK, RedemptionType, CallType
      <4>6. [i \in Funder |-> [hold |-> parts[i], capture |-> 0, release |-> 0]] \in [Funder -> Posting]
        BY <4>2 DEF Posting
      <4>7. ledger' \in [Order -> [Funder -> Posting]]
        BY <4>1, <4>4, <4>6 DEF TypeOK
      <4>8. \A i \in Funder : ledger'[o][i].capture = 0 /\ ledger'[o][i].release = 0
        BY <4>1, <4>4 DEF TypeOK
      <4>9. \A q \in Order \ {o} : redemption'[q] = redemption[q] /\ ledger'[q] = ledger[q]
        BY <4>3, <4>4 DEF TypeOK
      <4> QED BY <4>5, <4>7, <4>8, <4>9 DEF HoldsCloseWithOrder
    <3>2. CASE UNCHANGED <<redemption, ledger>>
      BY <3>2 DEF TypeOK, HoldsCloseWithOrder
    <3> QED BY <1>2, <3>1, <3>2 DEF Reserve, Look, Validate, HoldThrows, NextCall
  <2> QED BY <1>2, <2>1, <2>2, RequestType DEF TypeOK
<1>3. ASSUME NEW o \in Order, Release(o) PROVE TypeInv'
  BY <1>3, ReleasedRow DEF Release, TypeOK
<1>4. ASSUME NEW o \in Order, TimePasses(o) PROVE TypeInv'
  <2>1. redemption' \in [Order -> RedemptionType]
    BY <1>4 DEF TimePasses, TypeOK, RedemptionType
  <2>2. \A q \in Order : redemption'[q].status = redemption[q].status
    BY <1>4 DEF TimePasses, TypeOK, RedemptionType
  <2> QED BY <1>4, <2>1, <2>2 DEF TimePasses, TypeOK, HoldsCloseWithOrder
<1>5. ASSUME NEW o \in Order, NEW final \in 0..redemption[o].amount, Settle(o, final) PROVE TypeInv'
  <2> DEFINE parts == Proportion(final, Holds(o))
             captured == [i \in Funder |-> IF parts[i] > 0 THEN parts[i] ELSE 0]
  <2>1. /\ redemption[o].status = "reserved"
        /\ \A i \in Funder : parts[i] > 0 => parts[i] \in 1..ledger[o][i].hold
        /\ redemption' = [redemption EXCEPT ![o].status = "settled", ![o].amount = final]
        /\ ledger' = [ledger EXCEPT ![o] =
             [i \in Funder |-> Released([@[i] EXCEPT !.capture = IF parts[i] > 0 THEN parts[i] ELSE 0])]]
        /\ UNCHANGED <<codeStatus, call, due, faults>>
    BY <1>5 DEF Settle, Capturable
  <2> HIDE DEF parts
  <2>2. ledger' = [ledger EXCEPT ![o] = [i \in Funder |-> Released([@[i] EXCEPT !.capture = captured[i]])]]
    BY <2>1 DEF TypeOK
  <2>3. \A i \in Funder : captured[i] \in 0..ledger[o][i].hold
    BY <2>1 DEF TypeOK, Posting
  <2>4. captured \in [Funder -> Nat] /\ final \in Nat
    BY <2>3 DEF TypeOK, Posting, RedemptionType
  <2> HIDE DEF captured
  <2> QED BY <2>1, <2>2, <2>3, <2>4, ClosingRow DEF TypeOK
<1>6. ASSUME NEW x \in Expirer, ExpireStarts(x) PROVE TypeInv'
  BY <1>6 DEF ExpireStarts, Overdue, InStatus, TypeOK, HoldsCloseWithOrder
<1>7. ASSUME NEW x \in Expirer, NEW o \in Order, ExpireOne(x, o) PROVE TypeInv'
  <2>1. due' \in [Expirer -> SUBSET Order] /\ UNCHANGED <<codeStatus, call, faults>>
    BY <1>7 DEF ExpireOne, TypeOK
  <2>2. CASE redemption[o].status = "reserved"
    BY <1>7, <2>1, <2>2, ReleasedRow DEF ExpireOne, TypeOK
  <2>3. CASE redemption[o].status /= "reserved"
    BY <1>7, <2>1, <2>3 DEF ExpireOne, TypeOK, HoldsCloseWithOrder
  <2> QED BY <2>2, <2>3
<1>8. ASSUME NEW x \in Expirer, ExpireDies(x) PROVE TypeInv'
  BY <1>8, BoundsAssumption DEF ExpireDies, TypeOK, HoldsCloseWithOrder
<1>9. CASE UNCHANGED vars
  BY <1>9 DEF vars, TypeOK, HoldsCloseWithOrder
<1> QED BY <1>1, <1>2, <1>3, <1>4, <1>5, <1>6, <1>7, <1>8, <1>9 DEF Next, Expire, SettleRequest

LEMMA TypeInvariant == Spec => []TypeInv
BY TypeInit, TypeStep, PTL DEF Spec

(* Every table and request keeps its shape, and every posting stays a      *)
(* whole amount that is not negative, for any number of funders, orders    *)
(* and requests.                                                           *)
THEOREM TypeCorrect == Spec => []TypeOK
BY TypeInvariant, PTL DEF TypeInv

(* An order that ended leaves no hold open, for any shares and however it  *)
(* was rounded (settle, release, expireReservations).                      *)
THEOREM HoldsClose == Spec => []HoldsCloseWithOrder
BY TypeInvariant, PTL DEF TypeInv

---------------------------------------------------------------------------
(* A redemption ends once *)

LEMMA EndedStays ==
  ASSUME TypeOK, [Next]_vars, NEW o \in Order, redemption[o].status \in {"settled", "released"}
  PROVE  redemption'[o] = redemption[o] /\ ledger'[o] = ledger[o]
<1> USE DEF TypeOK
<1>1. ASSUME NEW p \in Caller, HoldCommits(p) PROVE redemption'[o] = redemption[o] /\ ledger'[o] = ledger[o]
  BY <1>1 DEF HoldCommits
<1>2. ASSUME NEW q \in Order, redemption[q].status = "reserved", ReleaseRow(q)
      PROVE  redemption'[o] = redemption[o] /\ ledger'[o] = ledger[o]
  BY <1>2 DEF ReleaseRow
<1>3. ASSUME NEW q \in Order, NEW final \in 0..redemption[q].amount, Settle(q, final)
      PROVE  redemption'[o] = redemption[o] /\ ledger'[o] = ledger[o]
  BY <1>3 DEF Settle
<1>4. ASSUME NEW q \in Order, TimePasses(q)
      PROVE  redemption'[o] = redemption[o] /\ ledger'[o] = ledger[o]
  BY <1>4 DEF TimePasses
<1>5. ASSUME NEW x \in Expirer, NEW q \in Order, ExpireOne(x, q)
      PROVE  redemption'[o] = redemption[o] /\ ledger'[o] = ledger[o]
  BY <1>2, <1>5 DEF ExpireOne
<1>6. CASE UNCHANGED <<redemption, ledger>>
  BY <1>6
<1> QED BY <1>1, <1>2, <1>3, <1>4, <1>5, <1>6 DEF Next, vars, Reserve, Look, Validate, HoldThrows,
       NextCall, CreatePromocode, PatchStatus, Release, SettleRequest, Expire, ExpireStarts, ExpireDies

(* What is settled or released changes no more, whatever is on the lists   *)
(* of however many expiry jobs (settle, release, expireReservations).      *)
THEOREM EndOnce == Spec => EndsOnce
<1>1. TypeOK /\ [Next]_vars =>
        [\A o \in Order : redemption[o].status \in {"settled", "released"} =>
            redemption'[o] = redemption[o] /\ ledger'[o] = ledger[o]]_vars
  BY EndedStays
<1> QED BY <1>1, TypeCorrect, PTL DEF Spec, EndsOnce

---------------------------------------------------------------------------
(* The lock on the code.  Only its holder adds to what is counted against  *)
(* the budget; every other step leaves the uses as they are, or fewer.     *)

Fewer == \A c \in Code : Counted(c)' \subseteq Counted(c)
                         /\ \A b \in Buyer : UsesOf(c, b)' \subseteq UsesOf(c, b)

LEMMA FewerUses ==
  ASSUME TypeOK, Fewer, NEW c \in Code, NEW b \in Buyer
  PROVE  /\ UsesFit(c, b) => UsesFit(c, b)'
         /\ Cardinality(Counted(c)') <= Cardinality(Counted(c))
         /\ Cardinality(UsesOf(c, b)') <= Cardinality(UsesOf(c, b))
<1>1. IsFiniteSet(Counted(c)) /\ IsFiniteSet(UsesOf(c, b))
  BY BoundsAssumption, FS_Subset DEF Counted, UsesOf, InStatus
<1>2. /\ Cardinality(Counted(c)') <= Cardinality(Counted(c))
      /\ Cardinality(UsesOf(c, b)') <= Cardinality(UsesOf(c, b))
  BY <1>1, FS_Subset DEF Fewer
<1>3. /\ Cardinality(Counted(c)') \in Nat /\ Cardinality(UsesOf(c, b)') \in Nat
      /\ Cardinality(Counted(c)) \in Nat /\ Cardinality(UsesOf(c, b)) \in Nat
  BY <1>1, FS_Subset, FS_CardinalityType DEF Fewer
<1>4. UsesFit(c, b) => UsesFit(c, b)'
  BY <1>2, <1>3, BudgetAssumption DEF UsesFit
<1> QED BY <1>2, <1>4

LEMMA OthersFewer ==
  ASSUME TypeOK, [Next]_vars, \A p \in Caller : ~HoldCommits(p)
  PROVE  Fewer
<1> SUFFICES ASSUME NEW o \in Order
             PROVE  /\ redemption'[o].code = redemption[o].code
                    /\ redemption'[o].buyer = redemption[o].buyer
                    /\ redemption'[o].status \in {"reserved", "settled"} =>
                         redemption[o].status \in {"reserved", "settled"}
  BY DEF Fewer, Counted, UsesOf, InStatus
<1> DEFINE Goal == /\ redemption'[o].code = redemption[o].code
                   /\ redemption'[o].buyer = redemption[o].buyer
                   /\ redemption'[o].status \in {"reserved", "settled"} =>
                        redemption[o].status \in {"reserved", "settled"}
<1> USE DEF TypeOK, RedemptionType
<1>1. ASSUME NEW q \in Order, ReleaseRow(q) PROVE Goal
  BY <1>1 DEF ReleaseRow
<1>2. ASSUME NEW q \in Order, NEW final \in 0..redemption[q].amount, Settle(q, final) PROVE Goal
  BY <1>2 DEF Settle
<1>3. ASSUME NEW q \in Order, TimePasses(q) PROVE Goal
  BY <1>3 DEF TimePasses
<1>4. ASSUME NEW x \in Expirer, NEW q \in Order, ExpireOne(x, q) PROVE Goal
  BY <1>1, <1>4 DEF ExpireOne
<1>5. ASSUME redemption' = redemption PROVE Goal
  BY <1>5
<1> HIDE DEF Goal, TypeOK, RedemptionType
<1>6. ASSUME NEW p \in Caller, Reserve(p) PROVE Goal
  <2>1. redemption' = redemption
    BY <1>6 DEF Reserve, Look, Validate, HoldThrows, NextCall
  <2> QED BY <1>5, <2>1
<1>7. ASSUME NEW c \in Code, CreatePromocode(c) \/ PatchStatus(c) PROVE Goal
  BY <1>5, <1>7 DEF CreatePromocode, PatchStatus
<1>8. ASSUME NEW x \in Expirer, ExpireStarts(x) \/ ExpireDies(x) PROVE Goal
  BY <1>5, <1>8 DEF ExpireStarts, ExpireDies
<1>9. ASSUME UNCHANGED vars PROVE Goal
  BY <1>5, <1>9 DEF vars
<1>10. Goal
  BY <1>1, <1>2, <1>3, <1>4, <1>6, <1>7, <1>8, <1>9 DEF Next, Release, SettleRequest, Expire
<1> QED BY <1>10 DEF Goal

(* The steps by which nobody gets or gives up the lock. *)
LEMMA LockFrame ==
  ASSUME TypeOK, LockHolds, [Next]_vars, \A p \in Caller : ~Validate(p) /\ ~HoldCommits(p)
  PROVE  /\ \A q \in Caller : call'[q].pc = "holding" => call'[q] = call[q]
         /\ \A c \in Code : PromoLocked(c) => codeStatus'[c] = codeStatus[c]
<1>1. ASSUME NEW p \in Caller, Look(p) \/ NextCall(p) \/ HoldThrows(p)
      PROVE  codeStatus' = codeStatus /\ \A q \in Caller : call'[q].pc = "holding" => call'[q] = call[q]
  <2>1. CASE Look(p)
    <3>1. PICK o \in Order, c \in Code, b \in Buyer :
            call' = [call EXCEPT ![p] = [IdleCall EXCEPT
                       !.pc = IF redemption[o].status = "none" THEN "validating" ELSE "answered",
                       !.answer = IF redemption[o].status = "none" THEN "none" ELSE "redemption",
                       !.order = o, !.code = c, !.buyer = b]]
      BY <2>1 DEF Look
    <3>2. call'[p].pc /= "holding" /\ \A q \in Caller \ {p} : call'[q] = call[q]
      BY <3>1 DEF IdleCall, TypeOK
    <3> QED BY <2>1, <3>2 DEF Look
  <2>2. CASE NextCall(p)
    BY <2>2 DEF NextCall, IdleCall, TypeOK
  <2>3. CASE HoldThrows(p)
    BY <2>3, AnswerType DEF HoldThrows, TypeOK
  <2> QED BY <1>1, <2>1, <2>2, <2>3
<1>2. ASSUME NEW c \in Code, PatchStatus(c)
      PROVE  call' = call /\ \A d \in Code : PromoLocked(d) => codeStatus'[d] = codeStatus[d]
  BY <1>2 DEF PatchStatus, TypeOK
<1>4. ASSUME NEW c \in Code, CreatePromocode(c)
      PROVE  call' = call /\ \A d \in Code : PromoLocked(d) => codeStatus'[d] = codeStatus[d]
  BY <1>4 DEF CreatePromocode, PromoLocked, LockHolds, TypeOK
<1>3. CASE UNCHANGED <<codeStatus, call>>
  BY <1>3
<1> QED BY <1>1, <1>2, <1>3, <1>4 DEF Next, vars, Reserve, Release, TimePasses, SettleRequest, Settle, Expire, ExpireStarts,
       ExpireOne, ExpireDies

(* What the holder of the lock adds when it commits. *)
LEMMA CommitAdds ==
  ASSUME TypeOK, NEW p \in Caller, HoldCommits(p), NEW c \in Code, NEW b \in Buyer
  PROVE  /\ c /= call[p].code => Counted(c)' = Counted(c) /\ UsesOf(c, b)' = UsesOf(c, b)
         /\ Counted(c)' \subseteq Counted(c) \cup {call[p].order}
         /\ UsesOf(c, b)' \subseteq UsesOf(c, b) \cup (IF b = call[p].buyer THEN {call[p].order} ELSE {})
<1>1. \A o \in Order \ {call[p].order} : redemption'[o] = redemption[o]
  BY DEF HoldCommits, TypeOK
<1>2. /\ call[p].order \in Order /\ redemption[call[p].order].status = "none"
      /\ redemption'[call[p].order].code = call[p].code
      /\ redemption'[call[p].order].buyer = call[p].buyer
  BY DEF HoldCommits, TypeOK
<1> QED BY <1>1, <1>2 DEF Counted, UsesOf, InStatus

BudgetInv == TypeOK /\ LockHolds /\ UsesKept

LEMMA BudgetInit == Init => LockHolds /\ UsesKept
<1> SUFFICES ASSUME Init PROVE LockHolds /\ UsesKept
  OBVIOUS
<1>1. LockHolds
  BY DEF Init, IdleCall, LockHolds
<1>2. \A c \in Code, b \in Buyer : Counted(c) = {} /\ UsesOf(c, b) = {}
  BY DEF Init, NoRedemption, Counted, UsesOf, InStatus
<1>3. \A c \in Code : Counted(c) = {}
  BY DEF Init, NoRedemption, Counted, InStatus
<1> QED BY <1>1, <1>2, <1>3, FS_EmptySet, BudgetAssumption DEF UsesKept

LEMMA LockStep == BudgetInv /\ TypeOK' /\ [Next]_vars => LockHolds'
<1> SUFFICES ASSUME BudgetInv, TypeOK', [Next]_vars, NEW p \in Caller, call'[p].pc = "holding"
             PROVE  /\ codeStatus'[call'[p].code] = "active"
                    /\ UsesFit(call[p].code, call[p].buyer)'
                    /\ \A q \in Caller \ {p} : call'[q].pc = "holding" => call'[q].code /= call'[p].code
  BY DEF LockHolds
<1>0. call'[p].code \in Code /\ call'[p].buyer \in Buyer
  BY DEF TypeOK
<1>1. CASE \E s \in Caller : Validate(s)
  <2>1. PICK s \in Caller : Validate(s)
    BY <1>1
  <2>2. call[s].pc = "validating" /\ ~PromoLocked(call[s].code) /\ UNCHANGED <<codeStatus, redemption>>
    BY <2>1 DEF Validate
  <2>3. \/ Answer(s, "refused")
        \/ /\ codeStatus[call[s].code] = "active" /\ UsesFit(call[s].code, call[s].buyer)
           /\ \E amount \in Nat : call' = [call EXCEPT ![s].pc = "holding", ![s].amount = amount]
    BY <2>1, ComputeType, BoundsAssumption DEF Validate
  <2>4. /\ call'[s].pc = "holding" => codeStatus[call[s].code] = "active" /\ UsesFit(call[s].code, call[s].buyer)
        /\ \A q \in Caller \ {s} : call'[q] = call[q]
        /\ call'[s].code = call[s].code /\ call'[s].buyer = call[s].buyer
    BY <2>3 DEF Answer, BudgetInv, TypeOK, CallType
  <2>5. UsesFit(call[p].code, call[p].buyer)' <=> UsesFit(call[p].code, call[p].buyer)
    <3>1. call'[p].code = call[p].code /\ call'[p].buyer = call[p].buyer
      BY <2>4
    <3>2. \A c, b : Counted(c)' = Counted(c) /\ UsesOf(c, b)' = UsesOf(c, b)
      BY <2>2 DEF Counted, UsesOf, InStatus
    <3> QED BY <3>1, <3>2 DEF UsesFit
  <2> QED BY <2>2, <2>4, <2>5 DEF LockHolds, PromoLocked, BudgetInv
<1>2. CASE \E s \in Caller : HoldCommits(s)
  <2>1. PICK s \in Caller : HoldCommits(s)
    BY <1>2
  <2>2. /\ call'[s].pc = "answered" /\ UNCHANGED codeStatus
        /\ \A q \in Caller \ {s} : call'[q] = call[q]
    BY <2>1, AnswerType DEF HoldCommits, BudgetInv, TypeOK
  <2>3. p /= s /\ call'[p] = call[p] /\ call[p].code /= call[s].code
    BY <2>1, <2>2 DEF HoldCommits, LockHolds, BudgetInv
  <2>4. /\ Counted(call[p].code)' = Counted(call[p].code)
        /\ UsesOf(call[p].code, call[p].buyer)' = UsesOf(call[p].code, call[p].buyer)
    BY <1>0, <2>1, <2>3, CommitAdds DEF BudgetInv
  <2> QED BY <2>2, <2>3, <2>4 DEF LockHolds, BudgetInv, UsesFit
<1>3. CASE /\ \A s \in Caller : ~Validate(s) /\ ~HoldCommits(s)
  <2>1. call'[p] = call[p] /\ \A q \in Caller : call'[q].pc = "holding" => call'[q] = call[q]
    BY <1>3, LockFrame DEF BudgetInv
  <2>2. codeStatus'[call[p].code] = codeStatus[call[p].code]
    BY <1>0, <1>3, <2>1, LockFrame DEF BudgetInv, PromoLocked
  <2>3. UsesFit(call[p].code, call[p].buyer) => UsesFit(call[p].code, call[p].buyer)'
    BY <1>0, <1>3, <2>1, OthersFewer, FewerUses DEF BudgetInv
  <2> QED BY <2>1, <2>2, <2>3 DEF LockHolds, BudgetInv
<1> QED BY <1>1, <1>2, <1>3

(* One more row, in a set that had room for it. *)
LEMMA OneMore ==
  ASSUME NEW S, NEW T, NEW x, IsFiniteSet(S), T \subseteq S \cup {x},
         NEW bound \in Nat, Cardinality(S) < bound
  PROVE  Cardinality(T) <= bound
<1>0. Cardinality(S) \in Nat
  BY FS_CardinalityType
<1>1. /\ IsFiniteSet(S \cup {x})
      /\ Cardinality(S \cup {x}) = IF x \in S THEN Cardinality(S) ELSE Cardinality(S) + 1
  BY FS_AddElement
<1>2. IsFiniteSet(T) /\ Cardinality(T) <= Cardinality(S \cup {x})
  BY <1>1, FS_Subset
<1> QED BY <1>0, <1>1, <1>2, FS_CardinalityType

LEMMA UsesStep == BudgetInv /\ [Next]_vars => UsesKept'
<1> SUFFICES ASSUME BudgetInv, [Next]_vars, NEW c \in Code
             PROVE  /\ Cardinality(Counted(c)') <= MaxUses
                    /\ \A b \in Buyer : Cardinality(UsesOf(c, b)') <= PerBuyerMaxUses
  BY DEF UsesKept
<1>1. /\ Cardinality(Counted(c)) <= MaxUses /\ IsFiniteSet(Counted(c)) /\ Counted(c) \subseteq Order
      /\ \A b \in Buyer : Cardinality(UsesOf(c, b)) <= PerBuyerMaxUses /\ UsesOf(c, b) \subseteq Order
                          /\ IsFiniteSet(UsesOf(c, b))
  BY BoundsAssumption, FS_Subset DEF BudgetInv, UsesKept, Counted, UsesOf, InStatus
<1>2. CASE \E p \in Caller : HoldCommits(p)
  <2>1. PICK p \in Caller : HoldCommits(p)
    BY <1>2
  <2>2. call[p].pc = "holding" /\ call[p].code \in Code /\ call[p].buyer \in Buyer
    BY <2>1 DEF HoldCommits, BudgetInv, TypeOK
  <2>3. CASE c /= call[p].code
    <3>1. Counted(c)' = Counted(c) /\ \A b \in Buyer : UsesOf(c, b)' = UsesOf(c, b)
      BY <2>1, <2>2, <2>3, CommitAdds DEF BudgetInv
    <3> QED BY <1>1, <3>1
  <2>4. CASE c = call[p].code
    <3>1. Cardinality(Counted(c)) < MaxUses /\ Cardinality(UsesOf(c, call[p].buyer)) < PerBuyerMaxUses
      BY <2>2, <2>4 DEF BudgetInv, LockHolds, UsesFit
    <3>2. Counted(c)' \subseteq Counted(c) \cup {call[p].order}
      BY <2>1, <2>2, CommitAdds DEF BudgetInv
    <3>3. Cardinality(Counted(c)') <= MaxUses
      BY <1>1, <3>1, <3>2, OneMore, BudgetAssumption
    <3>4. ASSUME NEW b \in Buyer PROVE Cardinality(UsesOf(c, b)') <= PerBuyerMaxUses
      <4>1. UsesOf(c, b)' \subseteq UsesOf(c, b) \cup (IF b = call[p].buyer THEN {call[p].order} ELSE {})
        BY <2>1, CommitAdds DEF BudgetInv
      <4>2. CASE b = call[p].buyer
        BY <1>1, <3>1, <4>1, <4>2, OneMore, BudgetAssumption
      <4>3. CASE b /= call[p].buyer
        <5>1. UsesOf(c, b)' \subseteq UsesOf(c, b)
          BY <4>1, <4>3
        <5>2. Cardinality(UsesOf(c, b)') <= Cardinality(UsesOf(c, b))
              /\ Cardinality(UsesOf(c, b)') \in Nat /\ Cardinality(UsesOf(c, b)) \in Nat
          BY <1>1, <5>1, FS_Subset, FS_CardinalityType
        <5> QED BY <1>1, <5>2, BudgetAssumption
      <4> QED BY <4>2, <4>3
    <3> QED BY <3>3, <3>4
  <2> QED BY <2>3, <2>4
<1>3. CASE \A p \in Caller : ~HoldCommits(p)
  <2>1. Fewer
    BY <1>3, OthersFewer DEF BudgetInv
  <2>2. /\ Counted(c)' \subseteq Counted(c)
        /\ \A b \in Buyer : UsesOf(c, b)' \subseteq UsesOf(c, b)
    BY <2>1 DEF Fewer
  <2>3. \A S, T : IsFiniteSet(S) /\ T \subseteq S =>
          Cardinality(T) \in Nat /\ Cardinality(S) \in Nat /\ Cardinality(T) <= Cardinality(S)
    BY FS_Subset, FS_CardinalityType
  <2>4. Cardinality(Counted(c)') <= MaxUses
    BY <1>1, <2>2, <2>3, BudgetAssumption
  <2>5. ASSUME NEW b \in Buyer PROVE Cardinality(UsesOf(c, b)') <= PerBuyerMaxUses
    BY <1>1, <2>2, <2>3, BudgetAssumption
  <2> QED BY <2>4, <2>5
<1> QED BY <1>2, <1>3

LEMMA BudgetInvariant == Spec => [](LockHolds /\ UsesKept)
<1>1. LockHolds /\ UsesKept /\ TypeOK /\ TypeOK' /\ [Next]_vars => (LockHolds /\ UsesKept)'
  BY LockStep, UsesStep DEF BudgetInv
<1> QED BY <1>1, BudgetInit, TypeCorrect, PTL DEF Spec

(* What reserve validated under the lock is true until it commits, however *)
(* many requests, settlements and edits of the code there are.             *)
THEOREM LockKept == Spec => []LockHolds
BY BudgetInvariant, PTL

(* No number of checkouts racing for a code passes its budget in uses.     *)
THEOREM UsesSafe == Spec => []UsesKept
BY BudgetInvariant, PTL

---------------------------------------------------------------------------
(* The budget in spend *)

(* The sum a fold computes is the sum of the function it reads. *)
LEMMA AmountsOf ==
  ASSUME NEW r, NEW S, IsFiniteSet(S), \A o \in S : r[o].amount \in Int
  PROVE  MapThenSumSet(LAMBDA o : r[o].amount, S) = SumFunctionOnSet([o \in S |-> r[o].amount], S)
<1>. DEFINE f == [o \in S |-> r[o].amount]
            Iter(g) == g = [s \in SUBSET S |-> IF s = {} THEN 0 ELSE r[SomeOf(s)].amount + g[s \ {SomeOf(s)}]]
            it == CHOOSE g : Iter(g)
<1>1. AllInts(f, S) /\ \A s \in SUBSET S : s # {} => f[SomeOf(s)] = r[SomeOf(s)].amount
  <2>1. \A s \in SUBSET S : s # {} => SomeOf(s) \in S
    BY DEF SomeOf
  <2>. QED BY <2>1 DEF AllInts
<1>. HIDE DEF f
<1>2. ASSUME NEW g PROVE Iter(g) <=> Iterates(g, f, S)
  BY <1>1 DEF Iterates
<1>3. PICK g : Iterates(g, f, S)
  BY <1>1, SumIterates
<1>4. Iter(it)
  BY <1>2, <1>3
<1>5. it[S] = SumFunctionOnSet(f, S)
  <2>1. Iterates(it, f, S)
    BY <1>2, <1>4
  <2>. HIDE DEF it, Iter
  <2>. QED BY <1>1, <2>1, SumIterates
<1>6. MapThenSumSet(LAMBDA o : r[o].amount, S) = it[S]
  BY DEF MapThenSumSet, MapThenFoldSet, SomeOf
<1>. QED BY <1>5, <1>6 DEF f

Amts == [o \in Order |-> redemption[o].amount]
Spent(c) == SumFunctionOnSet(Amts, Counted(c))

LEMMA CountedFinite ==
  ASSUME TypeOK, NEW c \in Code
  PROVE  /\ Counted(c) \in SUBSET Order /\ IsFiniteSet(Counted(c))
         /\ AllInts(Amts, Counted(c)) /\ \A o \in Order : Amts[o] \in Nat
<1>1. Counted(c) \in SUBSET Order
  BY DEF Counted, InStatus
<1>. QED BY <1>1, BoundsAssumption, FS_Subset DEF AllInts, Amts, TypeOK, RedemptionType

LEMMA AmountsIs ==
  ASSUME TypeOK, NEW S \in SUBSET Order
  PROVE  Amounts(S) = SumFunctionOnSet(Amts, S)
<1>1. IsFiniteSet(S) /\ \A o \in S : redemption[o].amount \in Int
  BY BoundsAssumption, FS_Subset DEF TypeOK, RedemptionType
<1>2. Amounts(S) = SumFunctionOnSet([o \in S |-> redemption[o].amount], S)
  BY <1>1, AmountsOf DEF Amounts
<1>3. AllInts(Amts, S) /\ \A x \in S : [o \in S |-> redemption[o].amount][x] = Amts[x]
  BY <1>1 DEF AllInts, Amts
<1>. QED BY <1>1, <1>2, <1>3, SumSame

SpendInv ==
  /\ \A c \in Code : Spent(c) <= MaxSpend
  /\ \A p \in Caller : call[p].pc = "holding" => Spent(call[p].code) + call[p].amount <= MaxSpend

(* Orders that end, or settle for less, only lower what was spent. *)
LEMMA SpentLess ==
  ASSUME TypeOK, TypeOK', NEW c \in Code, Counted(c)' \subseteq Counted(c),
         \A o \in Order : Amts'[o] <= Amts[o]
  PROVE  Spent(c)' <= Spent(c) /\ Spent(c)' \in Int /\ Spent(c) \in Int
<1>. DEFINE S == Counted(c)  T == Counted(c)'
<1>1. /\ S \in SUBSET Order /\ IsFiniteSet(S)
      /\ AllInts(Amts, S) /\ \A o \in Order : Amts[o] \in Nat
  BY CountedFinite
<1>2. IsFiniteSet(T) /\ T \in SUBSET S
  BY <1>1, FS_Subset
<1>3. AllInts(Amts, T) /\ AllInts(Amts', T) /\ LeqOn(Amts', Amts, T)
  BY <1>1, <1>2 DEF AllInts, LeqOn, Amts, TypeOK, RedemptionType
<1>. HIDE DEF S, T
<1>4. SumFunctionOnSet(Amts', T) <= SumFunctionOnSet(Amts, T)
  BY <1>2, <1>3, SumLeq
<1>5. SumFunctionOnSet(Amts, T) <= SumFunctionOnSet(Amts, S)
  BY <1>1, <1>2, SumSubset
<1>6. /\ SumFunctionOnSet(Amts', T) \in Int /\ SumFunctionOnSet(Amts, T) \in Int
      /\ SumFunctionOnSet(Amts, S) \in Int
  BY <1>1, <1>2, <1>3, SumType
<1>. QED BY <1>4, <1>5, <1>6 DEF Spent, S, T

(* Only a commit under the lock raises an amount. *)
LEMMA AmountsShrink ==
  ASSUME TypeOK, [Next]_vars, \A p \in Caller : ~HoldCommits(p), NEW o \in Order
  PROVE  Amts'[o] <= Amts[o]
<1>. DEFINE Goal == redemption'[o].amount <= redemption[o].amount
<1>0. redemption[o].amount \in Nat
  BY DEF TypeOK, RedemptionType
<1>. USE DEF TypeOK, RedemptionType
<1>1. ASSUME NEW q \in Order, ReleaseRow(q) PROVE Goal
  BY <1>0, <1>1 DEF ReleaseRow
<1>2. ASSUME NEW q \in Order, NEW final \in 0..redemption[q].amount, Settle(q, final) PROVE Goal
  <2>1. redemption' = [redemption EXCEPT ![q].status = "settled", ![q].amount = final] /\ final <= redemption[q].amount
    BY <1>2 DEF Settle
  <2>. QED BY <1>0, <2>1
<1>3. ASSUME NEW q \in Order, TimePasses(q) PROVE Goal
  BY <1>0, <1>3 DEF TimePasses
<1>4. ASSUME NEW x \in Expirer, NEW q \in Order, ExpireOne(x, q) PROVE Goal
  BY <1>0, <1>1, <1>4 DEF ExpireOne
<1>5. ASSUME redemption' = redemption PROVE Goal
  BY <1>0, <1>5
<1>. HIDE DEF Goal, TypeOK, RedemptionType
<1>6. ASSUME NEW p \in Caller, Reserve(p) PROVE Goal
  BY <1>5, <1>6 DEF Reserve, Look, Validate, HoldThrows, NextCall
<1>7. ASSUME NEW c \in Code, CreatePromocode(c) \/ PatchStatus(c) PROVE Goal
  BY <1>5, <1>7 DEF CreatePromocode, PatchStatus
<1>8. ASSUME NEW x \in Expirer, ExpireStarts(x) \/ ExpireDies(x) PROVE Goal
  BY <1>5, <1>8 DEF ExpireStarts, ExpireDies
<1>9. ASSUME UNCHANGED vars PROVE Goal
  BY <1>5, <1>9 DEF vars
<1>10. Goal
  BY <1>1, <1>2, <1>3, <1>4, <1>6, <1>7, <1>8, <1>9 DEF Next, Release, SettleRequest, Expire
<1>. QED BY <1>10 DEF Goal, Amts

LEMMA SpendInit == Init => SpendInv
<1>. SUFFICES ASSUME Init PROVE SpendInv
  OBVIOUS
<1>1. \A c \in Code : Counted(c) = {}
  BY DEF Init, NoRedemption, Counted, InStatus
<1>2. \A c \in Code : Spent(c) = 0
  BY <1>1, SumEmpty DEF Spent
<1>. QED BY <1>2, BudgetAssumption DEF Init, IdleCall, SpendInv

(* The holder of the lock spends what it validated. *)
LEMMA CommitSpends ==
  ASSUME TypeOK, TypeOK', LockHolds, NEW p \in Caller, HoldCommits(p), NEW c \in Code
  PROVE  Spent(c)' = Spent(c) + IF c = call[p].code THEN call[p].amount ELSE 0
<1>. DEFINE o == call[p].order  S == Counted(c)
<1>0. o \in Order /\ call[p].amount \in Nat /\ redemption[o].status = "none"
  BY DEF HoldCommits, TypeOK, CallType
<1>1. /\ S \in SUBSET Order /\ IsFiniteSet(S) /\ AllInts(Amts, S) /\ o \notin S
  BY <1>0, CountedFinite DEF Counted, InStatus
<1>2. \A q \in Order \ {o} : redemption'[q] = redemption[q]
  BY DEF HoldCommits, TypeOK
<1>3. /\ redemption'[o].status = "reserved" /\ redemption'[o].code = call[p].code
      /\ redemption'[o].amount = call[p].amount
  BY <1>0 DEF HoldCommits, TypeOK
<1>4. Counted(c)' = IF c = call[p].code THEN S \cup {o} ELSE S
  BY <1>0, <1>1, <1>2, <1>3 DEF Counted, InStatus
<1>5. Amts'[o] = call[p].amount /\ \A q \in S : Amts'[q] = Amts[q]
  BY <1>0, <1>1, <1>2, <1>3 DEF Amts
<1>. HIDE DEF o, S
<1>6. SumFunctionOnSet(Amts', S) = SumFunctionOnSet(Amts, S) /\ SumFunctionOnSet(Amts, S) \in Int
  BY <1>1, <1>5, SumSame, SumType
<1>7. AllInts(Amts', S) /\ Amts'[o] \in Int
  BY <1>0, <1>1, <1>5 DEF AllInts
<1>8. SumFunctionOnSet(Amts', S \cup {o}) = Amts'[o] + SumFunctionOnSet(Amts', S)
  BY <1>1, <1>7, SumAdd
<1>9. CASE c = call[p].code
  BY <1>0, <1>4, <1>5, <1>6, <1>8, <1>9 DEF Spent, S
<1>10. CASE c /= call[p].code
  BY <1>4, <1>6, <1>10 DEF Spent, S
<1>. QED BY <1>9, <1>10

LEMMA SpendStep == SpendInv /\ TypeOK /\ TypeOK' /\ LockHolds /\ [Next]_vars => SpendInv'
<1>. SUFFICES ASSUME SpendInv, TypeOK, TypeOK', LockHolds, [Next]_vars PROVE SpendInv'
  OBVIOUS
<1>0. \A c \in Code : Spent(c) \in Int
  BY CountedFinite, SumType DEF Spent
<1>1. CASE \E s \in Caller : HoldCommits(s)
  <2>1. PICK s \in Caller : HoldCommits(s)
    BY <1>1
  <2>2. /\ call'[s].pc = "answered" /\ \A q \in Caller \ {s} : call'[q] = call[q]
    BY <2>1, AnswerType DEF HoldCommits, TypeOK
  <2>3. call[s].pc = "holding" /\ call[s].code \in Code /\ call[s].amount \in Nat
    BY <2>1 DEF HoldCommits, TypeOK, CallType
  <2>4. \A c \in Code : Spent(c)' = Spent(c) + IF c = call[s].code THEN call[s].amount ELSE 0
    BY <2>1, CommitSpends
  <2>5. \A c \in Code : Spent(c)' <= MaxSpend
    BY <1>0, <2>3, <2>4 DEF SpendInv
  <2>6. ASSUME NEW q \in Caller, call'[q].pc = "holding"
        PROVE  (Spent(call[q].code) + call[q].amount <= MaxSpend)'
    <3>1. q /= s /\ call'[q] = call[q] /\ call[q].code /= call[s].code /\ call[q].code \in Code
      BY <2>2, <2>3, <2>6 DEF LockHolds, TypeOK
    <3>2. Spent(call[q].code)' = Spent(call[q].code)
      BY <1>0, <2>4, <3>1
    <3>. QED BY <2>6, <3>1, <3>2 DEF SpendInv
  <2>. QED BY <2>5, <2>6 DEF SpendInv
<1>2. CASE \A s \in Caller : ~HoldCommits(s)
  <2>1. ASSUME NEW c \in Code PROVE Spent(c)' <= Spent(c) /\ Spent(c)' \in Int
    <3>1. Counted(c)' \subseteq Counted(c) /\ \A o \in Order : Amts'[o] <= Amts[o]
      BY <1>2, OthersFewer, AmountsShrink DEF Fewer
    <3>. QED BY <3>1, SpentLess
  <2>2. \A c \in Code : Spent(c)' <= MaxSpend
    BY <1>0, <2>1, BudgetAssumption DEF SpendInv
  <2>3. ASSUME NEW q \in Caller, call'[q].pc = "holding"
        PROVE  (Spent(call[q].code) + call[q].amount <= MaxSpend)'
    <3>0. call'[q].code \in Code /\ call'[q].amount \in Nat
      BY <2>3 DEF TypeOK, CallType
    <3>1. CASE call'[q] = call[q]
      BY <1>0, <2>1, <2>3, <3>0, <3>1, BudgetAssumption DEF SpendInv
    <3>2. CASE \E s \in Caller : Validate(s)
      <4>1. PICK s \in Caller : Validate(s)
        BY <3>2
      <4>2. \/ Answer(s, "refused")
            \/ \E amount \in Nat : /\ SpendFits(call[s].code, amount)
                                   /\ call' = [call EXCEPT ![s].pc = "holding", ![s].amount = amount]
        BY <4>1, ComputeType, BoundsAssumption DEF Validate
      <4>3. CASE q = s
        <5>1. call'[s].pc /= "answered"
          BY <2>3, <4>3
        <5>2. PICK amount \in Nat : /\ SpendFits(call[s].code, amount)
                                   /\ call' = [call EXCEPT ![s].pc = "holding", ![s].amount = amount]
          BY <4>2, <5>1, AnswerType DEF TypeOK
        <5>3. call'[s].code = call[s].code /\ call'[s].amount = amount
          BY <5>2 DEF TypeOK, CallType
        <5>4. Amounts(Counted(call[s].code)) = Spent(call[s].code)
          BY <3>0, <4>3, <5>3, CountedFinite, AmountsIs DEF Spent
        <5>5. Spent(call[s].code) + amount <= MaxSpend
          BY <5>2, <5>4 DEF SpendFits
        <5>. QED BY <1>0, <2>1, <3>0, <4>3, <5>3, <5>5, BudgetAssumption
      <4>4. CASE q /= s
        <5>1. call'[q] = call[q]
          BY <4>2, <4>4, AnswerType DEF TypeOK
        <5>. QED BY <3>1, <5>1
      <4>. QED BY <4>3, <4>4
    <3>3. CASE \A s \in Caller : ~Validate(s)
      BY <1>2, <2>3, <3>1, <3>3, LockFrame
    <3>. QED BY <3>2, <3>3
  <2>. QED BY <2>2, <2>3 DEF SpendInv
<1>. QED BY <1>1, <1>2

LEMMA SpendFollows == TypeOK /\ SpendInv => SpendKept
BY CountedFinite, AmountsIs DEF SpendInv, SpendKept, Spent

(* "Two checkouts racing for the last use of a code cannot both pass the   *)
(* budget", in money: what is reserved or settled of a code never exceeds  *)
(* its spend, for any number of checkouts, discounts and settlements.      *)
THEOREM SpendSafe == Spec => []SpendKept
BY SpendInit, SpendStep, SpendFollows, TypeCorrect, LockKept, PTL DEF Spec

---------------------------------------------------------------------------
(* Splitting an amount *)

(* Round rounds to the nearest. *)
LEMMA RoundBounds ==
  ASSUME NEW a \in Nat, NEW b \in Nat \ {0}
  PROVE  Round(a, b) \in Nat /\ 2 * b * Round(a, b) <= 2 * a + b /\ 2 * a + b < 2 * b * Round(a, b) + 2 * b
BY DEF Round

(* A share of an amount, rounded, is within the amount. *)
LEMMA RoundWithin ==
  ASSUME NEW f \in Nat, NEW h \in Nat, NEW H \in Nat \ {0}, h <= H
  PROVE  Round(f * h, H) \in 0..f
<1>. DEFINE r == Round(f * h, H)
<1>1. f * h \in Nat
  OBVIOUS
<1>2. r \in Nat /\ 2 * H * r <= 2 * (f * h) + H
  BY <1>1, RoundBounds
<1>. HIDE DEF r
<1>3. f * h <= f * H
  OBVIOUS
<1>4. 2 * H * r <= 2 * H * f + H
  BY <1>2, <1>3
<1>5. ASSUME r >= f + 1 PROVE FALSE
  <2>1. 2 * H * r >= 2 * H * (f + 1)
    BY <1>2, <1>5
  <2>2. 2 * H * (f + 1) = 2 * H * f + 2 * H /\ 2 * H * f \in Nat /\ 2 * H * r \in Nat
    BY <1>2
  <2>. QED BY <1>4, <2>1, <2>2
<1>6. r \in 0..f
  BY <1>2, <1>5
<1>. QED BY <1>6 DEF r

(* What a part leaves of an amount is within what the others hold. *)
LEMMA RoundLeaves ==
  ASSUME NEW f \in Nat, NEW h \in Nat, NEW g \in Nat, NEW H \in Nat \ {0}, H = g + h, f <= H
  PROVE  /\ Round(f * h, H) \in Nat /\ Round(f * h, H) <= h /\ Round(f * h, H) <= f
         /\ f - Round(f * h, H) <= g
<1>. DEFINE r == Round(f * h, H)
<1>1. r \in Nat /\ r <= f
  <2>1. h <= H
    OBVIOUS
  <2>2. r \in 0..f
    BY <2>1, RoundWithin
  <2>. QED BY <2>2
<1>2. r <= h
  <2>1. Round(h * f, H) \in 0..h
    BY RoundWithin
  <2>2. h * f = f * h
    OBVIOUS
  <2>. QED BY <2>1, <2>2
<1>3. 2 * (f * h) + H < 2 * H * r + 2 * H
  <2>1. f * h \in Nat
    OBVIOUS
  <2>. QED BY <2>1, RoundBounds
<1>. HIDE DEF r
<1>4. f * g <= H * g
  OBVIOUS
<1>5. ASSUME f - g >= r + 1 PROVE FALSE
  <2>1. 2 * H * (f - g) >= 2 * H * (r + 1)
    BY <1>1, <1>5
  <2>2. H * (f - g) = f * h + f * g - H * g
    OBVIOUS
  <2>. QED BY <1>1, <1>3, <1>4, <2>1, <2>2
<1>6. f - r <= g
  BY <1>1, <1>5
<1>. QED BY <1>1, <1>2, <1>6 DEF r

LEMMA FunderFacts ==
  /\ Len(Shares) \in Nat \ {0} /\ Funder = 1..Len(Shares)
  /\ IsFiniteSet(Funder) /\ 1 \in Funder
<1>1. Shares \in Seq(Nat) /\ Shares # <<>>
  BY FundersAssumption DEF FundersAreValid
<1>2. Len(Shares) \in Nat \ {0} /\ DOMAIN Shares = 1..Len(Shares)
  BY <1>1
<1>3. IsFiniteSet(1..Len(Shares))
  BY <1>2, FS_Interval
<1>. QED BY <1>2, <1>3 DEF Funder

(* Whatever rounding did, the first part takes the drift: parts add up. *)
LEMMA DriftAdds ==
  ASSUME NEW parts \in [Funder -> Int], NEW total \in Int
  PROVE  /\ WithDrift(parts, total) \in [Funder -> Int]
         /\ SumFunctionOnSet(WithDrift(parts, total), Funder) = total
<1>. DEFINE sum == SumFunctionOnSet(parts, Funder)  drifted == WithDrift(parts, total)
<1>1. AllInts(parts, Funder) /\ DOMAIN parts = Funder
  BY DEF AllInts
<1>2. sum \in Int
  BY <1>1, FunderFacts, SumType
<1>3. drifted = [parts EXCEPT ![1] = @ + (total - sum)]
  BY <1>1 DEF WithDrift, SumFunction
<1>. HIDE DEF sum, drifted
<1>4. drifted \in [Funder -> Int] /\ drifted[1] = parts[1] + (total - sum)
      /\ \A i \in Funder \ {1} : drifted[i] = parts[i]
  BY <1>2, <1>3, FunderFacts
<1>5. SumFunctionOnSet(drifted, Funder) = sum + (drifted[1] - parts[1])
  BY <1>1, <1>4, FunderFacts, SumChange DEF sum
<1>6. SumFunctionOnSet(drifted, Funder) = total
  BY <1>2, <1>4, <1>5, FunderFacts
<1>. QED BY <1>4, <1>6 DEF drifted

LEMMA RoundIsInt == ASSUME NEW a \in Nat, NEW b \in Nat \ {0} PROVE Round(a, b) \in Int
BY RoundBounds

(* The holds of a reservation add up to its amount (money.ts split). *)
LEMMA SplitAdds ==
  ASSUME NEW amount \in Nat
  PROVE  /\ Split(amount, Shares, Whole) \in [Funder -> Int]
         /\ SumFunctionOnSet(Split(amount, Shares, Whole), Funder) = amount
<1>. DEFINE parts == [i \in Funder |-> Round(amount * Shares[i], Whole)]
<1>1. ASSUME NEW i \in Funder PROVE Round(amount * Shares[i], Whole) \in Int
  <2>1. Shares[i] \in Nat /\ Whole \in Nat \ {0}
    BY FundersAssumption DEF Funder
  <2>2. amount * Shares[i] \in Nat
    BY <2>1
  <2>. QED BY <2>1, <2>2, RoundIsInt
<1>2. parts \in [Funder -> Int]
  BY <1>1
<1>3. Split(amount, Shares, Whole) = WithDrift(parts, amount)
  BY DEF Split, Funder
<1>. HIDE DEF parts
<1>. QED BY <1>2, <1>3, DriftAdds

(* The parts of a settlement add up to it (money.ts proportion). *)
LEMMA ProportionAdds ==
  ASSUME NEW holds \in [Funder -> Nat], NEW total \in 0..SumFunctionOnSet(holds, Funder)
  PROVE  /\ Proportion(total, holds) \in [Funder -> Int]
         /\ SumFunctionOnSet(Proportion(total, holds), Funder) = total
<1>. DEFINE held == SumFunctionOnSet(holds, Funder)
            parts == [i \in Funder |-> Round(total * holds[i], held)]
<1>1. AllInts(holds, Funder) /\ DOMAIN holds = Funder
  BY DEF AllInts
<1>2. held \in Int
  BY <1>1, FunderFacts, SumType
<1>. HIDE DEF held
<1>3. total \in Nat /\ total <= held
  BY <1>2 DEF held
<1>4. Proportion(total, holds) = IF held = 0 THEN [i \in Funder |-> 0] ELSE WithDrift(parts, total)
  BY <1>1 DEF Proportion, SumFunction, held
<1>5. CASE held = 0
  <2>. DEFINE none == [i \in Funder |-> 0]
  <2>1. none \in [Funder -> Int] /\ \A i \in Funder : none[i] = 0
    OBVIOUS
  <2>2. SumFunctionOnSet(none, Funder) = 0
    BY <2>1, FunderFacts, SumZero
  <2>. QED BY <1>2, <1>3, <1>4, <1>5, <2>1, <2>2
<1>6. CASE held # 0
  <2>1. held \in Nat \ {0}
    BY <1>2, <1>3, <1>6
  <2>2. ASSUME NEW i \in Funder PROVE Round(total * holds[i], held) \in Int
    <3>1. total * holds[i] \in Nat
      BY <1>3
    <3>. QED BY <2>1, <3>1, RoundIsInt
  <2>3. parts \in [Funder -> Int]
    BY <2>2
  <2>. HIDE DEF parts
  <2>. QED BY <1>3, <1>4, <1>6, <2>3, DriftAdds
<1>. QED BY <1>5, <1>6

---------------------------------------------------------------------------
(* The books of an order *)

Paid(kind, o) == SumFunctionOnSet([i \in Funder |-> ledger[o][i][kind]], Funder)

OrderBook(o) ==
  /\ redemption[o].status = "none" => \A i \in Funder : ledger[o][i].hold = 0
  /\ redemption[o].status = "reserved" => Paid("hold", o) = redemption[o].amount
  /\ redemption[o].status = "released" => \A i \in Funder : ledger[o][i].capture = 0
  /\ redemption[o].status = "settled" => redemption[o].amount <= Paid("capture", o)

OrderBooks == \A o \in Order : OrderBook(o)

LEMMA PaidType ==
  ASSUME TypeOK, NEW o \in Order, NEW kind \in {"hold", "capture", "release"}
  PROVE  /\ AllInts([i \in Funder |-> ledger[o][i][kind]], Funder)
         /\ Paid(kind, o) \in Int
<1>1. \A i \in Funder : ledger[o][i][kind] \in Nat
  BY DEF TypeOK, Posting
<1>2. AllInts([i \in Funder |-> ledger[o][i][kind]], Funder)
  BY <1>1 DEF AllInts
<1>. QED BY <1>2, FunderFacts, SumType DEF Paid

(* A settlement captures at least its amount: a negative part is skipped,  *)
(* and without one it captures exactly that.                               *)
LEMMA SettleCaptures ==
  ASSUME TypeInv, OrderBooks, NEW o \in Order, NEW final \in 0..redemption[o].amount, Settle(o, final)
  PROVE  /\ final <= Paid("capture", o)'
         /\ (\A i \in Funder : Proportion(final, Holds(o))[i] >= 0) => final = Paid("capture", o)'
<1>. DEFINE parts == Proportion(final, Holds(o))
            captured == [i \in Funder |-> ledger'[o][i].capture]
<1>1. /\ redemption[o].status = "reserved"
      /\ ledger' = [ledger EXCEPT ![o] =
             [i \in Funder |-> Released([@[i] EXCEPT !.capture = IF parts[i] > 0 THEN parts[i] ELSE 0])]]
  BY DEF Settle
<1>2. Holds(o) \in [Funder -> Nat] /\ SumFunctionOnSet(Holds(o), Funder) = redemption[o].amount
  <2>1. Holds(o) = [i \in Funder |-> ledger[o][i]["hold"]]
    BY DEF Holds
  <2>2. Holds(o) \in [Funder -> Nat]
    BY DEF Holds, TypeInv, TypeOK, Posting
  <2>3. Paid("hold", o) = redemption[o].amount
    BY <1>1 DEF OrderBooks, OrderBook
  <2>. QED BY <2>1, <2>2, <2>3 DEF Paid
<1>3. parts \in [Funder -> Int] /\ SumFunctionOnSet(parts, Funder) = final
  BY <1>2, ProportionAdds
<1>. HIDE DEF parts
<1>4. ASSUME NEW i \in Funder PROVE captured[i] = IF parts[i] > 0 THEN parts[i] ELSE 0
  <2>. DEFINE row == [ledger[o][i] EXCEPT !.capture = IF parts[i] > 0 THEN parts[i] ELSE 0]
  <2>1. ledger[o][i] \in Posting
    BY DEF TypeInv, TypeOK
  <2>2. ledger'[o][i] = Released(row)
    BY <1>1 DEF TypeInv, TypeOK
  <2>3. row.capture = IF parts[i] > 0 THEN parts[i] ELSE 0
    BY <2>1 DEF Posting
  <2>4. Released(row).capture = row.capture
    BY DEF Released
  <2>. QED BY <2>2, <2>3, <2>4
<1>5. AllInts(parts, Funder) /\ AllInts(captured, Funder) /\ LeqOn(parts, captured, Funder)
  BY <1>3, <1>4 DEF AllInts, LeqOn
<1>6. Paid("capture", o)' = SumFunctionOnSet(captured, Funder)
  BY DEF Paid
<1>. HIDE DEF captured
<1>7. final <= SumFunctionOnSet(captured, Funder)
  BY <1>3, <1>5, FunderFacts, SumLeq
<1>8. ASSUME \A i \in Funder : parts[i] >= 0 PROVE final = SumFunctionOnSet(captured, Funder)
  <2>1. \A i \in Funder : captured[i] = parts[i]
    BY <1>3, <1>4, <1>8
  <2>. QED BY <1>3, <1>5, <2>1, FunderFacts, SumSame
<1>. QED BY <1>6, <1>7, <1>8 DEF parts

LEMMA CommitHolds ==
  ASSUME TypeOK, NEW p \in Caller, HoldCommits(p), NEW o \in Order, o = call[p].order
  PROVE  OrderBook(o)'
<1>. DEFINE parts == Split(call[p].amount, Shares, Whole)
<1>0. call[p].amount \in Nat
  BY DEF HoldCommits, TypeOK, CallType
<1>1. /\ redemption'[o].status = "reserved" /\ redemption'[o].amount = call[p].amount
      /\ ledger'[o] = [i \in Funder |-> [hold |-> parts[i], capture |-> 0, release |-> 0]]
  BY <1>0 DEF HoldCommits, Placed, TypeOK
<1>2. parts \in [Funder -> Int] /\ SumFunctionOnSet(parts, Funder) = call[p].amount
  BY <1>0, SplitAdds
<1>. HIDE DEF parts
<1>3. AllInts(parts, Funder) /\ \A i \in Funder : [j \in Funder |-> ledger'[o][j]["hold"]][i] = parts[i]
  BY <1>1, <1>2 DEF AllInts
<1>4. SumFunctionOnSet([j \in Funder |-> ledger'[o][j]["hold"]], Funder) = call[p].amount
  BY <1>2, <1>3, FunderFacts, SumSame
<1>. QED BY <1>1, <1>4 DEF OrderBook, Paid

LEMMA ReleaseBooks ==
  ASSUME TypeInv, NEW o \in Order, redemption[o].status = "reserved", ReleaseRow(o)
  PROVE  OrderBook(o)'
<1>1. redemption'[o].status = "released"
  BY DEF ReleaseRow, TypeInv, TypeOK, RedemptionType
<1>2. \A i \in Funder : ledger[o][i].capture = 0
  BY DEF TypeInv, HoldsCloseWithOrder
<1>3. ASSUME NEW i \in Funder PROVE ledger'[o][i].capture = 0
  <2>1. ledger'[o][i] = Released(ledger[o][i]) /\ ledger[o][i] \in Posting
    BY DEF ReleaseRow, TypeInv, TypeOK
  <2>. QED BY <1>2, <2>1 DEF Released, Posting
<1>. QED BY <1>1, <1>3 DEF OrderBook

SameBook(o) ==
  /\ redemption'[o].status = redemption[o].status /\ redemption'[o].amount = redemption[o].amount
  /\ ledger'[o] = ledger[o]

LEMMA SameBookKept ==
  ASSUME NEW o \in Order, SameBook(o)
  PROVE  /\ OrderBook(o) => OrderBook(o)'
         /\ \A kind : Paid(kind, o)' = Paid(kind, o)
<1>1. \A kind : Paid(kind, o)' = Paid(kind, o)
  BY DEF SameBook, Paid
<1>. QED BY <1>1 DEF SameBook, OrderBook

(* What a step does to the books of an order. *)
BookStep(o) ==
  \/ SameBook(o)
  \/ \E p \in Caller : HoldCommits(p) /\ o = call[p].order
  \/ redemption[o].status = "reserved" /\ ReleaseRow(o)
  \/ \E final \in 0..redemption[o].amount : Settle(o, final)

LEMMA BookSteps ==
  ASSUME TypeOK, [Next]_vars, NEW o \in Order
  PROVE  BookStep(o)
<1>. USE DEF TypeOK, RedemptionType
<1>1. ASSUME NEW p \in Caller, HoldCommits(p) PROVE BookStep(o)
  <2>1. CASE o = call[p].order
    BY <1>1, <2>1 DEF BookStep
  <2>2. CASE o # call[p].order
    BY <1>1, <2>2 DEF BookStep, SameBook, HoldCommits
  <2>. QED BY <2>1, <2>2
<1>2. ASSUME NEW q \in Order, redemption[q].status = "reserved", ReleaseRow(q) PROVE BookStep(o)
  <2>1. CASE o = q
    BY <1>2, <2>1 DEF BookStep
  <2>2. CASE o # q
    BY <1>2, <2>2 DEF BookStep, SameBook, ReleaseRow
  <2>. QED BY <2>1, <2>2
<1>3. ASSUME NEW q \in Order, NEW final \in 0..redemption[q].amount, Settle(q, final) PROVE BookStep(o)
  <2>1. CASE o = q
    BY <1>3, <2>1 DEF BookStep
  <2>2. CASE o # q
    BY <1>3, <2>2 DEF BookStep, SameBook, Settle
  <2>. QED BY <2>1, <2>2
<1>4. ASSUME NEW q \in Order, TimePasses(q) PROVE BookStep(o)
  BY <1>4 DEF BookStep, SameBook, TimePasses
<1>5. ASSUME UNCHANGED <<redemption, ledger>> PROVE BookStep(o)
  BY <1>5 DEF BookStep, SameBook
<1>. HIDE DEF TypeOK, RedemptionType
<1>6. ASSUME NEW x \in Expirer, NEW q \in Order, ExpireOne(x, q) PROVE BookStep(o)
  BY <1>2, <1>5, <1>6 DEF ExpireOne
<1>. QED BY <1>1, <1>2, <1>3, <1>4, <1>5, <1>6 DEF Next, vars, Reserve, Look, Validate, HoldThrows,
       NextCall, CreatePromocode, PatchStatus, Release, SettleRequest, Expire, ExpireStarts, ExpireDies

LEMMA BooksInit == Init => OrderBooks
BY DEF Init, NoRedemption, NoPostings, OrderBooks, OrderBook

LEMMA BooksStep == TypeInv /\ OrderBooks /\ [Next]_vars => OrderBooks'
<1>. SUFFICES ASSUME TypeInv, OrderBooks, [Next]_vars, NEW o \in Order PROVE OrderBook(o)'
  BY DEF OrderBooks
<1>1. BookStep(o)
  BY BookSteps DEF TypeInv
<1>2. CASE SameBook(o)
  BY <1>2, SameBookKept DEF OrderBooks
<1>3. ASSUME NEW p \in Caller, HoldCommits(p), o = call[p].order PROVE OrderBook(o)'
  BY <1>3, CommitHolds DEF TypeInv
<1>4. CASE redemption[o].status = "reserved" /\ ReleaseRow(o)
  BY <1>4, ReleaseBooks
<1>5. ASSUME NEW final \in 0..redemption[o].amount, Settle(o, final) PROVE OrderBook(o)'
  <2>1. redemption'[o].status = "settled" /\ redemption'[o].amount = final
    BY <1>5 DEF Settle, TypeInv, TypeOK, RedemptionType
  <2>2. final <= Paid("capture", o)'
    BY <1>5, SettleCaptures
  <2>. QED BY <2>1, <2>2 DEF OrderBook
<1>. QED BY <1>1, <1>2, <1>3, <1>4, <1>5 DEF BookStep

LEMMA BooksInvariant == Spec => []OrderBooks
BY BooksInit, BooksStep, TypeInvariant, PTL DEF Spec

---------------------------------------------------------------------------
(* The books of all the orders *)

PostedTo(kind, i) == SumFunctionOnSet([o \in Order |-> ledger[o][i][kind]], Order)

LEMMA PostingsIs ==
  ASSUME TypeOK, NEW i \in Funder, NEW kind \in {"hold", "capture", "release"}
  PROVE  Postings(kind, i) = PostedTo(kind, i) /\ AllInts([o \in Order |-> ledger[o][i][kind]], Order)
<1>. DEFINE f == [o \in Order |-> ledger[o][i][kind]]
            Iter(g) == g = [s \in SUBSET Order |->
                              IF s = {} THEN 0 ELSE ledger[SomeOf(s)][i][kind] + g[s \ {SomeOf(s)}]]
            it == CHOOSE g : Iter(g)
<1>0. \A o \in Order : ledger[o][i][kind] \in Int
  BY DEF TypeOK, Posting
<1>1. AllInts(f, Order) /\ \A s \in SUBSET Order : s # {} => f[SomeOf(s)] = ledger[SomeOf(s)][i][kind]
  <2>1. \A s \in SUBSET Order : s # {} => SomeOf(s) \in Order
    BY DEF SomeOf
  <2>. QED BY <1>0, <2>1 DEF AllInts
<1>. HIDE DEF f
<1>2. ASSUME NEW g PROVE Iter(g) <=> Iterates(g, f, Order)
  BY <1>1 DEF Iterates
<1>3. PICK g : Iterates(g, f, Order)
  BY <1>1, BoundsAssumption, SumIterates
<1>4. Iter(it)
  BY <1>2, <1>3
<1>5. it[Order] = SumFunctionOnSet(f, Order)
  <2>1. Iterates(it, f, Order)
    BY <1>2, <1>4
  <2>. HIDE DEF it, Iter
  <2>. QED BY <1>1, <2>1, BoundsAssumption, SumIterates
<1>6. Postings(kind, i) = it[Order]
  BY DEF Postings, MapThenSumSet, MapThenFoldSet, SomeOf
<1>. QED BY <1>1, <1>5, <1>6 DEF f, PostedTo

(* The postings of a kind by funder, added up by order instead. *)
LEMMA OverIs ==
  ASSUME TypeOK, NEW kind \in {"hold", "capture", "release"}
  PROVE  SumFunction([i \in Funder |-> Postings(kind, i)]) = SumFunctionOnSet([o \in Order |-> Paid(kind, o)], Order)
<1>. DEFINE m == [o \in Order |-> [i \in Funder |-> ledger[o][i][kind]]]
<1>1. IntTable(m, Order, Funder)
  BY PaidType DEF IntTable
<1>2. RowSums(m, Order, Funder) = [o \in Order |-> Paid(kind, o)]
  BY DEF RowSums, Paid
<1>3. ASSUME NEW i \in Funder PROVE Column(m, Order, i) = [o \in Order |-> ledger[o][i][kind]]
  BY DEF Column
<1>4. ASSUME NEW i \in Funder PROVE ColumnSums(m, Order, Order, Funder)[i] = Postings(kind, i)
  BY <1>3, PostingsIs DEF ColumnSums, PostedTo
<1>5. ColumnSums(m, Order, Order, Funder) = [i \in Funder |-> Postings(kind, i)]
  BY <1>4 DEF ColumnSums
<1>. HIDE DEF m
<1>6. SumFunctionOnSet(RowSums(m, Order, Funder), Order) = SumFunctionOnSet(ColumnSums(m, Order, Order, Funder), Funder)
  BY <1>1, BoundsAssumption, FunderFacts, SumSwap
<1>. QED BY <1>2, <1>5, <1>6 DEF SumFunction

CapturedExactly(o) == redemption[o].status = "settled" => redemption[o].amount = Paid("capture", o)

AllExact == \A o \in Order : CapturedExactly(o)

LEMMA PaidNothing ==
  ASSUME TypeOK, NEW o \in Order, NEW kind \in {"hold", "capture", "release"},
         \A i \in Funder : ledger[o][i][kind] = 0
  PROVE  Paid(kind, o) = 0
<1>1. \A i \in Funder : [j \in Funder |-> ledger[o][j][kind]][i] = 0
  OBVIOUS
<1>. QED BY <1>1, FunderFacts, SumZero DEF Paid

Open(o) == IF redemption[o].status = "reserved" THEN redemption[o].amount ELSE 0

(* What an order holds is open, captured or released. *)
LEMMA HeldIsSomewhere ==
  ASSUME TypeInv, OrderBooks, NEW o \in Order
  PROVE  Paid("hold", o) = Open(o) + (Paid("capture", o) + Paid("release", o))
<1>0. TypeOK /\ Paid("hold", o) \in Int
  BY PaidType DEF TypeInv
<1>1. CASE redemption[o].status \in {"none", "reserved"}
  <2>1. \A i \in Funder : ledger[o][i].capture = 0 /\ ledger[o][i].release = 0
    BY <1>1 DEF TypeInv, HoldsCloseWithOrder
  <2>2. Paid("capture", o) = 0 /\ Paid("release", o) = 0
    BY <1>0, <2>1, PaidNothing
  <2>3. Paid("hold", o) = Open(o)
    <3>1. CASE redemption[o].status = "none"
      <4>1. \A i \in Funder : ledger[o][i].hold = 0
        BY <3>1 DEF OrderBooks, OrderBook
      <4>. QED BY <1>0, <3>1, <4>1, PaidNothing DEF Open
    <3>2. CASE redemption[o].status = "reserved"
      BY <3>2 DEF OrderBooks, OrderBook, Open
    <3>. QED BY <1>1, <3>1, <3>2
  <2>. QED BY <1>0, <2>2, <2>3
<1>2. CASE redemption[o].status \in {"settled", "released"}
  <2>. DEFINE held == [i \in Funder |-> ledger[o][i]["hold"]]
              captured == [i \in Funder |-> ledger[o][i]["capture"]]
              released == [i \in Funder |-> ledger[o][i]["release"]]
  <2>1. \A i \in Funder : ledger[o][i].hold = ledger[o][i].capture + ledger[o][i].release
    BY <1>2 DEF TypeInv, HoldsCloseWithOrder
  <2>2. PlusOn(held, captured, released, Funder)
    BY <2>1 DEF PlusOn
  <2>3. AllInts(captured, Funder) /\ AllInts(released, Funder)
    BY <1>0, PaidType
  <2>4. /\ Paid("hold", o) = SumFunctionOnSet(held, Funder)
        /\ Paid("capture", o) = SumFunctionOnSet(captured, Funder)
        /\ Paid("release", o) = SumFunctionOnSet(released, Funder)
    BY DEF Paid
  <2>. HIDE DEF held, captured, released
  <2>5. Paid("hold", o) = Paid("capture", o) + Paid("release", o)
    BY <2>2, <2>3, <2>4, FunderFacts, SumPlus
  <2>6. Open(o) = 0
    BY <1>2 DEF Open
  <2>. QED BY <1>0, <2>5, <2>6
<1>3. redemption[o].status \in {"none", "reserved", "settled", "released"}
  BY <1>0 DEF TypeOK, RedemptionType
<1>. QED BY <1>1, <1>2, <1>3

Over(kind) == SumFunctionOnSet([o \in Order |-> Paid(kind, o)], Order)

LEMMA OverType ==
  ASSUME TypeOK, NEW kind \in {"hold", "capture", "release"}
  PROVE  AllInts([o \in Order |-> Paid(kind, o)], Order) /\ Over(kind) \in Int
<1>1. AllInts([o \in Order |-> Paid(kind, o)], Order)
  BY PaidType DEF AllInts
<1>. QED BY <1>1, BoundsAssumption, SumType DEF Over

(* The reserved side of the books holds for any shares. *)
LEMMA ReservedAgrees ==
  ASSUME TypeInv, OrderBooks
  PROVE  Amounts(InStatus("reserved")) = Over("hold") - Over("capture") - Over("release")
<1>. DEFINE h == [o \in Order |-> Paid("hold", o)]
            c == [o \in Order |-> Paid("capture", o)]
            r == [o \in Order |-> Paid("release", o)]
            ended == [o \in Order |-> Paid("capture", o) + Paid("release", o)]
            open == [o \in Order |-> Open(o)]
            S == InStatus("reserved")
<1>0. TypeOK
  BY DEF TypeInv
<1>1. AllInts(h, Order) /\ AllInts(c, Order) /\ AllInts(r, Order)
  BY <1>0, OverType
<1>2. AllInts(open, Order) /\ AllInts(Amts, Order)
  BY <1>0 DEF AllInts, Open, Amts, TypeOK, RedemptionType
<1>3. PlusOn(ended, c, r, Order)
  BY DEF PlusOn
<1>4. AllInts(ended, Order)
  <2>1. \A o \in Order : Paid("capture", o) \in Int /\ Paid("release", o) \in Int
    BY <1>0, PaidType
  <2>. QED BY <2>1 DEF AllInts
<1>5. PlusOn(h, open, ended, Order)
  BY HeldIsSomewhere DEF PlusOn
<1>6. S \in SUBSET Order /\ IsFiniteSet(S) /\ IsFiniteSet(Order)
  BY BoundsAssumption, FS_Subset DEF InStatus
<1>7. (\A o \in Order \ S : open[o] = 0) /\ (\A o \in S : Amts[o] = open[o]) /\ AllInts(open, S)
  BY <1>2 DEF InStatus, Open, Amts, AllInts
<1>8. Amounts(S) = SumFunctionOnSet(Amts, S)
  BY <1>0, <1>6, AmountsIs
<1>9. Over("hold") = SumFunctionOnSet(h, Order) /\ Over("capture") = SumFunctionOnSet(c, Order)
      /\ Over("release") = SumFunctionOnSet(r, Order)
  BY DEF Over
<1>. HIDE DEF h, c, r, ended, open, S
<1>10. SumFunctionOnSet(h, Order) = SumFunctionOnSet(open, Order) + SumFunctionOnSet(ended, Order)
  BY <1>2, <1>4, <1>5, <1>6, SumPlus
<1>11. SumFunctionOnSet(ended, Order) = SumFunctionOnSet(c, Order) + SumFunctionOnSet(r, Order)
  BY <1>1, <1>3, <1>6, SumPlus
<1>12. SumFunctionOnSet(open, Order) = SumFunctionOnSet(open, S)
  BY <1>2, <1>6, <1>7, SumSupport
<1>13. SumFunctionOnSet(Amts, S) = SumFunctionOnSet(open, S)
  BY <1>6, <1>7, SumSame
<1>14. Over("capture") \in Int /\ Over("release") \in Int /\ SumFunctionOnSet(open, S) \in Int
  BY <1>0, <1>6, <1>7, OverType, SumType
<1>. QED BY <1>8, <1>9, <1>10, <1>11, <1>12, <1>13, <1>14 DEF S

(* What was captured is for orders that were settled. *)
Taken(o) == IF redemption[o].status = "settled" THEN Paid("capture", o) ELSE 0

(* What was captured was captured of orders that were settled. *)
LEMMA OnlySettledPaid ==
  ASSUME TypeInv, OrderBooks, NEW o \in Order
  PROVE  Paid("capture", o) = Taken(o)
<1>1. CASE redemption[o].status = "settled"
  BY <1>1 DEF Taken
<1>2. CASE redemption[o].status # "settled"
  <2>1. \A i \in Funder : ledger[o][i].capture = 0
    <3>1. CASE redemption[o].status = "released"
      BY <3>1 DEF OrderBooks, OrderBook
    <3>2. CASE redemption[o].status # "released"
      BY <1>2, <3>2 DEF TypeInv, HoldsCloseWithOrder
    <3>. QED BY <3>1, <3>2
  <2>. QED BY <1>2, <2>1, PaidNothing DEF Taken, TypeInv
<1>. QED BY <1>1, <1>2

LEMMA SettledSum ==
  ASSUME TypeInv, OrderBooks
  PROVE  /\ Amounts(InStatus("settled")) <= Over("capture")
         /\ AllExact => Amounts(InStatus("settled")) = Over("capture")
<1>. DEFINE c == [o \in Order |-> Paid("capture", o)]
            S == InStatus("settled")
<1>0. TypeOK
  BY DEF TypeInv
<1>1. AllInts(c, Order) /\ AllInts(Amts, Order) /\ Over("capture") = SumFunctionOnSet(c, Order)
  BY <1>0, OverType DEF AllInts, Amts, TypeOK, RedemptionType, Over
<1>2. S \in SUBSET Order /\ IsFiniteSet(S) /\ IsFiniteSet(Order)
  BY BoundsAssumption, FS_Subset DEF InStatus
<1>3. \A o \in Order \ S : c[o] = 0
  BY OnlySettledPaid DEF InStatus, Taken
<1>4. LeqOn(Amts, c, S)
  BY DEF LeqOn, Amts, InStatus, OrderBooks, OrderBook
<1>5. AllInts(c, S) /\ AllInts(Amts, S)
  BY <1>1, <1>2 DEF AllInts
<1>6. Amounts(S) = SumFunctionOnSet(Amts, S)
  BY <1>0, <1>2, AmountsIs
<1>7. AllExact => \A o \in S : Amts[o] = c[o]
  BY DEF AllExact, CapturedExactly, Amts, InStatus
<1>. HIDE DEF c, S
<1>8. SumFunctionOnSet(c, Order) = SumFunctionOnSet(c, S)
  BY <1>1, <1>2, <1>3, SumSupport
<1>9. SumFunctionOnSet(Amts, S) <= SumFunctionOnSet(c, S)
  BY <1>2, <1>4, <1>5, SumLeq
<1>10. AllExact => SumFunctionOnSet(Amts, S) = SumFunctionOnSet(c, S)
  BY <1>2, <1>5, <1>7, SumSame
<1>. QED BY <1>1, <1>6, <1>8, <1>9, <1>10 DEF S

LEMMA BooksFollow == TypeInv /\ OrderBooks /\ AllExact => BooksAgree
<1>. SUFFICES ASSUME TypeInv, OrderBooks, AllExact PROVE BooksAgree
  OBVIOUS
<1>1. ASSUME NEW kind \in {"hold", "capture", "release"}
      PROVE  SumFunction([i \in Funder |-> Postings(kind, i)]) = Over(kind)
  BY OverIs DEF Over, TypeInv
<1>. QED BY <1>1, ReservedAgrees, SettledSum DEF BooksAgree

LEMMA ExactInit == Init => AllExact
BY DEF Init, NoRedemption, AllExact, CapturedExactly

LEMMA ExactStep == TypeInv /\ OrderBooks /\ EveryPartSettles /\ AllExact /\ [Next]_vars => AllExact'
<1>. SUFFICES ASSUME TypeInv, OrderBooks, EveryPartSettles, AllExact, [Next]_vars, NEW o \in Order
              PROVE  CapturedExactly(o)'
  BY DEF AllExact
<1>1. BookStep(o)
  BY BookSteps DEF TypeInv
<1>2. CASE SameBook(o)
  BY <1>2, SameBookKept DEF AllExact, CapturedExactly, SameBook
<1>3. ASSUME NEW p \in Caller, HoldCommits(p), o = call[p].order PROVE CapturedExactly(o)'
  <2>1. redemption'[o].status = "reserved"
    BY <1>3 DEF HoldCommits, TypeInv, TypeOK
  <2>. QED BY <2>1 DEF CapturedExactly
<1>4. CASE redemption[o].status = "reserved" /\ ReleaseRow(o)
  <2>1. redemption'[o].status = "released"
    BY <1>4 DEF ReleaseRow, TypeInv, TypeOK, RedemptionType
  <2>. QED BY <2>1 DEF CapturedExactly
<1>5. ASSUME NEW final \in 0..redemption[o].amount, Settle(o, final) PROVE CapturedExactly(o)'
  <2>1. redemption'[o].amount = final /\ redemption[o].status = "reserved"
    BY <1>5 DEF Settle, TypeInv, TypeOK, RedemptionType
  <2>2. \A i \in Funder : Proportion(final, Holds(o))[i] \in 0..ledger[o][i].hold
    BY <2>1 DEF EveryPartSettles, InStatus
  <2>3. \A i \in Funder : Proportion(final, Holds(o))[i] >= 0
    BY <2>2 DEF TypeInv, TypeOK, Posting
  <2>4. final = Paid("capture", o)'
    BY <1>5, <2>3, SettleCaptures
  <2>. QED BY <2>1, <2>4 DEF CapturedExactly
<1>. QED BY <1>1, <1>2, <1>3, <1>4, <1>5 DEF BookStep

(* "Spend equals settlement": where every part of a reservation can be     *)
(* settled, the redemptions and the ledger agree, over any number of       *)
(* orders and funders (settle, release, reconcile).                        *)
THEOREM BooksBalance == Spec /\ []EveryPartSettles => []BooksAgree
BY ExactInit, ExactStep, BooksFollow, TypeInvariant, BooksInvariant, PTL DEF Spec

---------------------------------------------------------------------------
(* A report of reconcile, beside the checkouts *)

CapturedBy == [i \in Funder |-> PostedTo("capture", i)]

(* The funders reconcile has not asked for yet. *)
Unread(k) == k..Len(Shares)

LEMMA CapturedByType ==
  ASSUME TypeOK, NEW k \in Nat \ {0}
  PROVE  /\ Unread(k) \in SUBSET Funder /\ IsFiniteSet(Unread(k))
         /\ AllInts(CapturedBy, Unread(k)) /\ SumFunctionOnSet(CapturedBy, Unread(k)) \in Int
<1>1. Unread(k) \in SUBSET Funder /\ IsFiniteSet(Unread(k))
  BY FunderFacts, FS_Subset DEF Unread
<1>2. ASSUME NEW i \in Funder PROVE CapturedBy[i] \in Int
  BY PostingsIs, BoundsAssumption, SumType DEF CapturedBy, PostedTo
<1>3. AllInts(CapturedBy, Unread(k))
  BY <1>1, <1>2 DEF AllInts
<1>. QED BY <1>1, <1>3, SumType

CapturedSums ==
  \A k \in Nat \ {0} : AllInts(CapturedBy, Unread(k)) /\ SumFunctionOnSet(CapturedBy, Unread(k)) \in Int

LEMMA CapturedSumsType == TypeOK => CapturedSums
BY CapturedByType DEF CapturedSums

LEMMA CapturedSumsNext == TypeOK' => CapturedSums'
BY CapturedSumsType, PTL

LEMMA OverCaptured ==
  ASSUME TypeOK
  PROVE  Over("capture") = SumFunctionOnSet(CapturedBy, Unread(1))
<1>1. \A i \in Funder : Postings("capture", i) = CapturedBy[i]
  BY PostingsIs DEF CapturedBy
<1>2. [i \in Funder |-> Postings("capture", i)] = CapturedBy
  BY <1>1 DEF CapturedBy
<1>3. DOMAIN CapturedBy = Funder /\ Unread(1) = Funder
  BY FunderFacts DEF CapturedBy, Unread
<1>. QED BY <1>2, <1>3, OverIs DEF Over, SumFunction

(* Nothing captured is ever taken back. *)
LEMMA CapturesGrow ==
  ASSUME TypeInv, TypeInv', [Next]_vars, NEW k \in Nat \ {0}
  PROVE  SumFunctionOnSet(CapturedBy, Unread(k)) <= SumFunctionOnSet(CapturedBy, Unread(k))'
<1>0. TypeOK /\ TypeOK'
  BY DEF TypeInv
<1>1. ASSUME NEW o \in Order, NEW i \in Funder PROVE ledger[o][i]["capture"] <= ledger'[o][i]["capture"]
  <2>1. ledger[o][i].capture \in Nat /\ ledger'[o][i].capture \in Nat
    BY <1>0 DEF TypeOK, Posting
  <2>2. CASE redemption[o].status \in {"settled", "released"}
    <3>1. ledger'[o] = ledger[o]
      BY <1>0, <2>2, EndedStays
    <3>. QED BY <2>1, <3>1
  <2>3. CASE redemption[o].status \notin {"settled", "released"}
    <3>1. ledger[o][i].capture = 0
      BY <2>3 DEF TypeInv, HoldsCloseWithOrder
    <3>. QED BY <2>1, <3>1
  <2>. QED BY <2>2, <2>3
<1>2. ASSUME NEW i \in Funder PROVE CapturedBy[i] <= CapturedBy'[i]
  <2>. DEFINE before == [o \in Order |-> ledger[o][i]["capture"]]
              after == [o \in Order |-> ledger'[o][i]["capture"]]
  <2>1. AllInts(before, Order) /\ AllInts(after, Order)
    <3>1. \A o \in Order : ledger[o][i].capture \in Int /\ ledger'[o][i].capture \in Int
      BY <1>0 DEF TypeOK, Posting
    <3>. QED BY <3>1 DEF AllInts
  <2>2. LeqOn(before, after, Order)
    BY <1>1 DEF LeqOn
  <2>3. CapturedBy[i] = SumFunctionOnSet(before, Order) /\ CapturedBy'[i] = SumFunctionOnSet(after, Order)
    BY DEF CapturedBy, PostedTo
  <2>. HIDE DEF before, after
  <2>. QED BY <2>1, <2>2, <2>3, BoundsAssumption, SumLeq
<1>3. Unread(k) \in SUBSET Funder /\ IsFiniteSet(Unread(k)) /\ AllInts(CapturedBy, Unread(k))
  BY <1>0, CapturedByType
<1>4. AllInts(CapturedBy, Unread(k))'
  BY <1>0, CapturedSumsNext DEF CapturedSums
<1>5. Unread(k)' = Unread(k)
  BY DEF Unread
<1>6. LeqOn(CapturedBy, CapturedBy', Unread(k))
  BY <1>2, <1>3 DEF LeqOn
<1>. QED BY <1>3, <1>4, <1>5, <1>6, SumLeq

---------------------------------------------------------------------------

ReportType ==
  report \in [pc : {"idle", "reading", "reported"}, party : Nat, settled : Int, reserved : Int,
              captured : Int, outstanding : Int]

ReportInv ==
  /\ ReportType
  /\ report.pc = "reading" =>
       /\ report.party \in Funder
       /\ report.settled <= report.captured + SumFunctionOnSet(CapturedBy, Unread(report.party))
  /\ SettledIsCaptured

LEMMA ReportStep == ReportInv /\ TypeInv /\ TypeInv' /\ OrderBooks /\ [RNext]_allVars => ReportInv'
<1>. SUFFICES ASSUME ReportInv, TypeInv, TypeInv', OrderBooks, [RNext]_allVars PROVE ReportInv'
  OBVIOUS
<1>0. TypeOK /\ Funder = 1..Len(Shares) /\ Len(Shares) \in Nat \ {0}
  BY FunderFacts DEF TypeInv
<1>1. ASSUME [Next]_vars, UNCHANGED report PROVE ReportInv'
  <2>1. CASE report.pc = "reading"
    <3>. DEFINE k == report.party
    <3>1. k \in Nat \ {0} /\ report' = report /\ k \in Funder
          /\ report.settled <= report.captured + SumFunctionOnSet(CapturedBy, Unread(k))
          /\ report.settled \in Int /\ report.captured \in Int
      BY <1>0, <1>1, <2>1 DEF ReportInv, ReportType
    <3>2. SumFunctionOnSet(CapturedBy, Unread(k)) \in Int
      BY <1>0, <3>1, CapturedByType
    <3>3. SumFunctionOnSet(CapturedBy', Unread(k)) \in Int
      <4>1. ASSUME NEW n \in Nat \ {0} PROVE SumFunctionOnSet(CapturedBy', Unread(n)) \in Int
        <5>1. Unread(n)' = Unread(n)
          BY DEF Unread
        <5>. QED BY <5>1, CapturedSumsNext DEF TypeInv, CapturedSums
      <4>. QED BY <3>1, <4>1
    <3>4. SumFunctionOnSet(CapturedBy, Unread(k)) <= SumFunctionOnSet(CapturedBy', Unread(k))
      <4>1. ASSUME NEW n \in Nat \ {0}
            PROVE  SumFunctionOnSet(CapturedBy, Unread(n)) <= SumFunctionOnSet(CapturedBy', Unread(n))
        <5>1. Unread(n)' = Unread(n)
          BY DEF Unread
        <5>2. SumFunctionOnSet(CapturedBy, Unread(n)) <= SumFunctionOnSet(CapturedBy, Unread(n))'
          BY <1>1, CapturesGrow
        <5>. QED BY <5>1, <5>2
      <4>. QED BY <3>1, <4>1
    <3>5. report.settled <= report.captured + SumFunctionOnSet(CapturedBy', Unread(k))
      BY <3>1, <3>2, <3>3, <3>4
    <3>6. Unread(report'.party) = Unread(report.party)'
      BY <3>1 DEF Unread
    <3>. QED BY <2>1, <3>1, <3>5 DEF ReportInv, ReportType, SettledIsCaptured, Unread
  <2>2. CASE report.pc # "reading"
    BY <1>1, <2>2 DEF ReportInv, ReportType, SettledIsCaptured
  <2>. QED BY <2>1, <2>2
<1>2. ASSUME ReadRedemptions PROVE ReportInv'
  <2>1. Amounts(InStatus("settled")) <= SumFunctionOnSet(CapturedBy, Unread(1))
    BY <1>0, SettledSum, OverCaptured
  <2>2. Amounts(InStatus("settled")) \in Int /\ Amounts(InStatus("reserved")) \in Int
    <3>1. ASSUME NEW S \in SUBSET Order PROVE Amounts(S) \in Int
      <4>1. IsFiniteSet(S) /\ AllInts(Amts, S)
        BY <1>0, BoundsAssumption, FS_Subset DEF AllInts, Amts, TypeOK, RedemptionType
      <4>. QED BY <1>0, <4>1, AmountsIs, SumType
    <3>. QED BY <3>1 DEF InStatus
  <2>3. report' = [pc |-> "reading", party |-> 1, settled |-> Amounts(InStatus("settled")),
                   reserved |-> Amounts(InStatus("reserved")), captured |-> 0, outstanding |-> 0]
    BY <1>2 DEF ReadRedemptions, IdleReport
  <2>4. CapturedBy' = CapturedBy /\ Unread(1)' = Unread(1)
    BY <1>2 DEF ReadRedemptions, vars, CapturedBy, PostedTo, Unread
  <2>5. SumFunctionOnSet(CapturedBy, Unread(1)) \in Int
    BY <1>0, CapturedByType
  <2>. QED BY <1>0, <2>1, <2>2, <2>3, <2>4, <2>5 DEF ReportInv, ReportType, SettledIsCaptured, Unread
<1>3. ASSUME ReadBalance PROVE ReportInv'
  <2>. DEFINE k == report.party
  <2>1. /\ report.pc = "reading" /\ k \in Funder
        /\ report.settled <= report.captured + SumFunctionOnSet(CapturedBy, Unread(k))
        /\ report.settled \in Int /\ report.captured \in Int /\ report.outstanding \in Int
        /\ k \in Nat \ {0} /\ k <= Len(Shares)
    BY <1>0, <1>3 DEF ReadBalance, ReportInv, ReportType
  <2>2. /\ Postings("capture", k) = CapturedBy[k]
        /\ Postings("capture", k) \in Int /\ Postings("hold", k) \in Int /\ Postings("release", k) \in Int
    BY <1>0, <2>1, PostingsIs, BoundsAssumption, SumType DEF CapturedBy, PostedTo
  <2>3. report' = [report EXCEPT !.pc = IF k = Len(Shares) THEN "reported" ELSE "reading", !.party = k + 1,
                     !.captured = report.captured + Postings("capture", k),
                     !.outstanding = report.outstanding + Postings("hold", k) - Postings("capture", k) - Postings("release", k)]
    BY <1>3 DEF ReadBalance
  <2>4. /\ report'.pc = IF k = Len(Shares) THEN "reported" ELSE "reading"
        /\ report'.party = k + 1 /\ report'.settled = report.settled
        /\ report'.captured = report.captured + CapturedBy[k]
        /\ ReportType'
    <3>. DEFINE c == report.captured + Postings("capture", k)
                u == report.outstanding + Postings("hold", k) - Postings("capture", k) - Postings("release", k)
    <3>1. c \in Int /\ u \in Int /\ c = report.captured + CapturedBy[k]
      BY <2>1, <2>2
    <3>2. report' = [report EXCEPT !.pc = IF k = Len(Shares) THEN "reported" ELSE "reading", !.party = k + 1,
                       !.captured = c, !.outstanding = u]
      BY <2>3
    <3>. HIDE DEF c, u, k
    <3>3. ReportType /\ k + 1 \in Nat
      BY <2>1 DEF ReportInv
    <3>4. /\ report'.pc = IF k = Len(Shares) THEN "reported" ELSE "reading"
          /\ report'.party = k + 1 /\ report'.settled = report.settled /\ report'.captured = c
      BY <3>2, <3>3 DEF ReportType
    <3>5. ReportType'
      BY <3>1, <3>2, <3>3 DEF ReportType
    <3>. QED BY <3>1, <3>4, <3>5
  <2>5. CapturedBy' = CapturedBy
    BY <1>3 DEF ReadBalance, vars, CapturedBy, PostedTo
  <2>6. /\ k \in Unread(k) /\ Unread(k) \ {k} = Unread(k + 1) /\ k + 1 \in Nat \ {0}
    BY <1>0, <2>1 DEF Unread
  <2>7. /\ IsFiniteSet(Unread(k)) /\ AllInts(CapturedBy, Unread(k))
        /\ SumFunctionOnSet(CapturedBy, Unread(k + 1)) \in Int
    BY <1>0, <2>1, <2>6, CapturedByType
  <2>8. SumFunctionOnSet(CapturedBy, Unread(k)) = CapturedBy[k] + SumFunctionOnSet(CapturedBy, Unread(k + 1))
    BY <2>6, <2>7, SumRemove
  <2>. HIDE DEF k
  <2>9. report'.settled <= report'.captured + SumFunctionOnSet(CapturedBy, Unread(k + 1))
    BY <2>1, <2>2, <2>4, <2>7, <2>8
  <2>10. CASE k = Len(Shares)
    <3>1. Unread(k + 1) = {}
      BY <1>0, <2>10 DEF Unread
    <3>2. SumFunctionOnSet(CapturedBy, Unread(k + 1)) = 0
      BY <3>1, SumEmpty
    <3>. QED BY <2>1, <2>2, <2>4, <2>9, <2>10, <3>2 DEF ReportInv, SettledIsCaptured
  <2>11. CASE k # Len(Shares)
    <3>1. k + 1 \in Funder /\ Unread(report.party)' = Unread(k + 1)
      BY <1>0, <2>1, <2>4, <2>11 DEF Unread
    <3>2. /\ report'.pc = "reading" /\ report'.party \in Funder
          /\ report'.settled <= report'.captured + SumFunctionOnSet(CapturedBy', Unread(report.party)')
      BY <2>4, <2>5, <2>9, <2>11, <3>1
    <3>. QED BY <2>4, <3>2 DEF ReportInv, SettledIsCaptured
  <2>. QED BY <2>10, <2>11
<1>4. ASSUME ReportRead PROVE ReportInv'
  BY <1>4 DEF ReportRead, IdleReport, ReportInv, ReportType, SettledIsCaptured
<1>. QED BY <1>1, <1>2, <1>3, <1>4 DEF RNext, ReconcileRequest, allVars

LEMMA ReportInit == RInit => ReportInv
BY DEF RInit, IdleReport, ReportInv, ReportType, SettledIsCaptured

(* reconcile only reads: a behaviour beside it is one of Promocodes. *)
LEMMA ReconcileIsQuiet == RSpec => Spec
<1>1. [RNext]_allVars => [Next]_vars
  BY DEF RNext, ReconcileRequest, ReadRedemptions, ReadBalance, ReportRead, allVars
<1>. QED BY <1>1, PTL DEF RSpec, RInit, Spec

(* A report of reconcile never says more was settled than was captured,    *)
(* for any shares and whatever commits between its queries.                *)
THEOREM ReportSafe == RSpec => []SettledIsCaptured
<1>1. ReportInv => SettledIsCaptured
  BY DEF ReportInv
<1>. QED BY <1>1, ReportInit, ReportStep, ReconcileIsQuiet, TypeInvariant, BooksInvariant, PTL DEF RSpec

---------------------------------------------------------------------------
(* One or two funders *)
FewFunders == Len(Shares) <= 2

LEMMA SumOfFew ==
  ASSUME FewFunders, NEW f, AllInts(f, Funder)
  PROVE  \/ Funder = {1} /\ SumFunctionOnSet(f, Funder) = f[1]
         \/ Funder = {1, 2} /\ SumFunctionOnSet(f, Funder) = f[1] + f[2]
<1>1. Funder = {1} \/ Funder = {1, 2}
  <2>1. Len(Shares) = 1 \/ Len(Shares) = 2
    <3>. DEFINE n == Len(Shares)
    <3>1. n <= 2
      BY DEF FewFunders
    <3>2. n \in Nat /\ n # 0
      BY FunderFacts
    <3>. HIDE DEF n
    <3>3. n = 1 \/ n = 2
      BY <3>1, <3>2
    <3>. QED BY <3>3 DEF n
  <2>2. 1..1 = {1} /\ 1..2 = {1, 2}
    OBVIOUS
  <2>. QED BY <2>1, <2>2, FunderFacts
<1>2. /\ SumFunctionOnSet(f, Funder) = f[1] + SumFunctionOnSet(f, Funder \ {1}) /\ IsFiniteSet(Funder \ {1})
      /\ AllInts(f, Funder \ {1}) /\ f[1] \in Int
  <2>1. IsFiniteSet(Funder) /\ 1 \in Funder
    BY FunderFacts
  <2>2. AllInts(f, Funder \ {1}) /\ f[1] \in Int
    BY <2>1 DEF AllInts
  <2>. QED BY <2>1, <2>2, SumRemove, FS_RemoveElement
<1>3. CASE Funder = {1}
  <2>1. Funder \ {1} = {}
    BY <1>3
  <2>. QED BY <1>2, <1>3, <2>1, SumEmpty
<1>4. CASE Funder = {1, 2}
  <2>1. 2 \in Funder \ {1} /\ (Funder \ {1}) \ {2} = {} /\ f[2] \in Int
    BY <1>4 DEF AllInts
  <2>2. SumFunctionOnSet(f, Funder \ {1}) = f[2] + SumFunctionOnSet(f, (Funder \ {1}) \ {2})
    BY <1>2, <2>1, SumRemove
  <2>3. SumFunctionOnSet(f, Funder \ {1}) = f[2]
    BY <2>1, <2>2, SumEmpty
  <2>. QED BY <1>2, <1>4, <2>3
<1>. QED BY <1>1, <1>3, <1>4

LEMMA DriftLeaves ==
  ASSUME NEW parts \in [Funder -> Int], NEW total \in Int, NEW i \in Funder \ {1}
  PROVE  WithDrift(parts, total)[i] = parts[i]
BY DEF WithDrift

(* Of two holds, a rounded part and the rest of it both fit. *)
LEMMA FewPartsSettle ==
  ASSUME FewFunders, NEW holds \in [Funder -> Nat],
         NEW final \in 0..SumFunctionOnSet(holds, Funder), NEW i \in Funder
  PROVE  Proportion(final, holds)[i] \in 0..holds[i]
<1>. DEFINE held == SumFunctionOnSet(holds, Funder)
            shares == [j \in Funder |-> Round(final * holds[j], held)]
            parts == Proportion(final, holds)
<1>1. AllInts(holds, Funder) /\ DOMAIN holds = Funder
  BY DEF AllInts
<1>2. parts \in [Funder -> Int] /\ SumFunctionOnSet(parts, Funder) = final
  BY ProportionAdds
<1>3. held \in Int /\ parts = IF held = 0 THEN [j \in Funder |-> 0] ELSE WithDrift(shares, final)
  BY <1>1, FunderFacts, SumType DEF Proportion, SumFunction
<1>4. AllInts(parts, Funder)
  BY <1>2 DEF AllInts
<1>5. final \in 0..held
  OBVIOUS
<1>. HIDE DEF held, parts
<1>6. CASE Funder = {1}
  <2>1. held = holds[1] /\ SumFunctionOnSet(parts, Funder) = parts[1]
    BY <1>1, <1>4, <1>6, SumOfFew DEF held
  <2>. QED BY <1>2, <1>5, <1>6, <2>1 DEF parts
<1>7. CASE Funder = {1, 2}
  <2>1. held = holds[1] + holds[2] /\ SumFunctionOnSet(parts, Funder) = parts[1] + parts[2]
    BY <1>1, <1>4, <1>7, SumOfFew DEF held
  <2>2. CASE held = 0
    <3>1. parts[i] = 0
      BY <1>3, <2>2
    <3>. QED BY <3>1 DEF parts
  <2>3. CASE held # 0
    <3>1. held \in Nat \ {0} /\ final \in Nat /\ final <= held /\ holds[1] \in Nat /\ holds[2] \in Nat
      BY <1>3, <1>5, <1>7, <2>3
    <3>2. ASSUME NEW j \in Funder PROVE shares[j] \in Int
      <4>1. final * holds[j] \in Nat
        BY <3>1
      <4>. QED BY <3>1, <4>1, RoundIsInt
    <3>3. shares \in [Funder -> Int]
      BY <3>2
    <3>4. shares[2] = Round(final * holds[2], held)
      BY <1>7
    <3>. HIDE DEF shares
    <3>5. parts[2] = Round(final * holds[2], held)
      <4>1. 2 \in Funder \ {1} /\ final \in Int /\ parts = WithDrift(shares, final)
        BY <1>3, <1>7, <2>3, <3>1
      <4>2. parts[2] = shares[2]
        BY <3>3, <4>1, DriftLeaves
      <4>. QED BY <3>4, <4>2
    <3>6. parts[2] \in 0..holds[2] /\ parts[2] <= final /\ final - parts[2] <= holds[1]
      <4>1. /\ Round(final * holds[2], held) \in Nat /\ Round(final * holds[2], held) <= holds[2]
            /\ Round(final * holds[2], held) <= final /\ final - Round(final * holds[2], held) <= holds[1]
        BY <2>1, <3>1, RoundLeaves
      <4>. QED BY <3>1, <3>5, <4>1
    <3>7. parts[1] = final - parts[2] /\ parts[1] \in Int
      BY <1>2, <1>7, <2>1, <3>6
    <3>8. parts[1] \in 0..holds[1]
      BY <3>1, <3>6, <3>7
    <3>. QED BY <1>7, <3>6, <3>8 DEF parts
  <2>. QED BY <2>2, <2>3
<1>. QED BY <1>1, <1>6, <1>7, SumOfFew

LEMMA FewFollow == FewFunders => (TypeInv /\ OrderBooks => EveryPartSettles)
<1>. SUFFICES ASSUME FewFunders, TypeInv, OrderBooks, NEW o \in InStatus("reserved"),
                     NEW final \in 0..redemption[o].amount, NEW i \in Funder
              PROVE  Proportion(final, Holds(o))[i] \in 0..ledger[o][i].hold
  BY DEF EveryPartSettles
<1>1. o \in Order /\ redemption[o].status = "reserved"
  BY DEF InStatus
<1>2. Holds(o) \in [Funder -> Nat] /\ Holds(o)[i] = ledger[o][i].hold
  BY <1>1 DEF Holds, TypeInv, TypeOK, Posting
<1>3. SumFunctionOnSet(Holds(o), Funder) = redemption[o].amount
  <2>1. Holds(o) = [j \in Funder |-> ledger[o][j]["hold"]]
    BY DEF Holds
  <2>. QED BY <1>1, <2>1 DEF OrderBooks, OrderBook, Paid
<1>. QED BY <1>2, <1>3, FewPartsSettle

(* With one or two funders, for any shares, whatever part of a reservation *)
(* is used in the end can be captured (proportion, ledger.capture).        *)
THEOREM FewFundersSettle == FewFunders => (Spec => []EveryPartSettles)
<1>. SUFFICES ASSUME FewFunders PROVE Spec => []EveryPartSettles
  OBVIOUS
<1>1. TypeInv /\ OrderBooks => EveryPartSettles
  BY FewFollow
<1>. QED BY <1>1, TypeInvariant, BooksInvariant, PTL

(* And so with one or two funders "spend equals settlement" always.        *)
THEOREM FewFundersBalance == FewFunders => (Spec => []BooksAgree)
BY FewFundersSettle, BooksBalance, PTL

LEMMA FewPartsHeld ==
  ASSUME FewFunders, NEW amount \in Nat, NEW i \in Funder
  PROVE  Split(amount, Shares, Whole)[i] \in Nat
<1>. DEFINE shares == [j \in Funder |-> Round(amount * Shares[j], Whole)]
            parts == Split(amount, Shares, Whole)
<1>1. AllInts(Shares, Funder) /\ SumFunctionOnSet(Shares, Funder) = Whole /\ Whole \in Nat \ {0}
      /\ \A j \in Funder : Shares[j] \in Nat /\ Shares[j] <= Whole
  BY FundersAssumption DEF FundersAreValid, SumFunction, Funder, AllInts
<1>2. parts \in [Funder -> Int] /\ SumFunctionOnSet(parts, Funder) = amount
  BY SplitAdds
<1>3. parts = WithDrift(shares, amount)
  BY DEF Split, Funder
<1>4. AllInts(parts, Funder)
  BY <1>2 DEF AllInts
<1>5. ASSUME NEW j \in Funder PROVE shares[j] \in 0..amount
  BY <1>1, RoundWithin
<1>6. shares \in [Funder -> Int]
  BY <1>5
<1>. HIDE DEF shares, parts
<1>7. CASE Funder = {1}
  <2>1. parts[1] = amount
    BY <1>2, <1>4, <1>7, SumOfFew
  <2>. QED BY <1>7, <2>1 DEF parts
<1>8. CASE Funder = {1, 2}
  <2>1. amount = parts[1] + parts[2]
    BY <1>2, <1>4, <1>8, SumOfFew
  <2>2. parts[2] = shares[2]
    BY <1>3, <1>6, <1>8, DriftLeaves
  <2>3. parts[2] \in 0..amount /\ parts[1] \in Int
    BY <1>2, <1>5, <1>8, <2>2
  <2>4. parts[1] \in Nat /\ parts[2] \in Nat
    BY <2>1, <2>3
  <2>. QED BY <1>8, <2>4 DEF parts
<1>. QED BY <1>4, <1>7, <1>8, SumOfFew

(* With one or two funders no reservation is refused by the ledger for a   *)
(* part that is "not a whole amount in minor units" (split, ledger.hold).  *)
THEOREM FewFundersHold == FewFunders => (Spec => []HoldsAreAmounts)
<1>. SUFFICES ASSUME FewFunders PROVE Spec => []HoldsAreAmounts
  OBVIOUS
<1>1. TypeOK => HoldsAreAmounts
  BY FewPartsHeld DEF TypeOK, CallType, HoldsAreAmounts
<1>. QED BY <1>1, TypeCorrect, PTL
=============================================================================
