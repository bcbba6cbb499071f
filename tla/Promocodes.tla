----------------------------- MODULE Promocodes -----------------------------
(***************************************************************************)
(* Promocodes of one tenant and currency (modules/promocodes/index.ts):    *)
(* reserve, settle, release and the expiry job, over the internal ledger   *)
(* (ledger/internal.ts).                                                   *)
(*                                                                         *)
(* Grain of atomicity.  A step is one transaction, or the part of one      *)
(* between two points where another can come in between (READ COMMITTED).  *)
(* reserve has such points: it looks for the order before it takes the     *)
(* lock on the code, and holds that lock, here PromoLocked, from the       *)
(* budget check to its commit.                                             *)
(*                                                                         *)
(* The ledger of an order keeps the postings of each funder's hold, 0 for  *)
(* a posting that was not made; (hold_ref, kind) is unique in the table.   *)
(*                                                                         *)
(* An operator called Mutant_... is not part of the model: it is a bug put *)
(* in the place of the definition after it, to see a property catch it.    *)
(***************************************************************************)
EXTENDS Money, FiniteSets, FiniteSetsExt

CONSTANTS
  Code,            \* promocodes
  Buyer,           \* buyerRefs
  Order,           \* orderRefs
  Caller,          \* POST /v1/redemptions requests
  Expirer,         \* executions of promo.expire-reservations
  NoCode, NoOrder, NoBuyer,
  Shares, Whole,   \* the funders' shares, as numerators over Whole
  Discount,        \* the codes' discount
  Denied,          \* buyers a promo_eligibility rule denies
  BasisPoints,     \* BASIS_POINTS
  Subtotals,       \* cart subtotals the requests come with
  MaxSpend, MaxUses, PerBuyerMaxUses,
  MaxFaults        \* bound: expiry jobs that die

ASSUME FundersAssumption ==
  Shares \in Seq(Nat) /\ Whole \in Nat \ {0} /\ FundersAreValid(Shares, Whole)
ASSUME BudgetAssumption == MaxSpend \in Nat /\ MaxUses \in Nat /\ PerBuyerMaxUses \in Nat
ASSUME DiscountAssumption ==
  /\ Discount \in [type : {"percent", "fixed"}, value : Nat, maxDiscount : Nat, minSubtotal : Nat]
  /\ BasisPoints \in Nat \ {0}
ASSUME BoundsAssumption == MaxFaults \in Nat /\ Subtotals \subseteq Nat /\ IsFiniteSet(Order)

Funder == DOMAIN Shares

VARIABLES
  codeStatus,   \* promocodes.status; a code outside its period is like one that is paused
  redemption,   \* redemptions, by order_ref
  ledger,       \* ledger_entries, by order and funder
  call,         \* where each reserve request is
  due,          \* what each expiry job still has to release
  faults

vars == <<codeStatus, redemption, ledger, call, due, faults>>

NoRedemption == [status |-> "none", code |-> NoCode, buyer |-> NoBuyer, amount |-> 0, expired |-> FALSE]
NoPostings == [i \in Funder |-> [hold |-> 0, capture |-> 0, release |-> 0]]
IdleCall == [pc |-> "idle", order |-> NoOrder, code |-> NoCode, buyer |-> NoBuyer, amount |-> 0,
             answer |-> "none"]

Init ==
  /\ codeStatus = [c \in Code |-> "absent"]
  /\ redemption = [o \in Order |-> NoRedemption]
  /\ ledger     = [o \in Order |-> NoPostings]
  /\ call       = [p \in Caller |-> IdleCall]
  /\ due        = [x \in Expirer |-> {}]
  /\ faults     = 0

---------------------------------------------------------------------------
(* Reading the tables *)

InStatus(s) == {o \in Order : redemption[o].status = s}
Counted(c)  == {o \in InStatus("reserved") \cup InStatus("settled") : redemption[o].code = c}
Amounts(S)  == MapThenSumSet(LAMBDA o : redemption[o].amount, S)
Postings(kind, i) == MapThenSumSet(LAMBDA o : ledger[o][i][kind], Order)
Holds(o)    == [i \in Funder |-> ledger[o][i].hold]

PromoLocked(c) == \E p \in Caller : call[p].pc = "holding" /\ call[p].code = c

(* usageOf against the budget: the uses, the buyer's uses, the spend *)
UsesOf(c, buyer) == {o \in Counted(c) : redemption[o].buyer = buyer}

Mutant_OffByOne(c, buyer) == Cardinality(Counted(c)) <= MaxUses
UsesFit(c, buyer) == Cardinality(Counted(c)) < MaxUses /\ Cardinality(UsesOf(c, buyer)) < PerBuyerMaxUses

Mutant_SpendBefore(c, amount) == Amounts(Counted(c)) <= MaxSpend
SpendFits(c, amount) == Amounts(Counted(c)) + amount <= MaxSpend

---------------------------------------------------------------------------
(* POST and PATCH /v1/promocodes.  A code is made for the discount, the     *)
(* budget and the funders that the constants give it.                      *)

CreatePromocode(c) ==
  /\ codeStatus[c] = "absent"
  /\ codeStatus' = [codeStatus EXCEPT ![c] = "active"]
  /\ UNCHANGED <<redemption, ledger, call, due, faults>>

PatchStatus(c) ==
  /\ codeStatus[c] /= "absent"
  /\ ~PromoLocked(c)
  /\ \E s \in {"active", "paused", "ended"} \ {codeStatus[c]} : codeStatus' = [codeStatus EXCEPT ![c] = s]
  /\ UNCHANGED <<redemption, ledger, call, due, faults>>

---------------------------------------------------------------------------
(* reserve *)

Answer(p, a) == call' = [call EXCEPT ![p].pc = "answered", ![p].answer = a]

(* A retry of an order that is there gets what the first attempt produced. *)
Look(p) ==
  /\ call[p].pc = "idle"
  /\ \E o \in Order, c \in Code, b \in Buyer :
       call' = [call EXCEPT ![p] = [IdleCall EXCEPT
                  !.pc = IF redemption[o].status = "none" THEN "validating" ELSE "answered",
                  !.answer = IF redemption[o].status = "none" THEN "none" ELSE "redemption",
                  !.order = o, !.code = c, !.buyer = b]]
  /\ UNCHANGED <<codeStatus, redemption, ledger, due, faults>>

(* A code's own condition and the platform's rules, which see the buyer.   *)
DeniedByRule(buyer) == buyer \in Denied

(* validate with the lock: the code is active, the cart is worth enough, no *)
(* rule denies the buyer, and the budget covers it.                        *)
Validate(p) ==
  LET c == call[p].code IN
  /\ call[p].pc = "validating"
  /\ ~PromoLocked(c)
  /\ \E subtotal \in Subtotals :
       LET worth == {a \in Compute(Discount, subtotal, BasisPoints) :
                       /\ codeStatus[c] = "active"
                       /\ ~DeniedByRule(call[p].buyer)
                       /\ UsesFit(c, call[p].buyer)
                       /\ SpendFits(c, a)}
       IN  \/ worth = {} /\ Answer(p, "refused")
           \/ \E amount \in worth : call' = [call EXCEPT ![p].pc = "holding", ![p].amount = amount]
  /\ UNCHANGED <<codeStatus, redemption, ledger, due, faults>>

(* ledger.hold, for each of the funders *)
Placed(parts) == [i \in Funder |-> [hold |-> parts[i], capture |-> 0, release |-> 0]]

(* The row, one hold per funder, and the commit.  The insert of an order   *)
(* another request has brought in meanwhile violates the unique index, and *)
(* a part that is not a whole amount makes the ledger throw.               *)
HoldCommits(p) ==
  LET o == call[p].order  parts == Split(call[p].amount, Shares, Whole) IN
  /\ call[p].pc = "holding"
  /\ redemption[o].status = "none"
  /\ \A i \in Funder : parts[i] \in Nat
  /\ redemption' = [redemption EXCEPT ![o] =
       [status |-> "reserved", code |-> call[p].code, buyer |-> call[p].buyer,
        amount |-> call[p].amount, expired |-> FALSE]]
  /\ ledger' = [ledger EXCEPT ![o] = Placed(parts)]
  /\ Answer(p, "redemption")
  /\ UNCHANGED <<codeStatus, due, faults>>

HoldThrows(p) ==
  /\ call[p].pc = "holding"
  /\ \/ redemption[call[p].order].status /= "none"
     \/ \E i \in Funder : Split(call[p].amount, Shares, Whole)[i] \notin Nat
  /\ Answer(p, "error")
  /\ UNCHANGED <<codeStatus, redemption, ledger, due, faults>>

NextCall(p) ==
  /\ call[p].pc = "answered"
  /\ call' = [call EXCEPT ![p] = IdleCall]
  /\ UNCHANGED <<codeStatus, redemption, ledger, due, faults>>

---------------------------------------------------------------------------
(* settle and release: one transaction each, on the locked redemption row  *)

Released(postings) == [postings EXCEPT !.release = postings.hold - postings.capture]

Mutant_KeepsTheRest(o, final) ==
  LET parts == Proportion(final, Holds(o)) IN
  /\ redemption[o].status = "reserved"
  /\ final \in 0..redemption[o].amount
  /\ \A i \in Funder : parts[i] \in 0..ledger[o][i].hold
  /\ redemption' = [redemption EXCEPT ![o].status = "settled", ![o].amount = final]
  /\ ledger' = [ledger EXCEPT ![o] = [i \in Funder |-> [@[i] EXCEPT !.capture = parts[i]]]]
  /\ UNCHANGED <<codeStatus, call, due, faults>>

(* ledger.capture throws for a part above its hold *)
Capturable(part, posting) == part \in 1..posting.hold

(* A part above its hold makes the ledger throw, and nothing is settled; a *)
(* part that is not positive is not captured.                              *)
Settle(o, final) ==
  LET parts == Proportion(final, Holds(o)) IN
  /\ redemption[o].status = "reserved"
  /\ final \in 0..redemption[o].amount
  /\ \A i \in Funder : parts[i] > 0 => Capturable(parts[i], ledger[o][i])
  /\ redemption' = [redemption EXCEPT ![o].status = "settled", ![o].amount = final]
  /\ ledger' = [ledger EXCEPT ![o] =
       [i \in Funder |-> Released([@[i] EXCEPT !.capture = IF parts[i] > 0 THEN parts[i] ELSE 0])]]
  /\ UNCHANGED <<codeStatus, call, due, faults>>

ReleaseRow(o) ==
  /\ redemption' = [redemption EXCEPT ![o].status = "released"]
  /\ ledger' = [ledger EXCEPT ![o] = [i \in Funder |-> Released(@[i])]]

Release(o) ==
  /\ redemption[o].status = "reserved"
  /\ ReleaseRow(o)
  /\ UNCHANGED <<codeStatus, call, due, faults>>

---------------------------------------------------------------------------
(* expireReservations: the list first, then each row in a transaction of   *)
(* its own, which looks at the status again.                               *)

TimePasses(o) ==
  /\ redemption[o].status = "reserved" /\ ~redemption[o].expired
  /\ redemption' = [redemption EXCEPT ![o].expired = TRUE]
  /\ UNCHANGED <<codeStatus, ledger, call, due, faults>>

Mutant_LooksAtOthers == {o \in InStatus("reserved") : ~redemption[o].expired}
Overdue == {o \in InStatus("reserved") : redemption[o].expired}

ExpireStarts(x) ==
  /\ due[x] = {}
  /\ Overdue /= {}
  /\ due' = [due EXCEPT ![x] = Overdue]
  /\ UNCHANGED <<codeStatus, redemption, ledger, call, faults>>

(* without the status check under the lock *)
Mutant_TrustsTheList(x, o) ==
  /\ o \in due[x]
  /\ due' = [due EXCEPT ![x] = @ \ {o}]
  /\ ReleaseRow(o)
  /\ UNCHANGED <<codeStatus, call, faults>>

(* A row settled or released since makes release throw, and is passed over.*)
ExpireOne(x, o) ==
  /\ o \in due[x]
  /\ due' = [due EXCEPT ![x] = @ \ {o}]
  /\ IF redemption[o].status = "reserved" THEN ReleaseRow(o) ELSE UNCHANGED <<redemption, ledger>>
  /\ UNCHANGED <<codeStatus, call, faults>>

ExpireDies(x) ==
  /\ due[x] /= {}
  /\ faults < MaxFaults
  /\ faults' = faults + 1
  /\ due' = [due EXCEPT ![x] = {}]
  /\ UNCHANGED <<codeStatus, redemption, ledger, call>>

---------------------------------------------------------------------------

Reserve(p) == Look(p) \/ Validate(p) \/ HoldCommits(p) \/ HoldThrows(p) \/ NextCall(p)

(* POST /v1/redemptions/:id/settle, for the whole discount or less *)
SettleRequest(o) == \E final \in 0..redemption[o].amount : Settle(o, final)

Expire(x) == ExpireStarts(x) \/ \E o \in Order : ExpireOne(x, o)

Next ==
  \/ \E c \in Code : CreatePromocode(c) \/ PatchStatus(c)
  \/ \E p \in Caller : Reserve(p)
  \/ \E o \in Order : Release(o) \/ TimePasses(o) \/ SettleRequest(o)
  \/ \E x \in Expirer : Expire(x) \/ ExpireDies(x)

Spec == Init /\ [][Next]_vars

---------------------------------------------------------------------------
(* Properties *)

RedemptionType == [status : {"none", "reserved", "settled", "released"}, code : Code \cup {NoCode},
                   buyer : Buyer \cup {NoBuyer}, amount : Nat, expired : BOOLEAN]
Posting  == [hold : Nat, capture : Nat, release : Nat]
CallType == [pc : {"idle", "validating", "holding", "answered"}, order : Order \cup {NoOrder},
             code : Code \cup {NoCode}, buyer : Buyer \cup {NoBuyer}, amount : Nat,
             answer : {"none", "redemption", "refused", "error"}]

(* The shapes of the tables and requests; postings are whole amounts.      *)
TypeOK ==
  /\ codeStatus \in [Code -> {"absent", "active", "paused", "ended"}]
  /\ redemption \in [Order -> RedemptionType]
  /\ ledger \in [Order -> [Funder -> Posting]]
  /\ call \in [Caller -> CallType]
  /\ \A p \in Caller : call[p].pc \in {"validating", "holding"} =>
       call[p].order \in Order /\ call[p].code \in Code /\ call[p].buyer \in Buyer
  /\ due \in [Expirer -> SUBSET Order]
  /\ faults \in 0..MaxFaults

(* What a request validated under the lock on the code is true until it    *)
(* commits: the code is active, nobody else is at it, and the uses fit.    *)
LockHolds ==
  \A p \in Caller : call[p].pc = "holding" =>
    /\ codeStatus[call[p].code] = "active"
    /\ UsesFit(call[p].code, call[p].buyer)
    /\ \A q \in Caller \ {p} : call[q].pc = "holding" => call[q].code /= call[p].code

(* "Two checkouts racing for the last use of a code cannot both pass the   *)
(* budget": uses, and uses per buyer, stay within it (reserve).            *)
UsesKept ==
  \A c \in Code : /\ Cardinality(Counted(c)) <= MaxUses
                  /\ \A b \in Buyer : Cardinality(UsesOf(c, b)) <= PerBuyerMaxUses

(* Nor can they both have the last of a code's spend: what is reserved or  *)
(* settled never exceeds it (reserve, settle).                             *)
SpendKept == \A c \in Code : Amounts(Counted(c)) <= MaxSpend

(* "Spend equals settlement": what the redemptions say was settled and is  *)
(* reserved is what the ledger captured and still holds (reconcile).       *)
BooksAgree ==
  LET over(kind) == SumFunction([i \in Funder |-> Postings(kind, i)]) IN
  /\ Amounts(InStatus("settled")) = over("capture")
  /\ Amounts(InStatus("reserved")) = over("hold") - over("capture") - over("release")

(* An order that ended leaves no hold open, and one that did not has its   *)
(* holds untouched, funder by funder (settle, release).                    *)
HoldsCloseWithOrder ==
  \A o \in Order : \A i \in Funder :
    IF redemption[o].status \in {"settled", "released"}
    THEN ledger[o][i].hold = ledger[o][i].capture + ledger[o][i].release
    ELSE ledger[o][i].capture = 0 /\ ledger[o][i].release = 0

(* "`amount` may be less than the hold (a partial order), never more"      *)
(* (ledger/types.ts:26): whatever part of a reservation is used in the end *)
(* can be captured, and no part is negative.                               *)
EveryPartSettles ==
  \A o \in InStatus("reserved") : \A final \in 0..redemption[o].amount :
    LET parts == Proportion(final, Holds(o)) IN
    \A i \in Funder : parts[i] \in 0..ledger[o][i].hold

(* A redemption ends once: an order settled while the expiry job had it on *)
(* its list is not released, and the ledger posts nothing more for it.     *)
EndsOnce ==
  [][\A o \in Order : redemption[o].status \in {"settled", "released"} =>
        redemption'[o] = redemption[o] /\ ledger'[o] = ledger[o]]_vars

---------------------------------------------------------------------------
(* Liveness.  The expiry job keeps coming round and gets through its list; *)
(* requests, time and deaths of the job are not fair.                      *)

FairSpec == Spec /\ \A x \in Expirer : WF_vars(Expire(x))

(* "An abandoned cart must not hold budget open forever": an expired       *)
(* reservation ends, though a job may die with it on its list.             *)
AbandonedCartsEnd ==
  \A o \in Order :
    (redemption[o].status = "reserved" /\ redemption[o].expired) ~> redemption[o].status /= "reserved"

---------------------------------------------------------------------------
(* What a comment or a document says and the code does not keep            *)

(* README.md:385 "the same order twice gets the same redemption": a        *)
(* request whose order has a redemption when it answers is given it.       *)
SameOrderSameRedemption ==
  [][\A p \in Caller :
       call[p].pc /= "answered" /\ call'[p].pc = "answered"
         /\ redemption'[call'[p].order].status /= "none"
         => call'[p].answer = "redemption"]_vars

(* internal.ts:111 "is not a whole amount in minor units": the assertion   *)
(* on what reserve passes to ledger.hold.                                  *)
HoldsAreAmounts ==
  \A p \in Caller : call[p].pc = "holding" =>
    \A i \in Funder : Split(call[p].amount, Shares, Whole)[i] \in Nat
=============================================================================
