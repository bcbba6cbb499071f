---------------------------- MODULE SendingProof ----------------------------
(***************************************************************************)
(* Theorems about Sending: who is made to wait, the search for an open     *)
(* window, what a tenant's rule may do, and the times of a recurrence, for *)
(* any channels, rules, zones and plans, and with no bound on the clock.   *)
(*                                                                         *)
(* Their hypotheses are the three assumptions of Sending: that orders of   *)
(* channels are lists, that hours of every clock begin at marks            *)
(* (WINDOW_STEP_MINUTES), and that a change of clocks moves them by two    *)
(* hours at most.                                                          *)
(***************************************************************************)
EXTENDS Sending, SumLemmas

---------------------------------------------------------------------------
(* What a filter keeps of a list, by induction over the list. *)

(* What the filter has kept after each position up to m. *)
KeptUpto(kept, order, channels, m) ==
  \A n \in 0..m :
    kept[n] = IF n = 0 THEN <<>>
              ELSE IF order[n] \in channels \ ToSet(kept[n - 1]) THEN Append(kept[n - 1], order[n]) ELSE kept[n - 1]

LEMMA ToSetAppend == ASSUME NEW T, NEW s \in Seq(T), NEW x \in T
  PROVE  Append(s, x) \in Seq(T) /\ ToSet(Append(s, x)) = ToSet(s) \cup {x}
<1>1. Append(s, x) \in Seq(T) /\ Len(Append(s, x)) = Len(s) + 1 /\ Len(s) \in Nat
  OBVIOUS
<1>2. \A i \in 1..Len(s) : Append(s, x)[i] = s[i]
  OBVIOUS
<1>3. Append(s, x)[Len(s) + 1] = x
  OBVIOUS
<1>4. DOMAIN Append(s, x) = (1..Len(s)) \cup {Len(s) + 1} /\ DOMAIN s = 1..Len(s)
  BY <1>1
<1>. DEFINE more == Append(s, x)
            n == Len(s)
<1>5. \A i \in 1..n : i \in DOMAIN more /\ more[i] = s[i]
  BY <1>2, <1>4
<1>6. n + 1 \in DOMAIN more /\ more[n + 1] = x
  BY <1>3, <1>4
<1>7. \A i \in DOMAIN more : i \in 1..n \/ i = n + 1
  BY <1>4
<1>8. ToSet(more) = ToSet(s) \cup {x}
  <2>. HIDE DEF more, n
  <2>1. DOMAIN s = 1..n
    BY <1>4 DEF n
  <2>. QED BY <1>5, <1>6, <1>7, <2>1 DEF ToSet
<1>. QED BY <1>1, <1>8

LEMMA ToSetEmpty == ToSet(<<>>) = {}
  BY DEF ToSet

(* The positions up to m of a list, and what is there. *)
Upto(s, m) == {s[i] : i \in 1..m}

LEMMA UptoNext == ASSUME NEW s, NEW m \in Nat PROVE Upto(s, m + 1) = Upto(s, m) \cup {s[m + 1]}
<1>1. 1..(m + 1) = (1..m) \cup {m + 1}
  OBVIOUS
<1>. QED BY <1>1, Zenon DEF Upto

LEMMA KeptSo ==
  ASSUME NEW T, NEW order \in Seq(T), NEW channels, NEW kept, KeptUpto(kept, order, channels, Len(order)),
         NEW m \in 0..Len(order)
  PROVE  kept[m] \in Seq(T) /\ ToSet(kept[m]) = Upto(order, m) \cap channels
<1>. DEFINE N == Len(order)
<1>0. N \in Nat
  OBVIOUS
<1>. DEFINE P == {n \in Nat : n <= N => kept[n] \in Seq(T) /\ ToSet(kept[n]) = Upto(order, n) \cap channels}
<1>1. 0 \in P
  <2>1. kept[0] = <<>>
    BY <1>0 DEF KeptUpto
  <2>2. Upto(order, 0) = {}
    BY DEF Upto
  <2>3. kept[0] \in Seq(T)
    BY <2>1
  <2>4. ToSet(kept[0]) = Upto(order, 0) \cap channels
    BY <2>1, <2>2, ToSetEmpty
  <2>. HIDE DEF N
  <2>. QED BY <2>3, <2>4
<1>2. ASSUME NEW n \in Nat, n \in P PROVE n + 1 \in P
  <2>. SUFFICES ASSUME n + 1 <= N PROVE kept[n + 1] \in Seq(T) /\ ToSet(kept[n + 1]) = Upto(order, n + 1) \cap channels
    OBVIOUS
  <2>1. kept[n] \in Seq(T) /\ ToSet(kept[n]) = Upto(order, n) \cap channels
    BY <1>2, <1>0
  <2>2. kept[n + 1] = IF order[n + 1] \in channels \ ToSet(kept[n]) THEN Append(kept[n], order[n + 1]) ELSE kept[n]
    <3>1. n + 1 \in 0..N /\ n + 1 # 0 /\ (n + 1) - 1 = n
      BY <1>0
    <3>2. KeptUpto(kept, order, channels, N)
      OBVIOUS
    <3>. HIDE DEF N
    <3>. QED BY <3>1, <3>2 DEF KeptUpto
  <2>3. order[n + 1] \in T
    BY <1>0
  <2>4. Upto(order, n + 1) = Upto(order, n) \cup {order[n + 1]}
    BY UptoNext
  <2>. HIDE DEF N
  <2>. QED BY <2>1, <2>2, <2>3, <2>4, ToSetAppend
<1>3. Nat \subseteq P
  <2>. HIDE DEF P
  <2>. QED BY <1>1, <1>2, Induct
<1>. QED BY <1>3, <1>0

IsKept(kept, order, channels) ==
  kept = [n \in 0..Len(order) |->
            IF n = 0 THEN <<>>
            ELSE IF order[n] \in channels \ ToSet(kept[n - 1]) THEN Append(kept[n - 1], order[n]) ELSE kept[n - 1]]

LEMMA KeptExists ==
  ASSUME NEW order, Len(order) \in Nat, NEW channels
  PROVE  \E kept : IsKept(kept, order, channels)
<1>. DEFINE N == Len(order)
            By(kept, n) == IF n = 0 THEN <<>>
                           ELSE IF order[n] \in channels \ ToSet(kept[n - 1]) THEN Append(kept[n - 1], order[n]) ELSE kept[n - 1]
            P == {m \in Nat : \E kept : kept = [n \in 0..m |-> By(kept, n)]}
<1>1. 0 \in P
  <2>. DEFINE k == [n \in 0..0 |-> <<>>]
  <2>1. k = [n \in 0..0 |-> By(k, n)]
    OBVIOUS
  <2>. QED BY <2>1
<1>2. ASSUME NEW m \in Nat, m \in P PROVE m + 1 \in P
  <2>1. PICK kept : kept = [n \in 0..m |-> By(kept, n)]
    BY <1>2
  <2>. HIDE DEF By
  <2>. DEFINE more == [n \in 0..(m + 1) |-> By(kept, n)]
  <2>2. \A n \in 0..m : more[n] = kept[n]
    BY <2>1
  <2>3. \A n \in 0..(m + 1) : By(more, n) = By(kept, n)
    <3>1. SUFFICES ASSUME NEW n \in 0..(m + 1) PROVE By(more, n) = By(kept, n)
      OBVIOUS
    <3>2. n # 0 => n - 1 \in 0..m
      OBVIOUS
    <3>3. n # 0 => more[n - 1] = kept[n - 1]
      BY <3>2, <2>2
    <3>. HIDE DEF more
    <3>. QED BY <3>3 DEF By
  <2>4. more = [n \in 0..(m + 1) |-> By(more, n)]
    BY <2>3
  <2>. HIDE DEF more
  <2>. QED BY <2>4
<1>3. Nat \subseteq P
  <2>. HIDE DEF P
  <2>. QED BY <1>1, <1>2, Induct
<1>4. N \in P
  BY <1>3
<1>. QED BY <1>4 DEF IsKept

(* What is kept of a list is a list, and holds of the channels those that *)
(* the list names.                                                        *)
LEMMA Kept ==
  ASSUME NEW T, NEW order \in Seq(T), NEW channels
  PROVE  OnlyIn(order, channels) \in Seq(T) /\ ToSet(OnlyIn(order, channels)) = ToSet(order) \cap channels
<1>. DEFINE kept == CHOOSE kept : IsKept(kept, order, channels)
<1>0. Len(order) \in Nat /\ DOMAIN order = 1..Len(order)
  OBVIOUS
<1>1. IsKept(kept, order, channels)
  BY <1>0, KeptExists, Zenon
<1>2. OnlyIn(order, channels) = kept[Len(order)]
  BY DEF OnlyIn, IsKept
<1>. HIDE DEF kept
<1>3. KeptUpto(kept, order, channels, Len(order))
  BY <1>1 DEF KeptUpto, IsKept
<1>4. Upto(order, Len(order)) = ToSet(order)
  BY <1>0 DEF Upto, ToSet
<1>5. Len(order) \in 0..Len(order)
  BY <1>0
<1>6. kept[Len(order)] \in Seq(T) /\ ToSet(kept[Len(order)]) = Upto(order, Len(order)) \cap channels
  BY <1>3, <1>5, KeptSo
<1>. QED BY <1>2, <1>4, <1>6

---------------------------------------------------------------------------
(* The clock does not go below midnight, and the rules there are have a    *)
(* document.                                                               *)
Sane == now \in Nat /\ rules \subseteq DOMAIN Rule

LEMMA SaneInit == Init => Sane
  BY MarksAssumption DEF Init, Sane

LEMMA SaneNext == Sane /\ [Next]_vars => Sane'
<1>. SUFFICES ASSUME Sane, [Next]_vars PROVE Sane'
  OBVIOUS
<1>1. ASSUME NEW r \in TenantRule, CreateTenantRule(r) PROVE Sane'
  BY <1>1, ChannelsAssumption DEF CreateTenantRule, Sane
<1>2. ASSUME NEW r \in TenantRule, DeleteTenantRule(r) PROVE Sane'
  BY <1>2 DEF DeleteTenantRule, Sane
<1>3. CASE Tick
  BY <1>3 DEF Tick, Sane
<1>4. CASE UNCHANGED <<now, rules>>
  BY <1>4 DEF Sane
<1>5. PatchCampaign \/ Schedule \/ Pause \/ Resume \/ OpenRun => UNCHANGED <<now, rules>>
  BY DEF PatchCampaign, Schedule, Pause, Resume, OpenRun
<1>6. StartBatch \/ Attempt \/ EndBatch => UNCHANGED <<now, rules>>
  BY DEF StartBatch, Attempt, EndBatch
<1>7. \A d : Record(d) => UNCHANGED <<now, rules>>
  BY DEF Record
<1>8. \A b : Suppress(b) \/ OptOut(b) => UNCHANGED <<now, rules>>
  BY DEF Suppress, OptOut
<1>9. UNCHANGED vars => UNCHANGED <<now, rules>>
  BY DEF vars
<1>. QED BY <1>1, <1>2, <1>3, <1>4, <1>5, <1>6, <1>7, <1>8, <1>9 DEF Next

LEMMA Safe == Spec => []Sane
  BY SaneInit, SaneNext, PTL DEF Spec

---------------------------------------------------------------------------
(* The choice of a channel *)

LEMMA EarliestIs ==
  ASSUME NEW T, T \subseteq Nat, Nothing \notin Int
  PROVE  /\ Earliest(T) = Nothing <=> T = {}
         /\ T # {} => Earliest(T) \in T /\ \A t \in T : Earliest(T) <= t
<1>1. CASE T = {}
  BY <1>1 DEF Earliest
<1>2. CASE T # {}
  <2>. DEFINE x == Min(T)
  <2>1. \E y \in T : \A t \in T : y <= t
    BY <1>2, Least
  <2>2. x \in T
    BY <2>1 DEF Min
  <2>3. \A t \in T : x <= t
    BY <2>1 DEF Min
  <2>4. Earliest(T) = x
    BY <1>2 DEF Earliest
  <2>. HIDE DEF x
  <2>5. x # Nothing
    BY <2>2
  <2>. QED BY <1>2, <2>2, <2>3, <2>4, <2>5
<1>. QED BY <1>1, <1>2

(* A channel is chosen, or a window named, for what the verdicts are. *)
LEMMA Selected ==
  ASSUME NEW order, NEW verdicts, Len(order) \in Nat, DOMAIN verdicts = 1..Len(order),
         Nothing \notin Int, \A i \in 1..Len(order) : order[i] # Nothing
  PROVE  /\ Select(order, verdicts).chosen # Nothing <=> \E i \in 1..Len(order) : verdicts[i] = "allowed"
         /\ Select(order, verdicts).window # Nothing <=>
              /\ \A i \in 1..Len(order) : verdicts[i] # "allowed"
              /\ \E i \in 1..Len(order) : verdicts[i] = "rule"
<1>. DEFINE N == Len(order)
            At(said) == {i \in DOMAIN verdicts : verdicts[i] = said}
<1>1. \A said : At(said) \subseteq Nat /\ At(said) \subseteq 1..N
  OBVIOUS
<1>2. \A said : FirstWith(verdicts, said) = Earliest(At(said))
  BY DEF FirstWith
<1>3. \A said : (FirstWith(verdicts, said) = Nothing <=> At(said) = {}) /\ (At(said) # {} => FirstWith(verdicts, said) \in At(said))
  <2>. HIDE DEF At
  <2>. QED BY <1>1, <1>2, EarliestIs
<1>4. \A said : FirstWith(verdicts, said) # Nothing => order[FirstWith(verdicts, said)] # Nothing
  <2>. HIDE DEF At, N
  <2>. QED BY <1>1, <1>3 DEF N
<1>5. \A said : At(said) # {} <=> \E i \in 1..N : verdicts[i] = said
  OBVIOUS
<1>6. \A i : /\ i # Nothing => Chosen(order, verdicts, i).chosen = order[i] /\ Chosen(order, verdicts, i).window = Nothing
             /\ i = Nothing => Chosen(order, verdicts, i).chosen = Nothing
             /\ i = Nothing => Chosen(order, verdicts, i).window = IF FirstWith(verdicts, "rule") = Nothing THEN Nothing ELSE order[FirstWith(verdicts, "rule")]
  BY DEF Chosen
<1>. HIDE DEF At, N
<1>7. Select(order, verdicts).chosen # Nothing <=> FirstWith(verdicts, "allowed") # Nothing
  BY <1>4, <1>6 DEF Select
<1>8. Select(order, verdicts).window # Nothing <=> FirstWith(verdicts, "allowed") = Nothing /\ FirstWith(verdicts, "rule") # Nothing
  BY <1>4, <1>6 DEF Select
<1>. QED BY <1>3, <1>5, <1>7, <1>8 DEF N

(* There is a most specific rule among some. *)
LEMMA SpecificThere ==
  ASSUME NEW said, said # {}
  PROVE  \E r \in said : MostSpecific(said, r)
<1>1. \A r \in said : Rank(Rule[r].scope) \in {0, 1, 2}
  BY DEF Rank
<1>2. CASE \E r \in said : Rank(Rule[r].scope) = 2
  BY <1>1, <1>2 DEF MostSpecific
<1>3. CASE (\A r \in said : Rank(Rule[r].scope) # 2) /\ \E r \in said : Rank(Rule[r].scope) = 1
  BY <1>1, <1>3 DEF MostSpecific
<1>4. CASE \A r \in said : Rank(Rule[r].scope) = 0
  BY <1>4 DEF MostSpecific
<1>. QED BY <1>1, <1>2, <1>3, <1>4

(* An order is a list, wherever it comes from. *)
LEMMA DecidedIsList ==
  ASSUME Sane, NEW region, NEW asked
  PROVE  \E T : Ruled(Decide("channel_selection", region, asked)) \in Seq(T)
<1>. DEFINE said == Said("channel_selection", region, asked)
            r == CHOOSE r \in said : MostSpecific(said, r)
<1>1. CASE said = {}
  BY <1>1, ChannelsAssumption DEF Decide, ValueOf, Ruled
<1>2. CASE said # {}
  <2>1. r \in said
    <3>. HIDE DEF said
    <3>. QED BY <1>2, SpecificThere
  <2>2. Decide("channel_selection", region, asked) = Answer(r, asked)
    BY <1>2 DEF Decide, ValueOf
  <2>. HIDE DEF r
  <2>3. r \in DOMAIN Rule /\ Rule[r].kind = "channel_selection" /\ Answer(r, asked) # Nothing
    BY <2>1 DEF Said, Loaded, Sane
  <2>4. asked \in DOMAIN Rule[r].answers /\ Answer(r, asked) = Rule[r].answers[asked]
    BY <2>3 DEF Answer
  <2>5. Answer(r, asked) \in Seq(ToSet(Answer(r, asked)))
    BY <2>3, <2>4, ChannelsAssumption
  <2>. QED BY <2>2, <2>3, <2>5 DEF Ruled
<1>. QED BY <1>1, <1>2

(* The channels a person can be reached on. *)
LEMMA AvailableIs ==
  ASSUME NEW p
  PROVE  /\ Available(p) \in Seq(ToSet(Channels))
         /\ ToSet(Available(p)) = ToSet(Channels) \cap {c \in Configured : AddressOf[p][c] # Nothing}
<1>. DEFINE S == {c \in Configured : AddressOf[p][c] # Nothing}
<1>1. Channels \in Seq(ToSet(Channels))
  BY ChannelsAssumption
<1>. HIDE DEF S
<1>. QED BY <1>1, Kept DEF Available, S

(* What is tried is a list of them. *)
LEMMA OrderIs ==
  ASSUME Sane, NEW p
  PROVE  /\ Len(OrderFor(p)) \in Nat /\ DOMAIN OrderFor(p) = 1..Len(OrderFor(p))
         /\ ToSet(OrderFor(p)) \subseteq ToSet(Available(p))
         /\ \A i \in 1..Len(OrderFor(p)) : OrderFor(p)[i] \in ToSet(Available(p)) /\ OrderFor(p)[i] # Nothing
<1>1. \E T : OrderFor(p) \in Seq(T) /\ ToSet(OrderFor(p)) \subseteq ToSet(Available(p))
  <2>1. CASE Preferred # Nothing
    <3>1. OrderFor(p) = OnlyIn(Available(p), {Preferred})
      BY <2>1 DEF OrderFor
    <3>. QED BY <3>1, AvailableIs, Kept
  <2>2. CASE Preferred = Nothing
    <3>. DEFINE order == Ruled(Decide("channel_selection", OrderRegion(p), AgreedTo(p)))
    <3>1. OrderFor(p) = OnlyIn(order, ToSet(Available(p)))
      BY <2>2 DEF OrderFor
    <3>2. PICK T : order \in Seq(T)
      BY DecidedIsList
    <3>. HIDE DEF order
    <3>. QED BY <3>1, <3>2, Kept
  <2>. QED BY <2>1, <2>2
<1>2. PICK T : OrderFor(p) \in Seq(T)
  BY <1>1
<1>3. Len(OrderFor(p)) \in Nat /\ DOMAIN OrderFor(p) = 1..Len(OrderFor(p))
  BY <1>2
<1>4. \A i \in 1..Len(OrderFor(p)) : OrderFor(p)[i] \in ToSet(OrderFor(p))
  BY <1>3 DEF ToSet
<1>5. Nothing \notin ToSet(Available(p))
  BY AvailableIs, ChannelsAssumption
<1>. QED BY <1>1, <1>3, <1>4, <1>5

LEMMA SendVerdict ==
  ASSUME NEW c, NEW a, NEW at
  PROVE  /\ CanSend(c, a, at) = "allowed" <=> Agreed(c, a) /\ ~WindowClosed(c, a, at)
         /\ CanSend(c, a, at) = "rule" <=> Agreed(c, a) /\ WindowClosed(c, a, at)
  BY DEF CanSend, Agreed

(* What preflight answers, in terms of what each channel is told. *)
LEMMA PreflightSays ==
  ASSUME Sane, NEW p, NEW at
  PROVE  /\ Preflight(p, at).chosen # Nothing <=>
              \E c \in ToSet(OrderFor(p)) : CanSend(c, AddressOf[p][c], at) = "allowed"
         /\ Preflight(p, at).window # Nothing <=>
              /\ \A c \in ToSet(OrderFor(p)) : CanSend(c, AddressOf[p][c], at) # "allowed"
              /\ \E c \in ToSet(OrderFor(p)) : CanSend(c, AddressOf[p][c], at) = "rule"
<1>. DEFINE order == OrderFor(p)
            verdicts == Verdicts(p, order, at)
            N == Len(order)
<1>1. /\ N \in Nat /\ DOMAIN order = 1..N
      /\ \A i \in 1..N : order[i] # Nothing
  BY OrderIs
<1>2. DOMAIN verdicts = 1..N /\ \A i \in 1..N : verdicts[i] = CanSend(order[i], AddressOf[p][order[i]], at)
  BY <1>1 DEF Verdicts
<1>3. Nothing \notin Int
  BY ChannelsAssumption
<1>4. Preflight(p, at) = Select(order, verdicts)
  BY DEF Preflight
<1>5. ToSet(order) = {order[i] : i \in 1..N}
  BY <1>1 DEF ToSet
<1>. HIDE DEF verdicts, order
<1>6. /\ Select(order, verdicts).chosen # Nothing <=> \E i \in 1..N : verdicts[i] = "allowed"
      /\ Select(order, verdicts).window # Nothing <=>
           /\ \A i \in 1..N : verdicts[i] # "allowed"
           /\ \E i \in 1..N : verdicts[i] = "rule"
  BY <1>1, <1>2, <1>3, Selected
<1>. HIDE DEF N
<1>7. \A said : (\E i \in 1..N : verdicts[i] = said) <=> \E c \in ToSet(order) : CanSend(c, AddressOf[p][c], at) = said
  BY <1>2, <1>5
<1>. QED BY <1>4, <1>6, <1>7 DEF order

LEMMA AllowedWhen ==
  ASSUME Sane, NEW p, NEW at
  PROVE  Allowed(p, at) <=> \E c \in ToSet(OrderFor(p)) : CanSend(c, AddressOf[p][c], at) = "allowed"
  BY OrderIs DEF Allowed

(* A recipient is made to wait exactly when windows alone are in the way:  *)
(* selectChannel names a window only for one that would be sent to if      *)
(* every window were open.                                                 *)
THEOREM OnlyWindowsWaitSafe == Spec => []OnlyWindowsWait
<1>1. Sane => OnlyWindowsWait
  <2>. SUFFICES ASSUME Sane, NEW p \in Person
                PROVE  Preflight(p, now).window # Nothing <=>
                         Preflight(p, now).chosen = Nothing /\ AgreedTo(p) \cap ToSet(OrderFor(p)) # {}
    BY DEF OnlyWindowsWait
  <2>1. \A c \in ToSet(OrderFor(p)) : c \in AgreedTo(p) <=> CanSend(c, AddressOf[p][c], now) \in {"allowed", "rule"}
    BY OrderIs, SendVerdict DEF AgreedTo
  <2>. QED BY <2>1, PreflightSays
<1>. QED BY <1>1, Safe, PTL

---------------------------------------------------------------------------
(* Rules *)

(* More rules, all else being the same, let nothing more through. *)
LEMMA NothingLifted ==
  ASSUME rules \subseteq rules', UNCHANGED <<now, consent, suppression>>, NEW c, NEW a, NEW h \in Int,
         CanSend(c, a, now + h * Hour)' = "allowed"
  PROVE  CanSend(c, a, now + h * Hour) = "allowed"
<1>1. Agreed(c, a)' /\ ~WindowClosed(c, a, now + h * Hour)'
  BY DEF CanSend, Agreed
<1>2. Suppressed(c, a)' <=> Suppressed(c, a)
  BY DEF Suppressed
<1>3. Latest(RowsOf(c, a))' = Latest(RowsOf(c, a))
  BY DEF Latest, RowsOf
<1>4. Agreed(c, a)
  BY <1>1, <1>2, <1>3 DEF Agreed
<1>5. WindowClosed(c, a, now + h * Hour) => WindowClosed(c, a, now + h * Hour)'
  BY DEF WindowClosed, Denied, Said, Loaded, Answer
<1>. QED BY <1>1, <1>4, <1>5, SendVerdict

(* A rule a tenant creates lets no address be sent to, at any hour, that   *)
(* could not be before: rules/index.ts lets a tenant restrict, never lift. *)
THEOREM TenantNeverLiftsSafe == Spec => TenantNeverLifts
<1>1. [Next]_vars /\ rules # rules' /\ rules \subseteq rules' => UNCHANGED <<now, consent, suppression>>
  <2>. SUFFICES ASSUME [Next]_vars, rules # rules', rules \subseteq rules'
                PROVE  UNCHANGED <<now, consent, suppression>>
    OBVIOUS
  <2>1. PatchCampaign \/ Schedule \/ Pause \/ Resume \/ OpenRun => rules' = rules
    BY DEF PatchCampaign, Schedule, Pause, Resume, OpenRun
  <2>2. StartBatch \/ Attempt \/ EndBatch \/ Tick => rules' = rules
    BY DEF StartBatch, Attempt, EndBatch, Tick
  <2>3. \A d : Record(d) => rules' = rules
    BY DEF Record
  <2>4. \A b : Suppress(b) \/ OptOut(b) => rules' = rules
    BY DEF Suppress, OptOut
  <2>5. UNCHANGED vars => rules' = rules
    BY DEF vars
  <2>6. ~ \E r \in TenantRule : DeleteTenantRule(r)
    BY DEF DeleteTenantRule
  <2>7. \E r \in TenantRule : CreateTenantRule(r)
    BY <2>1, <2>2, <2>3, <2>4, <2>5, <2>6 DEF Next
  <2>. QED BY <2>7 DEF CreateTenantRule
<1>2. [Next]_vars => [rules # rules' /\ rules \subseteq rules' =>
       \A p \in Person, c \in Configured, h \in 0..Day :
         AddressOf[p][c] # Nothing /\ CanSend(c, AddressOf[p][c], now + h * Hour)' = "allowed"
           => CanSend(c, AddressOf[p][c], now + h * Hour) = "allowed"]_vars
  <2>. SUFFICES ASSUME [Next]_vars, rules # rules', rules \subseteq rules',
                       NEW p \in Person, NEW c \in Configured, NEW h \in 0..Day,
                       CanSend(c, AddressOf[p][c], now + h * Hour)' = "allowed"
                PROVE  CanSend(c, AddressOf[p][c], now + h * Hour) = "allowed"
    OBVIOUS
  <2>1. UNCHANGED <<now, consent, suppression>> /\ h \in Int
    BY <1>1
  <2>. QED BY <2>1, NothingLifted
<1>. QED BY <1>2, PTL DEF Spec, TenantNeverLifts

---------------------------------------------------------------------------
(* Marks and hours *)

LEMMA Times == ASSUME NEW a \in Int, NEW b \in Int, NEW n \in Nat, a <= b PROVE n * a <= n * b
<1>1. b - a \in Nat /\ n * (b - a) \in Nat
  OBVIOUS
<1>2. n * (b - a) = n * b - n * a
  OBVIOUS
<1>. QED BY <1>1, <1>2

LEMMA DivMod == ASSUME NEW a \in Int, NEW n \in Nat \ {0}
  PROVE  /\ a \div n \in Int /\ a % n \in 0..(n - 1)
         /\ a = n * (a \div n) + (a % n)
<1>1. n \in Int /\ n > 0
  OBVIOUS
<1>. QED BY <1>1

LEMMA DivUnique ==
  ASSUME NEW n \in Nat \ {0}, NEW q \in Int, NEW r \in 0..(n - 1)
  PROVE  (n * q + r) \div n = q /\ (n * q + r) % n = r
<1>. DEFINE a == n * q + r
            d == a \div n
            m == a % n
<1>1. a \in Int /\ d \in Int /\ m \in 0..(n - 1) /\ a = n * d + m
  BY DivMod
<1>2. n * q \in Int /\ n * d \in Int /\ n * (d + 1) = n * d + n /\ n * (q + 1) = n * q + n
  BY <1>1
<1>. HIDE DEF d, m
<1>3. ASSUME q <= d - 1 PROVE FALSE
  <2>1. n * (q + 1) <= n * d
    BY <1>1, <1>3, Times
  <2>. QED BY <1>1, <1>2, <2>1
<1>4. ASSUME d <= q - 1 PROVE FALSE
  <2>1. n * (d + 1) <= n * q
    BY <1>1, <1>4, Times
  <2>. QED BY <1>1, <1>2, <2>1
<1>5. q = d
  BY <1>1, <1>3, <1>4
<1>6. m = r
  BY <1>1, <1>2, <1>5
<1>. QED BY <1>5, <1>6 DEF d, m

(* Multiples of a number: their sums and products with it. *)
LEMMA ModSum == ASSUME NEW n \in Nat \ {0}, NEW a \in Int, NEW b \in Int, b % n = 0
  PROVE  (a + b) % n = a % n
<1>. DEFINE q == a \div n
            r == a % n
            k == b \div n
<1>1. q \in Int /\ r \in 0..(n - 1) /\ a = n * q + r /\ k \in Int /\ b = n * k + 0
  BY DivMod
<1>. HIDE DEF q, r, k
<1>2. a + b = n * (q + k) + r
  BY <1>1
<1>3. (n * (q + k) + r) % n = r
  BY <1>1, DivUnique
<1>. QED BY <1>2, <1>3 DEF r

LEMMA ModTimes == ASSUME NEW n \in Nat \ {0}, NEW a \in Int, NEW b \in Int, a % n = 0
  PROVE  (a * b) % n = 0
<1>. DEFINE k == a \div n
<1>1. k \in Int /\ a = n * k + 0
  BY DivMod
<1>. HIDE DEF k
<1>2. a * b = n * (k * b) + 0
  BY <1>1
<1>. DEFINE q == k * b
<1>3. q \in Int /\ 0 \in 0..(n - 1)
  BY <1>1
<1>. HIDE DEF q
<1>4. (n * q + 0) % n = 0
  BY <1>3, DivUnique
<1>. QED BY <1>2, <1>4 DEF q

(* A day is as many hours as it is minutes. *)
LEMMA DayOfHour == ASSUME NEW w \in Int PROVE DayOf(w) = (w \div Hour) \div Day
<1>1. Hour \in Nat \ {0} /\ Day \in Nat \ {0}
  BY CalendarAssumption
<1>. DEFINE L == Hour * Day
            q == w \div Hour
            r == w % Hour
            d == q \div Day
            e == q % Day
<1>2. q \in Int /\ r \in 0..(Hour - 1) /\ w = Hour * q + r
  BY <1>1, DivMod
<1>. HIDE DEF q, r
<1>3. d \in Int /\ e \in 0..(Day - 1) /\ q = Day * d + e
  BY <1>1, <1>2, DivMod
<1>. HIDE DEF d, e
<1>4. L \in Nat \ {0}
  <2>1. Hour * 1 <= Hour * Day
    BY <1>1, Times
  <2>. QED BY <1>1, <2>1
<1>5. Hour * q = L * d + Hour * e
  <2>1. Hour * (Day * d + e) = Hour * (Day * d) + Hour * e
    BY <1>1, <1>3
  <2>2. Hour * (Day * d) = L * d
    BY <1>1, <1>3
  <2>. QED BY <1>3, <2>1, <2>2
<1>6. Hour * e \in Nat /\ Hour * e <= L - Hour
  <2>1. Hour * e <= Hour * (Day - 1) /\ Hour * 0 <= Hour * e
    BY <1>1, <1>3, Times
  <2>2. Hour * (Day - 1) = L - Hour /\ Hour * 0 = 0 /\ Hour * e \in Int /\ L - Hour \in Int
    BY <1>1, <1>3
  <2>. HIDE DEF L
  <2>. DEFINE he == Hour * e
              top == Hour * (Day - 1)
  <2>3. he <= top /\ 0 <= he /\ he \in Int /\ top = L - Hour
    BY <2>1, <2>2
  <2>. HIDE DEF he, top
  <2>4. he \in Nat /\ he <= L - Hour
    BY <2>3
  <2>. QED BY <2>4 DEF he
<1>. DEFINE x == Hour * e + r
            Ld == L * d
<1>7. Ld \in Int
  BY <1>3, <1>4
<1>. HIDE DEF L
<1>8. x \in 0..(L - 1)
  BY <1>1, <1>2, <1>4, <1>6
<1>9. w = L * d + x
  <2>. DEFINE he == Hour * e
  <2>1. he \in Int /\ Ld \in Int /\ Hour * q = Ld + he
    BY <1>5, <1>6, <1>7
  <2>. HIDE DEF he, Ld
  <2>2. w = Ld + (he + r)
    BY <1>2, <2>1
  <2>. QED BY <2>2 DEF he, Ld
<1>. HIDE DEF x
<1>10. w \div L = d
  BY <1>3, <1>4, <1>8, <1>9, DivUnique
<1>. QED BY <1>10 DEF DayOf, L, d, q

(* A minute that is no mark is in the hour of the minute before it. *)
LEMMA SameHour ==
  ASSUME NEW w \in Int, w % Step # 0
  PROVE  HourOf(w) = HourOf(w - 1) /\ DayOfWeek(w) = DayOfWeek(w - 1)
<1>0. Step \in Nat \ {0} /\ Hour \in Nat \ {0} /\ Hour % Step = 0
  BY MarksAssumption, CalendarAssumption
<1>. DEFINE q == w \div Hour
            r == w % Hour
<1>1. q \in Int /\ r \in 0..(Hour - 1) /\ w = Hour * q + r
  BY <1>0, DivMod
<1>. HIDE DEF q, r
<1>2. r # 0
  <2>1. SUFFICES ASSUME r = 0 PROVE FALSE
    OBVIOUS
  <2>2. w = Hour * q
    BY <1>0, <1>1, <2>1
  <2>3. Step \in Nat \ {0} /\ Hour \in Int /\ q \in Int /\ Hour % Step = 0
    BY <1>0, <1>1
  <2>4. (Hour * q) % Step = 0
    BY <2>3, ModTimes
  <2>. QED BY <2>2, <2>4
<1>3. w - 1 = Hour * q + (r - 1) /\ r - 1 \in 0..(Hour - 1)
  BY <1>0, <1>1, <1>2
<1>4. (w - 1) \div Hour = q
  <2>1. (Hour * q + (r - 1)) \div Hour = q
    BY <1>0, <1>1, <1>3, DivUnique
  <2>. QED BY <1>3, <2>1
<1>5. (w - 1) \div Hour = w \div Hour /\ w - 1 \in Int
  BY <1>4 DEF q
<1>6. DayOf(w) = DayOf(w - 1)
  BY <1>5, DayOfHour
<1>. QED BY <1>5, <1>6 DEF HourOf, DayOfWeek

(* On the wall clocks of a zone, too: they change at marks. *)
LEMMA SameHourThere ==
  ASSUME NEW zone, OnMarks(zone), NEW t \in Int, t % Step # 0
  PROVE  /\ HourOf(WallClock(t, zone)) = HourOf(WallClock(t - 1, zone))
         /\ DayOfWeek(WallClock(t, zone)) = DayOfWeek(WallClock(t - 1, zone))
<1>0. Step \in Nat \ {0}
  BY MarksAssumption
<1>1. t # zone.change
  BY DEF OnMarks
<1>2. Offset(t, zone) = Offset(t - 1, zone)
  BY <1>1 DEF Offset, OnMarks
<1>3. Offset(t, zone) \in Int /\ Offset(t, zone) % Step = 0
  BY DEF Offset, OnMarks
<1>. DEFINE o == Offset(t, zone)
<1>. HIDE DEF o
<1>4. o \in Int /\ (t + o) % Step = t % Step
  BY <1>0, <1>3, ModSum DEF o
<1>5. HourOf(t + o) = HourOf((t + o) - 1) /\ DayOfWeek(t + o) = DayOfWeek((t + o) - 1)
  <2>. DEFINE w == t + o
  <2>1. w \in Int
    BY <1>4
  <2>2. w % Step # 0
    BY <1>4
  <2>. HIDE DEF w
  <2>3. HourOf(w) = HourOf(w - 1) /\ DayOfWeek(w) = DayOfWeek(w - 1)
    BY <2>1, <2>2, SameHour
  <2>. QED BY <2>3 DEF w
<1>6. (t + o) - 1 = (t - 1) + o
  BY <1>4
<1>. QED BY <1>2, <1>5, <1>6 DEF WallClock, o

(* Who may be sent to at a minute that is no mark may be the minute before. *)
LEMMA AllowedBefore ==
  ASSUME Sane, NEW p \in Person, NEW t \in Int, t % Step # 0, Allowed(p, t)
  PROVE  Allowed(p, t - 1)
<1>1. PICK c \in ToSet(OrderFor(p)) : CanSend(c, AddressOf[p][c], t) = "allowed"
  BY AllowedWhen
<1>. DEFINE a == AddressOf[p][c]
            zone == ZoneOf[RegionOf[a]]
<1>2. c \in ToSet(Channels) /\ a # Nothing
  BY OrderIs, AvailableIs
<1>3. OnMarks(zone)
  BY <1>2, MarksAssumption
<1>4. /\ HourOf(WallClock(t, zone)) = HourOf(WallClock(t - 1, zone))
      /\ DayOfWeek(WallClock(t, zone)) = DayOfWeek(WallClock(t - 1, zone))
  <2>. HIDE DEF zone
  <2>. QED BY <1>3, SameHourThere
<1>5. WindowClosed(c, a, t - 1) <=> WindowClosed(c, a, t)
  BY <1>4 DEF WindowClosed
<1>6. CanSend(c, a, t - 1) = "allowed"
  BY <1>1, <1>5, SendVerdict
<1>. QED BY <1>6, AllowedWhen

(* The search nextSendingWindow makes for one recipient, at marks only,    *)
(* returns the first minute in its horizon at which that recipient may be  *)
(* sent to: a window that opens between two marks there is none.  Whom a   *)
(* batch then gives the answer to is not what this says.                   *)
THEOREM FirstOpenMinuteSafe == Spec => []FirstOpenMinute
<1>1. Sane => FirstOpenMinute
  <2>. SUFFICES ASSUME Sane, NEW p \in Person, Preflight(p, now).window # Nothing
                PROVE  NextSendingWindow(p, now) = Earliest({t \in now + 1..now + Horizon : Allowed(p, t)})
    BY DEF FirstOpenMinute
  <2>. DEFINE open  == {t \in now + 1..now + Horizon : Allowed(p, t)}
              marks == {t \in now + 1..now + Horizon : t % Step = 0 /\ Allowed(p, t)}
  <2>0. now \in Nat /\ Horizon \in Nat /\ Nothing \notin Int /\ open \subseteq Nat /\ marks \subseteq open
    BY MarksAssumption, ChannelsAssumption DEF Sane
  <2>1. ~Allowed(p, now)
    BY PreflightSays, AllowedWhen
  <2>2. CASE open = {}
    <3>1. marks = {}
      BY <2>0, <2>2
    <3>. QED BY <2>2, <3>1 DEF NextSendingWindow
  <2>3. CASE open # {}
    <3>. DEFINE first == Earliest(open)
    <3>1. first \in open /\ \A t \in open : first <= t
      <4>. HIDE DEF open
      <4>. QED BY <2>0, <2>3, EarliestIs
    <3>. HIDE DEF first
    <3>2. first \in now + 1..now + Horizon /\ Allowed(p, first) /\ first \in Int
      BY <2>0, <3>1
    <3>3. ASSUME first % Step # 0 PROVE FALSE
      <4>1. Allowed(p, first - 1)
        BY <3>2, <3>3, AllowedBefore
      <4>2. first - 1 \in open
        <5>1. first - 1 # now
          BY <2>1, <4>1
        <5>. QED BY <2>0, <3>2, <4>1, <5>1
      <4>. HIDE DEF open
      <4>. QED BY <2>0, <3>1, <4>2
    <3>4. first \in marks
      BY <3>2, <3>3
    <3>5. Earliest(marks) \in marks /\ \A t \in marks : Earliest(marks) <= t
      <4>. HIDE DEF marks, open
      <4>. QED BY <2>0, <3>4, EarliestIs
    <3>6. Earliest(marks) = first
      <4>. DEFINE e == Earliest(marks)
      <4>. HIDE DEF marks, open, e
      <4>1. e \in open /\ e <= first
        BY <2>0, <3>4, <3>5 DEF e
      <4>2. first <= e /\ e \in Int /\ first \in Int
        BY <2>0, <3>1, <4>1
      <4>. QED BY <4>1, <4>2 DEF e
    <3>. QED BY <3>6 DEF NextSendingWindow, first
  <2>. QED BY <2>2, <2>3
<1>. QED BY <1>1, Safe, PTL

---------------------------------------------------------------------------
(* The schedule *)

(* The next run of a campaign that has one coming, or is paused, is the one *)
(* counted from `from' for the runs it has had: what Schedule, OpenRun and  *)
(* PatchCampaign each leave, and no edit or pause in between breaks.        *)
ScheduledPlan ==
  plan.status \in {"scheduled", "paused"} /\ plan.is.cron # Nothing
    => plan.next = NextRunAt(plan.is, plan.zone, plan.from, plan.runs)

PlanInv ==
  /\ plan = [status |-> plan.status, is |-> plan.is, zone |-> plan.zone, from |-> plan.from,
             next |-> plan.next, runs |-> plan.runs]
  /\ \E new \in Plans : plan.is = new[1] /\ plan.zone = new[2]
  /\ plan.from \in Nat /\ plan.runs \in Nat
  /\ plan.status = "draft" => plan.runs = 0
  /\ ScheduledPlan

LEMMA PlanInit == Init => PlanInv
<1>. SUFFICES ASSUME Init PROVE PlanInv
  OBVIOUS
<1>1. PICK new \in Plans : plan = [status |-> "draft", is |-> new[1], zone |-> new[2], from |-> Start, next |-> Nothing, runs |-> 0]
  BY DEF Init
<1>2. Start \in Nat
  BY MarksAssumption
<1>. QED BY <1>1, <1>2 DEF PlanInv, ScheduledPlan

LEMMA PlanKept == ASSUME PlanInv, plan' = plan PROVE PlanInv'
  BY DEF PlanInv, ScheduledPlan

LEMMA PlanNext == Sane /\ PlanInv /\ [Next]_vars => PlanInv'
<1>. SUFFICES ASSUME Sane, PlanInv, [Next]_vars PROVE PlanInv'
  OBVIOUS
<1>0. now \in Nat
  BY DEF Sane
<1>1. CASE Schedule
  <2>1. PICK at : plan' = [plan EXCEPT !.status = "scheduled", !.from = now, !.next = at] /\ at = NextRunAt(plan.is, plan.zone, now, 0)
    BY <1>1 DEF Schedule
  <2>2. plan.status = "draft"
    BY <1>1 DEF Schedule
  <2>. QED BY <1>0, <2>1, <2>2 DEF PlanInv, ScheduledPlan
<1>2. CASE OpenRun
  <2>1. plan' = [plan EXCEPT !.from = now, !.runs = plan.runs + 1,
                             !.next = IF plan.is.cron = Nothing THEN Nothing
                                      ELSE NextRunAt(plan.is, plan.zone, now, plan.runs + 1)]
    BY <1>2 DEF OpenRun, PlanInv
  <2>2. plan.status = "scheduled"
    BY <1>2 DEF OpenRun
  <2>. DEFINE runs == plan.runs + 1
  <2>3. runs \in Nat
    BY DEF PlanInv
  <2>4. plan' = [plan EXCEPT !.from = now, !.runs = runs,
                             !.next = IF plan.is.cron = Nothing THEN Nothing
                                      ELSE NextRunAt(plan.is, plan.zone, now, runs)]
    BY <2>1
  <2>. HIDE DEF runs
  <2>. QED BY <1>0, <2>2, <2>3, <2>4 DEF PlanInv, ScheduledPlan
<1>3. CASE PatchCampaign
  <2>1. PICK new \in Plans :
          plan' = IF plan.status = "draft" THEN [plan EXCEPT !.is = new[1], !.zone = new[2]]
                  ELSE [plan EXCEPT !.is = new[1], !.zone = new[2], !.from = now,
                                    !.next = NextRunAt(new[1], new[2], now, plan.runs)]
    BY <1>3 DEF PatchCampaign
  <2>2. CASE plan.status = "draft"
    BY <2>1, <2>2 DEF PlanInv, ScheduledPlan
  <2>3. CASE plan.status # "draft"
    BY <1>0, <2>1, <2>3 DEF PlanInv, ScheduledPlan
  <2>. QED BY <2>2, <2>3
<1>4. CASE Pause
  BY <1>4 DEF Pause, PlanInv, ScheduledPlan
<1>5. CASE Resume
  BY <1>5 DEF Resume, PlanInv, ScheduledPlan
<1>6. StartBatch \/ Attempt \/ EndBatch \/ Tick => plan' = plan
  BY DEF StartBatch, Attempt, EndBatch, Tick
<1>7. \A d : Record(d) => plan' = plan
  BY DEF Record
<1>8. \A b : Suppress(b) \/ OptOut(b) => plan' = plan
  BY DEF Suppress, OptOut
<1>9. \A r : CreateTenantRule(r) \/ DeleteTenantRule(r) => plan' = plan
  BY DEF CreateTenantRule, DeleteTenantRule
<1>10. UNCHANGED vars => plan' = plan
  BY DEF vars
<1>. QED BY <1>1, <1>2, <1>3, <1>4, <1>5, <1>6, <1>7, <1>8, <1>9, <1>10, PlanKept DEF Next

LEMMA PlanSafe == Spec => []PlanInv
  BY PlanInit, PlanNext, Safe, PTL DEF Spec

---------------------------------------------------------------------------
(* Wall clocks and crons *)

(* A set of integers bounded from below has a least one. *)
LEMMA LeastFrom ==
  ASSUME NEW T, T \subseteq Int, T # {}, NEW m \in Int, \A t \in T : m <= t
  PROVE  \E x \in T : \A y \in T : x <= y
<1>. DEFINE N == {t - m : t \in T}
<1>0. N \subseteq Nat
  OBVIOUS
<1>1. N \subseteq Nat /\ N # {}
  <2>1. PICK t \in T : TRUE
    OBVIOUS
  <2>2. t - m \in N
    BY <2>1
  <2>. QED BY <1>0, <2>2
<1>2. PICK n \in N : \A k \in N : n <= k
  <2>. HIDE DEF N
  <2>. QED BY <1>1, Least
<1>3. PICK x \in T : n = x - m
  BY <1>2
<1>4. ASSUME NEW y \in T PROVE x <= y
  <2>1. y - m \in N
    OBVIOUS
  <2>2. n <= y - m
    BY <1>2, <2>1
  <2>. QED BY <1>3, <2>2
<1>. QED BY <1>3, <1>4

(* A minute whose time of the clock no other has. *)
Alone(t, zone) == \A u \in Int : WallClock(u, zone) = WallClock(t, zone) => u = t

LEMMA ClockIs ==
  ASSUME NEW zone, Moves(zone), NEW t \in Int
  PROVE  /\ WallClock(t, zone) \in Int
         /\ t < zone.change => WallClock(t, zone) = t + zone.before
         /\ t >= zone.change => WallClock(t, zone) = t + zone.after
         /\ zone.before \in Int /\ zone.after \in Int /\ zone.change \in Int
  BY DEF Moves, WallClock, Offset

LEMMA TwinsNear ==
  ASSUME NEW zone, Moves(zone), NEW t \in Int, NEW u \in Int, WallClock(u, zone) = WallClock(t, zone)
  PROVE  u \in t - 2 * Hour..t + 2 * Hour
<1>1. Hour \in Nat
  BY CalendarAssumption
<1>2. zone.before - zone.after \in -2 * Hour..2 * Hour
  BY DEF Moves
<1>. DEFINE H == 2 * Hour
            d == zone.before - zone.after
<1>3. H \in Nat /\ d <= H /\ -H <= d
  BY <1>1, <1>2, ClockIs
<1>4. u - t \in {0, d, -d}
  BY ClockIs
<1>. HIDE DEF H
<1>5. u \in t - H..t + H
  BY <1>3, <1>4, ClockIs
<1>. QED BY <1>5 DEF H

(* Its instant is found again from its time of the clock, ... *)
LEMMA AloneBack ==
  ASSUME NEW zone, Moves(zone), NEW t \in Int, Alone(t, zone)
  PROVE  FromWallClock(WallClock(t, zone), zone) = t
<1>. DEFINE w == WallClock(t, zone)
            b == zone.before
            a == zone.after
            c == zone.change
<1>1. w \in Int /\ b \in Int /\ a \in Int /\ c \in Int /\ (t < c => w = t + b) /\ (t >= c => w = t + a)
  BY ClockIs
<1>2. w - b < c => w - b = t
  BY <1>1, ClockIs DEF Alone
<1>3. w - a >= c => w - a = t
  BY <1>1, ClockIs DEF Alone
<1>. HIDE DEF w
<1>4. FromWallClock(w, zone) = t
  BY <1>1, <1>2, <1>3 DEF FromWallClock, Offset
<1>. QED BY <1>4 DEF w

(* ... and it is before and after other minutes as its time is. *)
LEMMA AloneInOrder ==
  ASSUME NEW zone, Moves(zone), NEW t \in Int, Alone(t, zone), NEW s \in Int
  PROVE  /\ s <= t => WallClock(s, zone) <= WallClock(t, zone)
         /\ t < s => WallClock(t, zone) < WallClock(s, zone)
<1>. DEFINE w == WallClock(t, zone)
            b == zone.before
            a == zone.after
            c == zone.change
<1>1. w \in Int /\ b \in Int /\ a \in Int /\ c \in Int /\ (t < c => w = t + b) /\ (t >= c => w = t + a)
  BY ClockIs
<1>2. w - b < c => w - b = t
  BY <1>1, ClockIs DEF Alone
<1>3. w - a >= c => w - a = t
  BY <1>1, ClockIs DEF Alone
<1>4. (s < c => WallClock(s, zone) = s + b) /\ (s >= c => WallClock(s, zone) = s + a)
  BY ClockIs
<1>. HIDE DEF w
<1>5. /\ s <= t => WallClock(s, zone) <= w
      /\ t < s => w < WallClock(s, zone)
  BY <1>1, <1>2, <1>3, <1>4
<1>. QED BY <1>5 DEF w

(* The search goes on for more than a day and two hours. *)
LEMMA SearchedFar ==
  ASSUME NEW s \in Int, NEW w \in Int, w <= s + Day * Hour - 1 + 2 * Hour
  PROVE  w <= (DayOf(s) + SearchDays) * Day * Hour - 1
<1>1. Hour \in Nat \ {0} /\ Day \in Nat /\ Day >= 2 /\ SearchDays \in Nat /\ SearchDays >= 3
  BY CalendarAssumption, PlansAssumption
<1>. DEFINE L == Hour * Day
            q == s \div L
            r == s % L
<1>2. L \in Nat \ {0} /\ Day * Hour = L /\ Hour * 2 <= L
  BY <1>1, Times
<1>. HIDE DEF L
<1>3. q \in Int /\ r \in 0..(L - 1) /\ s = L * q + r
  BY <1>2, DivMod
<1>. HIDE DEF q, r
<1>4. (q + SearchDays) * Day * Hour = (q + SearchDays) * L
  <2>. DEFINE k == q + SearchDays
  <2>1. k \in Int
    BY <1>1, <1>3
  <2>. HIDE DEF k
  <2>2. k * Day * Hour = k * (Hour * Day)
    BY <1>1, <2>1
  <2>. QED BY <2>2 DEF L, k
<1>5. (q + SearchDays) * L = L * q + L * SearchDays
  BY <1>1, <1>2, <1>3
<1>6. L * 3 <= L * SearchDays /\ L * SearchDays \in Int /\ L * q \in Int
  BY <1>1, <1>2, <1>3, Times
<1>7. w <= L * q + L * SearchDays - 1
  BY <1>1, <1>2, <1>3, <1>6
<1>8. DayOf(s) = q
  BY DEF DayOf, q, L
<1>. DEFINE far == (DayOf(s) + SearchDays) * Day * Hour
<1>9. far = L * q + L * SearchDays
  BY <1>4, <1>5, <1>8
<1>10. L * q + L * SearchDays - 1 = (L * q + L * SearchDays) - 1
  BY <1>6
<1>. HIDE DEF far
<1>11. w <= far - 1
  BY <1>7, <1>9, <1>10
<1>. QED BY <1>11 DEF far

(* Occurrences of a cron after A: the earliest and what is before it. *)
LEMMA OccurrenceIs ==
  ASSUME NEW cron, NEW A \in Nat, NEW zone, Moves(zone), Nothing \notin Int
  PROVE  LET next == NextOccurrence(cron, A, zone)
         IN  /\ next # Nothing => next \in Int /\ next > A /\ Fires(cron, WallClock(next, zone))
             /\ \A t \in Int : t > A /\ Alone(t, zone) /\ Fires(cron, WallClock(t, zone)) =>
                  IF next = Nothing THEN t > A + Day * Hour ELSE next <= t
<1>. DEFINE start == WallClock(A + 1, zone)
            last  == (DayOf(start) + SearchDays) * Day * Hour - 1
            Occ   == Occurrences(cron, A, zone, start)
            next  == NextOccurrence(cron, A, zone)
            w0    == Earliest(Occ)
<1>1. start \in Int
  BY ClockIs
<1>2. \A w : w \in Occ <=> /\ w \in start..last /\ Fires(cron, w) /\ FromWallClock(w, zone) > A
                            /\ WallClock(FromWallClock(w, zone), zone) = w
  BY DEF Occurrences
<1>3. last \in Int
  BY <1>1, CalendarAssumption DEF DayOf
<1>4. Occ \subseteq Int /\ \A w \in Occ : start <= w /\ w <= last
  <2>. HIDE DEF Occ, start, last
  <2>. QED BY <1>1, <1>2, <1>3
<1>5. \A w \in Int : FromWallClock(w, zone) \in Int
  BY ClockIs DEF FromWallClock, Offset
<1>6. next = Instant(w0, zone)
  BY DEF NextOccurrence
<1>7. /\ Occ = {} => w0 = Nothing
      /\ Occ # {} => w0 \in Occ /\ \A w \in Occ : w0 <= w
  <2>. HIDE DEF Occ, start
  <2>1. CASE Occ = {}
    BY <2>1 DEF Earliest
  <2>2. CASE Occ # {}
    <3>1. \E x \in Occ : \A y \in Occ : x <= y
      BY <1>1, <1>4, <2>2, LeastFrom
    <3>2. Min(Occ) \in Occ
      BY <3>1 DEF Min
    <3>3. \A w \in Occ : Min(Occ) <= w
      BY <3>1 DEF Min
    <3>4. w0 = Min(Occ)
      BY <2>2 DEF Earliest
    <3>. QED BY <2>2, <3>2, <3>3, <3>4
  <2>. QED BY <2>1, <2>2
<1>. HIDE DEF Occ, w0, next, last, start
<1>8. Occ # {} => w0 # Nothing /\ next = FromWallClock(w0, zone) /\ next \in Int /\ next # Nothing
  <2>1. Occ # {} => w0 \in Int
    BY <1>4, <1>7
  <2>2. Occ # {} => w0 # Nothing
    BY <2>1
  <2>3. Occ # {} => next = FromWallClock(w0, zone)
    BY <1>6, <2>2 DEF Instant
  <2>4. Occ # {} => next \in Int
    BY <1>5, <2>1, <2>3
  <2>. QED BY <2>2, <2>3, <2>4
<1>9. Occ = {} => next = Nothing
  BY <1>6, <1>7 DEF Instant
<1>10. Occ # {} => next > A /\ Fires(cron, WallClock(next, zone)) /\ WallClock(next, zone) = w0
  BY <1>2, <1>7, <1>8
<1>11. ASSUME NEW t \in Int, t > A, Alone(t, zone), Fires(cron, WallClock(t, zone))
       PROVE  IF next = Nothing THEN t > A + Day * Hour ELSE next <= t
  <2>. DEFINE w == WallClock(t, zone)
  <2>1. w \in Int /\ start <= w /\ FromWallClock(w, zone) = t
    BY <1>11, ClockIs, AloneBack, AloneInOrder DEF start
  <2>2. w <= last => w \in Occ
    BY <1>1, <1>2, <1>3, <1>11, <2>1
  <2>3. CASE next = Nothing
    <3>1. ~(w <= last)
      BY <1>8, <1>9, <2>2, <2>3
    <3>2. Hour \in Nat /\ Day \in Nat /\ Day * Hour \in Nat
      BY CalendarAssumption
    <3>. DEFINE D == Day * Hour
                H == 2 * Hour
    <3>3. ~(w <= start + D - 1 + H)
      <4>1. w <= start + Day * Hour - 1 + 2 * Hour => w <= last
        BY <1>1, <2>1, SearchedFar DEF last
      <4>. QED BY <3>1, <4>1
    <3>4. zone.before - zone.after <= H /\ zone.after - zone.before <= H
      BY ClockIs, <3>2 DEF Moves
    <3>5. w - start <= t - (A + 1) + H
      <4>. HIDE DEF H
      <4>1. H \in Nat
        BY <3>2 DEF H
      <4>. QED BY <1>1, <2>1, <3>4, <4>1, ClockIs DEF start
    <3>. HIDE DEF D, H, w
    <3>6. D \in Nat /\ H \in Nat
      BY <3>2 DEF D, H
    <3>7. t > A + D
      BY <1>1, <2>1, <3>3, <3>5, <3>6
    <3>. QED BY <2>3, <3>7 DEF D
  <2>4. CASE next # Nothing
    <3>1. Occ # {} /\ w0 \in Int
      BY <1>4, <1>7, <1>9, <2>4
    <3>2. SUFFICES ASSUME t < next PROVE FALSE
      BY <1>8, <2>4, <3>1
    <3>3. w < w0
      BY <1>8, <1>10, <3>1, <3>2, <1>11, AloneInOrder
    <3>4. w <= last
      BY <1>3, <1>4, <1>7, <2>1, <3>1, <3>3
    <3>5. w0 <= w
      BY <1>7, <2>2, <3>1, <3>4
    <3>. QED BY <2>1, <3>1, <3>3, <3>5
  <2>. QED BY <2>3, <2>4
<1>. QED BY <1>8, <1>9, <1>10, <1>11 DEF next

LEMMA MaxIs == ASSUME NEW a \in Int, NEW b \in Int PROVE Max({a, b}) \in Int /\ a <= Max({a, b}) /\ b <= Max({a, b}) /\ Max({a, b}) \in {a, b}
<1>. DEFINE x == Max({a, b})
<1>1. \E m \in {a, b} : \A y \in {a, b} : m >= y
  OBVIOUS
<1>2. x \in {a, b}
  BY <1>1 DEF Max
<1>3. \A y \in {a, b} : x >= y
  BY <1>1 DEF Max
<1>. HIDE DEF x
<1>. QED BY <1>2, <1>3 DEF x

LEMMA MinIs == ASSUME NEW a \in Int, NEW b \in Int PROVE Min({a, b}) \in Int /\ Min({a, b}) <= a /\ Min({a, b}) <= b
<1>. DEFINE x == Min({a, b})
<1>1. \E m \in {a, b} : \A y \in {a, b} : m <= y
  OBVIOUS
<1>2. x \in {a, b}
  BY <1>1 DEF Min
<1>3. \A y \in {a, b} : x <= y
  BY <1>1 DEF Min
<1>. HIDE DEF x
<1>. QED BY <1>2, <1>3 DEF x

LEMMA OneEarliest == ASSUME NEW x \in Int PROVE Earliest({x}) = x
<1>1. Min({x}) = x
  BY DEF Min
<1>. QED BY <1>1 DEF Earliest

(* The next run is the next occurrence, unless one of the ends is reached. *)
LEMMA NextRunIs ==
  ASSUME NEW is, is.cron # Nothing, is.scheduledAt \in Nat, is.endsAt \in Int, NEW zone, Moves(zone), NEW after \in Nat, NEW runs
  PROVE  LET A    == IF is.scheduledAt > after THEN is.scheduledAt - 1 ELSE after
             next == NextOccurrence(ParseCron(is.cron), A, zone)
         IN  NextRunAt(is, zone, after, runs) = IF Ended(is, runs, next) THEN Nothing ELSE next
<1>. DEFINE A    == IF is.scheduledAt > after THEN is.scheduledAt - 1 ELSE after
            next == NextOccurrence(ParseCron(is.cron), A, zone)
<1>1. NextRunAt(is, zone, after, runs) = Earliest({x \in {next} : ~Ended(is, runs, x)})
  BY DEF NextRunAt
<1>2. A \in Nat
  OBVIOUS
<1>3. next # Nothing => next \in Int
  <2>. HIDE DEF A
  <2>. QED BY <1>2, OccurrenceIs, ChannelsAssumption
<1>. HIDE DEF next
<1>4. CASE Ended(is, runs, next)
  <2>1. {x \in {next} : ~Ended(is, runs, x)} = {}
    BY <1>4
  <2>. QED BY <1>1, <1>4, <2>1 DEF Earliest, next
<1>5. CASE ~Ended(is, runs, next)
  <2>1. {x \in {next} : ~Ended(is, runs, x)} = {next}
    BY <1>5
  <2>2. next \in Int
    BY <1>3, <1>5 DEF Ended
  <2>. QED BY <1>1, <1>5, <2>1, <2>2, OneEarliest DEF next
<1>. QED BY <1>4, <1>5

LEMMA NoTwinAlone ==
  ASSUME NEW zone, Moves(zone), NEW t \in Int,
         ~ \E u \in t - 2 * Hour..t + 2 * Hour : t # u /\ WallClock(t, zone) = WallClock(u, zone)
  PROVE  Alone(t, zone)
  BY TwinsNear DEF Alone

(* nextRunAt skips no time the cron names: between the minute the next run *)
(* was counted from and that run there is none, but one whose time of the  *)
(* clock comes twice; and when there is no next run though no end of the   *)
(* recurrence is reached, there is none for a day.                         *)
THEOREM NoRunSkippedSafe == Spec => []NoRunSkipped
<1>1. PlanInv => NoRunSkipped
  <2>. SUFFICES ASSUME PlanInv, plan.is.cron # Nothing, plan.status \in {"scheduled", "paused"}, plan.runs < plan.is.maxRuns
                PROVE  LET cron  == ParseCron(plan.is.cron)
                           until == IF plan.next = Nothing THEN Min({plan.is.endsAt, plan.from + Day * Hour}) ELSE plan.next - 1
                       IN /\ plan.next # Nothing => Fires(cron, WallClock(plan.next, plan.zone)) /\ plan.next > plan.from
                          /\ \A t \in Max({plan.from + 1, plan.is.scheduledAt})..until :
                               Fires(cron, WallClock(t, plan.zone)) => \E u \in t - 2 * Hour..t + 2 * Hour : Twin(t, u)
    BY DEF NoRunSkipped
  <2>. DEFINE is   == plan.is
              zone == plan.zone
              from == plan.from
              cron == ParseCron(is.cron)
              A    == IF is.scheduledAt > from THEN is.scheduledAt - 1 ELSE from
              next == NextOccurrence(cron, A, zone)
              far  == from + Day * Hour
              until == IF plan.next = Nothing THEN Min({is.endsAt, far}) ELSE plan.next - 1
              first == Max({from + 1, is.scheduledAt})
  <2>1. is.scheduledAt \in Nat /\ is.endsAt \in Int /\ Moves(zone) /\ from \in Nat
    BY PlansAssumption DEF PlanInv
  <2>2. plan.next = NextRunAt(is, zone, from, plan.runs)
    BY DEF PlanInv, ScheduledPlan
  <2>3. plan.next = IF Ended(is, plan.runs, next) THEN Nothing ELSE next
    BY <2>1, <2>2, NextRunIs
  <2>4. A \in Nat /\ A >= from
    BY <2>1
  <2>5. Nothing \notin Int
    BY ChannelsAssumption
  <2>6. /\ next # Nothing => next \in Int /\ next > A /\ Fires(cron, WallClock(next, zone))
        /\ \A t \in Int : t > A /\ Alone(t, zone) /\ Fires(cron, WallClock(t, zone)) =>
             IF next = Nothing THEN t > A + Day * Hour ELSE next <= t
    <3>. HIDE DEF A, cron, zone
    <3>. QED BY <2>1, <2>4, <2>5, OccurrenceIs DEF next
  <2>7. first \in Int /\ first > A
    <3>. DEFINE a == from + 1
                b == is.scheduledAt
    <3>1. a \in Int /\ b \in Int
      BY <2>1
    <3>. HIDE DEF a, b
    <3>2. Max({a, b}) \in Int /\ a <= Max({a, b}) /\ b <= Max({a, b})
      BY <3>1, MaxIs
    <3>. QED BY <2>1, <3>1, <3>2 DEF a, b
  <2>8. far \in Int /\ Min({is.endsAt, far}) \in Int /\ Min({is.endsAt, far}) <= is.endsAt /\ Min({is.endsAt, far}) <= far
        /\ Day * Hour \in Nat
    <3>1. Day * Hour \in Nat
      BY CalendarAssumption
    <3>2. far \in Int
      BY <2>1, <3>1
    <3>. HIDE DEF far
    <3>. QED BY <2>1, <3>1, <3>2, MinIs
  <2>9. Ended(is, plan.runs, next) <=> next = Nothing \/ (next # Nothing /\ next > is.endsAt)
    <3>1. ~ (plan.runs >= is.maxRuns)
      <4>1. plan.runs \in Nat /\ is.maxRuns \in Nat
        BY PlansAssumption DEF PlanInv
      <4>. QED BY <4>1
    <3>. QED BY <3>1 DEF Ended
  <2>. HIDE DEF A, cron, next, first, zone, from, is
  <2>10. plan.next # Nothing => Fires(cron, WallClock(plan.next, zone)) /\ plan.next > from
    BY <2>1, <2>3, <2>4, <2>6, <2>9
  <2>11. ASSUME NEW t \in first..until, Fires(cron, WallClock(t, zone)),
                ~ \E u \in t - 2 * Hour..t + 2 * Hour : Twin(t, u)
         PROVE  FALSE
    <3>0. until \in Int
      BY <2>3, <2>5, <2>6, <2>8
    <3>1. t \in Int /\ t > A /\ t <= until
      BY <2>4, <2>7, <3>0
    <3>2. Alone(t, zone)
      BY <2>1, <2>11, <3>1, NoTwinAlone DEF Twin, zone
    <3>3. IF next = Nothing THEN t > A + Day * Hour ELSE next <= t
      BY <2>6, <2>11, <3>1, <3>2
    <3>4. CASE plan.next # Nothing
      BY <2>3, <2>6, <3>1, <3>3, <3>4
    <3>5. CASE plan.next = Nothing /\ next # Nothing
      BY <2>1, <2>3, <2>6, <2>8, <2>9, <3>1, <3>3, <3>5
    <3>6. CASE plan.next = Nothing /\ next = Nothing
      <4>1. until <= far
        BY <2>8, <3>6
      <4>2. far <= A + Day * Hour
        BY <2>1, <2>4, <2>8
      <4>. HIDE DEF far, until
      <4>. QED BY <2>4, <2>8, <3>0, <3>1, <3>3, <3>6, <4>1, <4>2
    <3>. QED BY <3>4, <3>5, <3>6
  <2>. QED BY <2>10, <2>11 DEF first, cron, zone, from, is
<1>. QED BY <1>1, PlanSafe, PTL
=============================================================================
