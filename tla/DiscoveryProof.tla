--------------------------- MODULE DiscoveryProof ---------------------------
(***************************************************************************)
(* Theorems about Discovery, for any companies, upserts, requests, keys    *)
(* and acceptances, and with no bound on how many take part.               *)
(*                                                                         *)
(* Invitations: of a company's invites one is accepted, whatever the       *)
(* registry does to the company meanwhile, and a kept answer stays.        *)
(*                                                                         *)
(* Merges: whoever follows merged_into comes to a company that was not     *)
(* merged away, and nothing is held by one that was never committed.  A    *)
(* company is merged into an older one only, so the way down ends.         *)
(*                                                                         *)
(* Identity: the strong identifiers of a committed upsert lead to one      *)
(* company, unless a company was merged away twice.                        *)
(*                                                                         *)
(* Their hypotheses are RegistryAssumption and DiscoveryAssumption.        *)
(***************************************************************************)
EXTENDS Discovery, SumLemmas, TLAPS

---------------------------------------------------------------------------
(* What an acceptance relies on *)

(* The invite acceptance a is about; where it has a transaction; where a   *)
(* request has no invite yet.                                              *)
Mine(a) == accept[a].invite
Busy    == {"mark", "close", "commit"}
Early   == {"idle", "handler", "invitee"}

(* The kinds of values the steps rely on. *)
Shape ==
  /\ own = [t \in Txn |-> own[t]]
  /\ accept \in [Acceptor -> [pc : {"idle", "over"} \cup Busy, invite : Request \cup {Nothing}]]
  /\ request = [r \in Request |-> [pc |-> request[r].pc, company |-> request[r].company]]
  /\ earlier = [r \in Request |-> earlier[r]]
  /\ \A r \in Request : /\ Invite(r) \in DOMAIN db
                        /\ db[Invite(r)] = [status |-> db[Invite(r)].status, company |-> db[Invite(r)].company]

(* While its transaction is open an acceptance keeps its invite locked. *)
Holds(a) == accept[a].pc \in Busy =>
  Mine(a) \in Request /\ Invite(Mine(a)) \in DOMAIN own[a]

(* What it has written of invites: they are still "sent" for everybody     *)
(* else, its own becomes "accepted" and any other "expired", each of the   *)
(* company it was of.                                                      *)
Wrote(a) == \A r \in Request : Invite(r) \in DOMAIN own[a] =>
  /\ db[Invite(r)].status = "sent"
  /\ own[a][Invite(r)] = [status  |-> IF r = Mine(a) THEN "accepted" ELSE "expired",
                          company |-> db[Invite(r)].company]

(* Without a transaction nothing is locked. *)
Resting(a) == accept[a].pc \notin Busy => DOMAIN own[a] = {}

(* Once it has closed the others, every invite of the company that is      *)
(* still "sent" is one it closes, or was sent after it had.                *)
Closed(a) == accept[a].pc = "commit" =>
  \A s \in Request \ {Mine(a)} :
    db[Invite(s)].status = "sent" /\ db[Invite(s)].company = Joining(a)
      => Invite(s) \in DOMAIN own[a] \/ Mine(a) \in earlier[s]

(* Two acceptances never have the same row; a request that has not sent    *)
(* yet has no invite; no upsert has an invite locked.                      *)
Apart  == \A a, b \in Acceptor : a # b => DOMAIN own[a] \cap DOMAIN own[b] = {}
Unsent == \A r \in Request : request[r].pc \in Early => db[Invite(r)].status = "none"
NoInvites(rows) == \A r \in Request : Invite(r) \notin DOMAIN rows
NoInviteHeld == \A u \in Upsert : NoInvites(own[u])

(* After an acceptance only invites sent later are open. *)
Done == \A r, s \in Request :
  /\ r # s /\ db[Invite(r)].status = "accepted" /\ db[Invite(s)].status = "sent"
  /\ db[Invite(r)].company = db[Invite(s)].company
  => r \in earlier[s]

(* The inductive invariant. *)
AcceptInv ==
  /\ Shape /\ Apart /\ Unsent /\ NoInviteHeld /\ Done /\ OneAcceptance
  /\ \A a \in Acceptor : Holds(a) /\ Wrote(a) /\ Resting(a) /\ Closed(a)

(* The rows of an overlay. *)
LEMMA OverlayIs ==
  ASSUME NEW f, NEW g
  PROVE  /\ DOMAIN Overlay(f, g) = DOMAIN f \cup DOMAIN g
         /\ \A x \in DOMAIN f : Overlay(f, g)[x] = f[x]
         /\ \A x \in DOMAIN g : x \notin DOMAIN f => Overlay(f, g)[x] = g[x]
BY DEF Overlay

(* A single row. *)
LEMMA OneRowIs == ASSUME NEW x, NEW y PROVE DOMAIN OneRow(x, y) = {x} /\ OneRow(x, y)[x] = y
BY DEF OneRow

(* Rows without an invite, together, have none either. *)
LEMMA NoInvitesOver ==
  ASSUME NEW f, NEW g, NoInvites(f), NoInvites(g) PROVE NoInvites(Overlay(f, g))
<1>1. DOMAIN Overlay(f, g) = DOMAIN f \cup DOMAIN g
  BY OverlayIs
<1>. QED BY <1>1 DEF NoInvites

(* A row that is not an invite. *)
LEMMA NoInvitesOne ==
  ASSUME NEW x, NEW y, \A r \in Request : Invite(r) # x PROVE NoInvites(OneRow(x, y))
<1>1. DOMAIN OneRow(x, y) = {x}
  BY OneRowIs
<1>. QED BY <1>1 DEF NoInvites

(* No row at all. *)
LEMMA EmptyIs == DOMAIN <<>> = {}
OBVIOUS

(* An invite is no row of the registry, and the invites of two requests    *)
(* are two.                                                                *)
LEMMA RowsDiffer ==
  /\ \A r, s : Invite(r) = Invite(s) => r = s
  /\ \A c, d : Row(c) = Row(d) => c = d
  /\ \A r, x : Invite(r) # Row(x) /\ Invite(r) # Ident(x) /\ Invite(r) # Source(x) /\ Invite(r) # Profile(x)
  /\ \A r, t, c : Invite(r) # View(t, c)
BY DEF Invite, Row, Ident, Source, Profile, View

(* Upserts and acceptances have transactions of their own. *)
LEMMA Transactors == /\ \A u \in Upsert : u \in Txn /\ u \notin Acceptor
                     /\ \A a \in Acceptor : a \in Txn
BY RegistryAssumption, DiscoveryAssumption

(* No row, no invite. *)
LEMMA NoInvitesEmpty == NoInvites(<<>>)
BY EmptyIs DEF NoInvites

(* A step that touches no invite, acceptance or row an acceptance has      *)
(* written.                                                                *)
LEMMA InvitesStay ==
  ASSUME AcceptInv, UNCHANGED <<accept, earlier>>,
         \A r \in Request : Invite(r) \in DOMAIN db' /\ db'[Invite(r)] = db[Invite(r)],
         \A a \in Acceptor : own'[a] = own[a],
         own' = [t \in Txn |-> own'[t]],
         request' = [r \in Request |-> [pc |-> request'[r].pc, company |-> request'[r].company]],
         \A r \in Request : request'[r].pc \in Early => request[r].pc \in Early,
         NoInviteHeld'
  PROVE  AcceptInv'
<1>1. Shape' /\ Apart' /\ Unsent'
  BY DEF AcceptInv, Shape, Apart, Unsent
<1>2. Done' /\ OneAcceptance'
  BY DEF AcceptInv, Done, OneAcceptance
<1>3. ASSUME NEW a \in Acceptor PROVE Holds(a)' /\ Wrote(a)' /\ Resting(a)' /\ Closed(a)'
  <2>1. Holds(a) /\ Wrote(a) /\ Resting(a) /\ Closed(a)
    BY DEF AcceptInv
  <2>2. Holds(a)'
    BY <2>1 DEF Holds, Joining, Mine
  <2>3. Wrote(a)'
    BY <2>1 DEF Wrote, Mine
  <2>4. Resting(a)'
    BY <2>1 DEF Resting
  <2>5. Closed(a)'
    <3>1. accept[a].pc = "commit" => Mine(a) \in Request
      BY <2>1 DEF Holds, Busy
    <3>. QED BY <2>1, <3>1 DEF Closed, Mine, Joining
  <2>. QED BY <2>2, <2>3, <2>4, <2>5
<1>. QED BY <1>1, <1>2, <1>3 DEF AcceptInv

---------------------------------------------------------------------------
(* The registry's steps touch no invite *)

(* What a step of the registry leaves of the invites. *)
OwnStays == /\ own' = [t \in Txn |-> own'[t]] /\ \A a \in Acceptor : own'[a] = own[a]
            /\ NoInviteHeld'
DbStays  == \A r \in Request : Invite(r) \in DOMAIN db' /\ db'[Invite(r)] = db[Invite(r)]

(* A step that writes nothing in a transaction. *)
LEMMA OwnKept ==
  ASSUME AcceptInv, UNCHANGED own PROVE OwnStays
BY DEF AcceptInv, Shape, NoInviteHeld, OwnStays

(* A step that commits nothing. *)
LEMMA DbKept ==
  ASSUME AcceptInv, UNCHANGED db PROVE DbStays
BY DEF AcceptInv, Shape, DbStays

(* An upsert sets its rows to rows without an invite. *)
LEMMA OwnSet ==
  ASSUME AcceptInv, NEW u \in Upsert, NEW rows, own' = [own EXCEPT ![u] = rows],
         NoInvites(rows)
  PROVE  OwnStays
<1>1. own = [t \in Txn |-> own[t]] /\ u \in Txn /\ u \notin Acceptor /\ \A v \in Upsert : v \in Txn
  BY Transactors DEF AcceptInv, Shape
<1>2. own' = [t \in Txn |-> IF t = u THEN rows ELSE own[t]]
  BY <1>1
<1>3. \A t \in Txn : own'[t] = IF t = u THEN rows ELSE own[t]
  BY <1>2
<1>4. own' = [t \in Txn |-> own'[t]]
  BY <1>2, <1>3
<1>5. \A a \in Acceptor : own'[a] = own[a]
  BY <1>1, <1>3, Transactors
<1>6. NoInviteHeld'
  <2>1. \A v \in Upsert : NoInvites(own[v])
    BY DEF NoInviteHeld, AcceptInv
  <2>. QED BY <2>1, <1>1, <1>3 DEF NoInviteHeld, NoInvites
<1>. QED BY <1>4, <1>5, <1>6 DEF OwnStays

(* An upsert writes rows that are no invites. *)
LEMMA OwnWritten ==
  ASSUME AcceptInv, NEW u \in Upsert, NEW new, Write(u, new), NoInvites(new)
  PROVE  OwnStays
<1>1. own' = [own EXCEPT ![u] = Overlay(new, own[u])]
  BY DEF Write
<1>2. NoInvites(Overlay(new, own[u]))
  BY NoInvitesOver DEF AcceptInv, NoInviteHeld
<1>. QED BY <1>1, <1>2, OwnSet

(* An upsert rolls back. *)
LEMMA OwnEmptied ==
  ASSUME AcceptInv, NEW u \in Upsert, RollBack(u)
  PROVE  OwnStays
BY OwnSet, NoInvitesEmpty DEF RollBack

(* A statement of its own stores rows that are no invites. *)
LEMMA DbStored ==
  ASSUME AcceptInv, NEW new, Store(new), NoInvites(new)
  PROVE  DbStays
<1>1. db' = Overlay(new, db) /\ \A r \in Request : Invite(r) \in DOMAIN db
  BY DEF Store, AcceptInv, Shape
<1>2. \A x \in DOMAIN db : x \in DOMAIN Overlay(new, db) /\ (x \notin DOMAIN new => Overlay(new, db)[x] = db[x])
  BY DEF Overlay
<1>. QED BY <1>1, <1>2 DEF DbStays, NoInvites

(* Every step of an upsert leaves the invites alone. *)
LEMMA UpsertRows ==
  ASSUME AcceptInv, NEW u \in Upsert, UpsertStep(u)
  PROVE  OwnStays /\ DbStays
<1>1. CASE RejectRow(u) \/ Begin(u) \/ LookUp(u) \/ Matched(u) \/ LinkByName(u)
  BY <1>1, OwnKept, DbKept DEF RejectRow, Begin, LookUp, Matched, LinkByName
<1>2. CASE InsertCompany(u)
  <2>1. PICK row : Write(u, OneRow(Row(u), row))
    BY <1>2 DEF InsertCompany
  <2>2. NoInvites(OneRow(Row(u), row))
    BY NoInvitesOne, RowsDiffer
  <2>. QED BY <1>2, <2>1, <2>2, OwnWritten, DbKept DEF InsertCompany
<1>3. CASE MergeIdents(u) \/ MergeSources(u)
  <2>1. PICK rows : Write(u, Moved(u, rows)) /\ (rows = {Ident(i) : i \in Identifier} \/ rows = {Source(v) : v \in Upsert})
    BY <1>3 DEF MergeIdents, MergeSources
  <2>2. NoInvites(Moved(u, rows))
    BY <2>1, RowsDiffer DEF NoInvites, Moved, OfLoser
  <2>. QED BY <1>3, <2>1, <2>2, OwnWritten, DbKept DEF MergeIdents, MergeSources
<1>4. CASE MergeViews(u) \/ MoveViews(u)
  <2>. DEFINE views == {View(t, c) : t \in Tenant, c \in {up[u].company, Losing(u)}}
  <2>1. PICK new : Write(u, new) /\ DOMAIN new \subseteq views
    <3>1. CASE MergeViews(u)
      <4>1. PICK f, g, both : Write(u, Overlay(f, g)) /\ both \subseteq Tenant
                              /\ DOMAIN f = {View(t, up[u].company) : t \in both} /\ DOMAIN g = {View(t, Losing(u)) : t \in both}
        <5>. DEFINE d == Seen(u)
                    b == {t \in Tenant : d[View(t, Losing(u))].exists /\ d[View(t, up[u].company)].exists}
                    f == [r \in {View(t, up[u].company) : t \in b} |-> [d[r] EXCEPT !.tags = @ \cup d[View(r[2], Losing(u))].tags]]
                    g == [r \in {View(t, Losing(u)) : t \in b} |-> NoView]
        <5>1. Write(u, Overlay(f, g))
          BY <3>1 DEF MergeViews
        <5>2. b \subseteq Tenant /\ DOMAIN f = {View(t, up[u].company) : t \in b} /\ DOMAIN g = {View(t, Losing(u)) : t \in b}
          OBVIOUS
        <5>. HIDE DEF f, g, b, d
        <5>. QED BY <5>1, <5>2
      <4>2. DOMAIN Overlay(f, g) = DOMAIN f \cup DOMAIN g
        BY OverlayIs
      <4>3. DOMAIN Overlay(f, g) \subseteq views
        BY <4>1, <4>2
      <4>. QED BY <4>1, <4>3
    <3>2. CASE MoveViews(u)
      <4>1. PICK f, g, both : Write(u, Overlay(f, g)) /\ both \subseteq Tenant
                              /\ DOMAIN f = {View(t, up[u].company) : t \in both} /\ DOMAIN g = {View(t, Losing(u)) : t \in both}
        <5>. DEFINE f == [r \in {View(t, up[u].company) : t \in Movable(u)} |-> Seen(u)[View(r[2], Losing(u))]]
                    g == [r \in {View(t, Losing(u)) : t \in Movable(u)} |-> NoView]
        <5>1. Write(u, Overlay(f, g))
          BY <3>2 DEF MoveViews
        <5>2. Movable(u) \subseteq Tenant /\ DOMAIN f = {View(t, up[u].company) : t \in Movable(u)}
              /\ DOMAIN g = {View(t, Losing(u)) : t \in Movable(u)}
          BY DEF Movable
        <5>. HIDE DEF f, g
        <5>. QED BY <5>1, <5>2
      <4>2. DOMAIN Overlay(f, g) = DOMAIN f \cup DOMAIN g
        BY OverlayIs
      <4>3. DOMAIN Overlay(f, g) \subseteq views
        BY <4>1, <4>2
      <4>. QED BY <4>1, <4>3
    <3>. QED BY <1>4, <3>1, <3>2
  <2>2. NoInvites(new)
    BY <2>1, RowsDiffer DEF NoInvites
  <2>. QED BY <1>4, <2>1, <2>2, OwnWritten, DbKept DEF MergeViews, MoveViews
<1>5. CASE PointAtSurvivor(u)
  <2>1. PICK row : Write(u, OneRow(Row(Losing(u)), row))
    BY <1>5 DEF PointAtSurvivor
  <2>2. NoInvites(OneRow(Row(Losing(u)), row))
    BY NoInvitesOne, RowsDiffer
  <2>. QED BY <1>5, <2>1, <2>2, OwnWritten, DbKept DEF PointAtSurvivor
<1>6. CASE Attach(u)
  <2>1. PICK i : own' = [own EXCEPT ![u] = Overlay(OneRow(Ident(i), up[u].company), @)] \/ own' = [own EXCEPT ![u] = @]
    BY <1>6 DEF Attach
  <2>2. NoInvites(own[u]) /\ NoInvites(Overlay(OneRow(Ident(i), up[u].company), own[u]))
    <3>1. NoInvites(OneRow(Ident(i), up[u].company))
      BY NoInvitesOne, RowsDiffer
    <3>. QED BY <3>1, NoInvitesOver DEF AcceptInv, NoInviteHeld
  <2>3. OwnStays
    BY <2>1, <2>2, OwnSet
  <2>. QED BY <1>6, <2>3, DbKept DEF Attach
<1>7. CASE UpdateFacts(u)
  <2>1. UNCHANGED own \/ \E row : Write(u, OneRow(Row(up[u].company), row))
    BY <1>7 DEF UpdateFacts
  <2>2. \A row : NoInvites(OneRow(Row(up[u].company), row))
    BY NoInvitesOne, RowsDiffer
  <2>3. OwnStays
    BY <2>1, <2>2, OwnWritten, OwnKept
  <2>. QED BY <1>7, <2>3, DbKept DEF UpdateFacts
<1>8. CASE WriteSourceAndView(u)
  <2>1. PICK a, b : Write(u, Overlay(OneRow(Source(u), a), OneRow(View(TenantOf[u], up[u].company), b)))
    BY <1>8 DEF WriteSourceAndView
  <2>2. NoInvites(Overlay(OneRow(Source(u), a), OneRow(View(TenantOf[u], up[u].company), b)))
    <3>1. NoInvites(OneRow(Source(u), a)) /\ NoInvites(OneRow(View(TenantOf[u], up[u].company), b))
      BY NoInvitesOne, RowsDiffer
    <3>. QED BY <3>1, NoInvitesOver
  <2>. QED BY <1>8, <2>1, <2>2, OwnWritten, DbKept DEF WriteSourceAndView
<1>9. CASE CommitUpsert(u)
  <2>1. db' = Overlay(own[u], db) /\ own' = [own EXCEPT ![u] = <<>>]
    BY <1>9 DEF CommitUpsert, Commit, Seen
  <2>2. OwnStays
    BY <2>1, OwnSet, NoInvitesEmpty
  <2>3. DbStays
    <3>1. \A x \in DOMAIN db : x \in DOMAIN Overlay(own[u], db) /\ (x \notin DOMAIN own[u] => Overlay(own[u], db)[x] = db[x])
      BY DEF Overlay
    <3>2. NoInvites(own[u])
      BY DEF AcceptInv, NoInviteHeld
    <3>. QED BY <2>1, <3>1, <3>2 DEF DbStays, AcceptInv, Shape, NoInvites
  <2>. QED BY <2>2, <2>3
<1>10. CASE Abort(u)
  BY <1>10, OwnEmptied, DbKept DEF Abort
<1>11. CASE Describe(u)
  <2>1. NoInvites(OneRow(Profile(up[u].company), TRUE))
    BY NoInvitesOne, RowsDiffer
  <2>. QED BY <1>11, <2>1, DbStored, OwnKept DEF Describe
<1>. QED BY <1>1, <1>2, <1>3, <1>4, <1>5, <1>6, <1>7, <1>8, <1>9, <1>10, <1>11 DEF UpsertStep, Merging

(* So does an edit of a view or a profile. *)
LEMMA EditRows ==
  ASSUME AcceptInv, NEW w \in Writer, Edit(w)
  PROVE  OwnStays /\ DbStays
<1>1. CASE ResolveFor(w)
  BY <1>1, OwnKept, DbKept DEF ResolveFor
<1>2. CASE PutView(w) \/ PutProfile(w)
  <2>1. PICK x, v : Store(OneRow(x, v)) /\ (x = View(TenantOf[w], writer[w]) \/ x = Profile(writer[w]))
    BY <1>2 DEF PutView, PutProfile
  <2>2. NoInvites(OneRow(x, v))
    BY <2>1, NoInvitesOne, RowsDiffer
  <2>. QED BY <1>2, <2>1, <2>2, DbStored, OwnKept DEF PutView, PutProfile
<1>. QED BY <1>1, <1>2 DEF Edit

(* And with them every step of the pool. *)
LEMMA PoolAccept ==
  ASSUME AcceptInv, PoolStep, UNCHANGED <<request, accept, earlier>>
  PROVE  AcceptInv'
<1>1. OwnStays /\ DbStays
  BY UpsertRows, EditRows DEF PoolStep
<1>. QED BY <1>1, InvitesStay DEF OwnStays, DbStays, AcceptInv, Shape

---------------------------------------------------------------------------
(* The steps of a request *)

(* A request moves. *)
LEMMA StepRequest ==
  ASSUME AcceptInv, NEW r \in Request, NEW row, row = [pc |-> row.pc, company |-> row.company],
         row.pc \in Early => request[r].pc \in Early,
         request' = [request EXCEPT ![r] = row]
  PROVE  /\ request' = [q \in Request |-> [pc |-> request'[q].pc, company |-> request'[q].company]]
         /\ \A q \in Request : request'[q].pc \in Early => request[q].pc \in Early
         /\ request'[r] = row
<1>1. request = [q \in Request |-> [pc |-> request[q].pc, company |-> request[q].company]]
  BY DEF AcceptInv, Shape
<1>2. \A q \in Request : request'[q] = IF q = r THEN row ELSE request[q]
  BY <1>1
<1>3. request' = [q \in Request |-> request'[q]]
  BY <1>1
<1>. QED BY <1>1, <1>2, <1>3

(* A request moves and keeps its company. *)
LEMMA StepPc ==
  ASSUME AcceptInv, NEW r \in Request, NEW pc, Step(r, pc), pc \in Early => request[r].pc \in Early
  PROVE  /\ request' = [q \in Request |-> [pc |-> request'[q].pc, company |-> request'[q].company]]
         /\ \A q \in Request : request'[q].pc \in Early => request[q].pc \in Early
         /\ request'[r].pc = pc
<1>. DEFINE row == [pc |-> pc, company |-> request[r].company]
<1>1. request[r] = [pc |-> request[r].pc, company |-> request[r].company]
  BY DEF AcceptInv, Shape
<1>2. request' = [request EXCEPT ![r] = row]
  <2>1. [request[r] EXCEPT !.pc = pc] = row
    BY <1>1
  <2>2. request' = [request EXCEPT ![r] = [request[r] EXCEPT !.pc = pc]]
    BY Zenon DEF Step
  <2>. QED BY <2>1, <2>2
<1>3. row = [pc |-> row.pc, company |-> row.company] /\ row.pc = pc
  OBVIOUS
<1>. HIDE DEF row
<1>. QED BY <1>2, <1>3, StepRequest

(* The steps of a request that send nothing. *)
LEMMA QuietRequest ==
  ASSUME AcceptInv, NEW r \in Request,
         LookUpKey(r) \/ ResolveInvitee(r) \/ InviteBlocked(r) \/ RequestFails(r) \/ StoreAnswer(r)
  PROVE  AcceptInv'
<1>1. OwnStays /\ DbStays /\ UNCHANGED <<accept, earlier>>
  <2>1. UNCHANGED <<own, db, accept, earlier>>
    BY DEF LookUpKey, ResolveInvitee, InviteBlocked, RequestFails, StoreAnswer
  <2>. QED BY <2>1, OwnKept, DbKept
<1>2. /\ request' = [q \in Request |-> [pc |-> request'[q].pc, company |-> request'[q].company]]
      /\ \A q \in Request : request'[q].pc \in Early => request[q].pc \in Early
  <2>1. CASE LookUpKey(r)
    <3>1. request[r].pc \in Early /\ \E pc : Step(r, pc)
      BY <2>1 DEF LookUpKey, Early
    <3>. QED BY <3>1, StepPc
  <2>2. CASE ResolveInvitee(r)
    <3>. DEFINE row == [pc |-> "invitee", company |-> Resolve(db, CompanyOf[r])]
    <3>1. request[r].pc \in Early /\ request' = [request EXCEPT ![r] = row]
      BY <2>2 DEF ResolveInvitee, Early
    <3>2. row = [pc |-> row.pc, company |-> row.company]
      OBVIOUS
    <3>. HIDE DEF row
    <3>. QED BY <3>1, <3>2, StepRequest
  <2>3. CASE InviteBlocked(r) \/ RequestFails(r) \/ StoreAnswer(r)
    <3>1. PICK pc : Step(r, pc) /\ pc \in {"answered", "cut", "over"}
      BY <2>3 DEF InviteBlocked, RequestFails, StoreAnswer
    <3>. QED BY <3>1, StepPc DEF Early
  <2>. QED BY <2>1, <2>2, <2>3
<1>. QED BY <1>1, <1>2, InvitesStay DEF OwnStays, DbStays

(* A new invite: it was not there, no acceptance has it, and those that    *)
(* have closed the others are noted as earlier.                            *)
LEMMA SendKeeps ==
  ASSUME AcceptInv, NEW r \in Request, SendInvite(r)
  PROVE  AcceptInv'
<1>. DEFINE c == request[r].company
            row == [status |-> "sent", company |-> c]
<1>1. /\ request[r].pc = "invitee" /\ Step(r, "answered")
      /\ Store(OneRow(Invite(r), row))
      /\ earlier' = [earlier EXCEPT ![r] = Joined(c)]
      /\ UNCHANGED <<own, accept>>
  BY DEF SendInvite
<1>2. db[Invite(r)].status = "none"
  BY <1>1 DEF AcceptInv, Unsent, Early
<1>3. DOMAIN OneRow(Invite(r), row) = {Invite(r)} /\ OneRow(Invite(r), row)[Invite(r)] = row
  BY OneRowIs
<1>4. db' = Overlay(OneRow(Invite(r), row), db) /\ \A t \in Txn : Invite(r) \notin DOMAIN own[t]
  BY <1>1, <1>3 DEF Store
<1>5. /\ Invite(r) \in DOMAIN db' /\ db'[Invite(r)] = row
      /\ \A q \in Request \ {r} : Invite(q) \in DOMAIN db' /\ db'[Invite(q)] = db[Invite(q)]
  <2>1. \A x \in DOMAIN db : x \in DOMAIN db' /\ (x # Invite(r) => db'[x] = db[x])
    BY <1>3, <1>4 DEF Overlay
  <2>2. Invite(r) \in DOMAIN db' /\ db'[Invite(r)] = row
    BY <1>3, <1>4 DEF Overlay
  <2>3. \A q \in Request : Invite(q) \in DOMAIN db
    BY DEF AcceptInv, Shape
  <2>. QED BY <2>1, <2>2, <2>3, RowsDiffer
<1>6. /\ request' = [q \in Request |-> [pc |-> request'[q].pc, company |-> request'[q].company]]
      /\ \A q \in Request : request'[q].pc \in Early => request[q].pc \in Early
      /\ request'[r].pc = "answered"
  BY <1>1, StepPc DEF Early
<1>7. earlier' = [q \in Request |-> earlier'[q]] /\ earlier'[r] = Joined(c) /\ \A q \in Request \ {r} : earlier'[q] = earlier[q]
  BY <1>1 DEF AcceptInv, Shape
<1>8. row.status = "sent" /\ row.company = c /\ row = [status |-> row.status, company |-> row.company]
  OBVIOUS
<1>. HIDE DEF c, row
<1>9. Shape'
  <2>1. \A q \in Request : db'[Invite(q)] = [status |-> db'[Invite(q)].status, company |-> db'[Invite(q)].company]
    BY <1>5, <1>8 DEF AcceptInv, Shape
  <2>. QED BY <1>1, <1>5, <1>6, <1>7, <2>1 DEF AcceptInv, Shape
<1>10. Apart' /\ NoInviteHeld' /\ Unsent'
  BY <1>1, <1>5, <1>6 DEF AcceptInv, Apart, NoInviteHeld, NoInvites, Unsent, Early
<1>11. Done'
  <2>. SUFFICES ASSUME NEW p \in Request, NEW s \in Request, p # s, db'[Invite(p)].status = "accepted",
                       db'[Invite(s)].status = "sent", db'[Invite(p)].company = db'[Invite(s)].company
                PROVE  p \in earlier'[s]
    BY DEF Done
  <2>1. p # r
    BY <1>5, <1>8
  <2>2. CASE s = r
    BY <2>1, <2>2, <1>5, <1>7, <1>8 DEF Joined
  <2>3. CASE s # r
    BY <2>1, <2>3, <1>5, <1>7 DEF AcceptInv, Done
  <2>. QED BY <2>2, <2>3
<1>12. OneAcceptance'
  BY <1>5, <1>7, <1>8 DEF AcceptInv, OneAcceptance
<1>13. ASSUME NEW a \in Acceptor PROVE Holds(a)' /\ Wrote(a)' /\ Resting(a)' /\ Closed(a)'
  <2>1. Holds(a) /\ Wrote(a) /\ Resting(a) /\ Closed(a)
    BY DEF AcceptInv
  <2>2. Invite(r) \notin DOMAIN own[a]
    BY <1>4, Transactors
  <2>3. accept[a].pc \in Busy => Mine(a) \in Request /\ Mine(a) # r
    BY <2>1, <2>2 DEF Holds
  <2>4. Holds(a)' /\ Resting(a)'
    BY <2>1, <1>1 DEF Holds, Resting, Mine
  <2>5. Wrote(a)'
    BY <2>1, <2>2, <1>1, <1>5 DEF Wrote, Mine
  <2>6. Closed(a)'
    <3>. SUFFICES ASSUME accept[a].pc = "commit", NEW s \in Request, s # Mine(a), db'[Invite(s)].status = "sent",
                         db'[Invite(s)].company = db'[Invite(Mine(a))].company
                  PROVE  Invite(s) \in DOMAIN own[a] \/ Mine(a) \in earlier'[s]
      BY <1>1 DEF Closed, Mine, Joining
    <3>1. Mine(a) \in Request /\ Mine(a) # r /\ db'[Invite(Mine(a))].company = Joining(a)
      BY <2>3, <1>5 DEF Busy, Joining, Mine
    <3>2. CASE s = r
      <4>1. Joining(a) = c
        BY <3>1, <3>2, <1>5, <1>8
      <4>. QED BY <4>1, <3>2, <1>7 DEF Joined, Mine
    <3>3. CASE s # r
      BY <3>1, <3>3, <2>1, <1>5, <1>7 DEF Closed
    <3>. QED BY <3>2, <3>3
  <2>. QED BY <2>4, <2>5, <2>6
<1>. QED BY <1>9, <1>10, <1>11, <1>12, <1>13 DEF AcceptInv

---------------------------------------------------------------------------
(* The steps of an acceptance *)

(* An acceptance's rows become rows nobody else has. *)
LEMMA AcceptorsOwn ==
  ASSUME AcceptInv, NEW a \in Acceptor, NEW rows, own' = [own EXCEPT ![a] = rows],
         \A b \in Acceptor : b # a => DOMAIN rows \cap DOMAIN own[b] = {}
  PROVE  /\ own' = [t \in Txn |-> own'[t]] /\ own'[a] = rows
         /\ \A b \in Acceptor : b # a => own'[b] = own[b]
         /\ Apart' /\ NoInviteHeld'
<1>1. own = [t \in Txn |-> own[t]] /\ a \in Txn /\ \A t \in Acceptor : t \in Txn
  BY Transactors DEF AcceptInv, Shape
<1>2. \A t \in Txn : own'[t] = IF t = a THEN rows ELSE own[t]
  BY <1>1
<1>3. own' = [t \in Txn |-> own'[t]]
  BY <1>1
<1>4. own'[a] = rows /\ \A b \in Acceptor : b # a => own'[b] = own[b]
  BY <1>1, <1>2
<1>5. Apart'
  <2>1. Apart
    BY DEF AcceptInv
  <2>. QED BY <2>1, <1>4 DEF Apart
<1>6. NoInviteHeld'
  <2>1. \A u \in Upsert : own'[u] = own[u]
    BY <1>2, Transactors
  <2>. QED BY <2>1 DEF AcceptInv, NoInviteHeld, NoInvites
<1>. QED BY <1>3, <1>4, <1>5, <1>6

(* An acceptance moves and keeps its invite. *)
LEMMA AcceptorsReach ==
  ASSUME AcceptInv, NEW a \in Acceptor, NEW pc \in {"idle", "over"} \cup Busy, Reached(a, pc)
  PROVE  /\ accept' \in [Acceptor -> [pc : {"idle", "over"} \cup Busy, invite : Request \cup {Nothing}]]
         /\ accept'[a].pc = pc /\ accept'[a].invite = Mine(a)
         /\ \A b \in Acceptor : b # a => accept'[b] = accept[b]
<1>1. accept \in [Acceptor -> [pc : {"idle", "over"} \cup Busy, invite : Request \cup {Nothing}]]
  BY DEF AcceptInv, Shape
<1>2. accept' = [accept EXCEPT ![a] = [accept[a] EXCEPT !.pc = pc]]
  BY Zenon DEF Reached
<1>3. /\ [accept[a] EXCEPT !.pc = pc] \in [pc : {"idle", "over"} \cup Busy, invite : Request \cup {Nothing}]
      /\ [accept[a] EXCEPT !.pc = pc].pc = pc /\ [accept[a] EXCEPT !.pc = pc].invite = Mine(a)
  BY <1>1 DEF Mine
<1>. QED BY <1>1, <1>2, <1>3

(* A step of acceptance a before its transaction ends. *)
LEMMA WithinAccept ==
  ASSUME AcceptInv, NEW a \in Acceptor, UNCHANGED <<db, request, earlier>>,
         accept' \in [Acceptor -> [pc : {"idle", "over"} \cup Busy, invite : Request \cup {Nothing}]],
         \A b \in Acceptor : b # a => accept'[b] = accept[b] /\ own'[b] = own[b],
         own' = [t \in Txn |-> own'[t]], Apart', NoInviteHeld',
         Holds(a)', Wrote(a)', Resting(a)', Closed(a)'
  PROVE  AcceptInv'
<1>1. Shape' /\ Unsent' /\ Done' /\ OneAcceptance'
  BY DEF AcceptInv, Shape, Unsent, Done, OneAcceptance
<1>2. ASSUME NEW b \in Acceptor, b # a PROVE Holds(b)' /\ Wrote(b)' /\ Resting(b)' /\ Closed(b)'
  <2>1. Holds(b) /\ Wrote(b) /\ Resting(b) /\ Closed(b)
    BY DEF AcceptInv
  <2>2. accept'[b] = accept[b] /\ own'[b] = own[b]
    BY <1>2
  <2>. QED BY <2>1, <2>2 DEF Holds, Wrote, Resting, Closed, Mine, Joining
<1>. QED BY <1>1, <1>2 DEF AcceptInv

(* LockInvite. *)
LEMMA LockKeeps ==
  ASSUME AcceptInv, NEW a \in Acceptor, NEW q \in Request, LockInvite(a, q)
  PROVE  AcceptInv'
<1>1. accept[a].pc = "idle" /\ DOMAIN own[a] = {}
  BY DEF LockInvite, AcceptInv, Resting, Busy
<1>2. UNCHANGED <<db, request, earlier>> /\ Free(a, {Invite(q)})
  BY DEF LockInvite, Rest
<1>3. CASE Reached(a, "over") /\ UNCHANGED own
  <2>1. /\ accept' \in [Acceptor -> [pc : {"idle", "over"} \cup Busy, invite : Request \cup {Nothing}]]
        /\ accept'[a].pc = "over"
        /\ \A b \in Acceptor : b # a => accept'[b] = accept[b]
    BY <1>3, AcceptorsReach
  <2>2. OwnStays /\ Apart'
    BY <1>3, OwnKept DEF AcceptInv, Apart
  <2>3. Holds(a)' /\ Wrote(a)' /\ Resting(a)' /\ Closed(a)'
    BY <1>1, <1>3, <2>1 DEF Holds, Wrote, Resting, Closed, Busy
  <2>. QED BY <1>2, <2>1, <2>2, <2>3, WithinAccept DEF OwnStays
<1>4. CASE /\ db[Invite(q)].status = "sent"
           /\ own' = [own EXCEPT ![a] = OneRow(Invite(q), [db[Invite(q)] EXCEPT !.status = "accepted"])]
           /\ accept' = [accept EXCEPT ![a] = [pc |-> "mark", invite |-> q]]
  <2>. DEFINE row == [db[Invite(q)] EXCEPT !.status = "accepted"]
  <2>1. row = [status |-> "accepted", company |-> db[Invite(q)].company]
    <3>1. db[Invite(q)] = [status |-> db[Invite(q)].status, company |-> db[Invite(q)].company]
      BY DEF AcceptInv, Shape
    <3>. QED BY <3>1
  <2>. HIDE DEF row
  <2>2. DOMAIN OneRow(Invite(q), row) = {Invite(q)} /\ OneRow(Invite(q), row)[Invite(q)] = row
    BY OneRowIs
  <2>3. own' = [own EXCEPT ![a] = OneRow(Invite(q), row)]
    BY <1>4 DEF row
  <2>4. \A b \in Acceptor : b # a => DOMAIN OneRow(Invite(q), row) \cap DOMAIN own[b] = {}
    BY <1>2, <2>2, Transactors DEF Free
  <2>5. /\ own' = [t \in Txn |-> own'[t]] /\ own'[a] = OneRow(Invite(q), row)
        /\ \A b \in Acceptor : b # a => own'[b] = own[b]
        /\ Apart' /\ NoInviteHeld'
    BY <2>3, <2>4, AcceptorsOwn
  <2>6. /\ accept' \in [Acceptor -> [pc : {"idle", "over"} \cup Busy, invite : Request \cup {Nothing}]]
        /\ accept'[a].pc = "mark" /\ accept'[a].invite = q
        /\ \A b \in Acceptor : b # a => accept'[b] = accept[b]
    BY <1>4 DEF AcceptInv, Shape, Busy
  <2>7. Holds(a)' /\ Resting(a)' /\ Closed(a)'
    BY <2>2, <2>5, <2>6 DEF Holds, Resting, Closed, Mine, Busy
  <2>8. Wrote(a)'
    BY <1>2, <1>4, <2>1, <2>2, <2>5, <2>6, RowsDiffer DEF Wrote, Mine
  <2>. QED BY <1>2, <2>5, <2>6, <2>7, <2>8, WithinAccept
<1>. QED BY <1>3, <1>4 DEF LockInvite

(* What an acceptance adds to its rows is what nobody else has locked. *)
LEMMA AcceptorsWrite ==
  ASSUME AcceptInv, NEW a \in Acceptor, NEW new, Write(a, new)
  PROVE  /\ own' = [t \in Txn |-> own'[t]]
         /\ DOMAIN own'[a] = DOMAIN new \cup DOMAIN own[a]
         /\ \A x \in DOMAIN new : own'[a][x] = new[x]
         /\ \A x \in DOMAIN own[a] : x \notin DOMAIN new => own'[a][x] = own[a][x]
         /\ \A b \in Acceptor : b # a => own'[b] = own[b]
         /\ Apart' /\ NoInviteHeld'
<1>. DEFINE rows == Overlay(new, own[a])
<1>1. own' = [own EXCEPT ![a] = rows] /\ Free(a, DOMAIN new)
  BY DEF Write
<1>2. /\ DOMAIN rows = DOMAIN new \cup DOMAIN own[a]
      /\ \A x \in DOMAIN new : rows[x] = new[x]
      /\ \A x \in DOMAIN own[a] : x \notin DOMAIN new => rows[x] = own[a][x]
  BY DEF Overlay
<1>. HIDE DEF rows
<1>3. ASSUME NEW b \in Acceptor, b # a PROVE DOMAIN rows \cap DOMAIN own[b] = {}
  <2>1. DOMAIN new \cap DOMAIN own[b] = {}
    BY <1>1, <1>3, Transactors DEF Free
  <2>2. DOMAIN own[a] \cap DOMAIN own[b] = {}
    BY <1>3 DEF AcceptInv, Apart
  <2>. QED BY <1>2, <2>1, <2>2
<1>4. /\ own' = [t \in Txn |-> own'[t]] /\ own'[a] = rows
      /\ \A b \in Acceptor : b # a => own'[b] = own[b]
      /\ Apart' /\ NoInviteHeld'
  BY <1>1, <1>3, AcceptorsOwn
<1>. QED BY <1>2, <1>4

(* MarkJoined. *)
LEMMA MarkKeeps ==
  ASSUME AcceptInv, NEW a \in Acceptor, MarkJoined(a)
  PROVE  AcceptInv'
<1>1. /\ accept[a].pc = "mark" /\ Reached(a, "close") /\ UNCHANGED <<db, request, earlier>>
      /\ \E row : Write(a, OneRow(Row(Joining(a)), row))
  BY DEF MarkJoined, Rest
<1>2. PICK row : Write(a, OneRow(Row(Joining(a)), row))
  BY <1>1
<1>3. DOMAIN OneRow(Row(Joining(a)), row) = {Row(Joining(a))}
  BY OneRowIs
<1>4. /\ own' = [t \in Txn |-> own'[t]]
      /\ DOMAIN own'[a] = {Row(Joining(a))} \cup DOMAIN own[a]
      /\ \A x \in DOMAIN own[a] : x # Row(Joining(a)) => own'[a][x] = own[a][x]
      /\ \A b \in Acceptor : b # a => own'[b] = own[b]
      /\ Apart' /\ NoInviteHeld'
  BY <1>2, <1>3, AcceptorsWrite
<1>5. /\ accept' \in [Acceptor -> [pc : {"idle", "over"} \cup Busy, invite : Request \cup {Nothing}]]
      /\ accept'[a].pc = "close" /\ accept'[a].invite = Mine(a)
      /\ \A b \in Acceptor : b # a => accept'[b] = accept[b]
  BY <1>1, AcceptorsReach DEF Busy
<1>6. Holds(a) /\ Wrote(a)
  BY DEF AcceptInv
<1>7. Holds(a)' /\ Resting(a)' /\ Closed(a)'
  BY <1>1, <1>4, <1>5, <1>6 DEF Holds, Resting, Closed, Mine, Busy
<1>8. Wrote(a)'
  BY <1>1, <1>4, <1>5, <1>6, RowsDiffer DEF Wrote, Mine
<1>. QED BY <1>1, <1>4, <1>5, <1>7, <1>8, WithinAccept

(* CloseOthers: the lock on what it closes is waited for. *)
LEMMA CloseKeeps ==
  ASSUME AcceptInv, NEW a \in Acceptor, CloseOthers(a)
  PROVE  AcceptInv'
<1>. DEFINE open == {r \in Request \ {Mine(a)} : db[Invite(r)].status = "sent" /\ db[Invite(r)].company = Joining(a)}
            new == [i \in {Invite(r) : r \in open} |-> [db[i] EXCEPT !.status = "expired"]]
<1>1. /\ accept[a].pc = "close" /\ Reached(a, "commit") /\ UNCHANGED <<db, request, earlier>>
      /\ Write(a, new)
  BY DEF CloseOthers, Rest, Mine
<1>2. /\ \A r \in Request : Invite(r) \in DOMAIN new <=> r \in open
      /\ \A r \in open : new[Invite(r)] = [status |-> "expired", company |-> db[Invite(r)].company]
  <2>1. \A r \in open : r \in Request /\ [db[Invite(r)] EXCEPT !.status = "expired"] = [status |-> "expired", company |-> db[Invite(r)].company]
    <3>1. \A r \in Request : db[Invite(r)] = [status |-> db[Invite(r)].status, company |-> db[Invite(r)].company]
      BY DEF AcceptInv, Shape
    <3>2. ASSUME NEW r \in Request
          PROVE  [db[Invite(r)] EXCEPT !.status = "expired"] = [status |-> "expired", company |-> db[Invite(r)].company]
      <4>1. db[Invite(r)] = [status |-> db[Invite(r)].status, company |-> db[Invite(r)].company]
        BY <3>1
      <4>. QED BY <4>1
    <3>. QED BY <3>2
  <2>. HIDE DEF open
  <2>2. \A r : Invite(r) \in DOMAIN new <=> r \in open
    BY RowsDiffer
  <2>3. \A r \in open : new[Invite(r)] = [db[Invite(r)] EXCEPT !.status = "expired"]
    OBVIOUS
  <2>. HIDE DEF new
  <2>. QED BY <2>1, <2>2, <2>3
<1>3. \A r \in open : r # Mine(a) /\ db[Invite(r)].status = "sent"
  OBVIOUS
<1>4. \A r \in Request : r # Mine(a) /\ db[Invite(r)].status = "sent" /\ db[Invite(r)].company = Joining(a) => r \in open
  OBVIOUS
<1>. HIDE DEF open, new
<1>5. /\ own' = [t \in Txn |-> own'[t]]
      /\ DOMAIN own'[a] = DOMAIN new \cup DOMAIN own[a]
      /\ \A x \in DOMAIN new : own'[a][x] = new[x]
      /\ \A x \in DOMAIN own[a] : x \notin DOMAIN new => own'[a][x] = own[a][x]
      /\ \A b \in Acceptor : b # a => own'[b] = own[b]
      /\ Apart' /\ NoInviteHeld'
  BY <1>1, AcceptorsWrite
<1>6. /\ accept' \in [Acceptor -> [pc : {"idle", "over"} \cup Busy, invite : Request \cup {Nothing}]]
      /\ accept'[a].pc = "commit" /\ accept'[a].invite = Mine(a)
      /\ \A b \in Acceptor : b # a => accept'[b] = accept[b]
  BY <1>1, AcceptorsReach DEF Busy
<1>7. Holds(a) /\ Wrote(a)
  BY DEF AcceptInv
<1>8. Holds(a)' /\ Resting(a)'
  BY <1>1, <1>5, <1>6, <1>7 DEF Holds, Resting, Mine, Busy
<1>9. Wrote(a)'
  <2>. SUFFICES ASSUME NEW r \in Request, Invite(r) \in DOMAIN own'[a]
                PROVE  /\ db[Invite(r)].status = "sent"
                       /\ own'[a][Invite(r)] = [status  |-> IF r = Mine(a) THEN "accepted" ELSE "expired",
                                                company |-> db[Invite(r)].company]
    BY <1>1, <1>6 DEF Wrote, Mine
  <2>1. CASE r \in open
    BY <2>1, <1>2, <1>3, <1>5
  <2>2. CASE r \notin open
    BY <2>2, <1>2, <1>5, <1>7 DEF Wrote
  <2>. QED BY <2>1, <2>2
<1>10. Closed(a)'
  BY <1>1, <1>2, <1>4, <1>5, <1>6 DEF Closed, Mine, Joining
<1>. QED BY <1>1, <1>5, <1>6, <1>8, <1>9, <1>10, WithinAccept

(* CommitAccept: the invite was "sent" until now, so by Done whatever was  *)
(* accepted before is earlier than it, and by Closed what is still open is *)
(* later.                                                                  *)
LEMMA CommitKeeps ==
  ASSUME AcceptInv, NEW a \in Acceptor, CommitAccept(a)
  PROVE  AcceptInv'
<1>. DEFINE m == Mine(a)
<1>1. /\ accept[a].pc = "commit" /\ Reached(a, "over") /\ UNCHANGED <<request, earlier>>
      /\ db' = Overlay(own[a], db) /\ own' = [own EXCEPT ![a] = <<>>]
  BY DEF CommitAccept, Commit, Seen, Rest
<1>2. Holds(a) /\ Wrote(a) /\ Closed(a)
  BY DEF AcceptInv
<1>3. m \in Request /\ Invite(m) \in DOMAIN own[a] /\ db[Invite(m)].status = "sent"
  BY <1>1, <1>2 DEF Holds, Wrote, Busy
<1>4. /\ own' = [t \in Txn |-> own'[t]] /\ own'[a] = <<>>
      /\ \A b \in Acceptor : b # a => own'[b] = own[b]
      /\ Apart' /\ NoInviteHeld'
  BY <1>1, EmptyIs, AcceptorsOwn
<1>5. /\ accept' \in [Acceptor -> [pc : {"idle", "over"} \cup Busy, invite : Request \cup {Nothing}]]
      /\ accept'[a].pc = "over"
      /\ \A b \in Acceptor : b # a => accept'[b] = accept[b]
  BY <1>1, AcceptorsReach
<1>6. ASSUME NEW r \in Request
      PROVE  /\ Invite(r) \in DOMAIN db'
             /\ Invite(r) \notin DOMAIN own[a] => db'[Invite(r)] = db[Invite(r)]
             /\ Invite(r) \in DOMAIN own[a] =>
                  /\ db[Invite(r)].status = "sent"
                  /\ db'[Invite(r)] = [status |-> IF r = m THEN "accepted" ELSE "expired", company |-> db[Invite(r)].company]
             /\ db'[Invite(r)].company = db[Invite(r)].company
             /\ db'[Invite(r)] = [status |-> db'[Invite(r)].status, company |-> db'[Invite(r)].company]
  <2>1. Invite(r) \in DOMAIN db /\ db[Invite(r)] = [status |-> db[Invite(r)].status, company |-> db[Invite(r)].company]
    BY DEF AcceptInv, Shape
  <2>2. /\ Invite(r) \in DOMAIN db'
        /\ db'[Invite(r)] = IF Invite(r) \in DOMAIN own[a] THEN own[a][Invite(r)] ELSE db[Invite(r)]
    BY <1>1, <2>1 DEF Overlay
  <2>. QED BY <2>1, <2>2, <1>2 DEF Wrote
<1>7. ASSUME NEW r \in Request
      PROVE  /\ db'[Invite(r)].status = "sent" =>
                  db[Invite(r)].status = "sent" /\ Invite(r) \notin DOMAIN own[a]
             /\ db'[Invite(r)].status = "accepted" => db[Invite(r)].status = "accepted" \/ r = m
             /\ db[Invite(r)].status # "sent" => db'[Invite(r)] = db[Invite(r)]
  <2>1. CASE Invite(r) \notin DOMAIN own[a]
    BY <2>1, <1>6
  <2>2. CASE Invite(r) \in DOMAIN own[a]
    <3>. DEFINE won == IF r = m THEN "accepted" ELSE "expired"
    <3>1. db[Invite(r)].status = "sent" /\ db'[Invite(r)] = [status |-> won, company |-> db[Invite(r)].company]
      BY <2>2, <1>6
    <3>2. won # "sent" /\ (won = "accepted" => r = m)
      OBVIOUS
    <3>. HIDE DEF won
    <3>. QED BY <3>1, <3>2
  <2>. QED BY <2>1, <2>2
<1>8. Shape'
  BY <1>1, <1>4, <1>5, <1>6 DEF AcceptInv, Shape
<1>9. Unsent'
  BY <1>1, <1>7 DEF AcceptInv, Unsent
<1>10. \A s \in Request : s # m /\ db'[Invite(s)].status = "sent" /\ db[Invite(s)].company = db[Invite(m)].company
                          => m \in earlier[s]
  BY <1>1, <1>2, <1>3, <1>7 DEF Closed, Joining, Mine
<1>11. Done'
  <2>. SUFFICES ASSUME NEW r \in Request, NEW s \in Request, r # s, db'[Invite(r)].status = "accepted",
                       db'[Invite(s)].status = "sent", db'[Invite(r)].company = db'[Invite(s)].company
                PROVE  r \in earlier[s]
    BY <1>1 DEF Done
  <2>1. CASE r = m
    BY <2>1, <1>6, <1>10
  <2>2. CASE r # m
    BY <2>2, <1>6, <1>7 DEF AcceptInv, Done
  <2>. QED BY <2>1, <2>2
<1>12. OneAcceptance'
  <2>. SUFFICES ASSUME NEW r \in Request, NEW s \in Request, r # s, db'[Invite(r)].status = "accepted",
                       db'[Invite(s)].status = "accepted", db'[Invite(r)].company = db'[Invite(s)].company
                PROVE  r \in earlier[s] \/ s \in earlier[r]
    BY <1>1 DEF OneAcceptance
  <2>1. db[Invite(r)].company = db[Invite(s)].company
    BY <1>6
  <2>2. CASE r = m
    BY <2>1, <2>2, <1>3, <1>7 DEF AcceptInv, Done
  <2>3. CASE s = m
    BY <2>1, <2>3, <1>3, <1>7 DEF AcceptInv, Done
  <2>4. CASE r # m /\ s # m
    BY <2>1, <2>4, <1>7 DEF AcceptInv, OneAcceptance
  <2>. QED BY <2>2, <2>3, <2>4
<1>13. Holds(a)' /\ Wrote(a)' /\ Resting(a)' /\ Closed(a)'
  BY <1>4, <1>5, EmptyIs DEF Holds, Wrote, Resting, Closed, Busy
<1>14. ASSUME NEW b \in Acceptor, b # a PROVE Holds(b)' /\ Wrote(b)' /\ Resting(b)' /\ Closed(b)'
  <2>1. Holds(b) /\ Wrote(b) /\ Resting(b) /\ Closed(b) /\ DOMAIN own[a] \cap DOMAIN own[b] = {}
    BY <1>14 DEF AcceptInv, Apart
  <2>2. own'[b] = own[b] /\ accept'[b] = accept[b]
    BY <1>14, <1>4, <1>5
  <2>3. \A r \in Request : Invite(r) \in DOMAIN own[b] => db'[Invite(r)] = db[Invite(r)]
    BY <1>6, <2>1
  <2>4. Holds(b)' /\ Resting(b)'
    BY <2>1, <2>2 DEF Holds, Resting, Mine
  <2>5. Wrote(b)'
    BY <2>1, <2>2, <2>3 DEF Wrote, Mine
  <2>6. Closed(b)'
    <3>1. accept[b].pc = "commit" => Mine(b) \in Request /\ db'[Invite(Mine(b))].company = Joining(b)
      BY <2>1, <2>3 DEF Holds, Busy, Joining, Mine
    <3>2. \A s \in Request : db'[Invite(s)].status = "sent" => db[Invite(s)].status = "sent" /\ db'[Invite(s)].company = db[Invite(s)].company
      BY <1>6, <1>7
    <3>. QED BY <3>1, <3>2, <2>1, <2>2, <1>1 DEF Closed, Mine, Joining
  <2>. QED BY <2>4, <2>5, <2>6
<1>. QED BY <1>4, <1>8, <1>9, <1>11, <1>12, <1>13, <1>14 DEF AcceptInv

(* AbortAccept: the invite goes back to "sent", and nothing is later than  *)
(* it any more.                                                            *)
LEMMA AbortKeeps ==
  ASSUME AcceptInv, NEW a \in Acceptor, AbortAccept(a)
  PROVE  AcceptInv'
<1>. DEFINE m == Mine(a)
<1>1. /\ accept[a].pc \in Busy /\ Reached(a, "over") /\ UNCHANGED <<db, request>>
      /\ own' = [own EXCEPT ![a] = <<>>]
      /\ earlier' = [r \in Request |-> earlier[r] \ {m}]
  BY DEF AbortAccept, RollBack, Busy, Mine
<1>2. m \in Request /\ Invite(m) \in DOMAIN own[a] /\ db[Invite(m)].status = "sent"
  BY <1>1 DEF AcceptInv, Holds, Wrote
<1>3. /\ own' = [t \in Txn |-> own'[t]] /\ own'[a] = <<>>
      /\ \A b \in Acceptor : b # a => own'[b] = own[b]
      /\ Apart' /\ NoInviteHeld'
  BY <1>1, EmptyIs, AcceptorsOwn
<1>4. /\ accept' \in [Acceptor -> [pc : {"idle", "over"} \cup Busy, invite : Request \cup {Nothing}]]
      /\ accept'[a].pc = "over"
      /\ \A b \in Acceptor : b # a => accept'[b] = accept[b]
  BY <1>1, AcceptorsReach
<1>5. \A r \in Request : earlier'[r] = earlier[r] \ {m}
  BY <1>1
<1>6. Shape' /\ Unsent'
  BY <1>1, <1>3, <1>4 DEF AcceptInv, Shape, Unsent
<1>7. Done' /\ OneAcceptance'
  BY <1>1, <1>2, <1>5 DEF AcceptInv, Done, OneAcceptance
<1>8. Holds(a)' /\ Wrote(a)' /\ Resting(a)' /\ Closed(a)'
  BY <1>3, <1>4, EmptyIs DEF Holds, Wrote, Resting, Closed, Busy
<1>9. ASSUME NEW b \in Acceptor, b # a PROVE Holds(b)' /\ Wrote(b)' /\ Resting(b)' /\ Closed(b)'
  <2>1. Holds(b) /\ Wrote(b) /\ Resting(b) /\ Closed(b) /\ DOMAIN own[a] \cap DOMAIN own[b] = {}
    BY <1>9 DEF AcceptInv, Apart
  <2>2. own'[b] = own[b] /\ accept'[b] = accept[b]
    BY <1>9, <1>3, <1>4
  <2>3. Holds(b)' /\ Resting(b)' /\ Wrote(b)'
    BY <2>1, <2>2, <1>1 DEF Holds, Resting, Wrote, Mine
  <2>4. Closed(b)'
    <3>1. accept[b].pc = "commit" => Mine(b) # m
      BY <2>1, <1>2 DEF Holds, Busy
    <3>. QED BY <3>1, <2>1, <2>2, <1>1, <1>5 DEF Closed, Mine, Joining
  <2>. QED BY <2>3, <2>4
<1>. QED BY <1>3, <1>6, <1>7, <1>8, <1>9 DEF AcceptInv

---------------------------------------------------------------------------
(* The theorems *)

(* It holds at the start, whatever was invited before. *)
LEMMA AcceptInit == Init => AcceptInv
<1>. SUFFICES ASSUME Init PROVE AcceptInv
  OBVIOUS
<1>1. /\ own = [t \in Txn |-> <<>>]
      /\ db = Overlay([i \in {Invite(r) : r \in Request} |->
                     IF i[2] \in Invited THEN [status |-> "sent", company |-> CompanyOf[i[2]]] ELSE NoInvite], Tables)
      /\ request = [r \in Request |-> [pc |-> IF r \in Invited THEN "over" ELSE "idle", company |-> Nothing]]
      /\ accept  = [a \in Acceptor |-> [pc |-> "idle", invite |-> Nothing]]
      /\ earlier = [r \in Request |-> {}]
  BY DEF Init, RegistryInit
<1>2. \A r \in Request : /\ Invite(r) \in DOMAIN db
                         /\ db[Invite(r)] = IF r \in Invited THEN [status |-> "sent", company |-> CompanyOf[r]] ELSE NoInvite
  BY <1>1 DEF Overlay, Invite
<1>3. \A t \in Txn : own[t] = <<>>
  BY <1>1
<1>4. ASSUME NEW r \in Request
      PROVE  /\ db[Invite(r)] = [status |-> db[Invite(r)].status, company |-> db[Invite(r)].company]
             /\ db[Invite(r)].status \in {"none", "sent"}
             /\ request[r].pc \in Early => db[Invite(r)].status = "none"
  <2>1. CASE r \in Invited
    <3>1. db[Invite(r)] = [status |-> "sent", company |-> CompanyOf[r]] /\ request[r].pc = "over"
      BY <2>1, <1>1, <1>2
    <3>. QED BY <3>1 DEF Early
  <2>2. CASE r \notin Invited
    <3>1. db[Invite(r)] = [status |-> "none", company |-> Nothing]
      BY <2>2, <1>2 DEF NoInvite
    <3>. QED BY <3>1
  <2>. QED BY <2>1, <2>2
<1>5. Shape
  <2>1. request = [r \in Request |-> [pc |-> request[r].pc, company |-> request[r].company]]
    BY <1>1
  <2>2. accept \in [Acceptor -> [pc : {"idle", "over"} \cup Busy, invite : Request \cup {Nothing}]]
    BY <1>1
  <2>3. own = [t \in Txn |-> own[t]] /\ earlier = [r \in Request |-> earlier[r]]
    BY <1>1
  <2>. QED BY <2>1, <2>2, <2>3, <1>2, <1>4 DEF Shape
<1>6. Apart /\ NoInviteHeld
  BY <1>3, EmptyIs, NoInvitesEmpty, Transactors DEF Apart, NoInviteHeld
<1>7. Unsent /\ Done /\ OneAcceptance
  BY <1>4 DEF Unsent, Done, OneAcceptance
<1>8. ASSUME NEW a \in Acceptor PROVE Holds(a) /\ Wrote(a) /\ Resting(a) /\ Closed(a)
  <2>1. DOMAIN own[a] = {} /\ accept[a].pc = "idle"
    BY <1>1, <1>3, EmptyIs, Transactors
  <2>. QED BY <2>1 DEF Holds, Wrote, Resting, Closed, Busy
<1>. QED BY <1>5, <1>6, <1>7, <1>8 DEF AcceptInv

(* A step that touches none of this. *)
LEMMA QuietStays ==
  ASSUME AcceptInv, UNCHANGED <<db, own, request, accept, earlier>>
  PROVE  AcceptInv'
<1>1. OwnStays /\ DbStays
  BY OwnKept, DbKept
<1>. QED BY <1>1, InvitesStay DEF OwnStays, DbStays, AcceptInv, Shape

(* Every step keeps it. *)
LEMMA AcceptKept == AcceptInv /\ [Next]_vars => AcceptInv'
<1>. SUFFICES ASSUME AcceptInv, [Next]_vars PROVE AcceptInv'
  OBVIOUS
<1>1. CASE PoolStep /\ UNCHANGED <<request, stored, accept, earlier, search>>
  BY <1>1, PoolAccept
<1>2. ASSUME NEW r \in Request, RequestStep(r) PROVE AcceptInv'
  BY <1>2, QuietRequest, SendKeeps DEF RequestStep
<1>3. ASSUME NEW a \in Acceptor, AcceptStep(a) PROVE AcceptInv'
  BY <1>3, LockKeeps, MarkKeeps, CloseKeeps, CommitKeeps, AbortKeeps DEF AcceptStep
<1>4. CASE (\E k \in DOMAIN stored : ForgetKey(k)) \/ (\E s \in Searcher : Search(s) \/ FindCompanyIds(s)) \/ UNCHANGED vars
  <2>1. UNCHANGED <<db, own, request, accept, earlier>>
    BY <1>4 DEF ForgetKey, Search, SearchFinds, Hydrate, SearchAnswers, FindCompanyIds, Others, vars
  <2>. QED BY <2>1, QuietStays
<1>. QED BY <1>1, <1>2, <1>3, <1>4 DEF Next

(* Of two invites of a company one at most is accepted, however their      *)
(* acceptances overlap with each other, with new invites and with merges   *)
(* of the company, unless the other was sent after the first acceptance    *)
(* had closed what was open (acceptInvite).                                *)
THEOREM OneAcceptanceSafe == Spec => []OneAcceptance
<1>1. AcceptInv => OneAcceptance
  BY DEF AcceptInv
<1>. QED BY <1>1, AcceptInit, AcceptKept, PTL DEF Spec

(* The keys are always the same. *)
KeysAre == stored = [k \in {KeyOf[r] : r \in Request} |-> stored[k]]

(* They are. *)
LEMMA KeysKept == Spec => []KeysAre
<1>1. Init => KeysAre
  BY DEF Init, KeysAre
<1>2. KeysAre /\ [Next]_vars => KeysAre'
  <2>. SUFFICES ASSUME KeysAre, [Next]_vars PROVE KeysAre'
    OBVIOUS
  <2>1. ASSUME NEW r \in Request, StoreAnswer(r) PROVE KeysAre'
    BY <2>1 DEF StoreAnswer, KeysAre
  <2>2. ASSUME NEW k \in DOMAIN stored, ForgetKey(k) PROVE KeysAre'
    BY <2>2 DEF ForgetKey, KeysAre
  <2>3. CASE UNCHANGED stored
    BY <2>3 DEF KeysAre
  <2>. QED BY <2>1, <2>2, <2>3
    DEF Next, RequestStep, LookUpKey, ResolveInvitee, SendInvite, InviteBlocked, RequestFails, AcceptStep, LockInvite,
        MarkJoined, CloseOthers, CommitAccept, AbortAccept, Rest, Search, SearchFinds, Hydrate, SearchAnswers,
        FindCompanyIds, Others, vars
<1>. QED BY <1>1, <1>2, PTL DEF Spec

(* The answer kept for an Idempotency-Key stays the one kept first until   *)
(* the key is forgotten, however many first calls race (store: on conflict *)
(* do nothing).                                                            *)
THEOREM AnswerStaysSafe == Spec => AnswerStays
<1>1. KeysAre /\ [Next]_vars => [\A k \in DOMAIN stored : stored[k] # Nothing => stored'[k] \in {stored[k], Nothing}]_vars
  <2>. SUFFICES ASSUME KeysAre, [Next]_vars, NEW k \in DOMAIN stored, stored[k] # Nothing
                PROVE  stored'[k] \in {stored[k], Nothing}
    OBVIOUS
  <2>1. ASSUME NEW r \in Request, StoreAnswer(r) PROVE stored'[k] \in {stored[k], Nothing}
    BY <2>1 DEF StoreAnswer, KeysAre
  <2>2. ASSUME NEW x \in DOMAIN stored, ForgetKey(x) PROVE stored'[k] \in {stored[k], Nothing}
    BY <2>2 DEF ForgetKey, KeysAre
  <2>3. CASE UNCHANGED stored
    BY <2>3
  <2>. QED BY <2>1, <2>2, <2>3
    DEF Next, RequestStep, LookUpKey, ResolveInvitee, SendInvite, InviteBlocked, RequestFails, AcceptStep, LockInvite,
        MarkJoined, CloseOthers, CommitAccept, AbortAccept, Rest, Search, SearchFinds, Hydrate, SearchAnswers,
        FindCompanyIds, Others, vars
<1>. QED BY <1>1, KeysKept, PTL DEF Spec, AnswerStays

---------------------------------------------------------------------------
(* Following merged_into to its end *)

(* A sequence can be computed step by step. *)
LEMMA Recursion ==
  ASSUME NEW V, NEW base \in V, NEW N \in Nat, NEW step \in [1..N -> [V -> V]]
  PROVE  \E f \in [0..N -> V] : f[0] = base /\ \A n \in 1..N : f[n] = step[n][f[n - 1]]
<1>. DEFINE P == {m \in Nat : m <= N => \E f \in [0..m -> V] : f[0] = base /\ \A n \in 1..m : f[n] = step[n][f[n - 1]]}
<1>1. 0 \in P
  <2>1. [n \in 0..0 |-> base] \in [0..0 -> V] /\ [n \in 0..0 |-> base][0] = base /\ 1..0 = {}
    OBVIOUS
  <2>. QED BY <2>1
<1>2. ASSUME NEW m \in Nat, m \in P PROVE m + 1 \in P
  <2>. SUFFICES ASSUME m + 1 <= N
                PROVE  \E f \in [0..(m + 1) -> V] : f[0] = base /\ \A n \in 1..(m + 1) : f[n] = step[n][f[n - 1]]
    OBVIOUS
  <2>1. PICK f \in [0..m -> V] : f[0] = base /\ \A n \in 1..m : f[n] = step[n][f[n - 1]]
    BY <1>2
  <2>. DEFINE g == [n \in 0..(m + 1) |-> IF n = m + 1 THEN step[m + 1][f[m]] ELSE f[n]]
  <2>2. step[m + 1][f[m]] \in V
    BY <2>1
  <2>3. g \in [0..(m + 1) -> V]
    BY <2>1, <2>2
  <2>4. \A n \in 0..m : n \in 0..(m + 1) /\ g[n] = f[n]
    OBVIOUS
  <2>5. g[m + 1] = step[m + 1][f[m]]
    OBVIOUS
  <2>. HIDE DEF g
  <2>6. g[0] = base
    BY <2>1, <2>4
  <2>7. ASSUME NEW n \in 1..(m + 1) PROVE g[n] = step[n][g[n - 1]]
    <3>1. CASE n = m + 1
      <4>1. n - 1 = m /\ m \in 0..m
        BY <3>1
      <4>2. g[n - 1] = f[m]
        BY <4>1, <2>4
      <4>. QED BY <4>2, <3>1, <2>5
    <3>2. CASE n # m + 1
      <4>1. n \in 1..m /\ n \in 0..m /\ n - 1 \in 0..m
        BY <3>2
      <4>2. g[n] = f[n] /\ g[n - 1] = f[n - 1]
        BY <4>1, <2>4
      <4>. QED BY <4>1, <4>2, <2>1
    <3>. QED BY <3>1, <3>2
  <2>. QED BY <2>3, <2>6, <2>7
<1>3. N \in P
  <2>. HIDE DEF P
  <2>. QED BY <1>1, <1>2, Induct
<1>. QED BY <1>3

(* The companies of a database that were inserted; where one was merged    *)
(* to; merged_into points down a measure of age.                           *)
Live(d)     == {c \in Company : d[Row(c)].exists}
Merged(d, c) == d[Row(c)].merged
Down(d, at) == /\ at \in [Company -> Nat]
               /\ \A c \in Live(d) : Merged(d, c) # Nothing => Merged(d, c) \in Live(d) /\ at[Merged(d, c)] < at[c]

(* Induction along merged_into. *)
LEMMA DownInduct ==
  ASSUME NEW d, NEW at, Down(d, at), NEW P,
         \A c \in Live(d) : Merged(d, c) = Nothing \/ Merged(d, c) \in P => c \in P
  PROVE  Live(d) \subseteq P
<1>. SUFFICES ASSUME ~(Live(d) \subseteq P) PROVE FALSE
  OBVIOUS
<1>. DEFINE Bad == Live(d) \ P
            T == {at[c] : c \in Bad}
<1>1. T \subseteq Nat /\ T # {}
  BY DEF Down, Live
<1>2. PICK x \in T : \A y \in T : x <= y
  <2>. HIDE DEF T
  <2>. QED BY <1>1, Least
<1>3. PICK c \in Bad : x = at[c]
  BY <1>2
<1>4. Merged(d, c) # Nothing /\ Merged(d, c) \notin P
  BY <1>3
<1>5. Merged(d, c) \in Bad /\ at[Merged(d, c)] < at[c]
  BY <1>3, <1>4 DEF Down
<1>6. x <= at[Merged(d, c)]
  BY <1>2, <1>5
<1>7. at[c] \in Nat /\ at[Merged(d, c)] \in Nat
  BY <1>3, <1>5 DEF Down, Live
<1>. QED BY <1>3, <1>5, <1>6, <1>7

(* w is where resolve has come to after n steps from c, as Resolve defines *)
(* it.                                                                     *)
IsWalk(d, c, w) ==
  w = [n \in 0..Cardinality(Company) |->
        IF n = 0 THEN c
          ELSE LET next == d[Row(w[n - 1])].merged IN IF next = Nothing THEN w[n - 1] ELSE next]

(* There are finitely many companies. *)
LEMMA CompaniesFinite == IsFiniteSet(Company) /\ Cardinality(Company) \in Nat
BY RegistryAssumption, FS_CardinalityType

(* The same, one step at a time. *)
Hops(d, c, w) ==
  /\ w[0] = c
  /\ \A n \in 1..Cardinality(Company) :
       w[n] = IF Merged(d, w[n - 1]) = Nothing THEN w[n - 1] ELSE Merged(d, w[n - 1])

(* There is such a walk. *)
LEMMA WalkThere ==
  ASSUME NEW d, NEW at, Down(d, at), NEW c \in Live(d)
  PROVE  \E w : IsWalk(d, c, w)
<1>. DEFINE N == Cardinality(Company)
            hop == [x \in Live(d) |-> IF Merged(d, x) = Nothing THEN x ELSE Merged(d, x)]
            step == [n \in 1..N |-> hop]
<1>1. hop \in [Live(d) -> Live(d)]
  BY DEF Down
<1>2. N \in Nat
  BY CompaniesFinite
<1>3. step \in [1..N -> [Live(d) -> Live(d)]]
  BY <1>1
<1>. HIDE DEF N
<1>4. PICK w \in [0..N -> Live(d)] : w[0] = c /\ \A n \in 1..N : w[n] = step[n][w[n - 1]]
  <2>. HIDE DEF step
  <2>. QED BY <1>2, <1>3, Recursion
<1>5. ASSUME NEW n \in 0..N
      PROVE  w[n] = IF n = 0 THEN c
                    ELSE LET next == d[Row(w[n - 1])].merged IN IF next = Nothing THEN w[n - 1] ELSE next
  <2>1. CASE n = 0
    BY <2>1, <1>4
  <2>2. CASE n # 0
    <3>1. n \in 1..N /\ n - 1 \in 0..N
      BY <1>2, <2>2
    <3>2. w[n] = hop[w[n - 1]] /\ w[n - 1] \in Live(d)
      BY <3>1, <1>4
    <3>. QED BY <3>2, <2>2 DEF Merged
  <2>. QED BY <2>1, <2>2
<1>6. w = [n \in 0..N |-> IF n = 0 THEN c
                          ELSE LET next == d[Row(w[n - 1])].merged IN IF next = Nothing THEN w[n - 1] ELSE next]
  BY <1>5
<1>7. IsWalk(d, c, w)
  BY <1>6 DEF IsWalk, N
<1>. QED BY <1>7

(* Resolve is the end of one. *)
LEMMA WalkIs ==
  ASSUME NEW d, NEW at, Down(d, at), NEW c \in Live(d)
  PROVE  \E w : Hops(d, c, w) /\ Resolve(d, c) = w[Cardinality(Company)]
<1>. DEFINE w == CHOOSE w : IsWalk(d, c, w)
            N == Cardinality(Company)
<1>0. N \in Nat
  BY CompaniesFinite
<1>1. IsWalk(d, c, w)
  BY WalkThere, Zenon
<1>2. Resolve(d, c) = w[N]
  BY DEF Resolve, IsWalk
<1>. HIDE DEF w
<1>3. Hops(d, c, w)
  <2>1. w = [n \in 0..N |-> IF n = 0 THEN c
                          ELSE LET next == d[Row(w[n - 1])].merged IN IF next = Nothing THEN w[n - 1] ELSE next]
    BY <1>1 DEF IsWalk
  <2>. HIDE DEF N
  <2>2. w[0] = c
    BY <2>1, <1>0
  <2>3. ASSUME NEW n \in 1..N PROVE w[n] = IF Merged(d, w[n - 1]) = Nothing THEN w[n - 1] ELSE Merged(d, w[n - 1])
    <3>1. n \in 0..N /\ n # 0
      OBVIOUS
    <3>. QED BY <3>1, <2>1 DEF Merged
  <2>. QED BY <2>2, <2>3 DEF Hops, N
<1>. QED BY <1>2, <1>3

(* Companies that come before x. *)
Below(at, x) == {y \in Company : at[y] < at[x]}
Rank(at, x) == Cardinality(Below(at, x))

(* Their number is less than that of all companies, and falls with age. *)
LEMMA Ranks ==
  ASSUME NEW at \in [Company -> Nat], NEW x \in Company
  PROVE  /\ Rank(at, x) \in Nat /\ Rank(at, x) < Cardinality(Company)
         /\ \A y \in Company : at[y] < at[x] => Rank(at, y) < Rank(at, x)
<1>1. ASSUME NEW S \in SUBSET Company PROVE IsFiniteSet(S) /\ Cardinality(S) \in Nat
  BY CompaniesFinite, FS_Subset, FS_CardinalityType
<1>2. Below(at, x) \in SUBSET Company /\ x \in Company \ Below(at, x)
  BY DEF Below
<1>3. Cardinality(Below(at, x)) < Cardinality(Company)
  <2>1. Below(at, x) \subseteq Company /\ Below(at, x) # Company
    BY <1>2
  <2>2. Cardinality(Below(at, x)) <= Cardinality(Company) /\ (Cardinality(Below(at, x)) = Cardinality(Company) => Below(at, x) = Company)
    BY <2>1, CompaniesFinite, FS_Subset
  <2>. QED BY <2>1, <2>2, <1>1, <1>2, CompaniesFinite
<1>4. ASSUME NEW y \in Company, at[y] < at[x] PROVE Rank(at, y) < Rank(at, x)
  <2>1. Below(at, y) \subseteq Below(at, x) /\ y \in Below(at, x) \ Below(at, y)
    BY <1>4 DEF Below
  <2>2. IsFiniteSet(Below(at, x)) /\ Cardinality(Below(at, x)) \in Nat /\ Cardinality(Below(at, y)) \in Nat
    BY <1>1 DEF Below
  <2>3. Cardinality(Below(at, y)) <= Cardinality(Below(at, x))
        /\ (Cardinality(Below(at, y)) = Cardinality(Below(at, x)) => Below(at, y) = Below(at, x))
    BY <2>1, <2>2, FS_Subset
  <2>. QED BY <2>1, <2>2, <2>3 DEF Rank
<1>. QED BY <1>1, <1>2, <1>3, <1>4 DEF Rank

(* A walk that is still going has come down as far as it went. *)
LEMMA WalkFalls ==
  ASSUME NEW d, NEW at, Down(d, at), NEW c \in Live(d), NEW w, Hops(d, c, w)
  PROVE  \A n \in 0..Cardinality(Company) :
           w[n] \in Live(d) /\ (Merged(d, w[n]) # Nothing => Rank(at, w[n]) + n <= Rank(at, c))
<1>. DEFINE N == Cardinality(Company)
            P == {n \in Nat : n <= N => w[n] \in Live(d) /\ (Merged(d, w[n]) # Nothing => Rank(at, w[n]) + n <= Rank(at, c))}
<1>0. N \in Nat /\ Live(d) \subseteq Company /\ at \in [Company -> Nat]
  BY CompaniesFinite DEF Live, Down
<1>1. 0 \in P
  <2>1. w[0] = c /\ Rank(at, c) \in Nat
    BY <1>0, Ranks DEF Hops
  <2>. HIDE DEF N
  <2>. QED BY <2>1
<1>2. ASSUME NEW n \in Nat, n \in P PROVE n + 1 \in P
  <2>. SUFFICES ASSUME n + 1 <= N
                PROVE  w[n + 1] \in Live(d) /\ (Merged(d, w[n + 1]) # Nothing => Rank(at, w[n + 1]) + (n + 1) <= Rank(at, c))
    OBVIOUS
  <2>1. w[n] \in Live(d) /\ (Merged(d, w[n]) # Nothing => Rank(at, w[n]) + n <= Rank(at, c))
    BY <1>2, <1>0
  <2>2. w[n + 1] = IF Merged(d, w[n]) = Nothing THEN w[n] ELSE Merged(d, w[n])
    <3>1. n + 1 \in 1..N /\ (n + 1) - 1 = n
      BY <1>0
    <3>. QED BY <3>1 DEF Hops
  <2>. HIDE DEF N
  <2>3. CASE Merged(d, w[n]) = Nothing
    BY <2>1, <2>2, <2>3
  <2>4. CASE Merged(d, w[n]) # Nothing
    <3>1. w[n + 1] = Merged(d, w[n]) /\ w[n + 1] \in Live(d) /\ at[w[n + 1]] < at[w[n]]
      BY <2>1, <2>2, <2>4 DEF Down
    <3>2. Rank(at, w[n + 1]) < Rank(at, w[n]) /\ Rank(at, w[n + 1]) \in Nat /\ Rank(at, w[n]) \in Nat /\ Rank(at, c) \in Nat
      BY <3>1, <2>1, <1>0, Ranks
    <3>. QED BY <2>1, <2>4, <3>1, <3>2
  <2>. QED BY <2>3, <2>4
<1>3. Nat \subseteq P
  <2>. HIDE DEF P
  <2>. QED BY <1>1, <1>2, Induct
<1>. QED BY <1>3, <1>0

(* So it ends at a company that was not merged away. *)
LEMMA EndLive ==
  ASSUME NEW d, NEW at, Down(d, at), NEW c \in Live(d)
  PROVE  Resolve(d, c) \in Live(d) /\ Merged(d, Resolve(d, c)) = Nothing
<1>. DEFINE N == Cardinality(Company)
<1>1. PICK w : Hops(d, c, w) /\ Resolve(d, c) = w[N]
  BY WalkIs
<1>2. N \in Nat /\ N \in 0..N
  BY CompaniesFinite
<1>3. w[N] \in Live(d) /\ (Merged(d, w[N]) # Nothing => Rank(at, w[N]) + N <= Rank(at, c))
  BY <1>1, <1>2, WalkFalls
<1>4. Rank(at, w[N]) \in Nat /\ Rank(at, c) \in Nat /\ Rank(at, c) < N
  BY <1>3, Ranks DEF Down, Live
<1>. HIDE DEF N
<1>. QED BY <1>1, <1>2, <1>3, <1>4

(* A company that was not merged away is its own survivor. *)
LEMMA EndRoot ==
  ASSUME NEW d, NEW at, Down(d, at), NEW c \in Live(d), Merged(d, c) = Nothing
  PROVE  Resolve(d, c) = c
<1>. DEFINE N == Cardinality(Company)
<1>1. PICK w : Hops(d, c, w) /\ Resolve(d, c) = w[N]
  BY WalkIs
<1>2. N \in Nat
  BY CompaniesFinite
<1>3. 0 \in {n \in Nat : n <= N => w[n] = c}
  BY <1>1 DEF Hops
<1>4. ASSUME NEW n \in {m \in Nat : m <= N => w[m] = c} PROVE n + 1 \in {m \in Nat : m <= N => w[m] = c}
  <2>1. n + 1 <= N => n + 1 \in 1..N /\ (n + 1) - 1 = n /\ n <= N
    BY <1>2
  <2>. QED BY <2>1, <1>1 DEF Hops
<1>5. Nat \subseteq {n \in Nat : n <= N => w[n] = c}
  BY <1>3, <1>4, Induct
<1>. QED BY <1>1, <1>2, <1>5

(* One that was merged away has the survivor of what it was merged into. *)
LEMMA EndNext ==
  ASSUME NEW d, NEW at, Down(d, at), NEW c \in Live(d), Merged(d, c) # Nothing
  PROVE  Resolve(d, c) = Resolve(d, Merged(d, c))
<1>. DEFINE N == Cardinality(Company)
            b == Merged(d, c)
<1>1. PICK w : Hops(d, c, w) /\ Resolve(d, c) = w[N]
  BY WalkIs
<1>2. N \in Nat /\ N # 0 /\ b \in Live(d)
  <2>1. IsFiniteSet(Company) /\ Cardinality(Company) \in Nat /\ c \in Company
    BY CompaniesFinite DEF Live
  <2>2. Company # {}
    BY <2>1
  <2>3. Cardinality(Company) # 0
    BY <2>1, <2>2, FS_EmptySet
  <2>. QED BY <2>1, <2>3 DEF Down
<1>3. PICK v : Hops(d, b, v) /\ Resolve(d, b) = v[N]
  BY <1>2, WalkIs
<1>. DEFINE P == {n \in Nat : n + 1 <= N => w[n + 1] = v[n]}
<1>4. 0 \in P
  <2>1. 1 \in 1..N /\ 1 - 1 = 0 /\ 0 + 1 = 1
    BY <1>2
  <2>. QED BY <2>1, <1>1, <1>3 DEF Hops
<1>5. ASSUME NEW n \in Nat, n \in P PROVE n + 1 \in P
  <2>. SUFFICES ASSUME (n + 1) + 1 <= N PROVE w[(n + 1) + 1] = v[n + 1]
    OBVIOUS
  <2>1. n + 1 <= N /\ n + 1 \in 1..N /\ (n + 1) - 1 = n /\ (n + 1) + 1 \in 1..N /\ ((n + 1) + 1) - 1 = n + 1
    BY <1>2
  <2>2. w[n + 1] = v[n]
    BY <2>1, <1>5
  <2>. HIDE DEF P, N
  <2>3. v[n + 1] = IF Merged(d, v[n]) = Nothing THEN v[n] ELSE Merged(d, v[n])
    BY <2>1, <1>3 DEF Hops, N
  <2>4. w[(n + 1) + 1] = IF Merged(d, w[n + 1]) = Nothing THEN w[n + 1] ELSE Merged(d, w[n + 1])
    BY <2>1, <1>1 DEF Hops, N
  <2>. QED BY <2>2, <2>3, <2>4
<1>6. Nat \subseteq P
  <2>. HIDE DEF P
  <2>. QED BY <1>4, <1>5, Induct
<1>7. w[N] = v[N - 1]
  <2>1. N - 1 \in Nat /\ (N - 1) + 1 = N
    BY <1>2
  <2>. QED BY <2>1, <1>6, <1>2
<1>8. Merged(d, w[N]) = Nothing
  BY <1>1, EndLive
<1>9. v[N] = v[N - 1]
  <2>1. N \in 1..N
    BY <1>2
  <2>. QED BY <2>1, <1>3, <1>7, <1>8 DEF Hops
<1>. QED BY <1>1, <1>3, <1>7, <1>9

---------------------------------------------------------------------------
(* What merges rely on *)

(* The companies whose upsert has begun, and their order. *)
Born == {born[k] : k \in 1..Len(born)}
Age  == [c \in Company |-> IF c \in Born THEN Place(c) ELSE 0]

(* The shape of a row of companies and of the state of an upsert. *)
CompanyField == {"exists", "merged", "ref", "country", "named"}
UpField      == {"pc", "todo", "rest", "found", "company", "losers", "country", "named", "twice"}
IsCompany(row) == row = [x \in CompanyField |-> row[x]]
IsUp(r)        == r = [x \in UpField |-> r[x]]

(* Nothing is born twice, or before its upsert begins. *)
BirthsOK ==
  /\ born \in Seq(Company) /\ \A j, k \in 1..Len(born) : born[j] = born[k] => j = k
  /\ \A u \in Upsert : up[u].pc = "idle" => u \notin Born

(* What is committed: whoever has an identifier, or is merged into, is     *)
(* there, and merges lead to older companies.                              *)
DbGood ==
  /\ \A c \in Company : Row(c) \in DOMAIN db /\ IsCompany(db[Row(c)])
  /\ \A i \in Identifier : Ident(i) \in DOMAIN db /\ (db[Ident(i)] = Nothing \/ db[Ident(i)] \in Live(db))
  /\ Live(db) \subseteq Born /\ Down(db, Age)

(* Rows that leave what is there there, and point back only. *)
GoodRows(rows, live) ==
  /\ \A c \in Company : Row(c) \in DOMAIN rows =>
       /\ IsCompany(rows[Row(c)]) /\ rows[Row(c)].exists /\ c \in Born
       /\ rows[Row(c)].merged # Nothing => rows[Row(c)].merged \in live /\ Age[rows[Row(c)].merged] < Age[c]
  /\ \A i \in Identifier : Ident(i) \in DOMAIN rows => rows[Ident(i)] \in live

(* Where an upsert merges; where it has a company. *)
Merger  == {"idents", "sources", "views", "move", "point"}
Holding == Merger \cup {"attach", "again", "view", "commit"}

UpShape == up = [u \in Upsert |-> up[u]] /\ \A u \in Upsert : IsUp(up[u])

(* What an upsert goes by: r is where it is, live what it sees. *)
Knowing(u, r, live) ==
  /\ r.pc \in Holding => r.company \in live
  /\ r.pc \in Merger => r.losers # {}
  /\ \A l \in r.losers : l \in live /\ r.company \in live /\ Age[r.company] < Age[l]
  /\ DOMAIN r.found \subseteq live
  /\ r.pc = "match" => u \in Born
  /\ r.pc \in {"match", "again"} => r.todo \in Seq(Identifier)

Knows(u) == Knowing(u, up[u], Live(Seen(u)))

(* Invites are of companies that are there. *)
Asked ==
  /\ \A r \in Request : db[Invite(r)].status # "none" => db[Invite(r)].company \in Live(db)
  /\ \A r \in Request : request[r].pc = "invitee" => request[r].company \in Live(db)

(* The inductive invariant. *)
LiveInv ==
  /\ BirthsOK /\ UpShape /\ DbGood /\ Asked
  /\ \A t \in Txn : GoodRows(own[t], Live(Seen(t)))
  /\ \A u \in Upsert : Knows(u)

(* Rows of two tables are two. *)
LEMMA RegistryRows ==
  /\ \A i, c : Ident(i) # Row(c)
  /\ \A i, j : Ident(i) = Ident(j) => i = j
  /\ \A v, c : Source(v) # Row(c) /\ Source(v) # Ident(c)
  /\ \A t, c, x : View(t, c) # Row(x) /\ View(t, c) # Ident(x)
  /\ \A c, x : Profile(c) # Row(x) /\ Profile(c) # Ident(x)
BY DEF Ident, Row, Source, View, Profile

(* What a transaction sees. *)
LEMMA SeenIs ==
  ASSUME NEW t
  PROVE  \A x \in DOMAIN db : Seen(t)[x] = IF x \in DOMAIN own[t] THEN own[t][x] ELSE db[x]
BY DEF Seen, Overlay

(* oldest() finds a company older than the others. *)
LEMMA OldestIs ==
  ASSUME BirthsOK, NEW cs, cs \subseteq Born, cs # {}
  PROVE  Oldest(cs) \in cs /\ \A c \in cs \ {Oldest(cs)} : Age[Oldest(cs)] < Age[c]
<1>1. ASSUME NEW c \in Born PROVE Place(c) \in 1..Len(born) /\ born[Place(c)] = c /\ c \in Company /\ Age[c] = Place(c)
  <2>1. \E k \in 1..Len(born) : born[k] = c
    BY DEF Born
  <2>2. Place(c) \in 1..Len(born) /\ born[Place(c)] = c
    BY <2>1 DEF Place
  <2>. QED BY <2>2 DEF Age, BirthsOK
<1>. DEFINE P == {Place(c) : c \in cs}
<1>2. P \subseteq Nat /\ P # {}
  BY <1>1
<1>3. PICK x \in P : \A y \in P : x <= y
  <2>. HIDE DEF P
  <2>. QED BY <1>2, Least
<1>4. PICK first \in cs : \A other \in cs : Place(first) <= Place(other)
  BY <1>3
<1>5. Oldest(cs) \in cs /\ \A other \in cs : Place(Oldest(cs)) <= Place(other)
  BY <1>4 DEF Oldest
<1>6. ASSUME NEW c \in cs \ {Oldest(cs)} PROVE Age[Oldest(cs)] < Age[c]
  <2>1. /\ Place(Oldest(cs)) <= Place(c) /\ Place(c) \in Nat /\ Place(Oldest(cs)) \in Nat
        /\ born[Place(c)] = c /\ born[Place(Oldest(cs))] = Oldest(cs)
        /\ Age[c] = Place(c) /\ Age[Oldest(cs)] = Place(Oldest(cs))
    BY <1>1, <1>5
  <2>. QED BY <2>1
<1>. QED BY <1>5, <1>6

(* Every company has an age. *)
LEMMA AgeIs == BirthsOK => Age \in [Company -> Nat]
<1>1. ASSUME BirthsOK, NEW c \in Born PROVE Place(c) \in Nat
  <2>1. \E k \in 1..Len(born) : born[k] = c
    BY <1>1 DEF Born
  <2>2. Place(c) \in 1..Len(born)
    BY <2>1 DEF Place
  <2>3. Len(born) \in Nat
    BY <1>1 DEF BirthsOK
  <2>. QED BY <2>2, <2>3
<1>. QED BY <1>1 DEF Age

(* What a transaction sees is as good as what is committed, and no less is *)
(* there.                                                                  *)
LEMMA SeenGood ==
  ASSUME BirthsOK, DbGood, NEW t, GoodRows(own[t], Live(Seen(t)))
  PROVE  /\ Live(db) \subseteq Live(Seen(t)) /\ Live(Seen(t)) \subseteq Born /\ Down(Seen(t), Age)
         /\ \A c \in Company : IsCompany(Seen(t)[Row(c)])
         /\ \A i \in Identifier : Seen(t)[Ident(i)] = Nothing \/ Seen(t)[Ident(i)] \in Live(Seen(t))
<1>1. ASSUME NEW c \in Company
      PROVE  Seen(t)[Row(c)] = IF Row(c) \in DOMAIN own[t] THEN own[t][Row(c)] ELSE db[Row(c)]
  BY SeenIs DEF DbGood
<1>2. ASSUME NEW i \in Identifier
      PROVE  Seen(t)[Ident(i)] = IF Ident(i) \in DOMAIN own[t] THEN own[t][Ident(i)] ELSE db[Ident(i)]
  BY SeenIs DEF DbGood
<1>. DEFINE live == Live(Seen(t))
<1>3. Live(db) \subseteq live
  BY <1>1 DEF Live, GoodRows
<1>4. live \subseteq Born
  BY <1>1 DEF Live, GoodRows, DbGood
<1>5. \A c \in Company : IsCompany(Seen(t)[Row(c)])
  BY <1>1 DEF GoodRows, DbGood
<1>. HIDE DEF live
<1>6. \A i \in Identifier : Seen(t)[Ident(i)] = Nothing \/ Seen(t)[Ident(i)] \in live
  BY <1>2, <1>3 DEF GoodRows, DbGood, live
<1>7. ASSUME NEW c \in live, Merged(Seen(t), c) # Nothing
      PROVE  Merged(Seen(t), c) \in live /\ Age[Merged(Seen(t), c)] < Age[c]
  <2>0. c \in Company
    BY DEF live, Live
  <2>1. CASE Row(c) \in DOMAIN own[t]
    BY <2>0, <2>1, <1>1, <1>7 DEF GoodRows, Merged, live
  <2>2. CASE Row(c) \notin DOMAIN own[t]
    <3>1. Seen(t)[Row(c)] = db[Row(c)] /\ c \in Live(db)
      BY <2>0, <2>2, <1>1 DEF live, Live
    <3>. QED BY <3>1, <1>3, <1>7 DEF DbGood, Down, Merged
  <2>. QED BY <2>1, <2>2
<1>8. Down(Seen(t), Age)
  BY <1>7, AgeIs DEF Down, live
<1>. QED BY <1>3, <1>4, <1>5, <1>6, <1>8 DEF live

(* Good rows over good rows. *)
LEMMA GoodOver ==
  ASSUME NEW f, NEW g, NEW live, GoodRows(f, live), GoodRows(g, live)
  PROVE  GoodRows(Overlay(f, g), live)
<1>1. /\ DOMAIN Overlay(f, g) = DOMAIN f \cup DOMAIN g
      /\ \A x \in DOMAIN f : Overlay(f, g)[x] = f[x]
      /\ \A x \in DOMAIN g : x \notin DOMAIN f => Overlay(f, g)[x] = g[x]
  BY OverlayIs
<1>2. ASSUME NEW c \in Company, Row(c) \in DOMAIN Overlay(f, g)
      PROVE  (Row(c) \in DOMAIN f /\ Overlay(f, g)[Row(c)] = f[Row(c)]) \/ (Row(c) \in DOMAIN g /\ Overlay(f, g)[Row(c)] = g[Row(c)])
  BY <1>1, <1>2
<1>3. ASSUME NEW i \in Identifier, Ident(i) \in DOMAIN Overlay(f, g)
      PROVE  Overlay(f, g)[Ident(i)] \in live
  BY <1>1, <1>3 DEF GoodRows
<1>. HIDE DEF GoodRows
<1>4. ASSUME NEW c \in Company, Row(c) \in DOMAIN Overlay(f, g)
      PROVE  LET row == Overlay(f, g)[Row(c)] IN
             /\ IsCompany(row) /\ row.exists /\ c \in Born
             /\ row.merged # Nothing => row.merged \in live /\ Age[row.merged] < Age[c]
  <2>1. CASE Row(c) \in DOMAIN f /\ Overlay(f, g)[Row(c)] = f[Row(c)]
    BY <2>1 DEF GoodRows
  <2>2. CASE Row(c) \in DOMAIN g /\ Overlay(f, g)[Row(c)] = g[Row(c)]
    BY <2>2 DEF GoodRows
  <2>. QED BY <1>2, <1>4, <2>1, <2>2
<1>. QED BY <1>3, <1>4 DEF GoodRows

(* More that is there does no harm. *)
LEMMA GoodMore ==
  ASSUME NEW f, NEW live, NEW more, GoodRows(f, live), live \subseteq more
  PROVE  GoodRows(f, more)
BY DEF GoodRows

(* Rows of another table. *)
Elsewhere(rows) == (\A c \in Company : Row(c) \notin DOMAIN rows) /\ (\A i \in Identifier : Ident(i) \notin DOMAIN rows)

(* They do no harm. *)
LEMMA ElsewhereGood ==
  ASSUME NEW f, Elsewhere(f), NEW live PROVE GoodRows(f, live)
BY DEF Elsewhere, GoodRows

(* Ages change when an upsert begins only. *)
LEMMA AgeStays == ASSUME UNCHANGED born PROVE Age' = Age /\ Born' = Born
BY DEF Age, Born, Place

(* What an upsert goes by holds in what has more companies. *)
LEMMA KnowingMore ==
  ASSUME NEW u, NEW r, NEW live, NEW more, Knowing(u, r, live), live \subseteq more
  PROVE  Knowing(u, r, more)
BY DEF Knowing

(* What a transaction writes over its rows. *)
LEMMA WrittenGood ==
  ASSUME LiveInv, NEW t \in Txn, NEW new, own'[t] = Overlay(new, own[t]), UNCHANGED <<db, born>>,
         GoodRows(new, Live(Seen(t)))
  PROVE  /\ Live(Seen(t)) \subseteq Live(Seen(t))'
         /\ \A c \in Company : Row(c) \in DOMAIN new => c \in Live(Seen(t))'
         /\ GoodRows(own[t], Live(Seen(t)))'
<1>. DEFINE rows == Overlay(new, own[t])
<1>1. GoodRows(own[t], Live(Seen(t))) /\ DbGood
  BY DEF LiveInv
<1>2. GoodRows(rows, Live(Seen(t)))
  BY <1>1, GoodOver
<1>3. ASSUME NEW c \in Company
      PROVE  /\ Seen(t)[Row(c)] = IF Row(c) \in DOMAIN own[t] THEN own[t][Row(c)] ELSE db[Row(c)]
             /\ Seen(t)'[Row(c)] = IF Row(c) \in DOMAIN rows THEN rows[Row(c)] ELSE db[Row(c)]
  <2>1. Row(c) \in DOMAIN db
    BY <1>1 DEF DbGood
  <2>2. Seen(t)' = Overlay(rows, db)
    BY DEF Seen
  <2>. HIDE DEF rows
  <2>3. Seen(t)'[Row(c)] = IF Row(c) \in DOMAIN rows THEN rows[Row(c)] ELSE db[Row(c)]
    BY <2>1, <2>2 DEF Overlay
  <2>. QED BY <2>1, <2>3, SeenIs
<1>4. DOMAIN rows = DOMAIN new \cup DOMAIN own[t]
  BY OverlayIs
<1>. HIDE DEF rows
<1>5. Live(Seen(t)) \subseteq Live(Seen(t)')
  BY <1>2, <1>3, <1>4 DEF Live, GoodRows
<1>6. \A c \in Company : Row(c) \in DOMAIN new => c \in Live(Seen(t)')
  BY <1>2, <1>3, <1>4 DEF Live, GoodRows
<1>7. GoodRows(rows, Live(Seen(t)'))
  BY <1>2, <1>5, GoodMore
<1>8. Live(Seen(t))' = Live(Seen(t)') /\ own'[t] = rows
  BY DEF Live, rows
<1>9. GoodRows(own[t], Live(Seen(t)))'
  BY <1>7, <1>8, AgeStays DEF GoodRows
<1>. QED BY <1>5, <1>6, <1>8, <1>9

(* A step that commits nothing and changes what one transaction has        *)
(* written, to good rows.                                                  *)
LEMMA WritesInv ==
  ASSUME LiveInv, NEW t \in Txn, UNCHANGED <<db, born, request>>, \A s \in Txn : s # t => own'[s] = own[s],
         GoodRows(own[t], Live(Seen(t)))',
         UpShape', \A u \in Upsert : u # t => up'[u] = up[u],
         t \in Upsert => Knows(t)' /\ up'[t].pc # "idle"
  PROVE  LiveInv'
<1>1. Age' = Age /\ Born' = Born
  BY AgeStays
<1>2. ASSUME NEW s \in Txn, s # t PROVE Seen(s)' = Seen(s) /\ Live(Seen(s))' = Live(Seen(s)) /\ own'[s] = own[s]
  BY <1>2 DEF Seen, Live
<1>3. ASSUME NEW s \in Txn PROVE GoodRows(own[s], Live(Seen(s)))'
  <2>1. CASE s = t
    BY <2>1
  <2>2. CASE s # t
    <3>1. GoodRows(own[s], Live(Seen(s)))
      BY DEF LiveInv
    <3>. QED BY <3>1, <2>2, <1>1, <1>2 DEF GoodRows
  <2>. QED BY <2>1, <2>2
<1>4. ASSUME NEW u \in Upsert PROVE Knows(u)'
  <2>1. CASE u = t
    BY <2>1
  <2>2. CASE u # t
    <3>1. Knows(u) /\ u \in Txn
      BY Transactors DEF LiveInv
    <3>2. Live(Seen(u))' = Live(Seen(u)) /\ up'[u] = up[u]
      BY <2>2, <3>1, <1>2
    <3>. QED BY <3>1, <3>2, <1>1 DEF Knows, Knowing
  <2>. QED BY <2>1, <2>2
<1>5. BirthsOK'
  BY <1>1 DEF LiveInv, BirthsOK
<1>6. DbGood' /\ Asked'
  BY <1>1 DEF LiveInv, DbGood, Asked, Down, Live, Merged
<1>. QED BY <1>3, <1>4, <1>5, <1>6 DEF LiveInv

(* A step of an upsert within its transaction: it writes good rows and     *)
(* goes on from r.                                                         *)
LEMMA UpsertWrites ==
  ASSUME LiveInv, AcceptInv, NEW u \in Upsert, NEW new, NEW r,
         UNCHANGED <<db, born, request>>, own' = [own EXCEPT ![u] = Overlay(new, own[u])],
         GoodRows(new, Live(Seen(u))), up' = [up EXCEPT ![u] = r], IsUp(r), r.pc # "idle",
         Live(Seen(u)) \subseteq Live(Seen(u))' /\ (\A c \in Company : Row(c) \in DOMAIN new => c \in Live(Seen(u))')
           => Knowing(u, r, Live(Seen(u))')
  PROVE  LiveInv'
<1>1. own = [t \in Txn |-> own[t]] /\ u \in Txn
  BY Transactors DEF AcceptInv, Shape
<1>2. own'[u] = Overlay(new, own[u]) /\ \A s \in Txn : s # u => own'[s] = own[s]
  BY <1>1
<1>3. Knowing(u, r, Live(Seen(u))') /\ GoodRows(own[u], Live(Seen(u)))'
  BY <1>1, <1>2, WrittenGood
<1>4. up = [v \in Upsert |-> up[v]] /\ \A v \in Upsert : IsUp(up[v])
  BY DEF LiveInv, UpShape
<1>5. up'[u] = r /\ \A v \in Upsert : v # u => up'[v] = up[v]
  BY <1>4
<1>6. UpShape'
  <2>1. up' = [v \in Upsert |-> up'[v]]
    BY <1>4
  <2>2. \A v \in Upsert : IsUp(up'[v])
    BY <1>4, <1>5
  <2>. QED BY <2>1, <2>2 DEF UpShape, IsUp
<1>7. Knows(u)'
  BY <1>3, <1>5, AgeStays DEF Knows, Knowing
<1>. QED BY <1>1, <1>2, <1>3, <1>5, <1>6, <1>7, WritesInv

(* A step of an upsert that writes nothing. *)
LEMMA UpsertReads ==
  ASSUME LiveInv, AcceptInv, NEW u \in Upsert, NEW r, UNCHANGED <<db, born, request, own>>,
         up' = [up EXCEPT ![u] = r], IsUp(r), r.pc # "idle", Knowing(u, r, Live(Seen(u)))
  PROVE  LiveInv'
<1>1. u \in Txn /\ GoodRows(own[u], Live(Seen(u)))
  BY Transactors DEF LiveInv
<1>2. Live(Seen(u))' = Live(Seen(u)) /\ own'[u] = own[u]
  BY DEF Live, Seen
<1>3. GoodRows(own[u], Live(Seen(u)))'
  BY <1>1, <1>2, AgeStays DEF GoodRows
<1>4. up = [v \in Upsert |-> up[v]] /\ \A v \in Upsert : IsUp(up[v])
  BY DEF LiveInv, UpShape
<1>5. up'[u] = r /\ \A v \in Upsert : v # u => up'[v] = up[v]
  BY <1>4
<1>6. UpShape'
  <2>1. up' = [v \in Upsert |-> up'[v]]
    BY <1>4
  <2>2. \A v \in Upsert : IsUp(up'[v])
    BY <1>4, <1>5
  <2>. QED BY <2>1, <2>2 DEF UpShape, IsUp
<1>7. Knows(u)'
  BY <1>2, <1>5, AgeStays DEF Knows, Knowing
<1>. QED BY <1>1, <1>3, <1>5, <1>6, <1>7, WritesInv

---------------------------------------------------------------------------
(* The identifiers of an upsert *)

(* normalizeIdentifiers adds identifiers only. *)
LEMMA WithDomainIs ==
  ASSUME NEW ids \in Seq(Identifier), NEW i \in Identifier \cup {Nothing} PROVE WithDomain(ids, i) \in Seq(Identifier)
<1>1. ASSUME NEW s \in Seq(Identifier), NEW j \in Identifier \cup {Nothing} PROVE Added(s, j) \in Seq(Identifier)
  BY DEF Added
<1>2. i # Nothing => DomainOf[i] \in Identifier \cup {Nothing}
  BY RegistryAssumption
<1>. QED BY <1>1, <1>2 DEF WithDomain

(* ids is the sequence of what normalizeIdentifiers has after n of them.   *)
Normalizes(u, ids) ==
  ids = [n \in 0..Len(Raw[u]) |-> IF n = 0 THEN <<>> ELSE WithDomain(ids[n - 1], Form[Raw[u][n]])]

(* Its result is a sequence of identifiers. *)
LEMMA IdsAre == ASSUME NEW u \in Upsert PROVE Ids[u] \in Seq(Identifier)
<1>. DEFINE V == Seq(Identifier)
            N == Len(Raw[u])
            step == [n \in 1..N |-> [s \in V |-> WithDomain(s, Form[Raw[u][n]])]]
            ids == CHOOSE f : Normalizes(u, f)
<1>1. Raw[u] \in Seq(DOMAIN Form) /\ N \in Nat
  BY RegistryAssumption
<1>2. \A n \in 1..N : Form[Raw[u][n]] \in Identifier \cup {Nothing}
  <2>1. \A n \in 1..N : Raw[u][n] \in DOMAIN Form
    BY <1>1
  <2>. QED BY <2>1, RegistryAssumption
<1>3. \A n \in 1..N : \A s \in V : WithDomain(s, Form[Raw[u][n]]) \in V
  BY <1>2, WithDomainIs
<1>4. <<>> \in V
  OBVIOUS
<1>. HIDE DEF V, N
<1>5. step \in [1..N -> [V -> V]]
  BY <1>3
<1>6. PICK f \in [0..N -> V] : f[0] = <<>> /\ \A n \in 1..N : f[n] = step[n][f[n - 1]]
  <2>1. N \in Nat
    BY <1>1
  <2>. HIDE DEF step, ids
  <2>. QED BY <1>4, <1>5, <2>1, Recursion
<1>7. Normalizes(u, f)
  <2>1. ASSUME NEW n \in 0..N PROVE f[n] = IF n = 0 THEN <<>> ELSE WithDomain(f[n - 1], Form[Raw[u][n]])
    <3>1. n # 0 => n \in 1..N /\ n - 1 \in 0..N
      BY <1>1
    <3>. QED BY <3>1, <1>6
  <2>2. f = [n \in 0..N |-> IF n = 0 THEN <<>> ELSE WithDomain(f[n - 1], Form[Raw[u][n]])]
    BY <2>1
  <2>. QED BY <2>2 DEF Normalizes, N
<1>8. Normalizes(u, ids)
  BY <1>7, Zenon
<1>9. Ids[u] = ids[N]
  BY DEF Ids, Normalizes, N
<1>. HIDE DEF ids
<1>10. ids = [n \in 0..N |-> IF n = 0 THEN <<>> ELSE WithDomain(ids[n - 1], Form[Raw[u][n]])]
  BY <1>8 DEF Normalizes, N
<1>. DEFINE P == {n \in Nat : n <= N => ids[n] \in V}
<1>11. 0 \in P
  <2>1. 0 \in 0..N
    BY <1>1
  <2>2. ids[0] = <<>>
    BY <1>10, <2>1
  <2>. QED BY <2>2, <1>4
<1>12. ASSUME NEW n \in P PROVE n + 1 \in P
  <2>. SUFFICES ASSUME n + 1 <= N PROVE ids[n + 1] \in V
    OBVIOUS
  <2>1. n + 1 \in 0..N /\ n + 1 \in 1..N /\ n + 1 # 0 /\ (n + 1) - 1 = n /\ ids[n] \in V
    BY <1>1
  <2>2. ids[n + 1] = WithDomain(ids[n], Form[Raw[u][n + 1]])
    BY <1>10, <2>1
  <2>. QED BY <2>1, <2>2, <1>3
<1>13. N \in P
  <2>. HIDE DEF P
  <2>. QED BY <1>1, <1>11, <1>12, Induct
<1>. QED BY <1>9, <1>13, <1>1 DEF V

(* strong is what is left of the first n. *)
Selects(u, strong) ==
  strong = [n \in 0..Len(Ids[u]) |->
              IF n = 0 THEN <<>> ELSE IF Ids[u][n] \in Strong THEN Append(strong[n - 1], Ids[u][n]) ELSE strong[n - 1]]

(* There is such a sequence. *)
LEMMA SelectsThere == ASSUME NEW u \in Upsert PROVE \E f : Selects(u, f)
<1>. DEFINE V == Seq(Strong)
            N == Len(Ids[u])
            step == [n \in 1..N |-> [s \in V |-> IF Ids[u][n] \in Strong THEN Append(s, Ids[u][n]) ELSE s]]
<1>1. N \in Nat
  BY IdsAre
<1>2. <<>> \in V
  OBVIOUS
<1>3. \A n \in 1..N : \A s \in V : (IF Ids[u][n] \in Strong THEN Append(s, Ids[u][n]) ELSE s) \in V
  OBVIOUS
<1>. HIDE DEF V, N
<1>4. step \in [1..N -> [V -> V]]
  BY <1>3
<1>5. PICK f \in [0..N -> V] : f[0] = <<>> /\ \A n \in 1..N : f[n] = step[n][f[n - 1]]
  <2>. HIDE DEF step
  <2>. QED BY <1>1, <1>2, <1>4, Recursion
<1>6. ASSUME NEW n \in 0..N
      PROVE  f[n] = IF n = 0 THEN <<>> ELSE IF Ids[u][n] \in Strong THEN Append(f[n - 1], Ids[u][n]) ELSE f[n - 1]
  <2>1. n # 0 => n \in 1..N /\ n - 1 \in 0..N
    BY <1>1
  <2>. QED BY <2>1, <1>5
<1>7. f = [n \in 0..N |-> IF n = 0 THEN <<>> ELSE IF Ids[u][n] \in Strong THEN Append(f[n - 1], Ids[u][n]) ELSE f[n - 1]]
  BY <1>6
<1>. QED BY <1>7 DEF Selects, N

(* StrongIds gives the strong ones, and all of them. *)
LEMMA StrongIdsAre ==
  ASSUME NEW u \in Upsert
  PROVE  /\ StrongIds(u) \in Seq(Identifier)
         /\ \A k \in 1..Len(Ids[u]) : Ids[u][k] \in Strong =>
              \E j \in 1..Len(StrongIds(u)) : StrongIds(u)[j] = Ids[u][k]
<1>. DEFINE V == Seq(Strong)
            N == Len(Ids[u])
            strong == CHOOSE f : Selects(u, f)
            Has(s, n) == \A k \in 1..n : Ids[u][k] \in Strong => \E j \in 1..Len(s) : s[j] = Ids[u][k]
<1>1. N \in Nat
  BY IdsAre
<1>2. Selects(u, strong)
  BY SelectsThere, Zenon
<1>3. StrongIds(u) = strong[N]
  BY DEF StrongIds, Selects, N
<1>. HIDE DEF strong
<1>4. strong = [n \in 0..N |->
              IF n = 0 THEN <<>> ELSE IF Ids[u][n] \in Strong THEN Append(strong[n - 1], Ids[u][n]) ELSE strong[n - 1]]
  BY <1>2 DEF Selects, N
<1>. HIDE DEF N
<1>. DEFINE P == {n \in Nat : n <= N => strong[n] \in V /\ Has(strong[n], n)}
<1>5. 0 \in P
  <2>1. 0 \in 0..N
    BY <1>1
  <2>2. strong[0] = <<>>
    BY <1>4, <2>1
  <2>3. strong[0] \in V
    BY <2>2
  <2>4. 1..0 = {}
    OBVIOUS
  <2>. QED BY <2>3, <2>4
<1>6. ASSUME NEW n \in P PROVE n + 1 \in P
  <2>. SUFFICES ASSUME n + 1 <= N PROVE strong[n + 1] \in V /\ Has(strong[n + 1], n + 1)
    OBVIOUS
  <2>1. n + 1 \in 0..N /\ n + 1 # 0 /\ (n + 1) - 1 = n /\ strong[n] \in V /\ Has(strong[n], n) /\ n \in Nat
    BY <1>1
  <2>2. strong[n + 1] = IF Ids[u][n + 1] \in Strong THEN Append(strong[n], Ids[u][n + 1]) ELSE strong[n]
    BY <1>4, <2>1
  <2>3. CASE Ids[u][n + 1] \notin Strong
    BY <2>1, <2>2, <2>3
  <2>4. CASE Ids[u][n + 1] \in Strong
    <3>1. strong[n + 1] = Append(strong[n], Ids[u][n + 1])
      BY <2>2, <2>4
    <3>2. /\ strong[n + 1] \in V /\ Len(strong[n]) \in Nat /\ Len(strong[n + 1]) = Len(strong[n]) + 1
          /\ strong[n + 1][Len(strong[n]) + 1] = Ids[u][n + 1]
          /\ \A j \in 1..Len(strong[n]) : strong[n + 1][j] = strong[n][j]
      BY <3>1, <2>1, <2>4
    <3>3. ASSUME NEW k \in 1..(n + 1), Ids[u][k] \in Strong
          PROVE  \E j \in 1..Len(strong[n + 1]) : strong[n + 1][j] = Ids[u][k]
      <4>1. CASE k = n + 1
        BY <4>1, <3>2
      <4>2. CASE k # n + 1
        <5>1. k \in 1..n
          BY <4>2, <2>1
        <5>2. PICK j \in 1..Len(strong[n]) : strong[n][j] = Ids[u][k]
          BY <5>1, <3>3, <2>1
        <5>. QED BY <5>2, <3>2
      <4>. QED BY <4>1, <4>2
    <3>. QED BY <3>2, <3>3
  <2>. QED BY <2>3, <2>4
<1>7. N \in P
  <2>. HIDE DEF P
  <2>. QED BY <1>1, <1>5, <1>6, Induct
<1>8. strong[N] \in Seq(Strong) /\ Has(strong[N], N)
  BY <1>7, <1>1
<1>9. strong[N] \in Seq(Identifier)
  BY <1>8, RegistryAssumption
<1>. QED BY <1>3, <1>8, <1>9 DEF N

---------------------------------------------------------------------------
(* What an upsert reads and writes keeps what merges rely on *)

(* Where upsert u is, what it sees and what is written. *)
LEMMA UpHere ==
  ASSUME LiveInv, NEW u \in Upsert
  PROVE  /\ u \in Txn /\ u \in Company /\ up = [v \in Upsert |-> up[v]] /\ IsUp(up[u])
         /\ Knowing(u, up[u], Live(Seen(u)))
         /\ Live(db) \subseteq Live(Seen(u)) /\ Live(Seen(u)) \subseteq Born /\ Down(Seen(u), Age)
         /\ \A c \in Company : IsCompany(Seen(u)[Row(c)])
         /\ \A i \in Identifier : Seen(u)[Ident(i)] = Nothing \/ Seen(u)[Ident(i)] \in Live(Seen(u))
<1>1. u \in Txn /\ u \in Company
  BY Transactors DEF Company
<1>2. BirthsOK /\ DbGood /\ GoodRows(own[u], Live(Seen(u)))
  BY <1>1 DEF LiveInv
<1>3. up = [v \in Upsert |-> up[v]] /\ IsUp(up[u]) /\ Knowing(u, up[u], Live(Seen(u)))
  BY DEF LiveInv, UpShape, Knows
<1>4. /\ Live(db) \subseteq Live(Seen(u)) /\ Live(Seen(u)) \subseteq Born /\ Down(Seen(u), Age)
      /\ \A c \in Company : IsCompany(Seen(u)[Row(c)])
      /\ \A i \in Identifier : Seen(u)[Ident(i)] = Nothing \/ Seen(u)[Ident(i)] \in Live(Seen(u))
  BY <1>2, SeenGood
<1>. QED BY <1>1, <1>3, <1>4

(* Whoever holds an identifier in what an upsert sees is there. *)
LEMMA HolderLive ==
  ASSUME LiveInv, NEW u \in Upsert, NEW i \in Identifier
  PROVE  Holder(Seen(u), i) = Nothing \/ Holder(Seen(u), i) \in Live(Seen(u))
<1>1. Down(Seen(u), Age) /\ (Seen(u)[Ident(i)] = Nothing \/ Seen(u)[Ident(i)] \in Live(Seen(u)))
  BY UpHere
<1>. QED BY <1>1, EndLive DEF Holder

(* A row without a usable identifier is rejected. *)
LEMMA RejectKeeps ==
  ASSUME LiveInv, AcceptInv, NEW u \in Upsert, RejectRow(u), UNCHANGED request PROVE LiveInv'
<1>. DEFINE r == [up[u] EXCEPT !.pc = "aborted"]
<1>1. up = [v \in Upsert |-> up[v]] /\ IsUp(up[u]) /\ Knowing(u, up[u], Live(Seen(u)))
  BY UpHere
<1>2. up' = [up EXCEPT ![u] = r] /\ UNCHANGED <<db, born, request, own>>
  BY DEF RejectRow
<1>3. IsUp(r) /\ r.pc = "aborted" /\ r.losers = up[u].losers /\ r.company = up[u].company /\ r.found = up[u].found
  BY <1>1 DEF IsUp, UpField
<1>. HIDE DEF r
<1>4. Knowing(u, r, Live(Seen(u)))
  BY <1>1, <1>3 DEF Knowing, Holding, Merger
<1>. QED BY <1>2, <1>3, <1>4, UpsertReads

(* companiesOwning looks up an identifier. *)
LEMMA LookUpKeeps ==
  ASSUME LiveInv, AcceptInv, NEW u \in Upsert, LookUp(u), UNCHANGED request PROVE LiveInv'
<1>. DEFINE c == Holder(Seen(u), Head(up[u].todo))
            row == Seen(u)[Row(c)]
            found == IF c = Nothing THEN up[u].found ELSE Overlay(OneRow(c, row), up[u].found)
            r == [up[u] EXCEPT !.todo = Tail(up[u].todo), !.found = found]
<1>1. up = [v \in Upsert |-> up[v]] /\ IsUp(up[u]) /\ Knowing(u, up[u], Live(Seen(u)))
  BY UpHere
<1>2. up' = [up EXCEPT ![u] = r] /\ UNCHANGED <<db, born, request, own>>
      /\ up[u].pc \in {"match", "again"} /\ up[u].todo # <<>>
  BY <1>1 DEF LookUp
<1>3. up[u].todo \in Seq(Identifier)
  BY <1>1, <1>2 DEF Knowing
<1>4. Head(up[u].todo) \in Identifier /\ Tail(up[u].todo) \in Seq(Identifier)
  BY <1>2, <1>3
<1>5. c = Nothing \/ c \in Live(Seen(u))
  BY <1>4, HolderLive
<1>. HIDE DEF c
<1>6. DOMAIN found \subseteq DOMAIN up[u].found \cup {c} /\ (c = Nothing => found = up[u].found)
  <2>1. DOMAIN Overlay(OneRow(c, row), up[u].found) = {c} \cup DOMAIN up[u].found
    <3>1. DOMAIN OneRow(c, row) = {c}
      BY OneRowIs
    <3>. QED BY <3>1 DEF Overlay
  <2>. QED BY <2>1
<1>. HIDE DEF found
<1>7. IsUp(r) /\ r.pc = up[u].pc /\ r.losers = up[u].losers /\ r.company = up[u].company /\ r.found = found
      /\ r.todo = Tail(up[u].todo)
  BY <1>1 DEF IsUp, UpField
<1>. HIDE DEF r
<1>8. DOMAIN found \subseteq Live(Seen(u))
  BY <1>1, <1>5, <1>6 DEF Knowing
<1>9. Knowing(u, r, Live(Seen(u)))
  BY <1>1, <1>4, <1>7, <1>8 DEF Knowing
<1>10. r.pc # "idle"
  BY <1>2, <1>7
<1>. QED BY <1>2, <1>7, <1>9, <1>10, UpsertReads

(* What Settles leaves. *)
LEMMA SettledAs ==
  ASSUME LiveInv, NEW u \in Upsert, NEW c, NEW row, NEW losers, NEW todo, Settles(u, c, row, losers, todo)
  PROVE  \E r : /\ up' = [up EXCEPT ![u] = r] /\ IsUp(r) /\ r.company = c /\ r.losers = losers /\ r.found = <<>>
                /\ r.todo = todo /\ r.pc = IF losers = {} THEN "attach" ELSE "idents"
                /\ r.rest = up[u].rest /\ r.twice = up[u].twice
<1>. DEFINE r == [up[u] EXCEPT !.company = c, !.country = row.country, !.named = row.named,
                   !.losers = losers, !.todo = todo, !.found = <<>>,
                   !.pc = IF losers = {} THEN "attach" ELSE "idents"]
<1>1. up = [v \in Upsert |-> up[v]] /\ IsUp(up[u])
  BY UpHere
<1>2. up' = [up EXCEPT ![u] = r]
  BY <1>1 DEF Settles
<1>3. /\ IsUp(r) /\ r.company = c /\ r.losers = losers /\ r.found = <<>>
      /\ r.todo = todo /\ r.pc = IF losers = {} THEN "attach" ELSE "idents"
      /\ r.rest = up[u].rest /\ r.twice = up[u].twice
  <2>. DEFINE pc == IF losers = {} THEN "attach" ELSE "idents"
  <2>. HIDE DEF pc
  <2>1. /\ IsUp(r) /\ r.company = c /\ r.losers = losers /\ r.found = <<>> /\ r.todo = todo /\ r.pc = pc
        /\ r.rest = up[u].rest /\ r.twice = up[u].twice
    BY <1>1 DEF IsUp, UpField, pc
  <2>. QED BY <2>1 DEF pc
<1>. HIDE DEF r
<1>. QED BY <1>2, <1>3

(* A match is found: the oldest survives. *)
LEMMA MatchedKeeps ==
  ASSUME LiveInv, AcceptInv, NEW u \in Upsert, Matched(u), UNCHANGED request PROVE LiveInv'
<1>. DEFINE fs == DOMAIN up[u].found
            c == Oldest(fs)
<1>1. fs \subseteq Live(Seen(u)) /\ Live(Seen(u)) \subseteq Born /\ BirthsOK
  BY UpHere DEF Knowing, LiveInv
<1>2. /\ fs # {} /\ UNCHANGED <<db, born, request, own>>
      /\ Settles(u, c, up[u].found[c], fs \ {c}, up[u].rest)
  BY DEF Matched
<1>. HIDE DEF fs
<1>3. c \in fs /\ \A l \in fs \ {c} : Age[c] < Age[l]
  BY <1>1, <1>2, OldestIs
<1>. HIDE DEF c
<1>4. PICK r : /\ up' = [up EXCEPT ![u] = r] /\ IsUp(r) /\ r.company = c /\ r.losers = fs \ {c} /\ r.found = <<>>
               /\ r.pc = IF fs \ {c} = {} THEN "attach" ELSE "idents"
  BY <1>2, SettledAs
<1>5. Knowing(u, r, Live(Seen(u))) /\ r.pc # "idle"
  BY <1>1, <1>3, <1>4, EmptyIs DEF Knowing, Holding, Merger
<1>. QED BY <1>2, <1>4, <1>5, UpsertReads

(* A company is found by its name. *)
LEMMA LinkKeeps ==
  ASSUME LiveInv, AcceptInv, NEW u \in Upsert, LinkByName(u), UNCHANGED request PROVE LiveInv'
<1>1. PICK c \in LiveAlike(u) : Settles(u, c, Seen(u)[Row(c)], {}, Ids[u])
  BY DEF LinkByName
<1>2. UNCHANGED <<db, born, request, own>> /\ c \in Live(Seen(u))
  BY <1>1 DEF LinkByName, LiveAlike, Live
<1>3. PICK r : /\ up' = [up EXCEPT ![u] = r] /\ IsUp(r) /\ r.company = c /\ r.losers = {} /\ r.found = <<>> /\ r.pc = "attach"
  BY <1>1, SettledAs
<1>4. Knowing(u, r, Live(Seen(u))) /\ r.pc # "idle"
  BY <1>2, <1>3, EmptyIs DEF Knowing, Holding, Merger
<1>. QED BY <1>2, <1>3, <1>4, UpsertReads

(* One row of a company. *)
LEMMA OneCompanyGood ==
  ASSUME NEW c \in Company, NEW row, NEW live, IsCompany(row), row.exists, c \in Born,
         row.merged # Nothing => row.merged \in live /\ Age[row.merged] < Age[c]
  PROVE  GoodRows(OneRow(Row(c), row), live)
<1>1. DOMAIN OneRow(Row(c), row) = {Row(c)} /\ OneRow(Row(c), row)[Row(c)] = row
  BY OneRowIs
<1>2. \A x : Row(x) = Row(c) => x = c
  BY RowsDiffer
<1>3. \A i : Ident(i) # Row(c)
  BY RegistryRows
<1>. QED BY <1>1, <1>2, <1>3 DEF GoodRows

(* None is, and one is inserted. *)
LEMMA InsertKeeps ==
  ASSUME LiveInv, AcceptInv, NEW u \in Upsert, InsertCompany(u), UNCHANGED request PROVE LiveInv'
<1>. DEFINE row == [NoCompany EXCEPT !.exists = TRUE, !.country = CountryOf[u]]
<1>1. /\ UNCHANGED <<db, born, request>> /\ Write(u, OneRow(Row(u), row)) /\ Settles(u, u, row, {}, Ids[u])
      /\ up[u].pc = "match"
  BY DEF InsertCompany
<1>2. IsCompany(row) /\ row.exists /\ row.merged = Nothing
  BY DEF NoCompany, IsCompany, CompanyField
<1>. HIDE DEF row
<1>3. u \in Company /\ u \in Born
  BY <1>1, UpHere DEF Knowing
<1>4. GoodRows(OneRow(Row(u), row), Live(Seen(u)))
  BY <1>2, <1>3, OneCompanyGood
<1>5. own' = [own EXCEPT ![u] = Overlay(OneRow(Row(u), row), own[u])]
  BY <1>1 DEF Write
<1>6. PICK r : /\ up' = [up EXCEPT ![u] = r] /\ IsUp(r) /\ r.company = u /\ r.losers = {} /\ r.found = <<>> /\ r.pc = "attach"
  BY <1>1, SettledAs
<1>7. Row(u) \in DOMAIN OneRow(Row(u), row)
  BY OneRowIs
<1>8. ASSUME \A c \in Company : Row(c) \in DOMAIN OneRow(Row(u), row) => c \in Live(Seen(u))'
      PROVE  Knowing(u, r, Live(Seen(u))')
  BY <1>3, <1>6, <1>7, <1>8, EmptyIs DEF Knowing, Holding, Merger
<1>9. r.pc # "idle"
  BY <1>6
<1>. QED BY <1>1, <1>4, <1>5, <1>6, <1>8, <1>9, UpsertWrites

(* An upsert goes on within its transaction and keeps what it knows. *)
LEMMA GoesOn ==
  ASSUME LiveInv, AcceptInv, NEW u \in Upsert, NEW new, NEW pc,
         Write(u, new), Goto(u, pc), UNCHANGED <<db, born, request>>, GoodRows(new, Live(Seen(u))),
         up[u].pc \in Merger \cup {"attach", "view"}, pc \in Holding \ {"again"}, pc \in Merger => up[u].pc \in Merger
  PROVE  LiveInv'
<1>. DEFINE r == [up[u] EXCEPT !.pc = pc]
<1>1. up = [v \in Upsert |-> up[v]] /\ IsUp(up[u]) /\ Knowing(u, up[u], Live(Seen(u)))
  BY UpHere
<1>2. up' = [up EXCEPT ![u] = r]
  BY Zenon DEF Goto
<1>3. IsUp(r) /\ r.pc = pc /\ r.losers = up[u].losers /\ r.company = up[u].company /\ r.found = up[u].found
  BY <1>1 DEF IsUp, UpField
<1>. HIDE DEF r
<1>4. ASSUME Live(Seen(u)) \subseteq Live(Seen(u))' PROVE Knowing(u, r, Live(Seen(u))')
  <2>1. Knowing(u, r, Live(Seen(u)))
    BY <1>1, <1>3 DEF Knowing, Holding, Merger
  <2>. QED BY <1>4, <2>1, KnowingMore
<1>5. own' = [own EXCEPT ![u] = Overlay(new, own[u])] /\ r.pc # "idle"
  BY <1>3 DEF Write, Holding, Merger
<1>. QED BY <1>2, <1>3, <1>4, <1>5, UpsertWrites

(* merge moves the identifiers and the sources of the loser. *)
LEMMA MergeRowsKeep ==
  ASSUME LiveInv, AcceptInv, NEW u \in Upsert, MergeIdents(u) \/ MergeSources(u), UNCHANGED request PROVE LiveInv'
<1>1. PICK rows, pc : /\ Write(u, Moved(u, rows)) /\ Goto(u, pc) /\ UNCHANGED <<db, born>>
                      /\ up[u].pc \in Merger /\ pc \in Merger \ {"idents"}
                      /\ rows = {Ident(i) : i \in Identifier} \/ rows = {Source(v) : v \in Upsert}
  BY DEF MergeIdents, MergeSources, Merger
<1>2. up[u].company \in Live(Seen(u))
  BY <1>1, UpHere DEF Knowing, Holding
<1>3. \A x \in DOMAIN Moved(u, rows) : x \in rows /\ Moved(u, rows)[x] = up[u].company
  BY DEF Moved, OfLoser
<1>4. GoodRows(Moved(u, rows), Live(Seen(u)))
  BY <1>1, <1>2, <1>3, RegistryRows DEF GoodRows
<1>5. pc \in Holding \ {"again"} /\ up[u].pc \in Merger \cup {"attach", "view"}
  BY <1>1 DEF Holding, Merger
<1>. QED BY <1>1, <1>4, <1>5, GoesOn

(* The rows of the views are no rows of companies or identifiers. *)
LEMMA ViewsElsewhere ==
  ASSUME NEW f, NEW g, NEW both, NEW c, NEW l, DOMAIN f = {View(t, c) : t \in both}, DOMAIN g = {View(t, l) : t \in both}
  PROVE  Elsewhere(Overlay(f, g))
<1>1. DOMAIN Overlay(f, g) = DOMAIN f \cup DOMAIN g
  BY OverlayIs
<1>. QED BY <1>1, RegistryRows DEF Elsewhere

(* The views it moves are rows of another table. *)
LEMMA ViewsWritten ==
  ASSUME NEW u, MergeViews(u) \/ MoveViews(u)
  PROVE  \E new, pc : Write(u, new) /\ Goto(u, pc) /\ UNCHANGED <<db, born>> /\ up[u].pc \in Merger /\ pc \in Merger /\ Elsewhere(new)
<1>1. \E f, g, both, pc :
         /\ Write(u, Overlay(f, g)) /\ Goto(u, pc) /\ UNCHANGED <<db, born>>
         /\ DOMAIN f = {View(t, up[u].company) : t \in both} /\ DOMAIN g = {View(t, Losing(u)) : t \in both}
         /\ up[u].pc \in Merger /\ pc \in Merger
  <2>1. CASE MergeViews(u)
    <3>. DEFINE d == Seen(u)
                b == {t \in Tenant : d[View(t, Losing(u))].exists /\ d[View(t, up[u].company)].exists}
                f == [r \in {View(t, up[u].company) : t \in b} |-> [d[r] EXCEPT !.tags = @ \cup d[View(r[2], Losing(u))].tags]]
                g == [r \in {View(t, Losing(u)) : t \in b} |-> NoView]
    <3>1. Write(u, Overlay(f, g)) /\ Goto(u, "move") /\ UNCHANGED <<db, born>> /\ up[u].pc = "views"
      BY <2>1 DEF MergeViews
    <3>2. DOMAIN f = {View(t, up[u].company) : t \in b} /\ DOMAIN g = {View(t, Losing(u)) : t \in b}
      OBVIOUS
    <3>. HIDE DEF f, g, b, d
    <3>. QED BY <3>1, <3>2 DEF Merger
  <2>2. CASE MoveViews(u)
    <3>. DEFINE f == [r \in {View(t, up[u].company) : t \in Movable(u)} |-> Seen(u)[View(r[2], Losing(u))]]
                g == [r \in {View(t, Losing(u)) : t \in Movable(u)} |-> NoView]
    <3>1. Write(u, Overlay(f, g)) /\ Goto(u, "point") /\ UNCHANGED <<db, born>> /\ up[u].pc = "move"
      BY <2>2 DEF MoveViews
    <3>2. DOMAIN f = {View(t, up[u].company) : t \in Movable(u)} /\ DOMAIN g = {View(t, Losing(u)) : t \in Movable(u)}
      OBVIOUS
    <3>. HIDE DEF f, g
    <3>. QED BY <3>1, <3>2 DEF Merger
  <2>. QED BY <2>1, <2>2
<1>2. PICK f, g, both, pc :
         /\ Write(u, Overlay(f, g)) /\ Goto(u, pc) /\ UNCHANGED <<db, born>>
         /\ DOMAIN f = {View(t, up[u].company) : t \in both} /\ DOMAIN g = {View(t, Losing(u)) : t \in both}
         /\ up[u].pc \in Merger /\ pc \in Merger
  BY <1>1
<1>3. Elsewhere(Overlay(f, g))
  BY <1>2, ViewsElsewhere
<1>. QED BY <1>2, <1>3

(* merge moves the views of the loser. *)
LEMMA ViewsKeep ==
  ASSUME LiveInv, AcceptInv, NEW u \in Upsert, MergeViews(u) \/ MoveViews(u), UNCHANGED request PROVE LiveInv'
<1>1. PICK new, pc : Write(u, new) /\ Goto(u, pc) /\ UNCHANGED <<db, born>> /\ up[u].pc \in Merger /\ pc \in Merger /\ Elsewhere(new)
  BY ViewsWritten
<1>2. GoodRows(new, Live(Seen(u)))
  BY <1>1, ElsewhereGood
<1>3. pc \in Holding \ {"again"} /\ up[u].pc \in Merger \cup {"attach", "view"}
  BY <1>1 DEF Holding, Merger
<1>. QED BY <1>1, <1>2, <1>3, GoesOn

(* The company that loses is one of the losers. *)
LEMMA LosingIs ==
  ASSUME LiveInv, NEW u \in Upsert, up[u].losers # {} PROVE Losing(u) \in up[u].losers
<1>1. up[u].losers \subseteq Born /\ BirthsOK
  BY UpHere DEF Knowing, LiveInv
<1>. QED BY <1>1, OldestIs DEF Losing

(* The loser is pointed at the survivor, which is older. *)
LEMMA PointKeeps ==
  ASSUME LiveInv, AcceptInv, NEW u \in Upsert, PointAtSurvivor(u), UNCHANGED request PROVE LiveInv'
<1>. DEFINE l == Losing(u)
            old == Seen(u)[Row(l)]
            row == [old EXCEPT !.merged = up[u].company]
            rest == up[u].losers \ {l}
            pc == IF up[u].losers = {l} THEN "attach" ELSE "idents"
            r == [up[u] EXCEPT !.losers = rest, !.twice = up[u].twice \/ old.merged # Nothing, !.pc = pc]
<1>1. up = [v \in Upsert |-> up[v]] /\ IsUp(up[u]) /\ Knowing(u, up[u], Live(Seen(u)))
      /\ Live(Seen(u)) \subseteq Born /\ \A c \in Company : IsCompany(Seen(u)[Row(c)])
  BY UpHere
<1>2. /\ up[u].pc = "point" /\ UNCHANGED <<db, born>>
      /\ Write(u, OneRow(Row(l), row))
  BY DEF PointAtSurvivor
<1>3. up' = [up EXCEPT ![u] = r]
  BY <1>1 DEF PointAtSurvivor
<1>4. l \in up[u].losers
  BY <1>1, <1>2, LosingIs DEF Knowing, Merger
<1>5. l \in Live(Seen(u)) /\ up[u].company \in Live(Seen(u)) /\ Age[up[u].company] < Age[l]
  BY <1>1, <1>4 DEF Knowing
<1>6. l \in Company /\ IsCompany(old) /\ old.exists
  BY <1>1, <1>5 DEF Live
<1>7. IsCompany(row) /\ row.exists /\ row.merged = up[u].company
  BY <1>6 DEF IsCompany, CompanyField
<1>8. (rest = {} => pc = "attach") /\ (rest # {} => pc = "idents")
  BY <1>4
<1>. HIDE DEF pc
<1>9. IsUp(r) /\ r.pc = pc /\ r.losers = rest /\ r.company = up[u].company /\ r.found = up[u].found
  BY <1>1 DEF IsUp, UpField
<1>. HIDE DEF l, row, r, old
<1>10. GoodRows(OneRow(Row(l), row), Live(Seen(u)))
  BY <1>1, <1>5, <1>6, <1>7, OneCompanyGood
<1>11. ASSUME Live(Seen(u)) \subseteq Live(Seen(u))' PROVE Knowing(u, r, Live(Seen(u))')
  <2>1. Knowing(u, r, Live(Seen(u)))
    BY <1>1, <1>5, <1>8, <1>9 DEF Knowing, Holding, Merger
  <2>. QED BY <1>11, <2>1, KnowingMore
<1>12. own' = [own EXCEPT ![u] = Overlay(OneRow(Row(l), row), own[u])] /\ r.pc # "idle"
  BY <1>2, <1>8, <1>9 DEF Write
<1>. QED BY <1>2, <1>3, <1>9, <1>10, <1>11, <1>12, UpsertWrites

(* An identifier gets a holder that is there. *)
LEMMA OneIdentGood ==
  ASSUME NEW i, NEW c, NEW live, c \in live PROVE GoodRows(OneRow(Ident(i), c), live)
<1>1. DOMAIN OneRow(Ident(i), c) = {Ident(i)} /\ OneRow(Ident(i), c)[Ident(i)] = c
  BY OneRowIs
<1>2. \A x : Row(x) # Ident(i)
  BY RegistryRows
<1>. QED BY <1>1, <1>2 DEF GoodRows

(* An identifier is attached, or identity is looked at again. *)
LEMMA AttachKeeps ==
  ASSUME LiveInv, AcceptInv, NEW u \in Upsert, Attach(u), UNCHANGED request PROVE LiveInv'
<1>. DEFINE i == Head(up[u].todo)
            d == Seen(u)
            new == OneRow(Ident(i), up[u].company)
            ag == [up[u] EXCEPT !.pc = "again", !.todo = StrongIds(u), !.rest = Tail(up[u].todo)]
            on == [up[u] EXCEPT !.todo = Tail(up[u].todo)]
<1>1. up = [v \in Upsert |-> up[v]] /\ IsUp(up[u]) /\ Knowing(u, up[u], Live(Seen(u)))
  BY UpHere
<1>2. up[u].pc = "attach" /\ UNCHANGED <<db, born>>
  BY DEF Attach
<1>3. up' = [up EXCEPT ![u] = ag] \/ up' = [up EXCEPT ![u] = on]
  <2>1. up' = IF d[Ident(i)] # Nothing /\ Holder(d, i) # up[u].company /\ i \in Strong
           THEN [up EXCEPT ![u].pc = "again", ![u].todo = StrongIds(u), ![u].rest = Tail(up[u].todo)]
           ELSE [up EXCEPT ![u].todo = Tail(@)]
    BY DEF Attach
  <2>2. [up EXCEPT ![u].pc = "again", ![u].todo = StrongIds(u), ![u].rest = Tail(up[u].todo)] = [up EXCEPT ![u] = ag]
    BY <1>1
  <2>3. [up EXCEPT ![u].todo = Tail(@)] = [up EXCEPT ![u] = on]
    BY <1>1
  <2>. HIDE DEF ag, on
  <2>. QED BY <2>1, <2>2, <2>3
<1>4. UNCHANGED own \/ own' = [own EXCEPT ![u] = Overlay(new, own[u])]
  <2>1. own' = [own EXCEPT ![u] = IF d[Ident(i)] = Nothing THEN Overlay(new, own[u]) ELSE own[u]]
    BY DEF Attach
  <2>2. own = [t \in Txn |-> own[t]]
    BY DEF AcceptInv, Shape
  <2>. QED BY <2>1, <2>2
<1>5. /\ IsUp(ag) /\ ag.pc = "again" /\ ag.losers = up[u].losers /\ ag.company = up[u].company /\ ag.found = up[u].found
      /\ ag.todo = StrongIds(u)
  BY <1>1 DEF IsUp, UpField
<1>6. IsUp(on) /\ on.pc = "attach" /\ on.losers = up[u].losers /\ on.company = up[u].company /\ on.found = up[u].found
  BY <1>1, <1>2 DEF IsUp, UpField
<1>. HIDE DEF ag, on, new, d
<1>7. up[u].company \in Live(Seen(u))
  BY <1>1, <1>2 DEF Knowing, Holding
<1>8. GoodRows(new, Live(Seen(u)))
  BY <1>7, OneIdentGood DEF new
<1>9. PICK r \in {ag, on} : up' = [up EXCEPT ![u] = r]
  BY <1>3
<1>10. IsUp(r) /\ r.pc # "idle" /\ Knowing(u, r, Live(Seen(u)))
  <2>1. StrongIds(u) \in Seq(Identifier)
    BY StrongIdsAre
  <2>. QED BY <2>1, <1>1, <1>2, <1>5, <1>6, <1>9 DEF Knowing, Holding, Merger
<1>11. CASE UNCHANGED own
  BY <1>2, <1>9, <1>10, <1>11, UpsertReads
<1>12. CASE own' = [own EXCEPT ![u] = Overlay(new, own[u])]
  <2>1. Live(Seen(u)) \subseteq Live(Seen(u))' => Knowing(u, r, Live(Seen(u))')
    BY <1>10, KnowingMore
  <2>. QED BY <2>1, <1>2, <1>8, <1>9, <1>10, <1>12, UpsertWrites
<1>. QED BY <1>4, <1>11, <1>12

(* The facts are written to a row that stays where it was merged. *)
LEMMA FactsKeep ==
  ASSUME LiveInv, AcceptInv, NEW u \in Upsert, UpdateFacts(u), UNCHANGED request PROVE LiveInv'
<1>. DEFINE c == up[u].company
            old == Seen(u)[Row(c)]
            named == IF u \in Registered THEN "registered" ELSE up[u].named
            country == IF CountryOf[u] # Nothing THEN CountryOf[u] ELSE up[u].country
            row == [old EXCEPT !.named = named, !.country = country]
            r == [up[u] EXCEPT !.pc = "view"]
<1>1. /\ up = [v \in Upsert |-> up[v]] /\ IsUp(up[u]) /\ Knowing(u, up[u], Live(Seen(u)))
      /\ Live(Seen(u)) \subseteq Born /\ Down(Seen(u), Age) /\ \A x \in Company : IsCompany(Seen(u)[Row(x)])
  BY UpHere
<1>2. /\ up[u].pc = "attach" /\ UNCHANGED <<db, born>> /\ Goto(u, "view")
      /\ Write(u, OneRow(Row(c), row)) \/ UNCHANGED own
  BY DEF UpdateFacts
<1>3. c \in Live(Seen(u))
  BY <1>1, <1>2 DEF Knowing, Holding
<1>4. c \in Company /\ IsCompany(old) /\ old.exists
  BY <1>1, <1>3 DEF Live
<1>5. IsCompany(row) /\ row.exists /\ row.merged = old.merged
  <2>. HIDE DEF old, named, country
  <2>. QED BY <1>4 DEF IsCompany, CompanyField
<1>6. old.merged # Nothing => old.merged \in Live(Seen(u)) /\ Age[old.merged] < Age[c]
  BY <1>1, <1>3 DEF Down, Merged
<1>7. GoodRows(OneRow(Row(c), row), Live(Seen(u)))
  <2>. HIDE DEF row, c, old
  <2>. QED BY <1>1, <1>3, <1>4, <1>5, <1>6, OneCompanyGood
<1>8. CASE Write(u, OneRow(Row(c), row))
  <2>. HIDE DEF row
  <2>. QED BY <1>2, <1>7, <1>8, GoesOn DEF Holding, Merger
<1>9. CASE UNCHANGED own
  <2>1. up' = [up EXCEPT ![u] = r]
    BY <1>2, Zenon DEF Goto
  <2>2. IsUp(r) /\ r.pc = "view" /\ r.losers = up[u].losers /\ r.company = up[u].company /\ r.found = up[u].found
    BY <1>1 DEF IsUp, UpField
  <2>. HIDE DEF r
  <2>3. Knowing(u, r, Live(Seen(u)))
    BY <1>1, <1>3, <2>2 DEF Knowing, Merger, Holding
  <2>. QED BY <1>2, <1>9, <2>1, <2>2, <2>3, UpsertReads
<1>. QED BY <1>2, <1>8, <1>9

(* The source and the view are written. *)
LEMMA SourceKeeps ==
  ASSUME LiveInv, AcceptInv, NEW u \in Upsert, WriteSourceAndView(u), UNCHANGED request PROVE LiveInv'
<1>. DEFINE a == OneRow(Source(u), up[u].company)
            b == OneRow(View(TenantOf[u], up[u].company), [exists |-> TRUE, tags |-> {u}])
<1>1. Write(u, Overlay(a, b)) /\ Goto(u, "commit") /\ UNCHANGED <<db, born>> /\ up[u].pc = "view"
  BY DEF WriteSourceAndView
<1>2. DOMAIN a = {Source(u)} /\ DOMAIN b = {View(TenantOf[u], up[u].company)}
  BY OneRowIs
<1>. HIDE DEF a, b
<1>3. DOMAIN Overlay(a, b) = DOMAIN a \cup DOMAIN b
  BY OverlayIs
<1>4. GoodRows(Overlay(a, b), Live(Seen(u)))
  BY <1>2, <1>3, RegistryRows, ElsewhereGood DEF Elsewhere
<1>. QED BY <1>1, <1>4, GoesOn DEF Holding, Merger

---------------------------------------------------------------------------
(* Commits, and what changes neither companies nor identifiers *)

(* A transaction that writes nothing while more is committed. *)
LEMMA MoreIsThere ==
  ASSUME LiveInv, NEW s \in Txn, UNCHANGED born, own'[s] = own[s],
         \A c \in Company : Row(c) \in DOMAIN db', Live(db) \subseteq Live(db)'
  PROVE  Live(Seen(s)) \subseteq Live(Seen(s))' /\ GoodRows(own[s], Live(Seen(s)))'
<1>1. GoodRows(own[s], Live(Seen(s))) /\ \A c \in Company : Row(c) \in DOMAIN db
  BY DEF LiveInv, DbGood
<1>2. ASSUME NEW c \in Company
      PROVE  /\ Seen(s)[Row(c)] = IF Row(c) \in DOMAIN own[s] THEN own[s][Row(c)] ELSE db[Row(c)]
             /\ Seen(s)'[Row(c)] = IF Row(c) \in DOMAIN own[s] THEN own[s][Row(c)] ELSE db'[Row(c)]
  <2>1. Seen(s)' = Overlay(own[s], db')
    BY DEF Seen
  <2>2. Seen(s)'[Row(c)] = IF Row(c) \in DOMAIN own[s] THEN own[s][Row(c)] ELSE db'[Row(c)]
    BY <2>1 DEF Overlay
  <2>. QED BY <1>1, <2>2, SeenIs
<1>3. Live(Seen(s)) \subseteq Live(Seen(s))'
  BY <1>1, <1>2 DEF Live, GoodRows
<1>4. GoodRows(own[s], Live(Seen(s))')
  BY <1>1, <1>3, GoodMore
<1>. QED BY <1>3, <1>4, AgeStays DEF GoodRows

(* A commit makes what the transaction saw what is committed. *)
LEMMA CommitGood ==
  ASSUME LiveInv, AcceptInv, NEW t \in Txn, Commit(t), UNCHANGED born
  PROVE  /\ Live(db) \subseteq Live(db)' /\ DbGood'
         /\ \A s \in Txn : GoodRows(own[s], Live(Seen(s)))'
         /\ \A s \in Txn : s # t => Live(Seen(s)) \subseteq Live(Seen(s))'
<1>1. BirthsOK /\ DbGood /\ GoodRows(own[t], Live(Seen(t)))
  BY DEF LiveInv
<1>2. db' = Seen(t) /\ own' = [own EXCEPT ![t] = <<>>] /\ own = [s \in Txn |-> own[s]]
  BY DEF Commit, AcceptInv, Shape
<1>3. /\ Live(db) \subseteq Live(Seen(t)) /\ Live(Seen(t)) \subseteq Born /\ Down(Seen(t), Age)
      /\ \A c \in Company : IsCompany(Seen(t)[Row(c)])
      /\ \A i \in Identifier : Seen(t)[Ident(i)] = Nothing \/ Seen(t)[Ident(i)] \in Live(Seen(t))
  BY <1>1, SeenGood
<1>4. Live(db)' = Live(Seen(t))
  BY <1>2 DEF Live
<1>5. DOMAIN db \subseteq DOMAIN db'
  BY <1>2 DEF Seen, Overlay
<1>6. \A c \in Company : Row(c) \in DOMAIN db'
  BY <1>1, <1>5 DEF DbGood
<1>7. DbGood'
  <2>1. \A c \in Company : Row(c) \in DOMAIN db' /\ IsCompany(db'[Row(c)])
    BY <1>2, <1>3, <1>6
  <2>2. \A i \in Identifier : Ident(i) \in DOMAIN db' /\ (db'[Ident(i)] = Nothing \/ db'[Ident(i)] \in Live(db)')
    BY <1>1, <1>2, <1>3, <1>4, <1>5 DEF DbGood
  <2>3. (Live(db) \subseteq Born)'
    BY <1>3, <1>4, AgeStays
  <2>4. Down(db, Age)'
    BY <1>2, <1>3, AgeStays DEF Down, Live, Merged
  <2>. QED BY <2>1, <2>2, <2>3, <2>4 DEF DbGood, IsCompany
<1>8. ASSUME NEW s \in Txn, s # t PROVE GoodRows(own[s], Live(Seen(s)))' /\ Live(Seen(s)) \subseteq Live(Seen(s))'
  <2>1. own'[s] = own[s]
    BY <1>2, <1>8
  <2>. QED BY <2>1, <1>3, <1>4, <1>6, MoreIsThere
<1>9. GoodRows(own[t], Live(Seen(t)))'
  <2>1. own'[t] = <<>>
    BY <1>2
  <2>. QED BY <2>1, EmptyIs DEF GoodRows
<1>. QED BY <1>3, <1>4, <1>7, <1>8, <1>9

(* An upsert commits. *)
LEMMA CommitKeepsLive ==
  ASSUME LiveInv, AcceptInv, NEW u \in Upsert, CommitUpsert(u), UNCHANGED request PROVE LiveInv'
<1>. DEFINE r == [up[u] EXCEPT !.pc = "done"]
<1>1. u \in Txn /\ Commit(u) /\ UNCHANGED born /\ up' = [up EXCEPT ![u] = r] /\ up[u].pc = "commit"
  <2>1. Goto(u, "done")
    BY DEF CommitUpsert
  <2>2. up' = [up EXCEPT ![u] = r]
    BY <2>1, Zenon DEF Goto
  <2>. QED BY <2>2, Transactors DEF CommitUpsert
<1>2. /\ Live(db) \subseteq Live(db)' /\ DbGood'
      /\ \A s \in Txn : GoodRows(own[s], Live(Seen(s)))'
      /\ \A s \in Txn : s # u => Live(Seen(s)) \subseteq Live(Seen(s))'
  BY <1>1, CommitGood
<1>3. IsUp(up[u]) /\ up = [v \in Upsert |-> up[v]] /\ Knowing(u, up[u], Live(Seen(u)))
  BY UpHere
<1>4. IsUp(r) /\ r.pc = "done" /\ r.losers = up[u].losers /\ r.company = up[u].company /\ r.found = up[u].found
  BY <1>3 DEF IsUp, UpField
<1>. HIDE DEF r
<1>5. up'[u] = r /\ \A v \in Upsert : v # u => up'[v] = up[v]
  BY <1>1, <1>3
<1>6. UpShape'
  <2>1. up' = [v \in Upsert |-> up'[v]]
    BY <1>1, <1>3
  <2>2. \A v \in Upsert : IsUp(up'[v])
    BY <1>4, <1>5 DEF LiveInv, UpShape
  <2>. QED BY <2>1, <2>2 DEF UpShape, IsUp
<1>7. Live(Seen(u)) \subseteq Live(Seen(u))'
  <2>1. db' = Seen(u) /\ own'[u] = <<>>
    BY <1>1 DEF Commit, AcceptInv, Shape
  <2>2. Seen(u)' = Overlay(<<>>, db')
    BY <2>1 DEF Seen
  <2>3. \A c \in Company : Row(c) \in DOMAIN db'
    BY <1>2 DEF DbGood
  <2>4. \A c \in Company : Seen(u)'[Row(c)] = db'[Row(c)]
    BY <2>2, <2>3, EmptyIs DEF Overlay
  <2>. QED BY <2>1, <2>4 DEF Live
<1>8. ASSUME NEW v \in Upsert PROVE Knows(v)'
  <2>1. Live(Seen(v)) \subseteq Live(Seen(v))' /\ Knowing(v, up[v], Live(Seen(v)))
    BY <1>2, <1>7, Transactors DEF LiveInv, Knows
  <2>2. Knowing(v, up[v], Live(Seen(v))')
    BY <2>1, KnowingMore
  <2>3. Knowing(v, up'[v], Live(Seen(v))')
    <3>1. CASE v = u
      BY <3>1, <2>2, <1>4, <1>5 DEF Knowing, Holding, Merger
    <3>2. CASE v # u
      BY <3>2, <2>2, <1>5
    <3>. QED BY <3>1, <3>2
  <2>. QED BY <2>3, <1>1, AgeStays DEF Knows, Knowing
<1>9. BirthsOK'
  <2>1. Born' = Born
    BY <1>1, AgeStays
  <2>. QED BY <2>1, <1>1, <1>4, <1>5 DEF LiveInv, BirthsOK
<1>10. Asked'
  <2>1. DbStays
    <3>1. UpsertStep(u)
      BY DEF UpsertStep
    <3>. QED BY <3>1, UpsertRows
  <2>. QED BY <2>1, <1>2 DEF LiveInv, Asked, DbStays
<1>. QED BY <1>2, <1>6, <1>8, <1>9, <1>10 DEF LiveInv

(* An upsert rolls back. *)
LEMMA AbortKeepsLive ==
  ASSUME LiveInv, AcceptInv, NEW u \in Upsert, Abort(u), UNCHANGED request PROVE LiveInv'
<1>. DEFINE r == [Idle EXCEPT !.pc = "aborted"]
<1>1. u \in Txn /\ own' = [own EXCEPT ![u] = <<>>] /\ UNCHANGED <<db, born>> /\ up' = [up EXCEPT ![u] = r]
  BY Transactors DEF Abort, RollBack
<1>2. own = [t \in Txn |-> own[t]] /\ up = [v \in Upsert |-> up[v]] /\ \A v \in Upsert : IsUp(up[v])
  BY DEF AcceptInv, Shape, LiveInv, UpShape
<1>3. own'[u] = <<>> /\ \A s \in Txn : s # u => own'[s] = own[s]
  BY <1>1, <1>2
<1>4. GoodRows(own[u], Live(Seen(u)))'
  BY <1>3, EmptyIs DEF GoodRows
<1>5. IsUp(r) /\ r.pc = "aborted" /\ r.losers = {} /\ r.found = <<>>
  <2>1. IsUp(Idle)
    BY DEF Idle, IsUp, UpField
  <2>2. Idle.losers = {} /\ Idle.found = <<>>
    BY DEF Idle
  <2>. QED BY <2>1, <2>2 DEF IsUp, UpField
<1>. HIDE DEF r
<1>6. up'[u] = r /\ \A v \in Upsert : v # u => up'[v] = up[v]
  BY <1>1, <1>2
<1>7. UpShape'
  <2>1. up' = [v \in Upsert |-> up'[v]]
    BY <1>1, <1>2
  <2>2. \A v \in Upsert : IsUp(up'[v])
    BY <1>2, <1>5, <1>6
  <2>. QED BY <2>1, <2>2 DEF UpShape, IsUp
<1>8. Knows(u)' /\ up'[u].pc # "idle"
  BY <1>5, <1>6, EmptyIs DEF Knows, Knowing, Holding, Merger
<1>. QED BY <1>1, <1>3, <1>4, <1>6, <1>7, <1>8, WritesInv

(* A step that changes no row of a company and no identifier, and nothing  *)
(* of an upsert that counts.                                               *)
LEMMA ElsewhereKeeps ==
  ASSUME LiveInv, UNCHANGED <<own, born>>, Asked', UpShape',
         \A c \in Company : Row(c) \in DOMAIN db' /\ db'[Row(c)] = db[Row(c)],
         \A i \in Identifier : Ident(i) \in DOMAIN db' /\ db'[Ident(i)] = db[Ident(i)],
         \A u \in Upsert : up'[u] = up[u] \/ up'[u] = [up[u] EXCEPT !.pc = "described"]
  PROVE  LiveInv'
<1>1. Age' = Age /\ Born' = Born
  BY AgeStays
<1>2. Live(db)' = Live(db)
  BY DEF Live
<1>3. \A t \in Txn : GoodRows(own[t], Live(Seen(t)))' /\ Live(Seen(t)) \subseteq Live(Seen(t))'
  BY <1>2, MoreIsThere
<1>4. DbGood'
  <2>1. DbGood
    BY DEF LiveInv
  <2>2. Down(db, Age)'
    BY <2>1, <1>1, <1>2 DEF DbGood, Down, Merged, Live
  <2>3. (Live(db) \subseteq Born)' /\ \A c \in Company : IsCompany(db[Row(c)])'
    BY <2>1, <1>1, <1>2 DEF DbGood, IsCompany
  <2>4. \A i \in Identifier : Ident(i) \in DOMAIN db' /\ (db'[Ident(i)] = Nothing \/ db'[Ident(i)] \in Live(db)')
    BY <2>1, <1>2 DEF DbGood
  <2>. QED BY <2>2, <2>3, <2>4 DEF DbGood
<1>5. ASSUME NEW u \in Upsert PROVE Knows(u)' /\ (up'[u].pc = "idle" => up[u].pc = "idle")
  <2>1. Knowing(u, up[u], Live(Seen(u))') /\ IsUp(up[u])
    BY <1>3, KnowingMore, Transactors DEF LiveInv, Knows, UpShape
  <2>2. Knowing(u, up'[u], Live(Seen(u))') /\ (up'[u].pc = "idle" => up[u].pc = "idle")
    <3>1. CASE up'[u] = up[u]
      BY <3>1, <2>1
    <3>2. CASE up'[u] = [up[u] EXCEPT !.pc = "described"]
      <4>1. /\ up'[u].pc = "described" /\ up'[u].losers = up[u].losers /\ up'[u].company = up[u].company
            /\ up'[u].found = up[u].found
        BY <3>2, <2>1 DEF IsUp, UpField
      <4>. QED BY <4>1, <2>1 DEF Knowing, Holding, Merger
    <3>. QED BY <3>1, <3>2
  <2>. QED BY <2>2, <1>1 DEF Knows, Knowing
<1>6. BirthsOK'
  BY <1>1, <1>5 DEF LiveInv, BirthsOK
<1>. QED BY <1>3, <1>4, <1>5, <1>6 DEF LiveInv

(* What is stored elsewhere leaves the rows of companies and identifiers. *)
LEMMA StoredElsewhere ==
  ASSUME LiveInv, NEW new, Store(new), Elsewhere(new)
  PROVE  /\ \A c \in Company : Row(c) \in DOMAIN db' /\ db'[Row(c)] = db[Row(c)]
         /\ \A i \in Identifier : Ident(i) \in DOMAIN db' /\ db'[Ident(i)] = db[Ident(i)]
<1>1. db' = Overlay(new, db) /\ DbGood
  BY DEF Store, LiveInv
<1>2. \A x \in DOMAIN db : x \in DOMAIN db' /\ (x \notin DOMAIN new => db'[x] = db[x])
  BY <1>1 DEF Overlay
<1>. QED BY <1>1, <1>2 DEF Elsewhere, DbGood

(* A row of another table. *)
LEMMA OneElsewhere ==
  ASSUME NEW x, NEW y, \A c : Row(c) # x /\ Ident(c) # x PROVE Elsewhere(OneRow(x, y))
<1>1. DOMAIN OneRow(x, y) = {x}
  BY OneRowIs
<1>. QED BY <1>1 DEF Elsewhere

(* The second transaction of an import. *)
LEMMA DescribeKeeps ==
  ASSUME LiveInv, AcceptInv, NEW u \in Upsert, Describe(u), UNCHANGED request PROVE LiveInv'
<1>1. Store(OneRow(Profile(up[u].company), TRUE)) /\ UNCHANGED <<own, born>> /\ Goto(u, "described")
  BY DEF Describe
<1>2. /\ \A c \in Company : Row(c) \in DOMAIN db' /\ db'[Row(c)] = db[Row(c)]
      /\ \A i \in Identifier : Ident(i) \in DOMAIN db' /\ db'[Ident(i)] = db[Ident(i)]
  BY <1>1, StoredElsewhere, OneElsewhere, RegistryRows
<1>3. up = [v \in Upsert |-> up[v]] /\ \A v \in Upsert : IsUp(up[v])
  BY DEF LiveInv, UpShape
<1>4. up' = [up EXCEPT ![u] = [up[u] EXCEPT !.pc = "described"]]
  BY <1>1, Zenon DEF Goto
<1>5. IsUp([up[u] EXCEPT !.pc = "described"])
  BY <1>3 DEF IsUp, UpField
<1>6. \A v \in Upsert : up'[v] = up[v] \/ up'[v] = [up[v] EXCEPT !.pc = "described"]
  BY <1>3, <1>4
<1>7. UpShape'
  <2>1. up' = [v \in Upsert |-> up'[v]]
    BY <1>3, <1>4
  <2>2. \A v \in Upsert : IsUp(up'[v])
    BY <1>3, <1>4, <1>5
  <2>. QED BY <2>1, <2>2 DEF UpShape, IsUp
<1>8. Asked'
  <2>1. DbStays
    <3>1. UpsertStep(u)
      BY DEF UpsertStep
    <3>. QED BY <3>1, UpsertRows
  <2>2. Live(db)' = Live(db)
    BY <1>2 DEF Live
  <2>. QED BY <2>1, <2>2 DEF LiveInv, Asked, DbStays
<1>. QED BY <1>1, <1>2, <1>6, <1>7, <1>8, ElsewhereKeeps

(* PUT of a view or a profile. *)
LEMMA EditKeeps ==
  ASSUME LiveInv, AcceptInv, NEW w \in Writer, Edit(w), UNCHANGED request PROVE LiveInv'
<1>1. UNCHANGED <<own, born, up>>
  BY DEF Edit, ResolveFor, PutView, PutProfile
<1>2. /\ \A c \in Company : Row(c) \in DOMAIN db' /\ db'[Row(c)] = db[Row(c)]
      /\ \A i \in Identifier : Ident(i) \in DOMAIN db' /\ db'[Ident(i)] = db[Ident(i)]
  <2>1. CASE ResolveFor(w)
    BY <2>1 DEF ResolveFor, LiveInv, DbGood
  <2>2. CASE PutView(w) \/ PutProfile(w)
    <3>1. PICK x, y : Store(OneRow(x, y)) /\ (x = View(TenantOf[w], writer[w]) \/ x = Profile(writer[w]))
      BY <2>2 DEF PutView, PutProfile
    <3>2. Elsewhere(OneRow(x, y))
      BY <3>1, OneElsewhere, RegistryRows
    <3>. QED BY <3>1, <3>2, StoredElsewhere
  <2>. QED BY <2>1, <2>2 DEF Edit
<1>3. Asked'
  <2>1. DbStays
    BY EditRows
  <2>2. Live(db)' = Live(db)
    BY <1>2 DEF Live
  <2>. QED BY <2>1, <2>2 DEF LiveInv, Asked, DbStays
<1>4. UpShape'
  BY <1>1 DEF LiveInv, UpShape, IsUp
<1>. QED BY <1>1, <1>2, <1>3, <1>4, ElsewhereKeeps

(* An upsert begins: its company is the youngest. *)
LEMMA BeginKeeps ==
  ASSUME LiveInv, AcceptInv, NEW u \in Upsert, Begin(u), UNCHANGED request PROVE LiveInv'
<1>. DEFINE r == [up[u] EXCEPT !.pc = "match", !.todo = StrongIds(u), !.rest = Ids[u]]
<1>1. /\ up = [v \in Upsert |-> up[v]] /\ IsUp(up[u]) /\ Knowing(u, up[u], Live(Seen(u))) /\ u \in Company
      /\ BirthsOK /\ DbGood
  BY UpHere DEF LiveInv
<1>2. /\ up[u].pc = "idle" /\ UNCHANGED <<db, own>> /\ born' = Append(born, u)
      /\ up' = [up EXCEPT ![u] = r]
  BY <1>1 DEF Begin
<1>3. u \notin Born
  BY <1>1, <1>2 DEF BirthsOK
<1>4. /\ born' \in Seq(Company) /\ Len(born') = Len(born) + 1 /\ born'[Len(born) + 1] = u
      /\ Len(born) \in Nat /\ \A k \in 1..Len(born) : born'[k] = born[k] /\ born[k] # u
  BY <1>1, <1>2, <1>3 DEF BirthsOK, Born
<1>5. Born' = Born \cup {u}
  <2>1. ASSUME NEW x \in Born' PROVE x \in Born \cup {u}
    <3>1. PICK k \in 1..(Len(born) + 1) : x = born'[k]
      BY <1>4 DEF Born
    <3>2. CASE k = Len(born) + 1
      BY <3>1, <3>2, <1>4
    <3>3. CASE k # Len(born) + 1
      <4>1. k \in 1..Len(born)
        BY <3>3, <1>4
      <4>. QED BY <3>1, <4>1, <1>4 DEF Born
    <3>. QED BY <3>2, <3>3
  <2>2. ASSUME NEW x \in Born PROVE x \in Born'
    <3>1. PICK k \in 1..Len(born) : x = born[k]
      BY DEF Born
    <3>2. k \in 1..Len(born') /\ born'[k] = x
      BY <3>1, <1>4
    <3>. QED BY <3>2 DEF Born
  <2>3. u \in Born'
    <3>1. Len(born) + 1 \in 1..Len(born')
      BY <1>4
    <3>. QED BY <3>1, <1>4 DEF Born
  <2>. QED BY <2>1, <2>2, <2>3
<1>6. \A j, k \in 1..Len(born') : born'[j] = born'[k] => j = k
  <2>1. \A j, k \in 1..Len(born) : born[j] = born[k] => j = k
    BY <1>1 DEF BirthsOK
  <2>2. \A k \in 1..Len(born') : k = Len(born) + 1 \/ k \in 1..Len(born)
    BY <1>4
  <2>. QED BY <1>4, <2>1, <2>2
<1>7. \A c \in Born : Age'[c] = Age[c]
  <2>. TAKE c \in Born
  <2>1. PICK k \in 1..Len(born) : born[k] = c
    BY DEF Born
  <2>2. k \in 1..Len(born') /\ born'[k] = c
    BY <2>1, <1>4
  <2>3. Place(c) = k
    <3>1. \A j \in 1..Len(born) : born[j] = c => j = k
      BY <2>1, <1>1 DEF BirthsOK
    <3>. QED BY <2>1, <3>1 DEF Place
  <2>4. Place(c)' = k
    <3>1. \A j \in 1..Len(born') : born'[j] = c => j = k
      BY <2>2, <1>6
    <3>. QED BY <2>2, <3>1 DEF Place
  <2>5. c \in Company /\ c \in Born'
    BY <2>1, <1>1, <1>5 DEF BirthsOK
  <2>. QED BY <2>3, <2>4, <2>5 DEF Age
<1>8. IsUp(r) /\ r.pc = "match" /\ r.losers = up[u].losers /\ r.company = up[u].company /\ r.found = up[u].found
      /\ r.todo = StrongIds(u)
  BY <1>1 DEF IsUp, UpField
<1>. HIDE DEF r
<1>9. up'[u] = r /\ \A v \in Upsert : v # u => up'[v] = up[v]
  BY <1>1, <1>2
<1>10. BirthsOK'
  <2>1. \A v \in Upsert : up'[v].pc = "idle" => v \notin Born'
    BY <1>1, <1>5, <1>8, <1>9 DEF BirthsOK
  <2>. QED BY <2>1, <1>4, <1>6 DEF BirthsOK
<1>11. UpShape'
  <2>1. up' = [v \in Upsert |-> up'[v]]
    BY <1>1, <1>2
  <2>2. \A v \in Upsert : IsUp(up'[v])
    BY <1>8, <1>9 DEF LiveInv, UpShape
  <2>. QED BY <2>1, <2>2 DEF UpShape, IsUp
<1>12. Live(db)' = Live(db) /\ \A t : Live(Seen(t))' = Live(Seen(t))
  BY <1>2 DEF Live, Seen
<1>13. DbGood'
  <2>1. Age' \in [Company -> Nat]
    <3>1. BirthsOK => Age \in [Company -> Nat]
      BY AgeIs
    <3>2. (BirthsOK => Age \in [Company -> Nat])'
      BY AgeIs, PTL
    <3>. QED BY <1>10, <3>2
  <2>2. Down(db, Age)'
    BY <2>1, <1>1, <1>2, <1>7, <1>12 DEF DbGood, Down, Merged
  <2>. QED BY <2>2, <1>1, <1>2, <1>5, <1>12 DEF DbGood, IsCompany
<1>14. ASSUME NEW t \in Txn PROVE GoodRows(own[t], Live(Seen(t)))'
  <2>1. GoodRows(own[t], Live(Seen(t))) /\ Live(Seen(t)) \subseteq Born
    BY <1>1, SeenGood DEF LiveInv
  <2>. QED BY <2>1, <1>2, <1>5, <1>7, <1>12 DEF GoodRows, IsCompany
<1>15. ASSUME NEW v \in Upsert PROVE Knows(v)'
  <2>1. Knowing(v, up[v], Live(Seen(v))) /\ Live(Seen(v)) \subseteq Born
    BY UpHere
  <2>2. CASE v = u
    <3>1. StrongIds(u) \in Seq(Identifier)
      BY StrongIdsAre
    <3>. QED BY <2>1, <2>2, <3>1, <1>5, <1>7, <1>8, <1>9, <1>12 DEF Knows, Knowing, Holding, Merger
  <2>3. CASE v # u
    <3>1. \A l \in up[v].losers : Age'[up[v].company] < Age'[l]
      BY <2>1, <1>7 DEF Knowing
    <3>. QED BY <2>1, <2>3, <3>1, <1>5, <1>9, <1>12 DEF Knows, Knowing
  <2>. QED BY <2>2, <2>3
<1>16. Asked'
  BY <1>2, <1>12 DEF LiveInv, Asked
<1>. QED BY <1>10, <1>11, <1>13, <1>14, <1>15, <1>16 DEF LiveInv

(* Every step of the pool. *)
LEMMA PoolKeeps ==
  ASSUME LiveInv, AcceptInv, PoolStep, UNCHANGED request PROVE LiveInv'
BY RejectKeeps, BeginKeeps, LookUpKeeps, MatchedKeeps, LinkKeeps, InsertKeeps, MergeRowsKeep, ViewsKeep, PointKeeps,
   AttachKeeps, FactsKeep, SourceKeeps, CommitKeepsLive, AbortKeepsLive, DescribeKeeps, EditKeeps
   DEF PoolStep, UpsertStep, Merging

---------------------------------------------------------------------------
(* The steps of a request and of an acceptance *)

(* A request invites a company that is there. *)
LEMMA RequestKeeps ==
  ASSUME LiveInv, AcceptInv, NEW r \in Request, RequestStep(r) PROVE LiveInv'
<1>1. UNCHANGED <<own, born, up>>
  BY DEF RequestStep, LookUpKey, ResolveInvitee, SendInvite, InviteBlocked, RequestFails, StoreAnswer
<1>2. UpShape'
  BY <1>1 DEF LiveInv, UpShape, IsUp
<1>3. request = [q \in Request |-> [pc |-> request[q].pc, company |-> request[q].company]] /\ Asked
  BY DEF AcceptInv, Shape, LiveInv
<1>4. CASE UNCHANGED db
  <2>1. /\ \A c \in Company : Row(c) \in DOMAIN db' /\ db'[Row(c)] = db[Row(c)]
        /\ \A i \in Identifier : Ident(i) \in DOMAIN db' /\ db'[Ident(i)] = db[Ident(i)]
    BY <1>4 DEF LiveInv, DbGood
  <2>2. Live(db)' = Live(db)
    BY <1>4 DEF Live
  <2>3. \A q \in Request : request'[q].pc = "invitee" => request'[q].company \in Live(db)
    <3>1. CASE ResolveInvitee(r)
      <4>1. db[Row(CompanyOf[r])].exists /\ CompanyOf[r] \in Company
        BY <3>1, DiscoveryAssumption DEF ResolveInvitee
      <4>2. Down(db, Age) /\ CompanyOf[r] \in Live(db)
        BY <4>1 DEF LiveInv, DbGood, Live
      <4>3. Resolve(db, CompanyOf[r]) \in Live(db)
        BY <4>2, EndLive
      <4>. DEFINE row == [pc |-> "invitee", company |-> Resolve(db, CompanyOf[r])]
      <4>4. request' = [request EXCEPT ![r] = row] /\ row.company = Resolve(db, CompanyOf[r])
        BY <3>1 DEF ResolveInvitee
      <4>. HIDE DEF row
      <4>. QED BY <4>3, <4>4, <1>3 DEF Asked
    <3>2. CASE LookUpKey(r) \/ InviteBlocked(r) \/ RequestFails(r) \/ StoreAnswer(r)
      <4>1. PICK pc : Step(r, pc) /\ pc \in {"replayed", "reused", "handler", "answered", "cut", "over"}
        BY <3>2 DEF LookUpKey, InviteBlocked, RequestFails, StoreAnswer
      <4>. DEFINE row == [pc |-> pc, company |-> request[r].company]
      <4>2. request' = [request EXCEPT ![r] = row]
        <5>1. request[r] = [pc |-> request[r].pc, company |-> request[r].company]
          BY <1>3
        <5>2. [request[r] EXCEPT !.pc = pc] = row
          BY <5>1
        <5>3. request' = [request EXCEPT ![r] = [request[r] EXCEPT !.pc = pc]]
          BY <4>1, Zenon DEF Step
        <5>. QED BY <5>2, <5>3
      <4>3. row.pc = pc /\ pc # "invitee"
        BY <4>1
      <4>. HIDE DEF row
      <4>. QED BY <4>2, <4>3, <1>3 DEF Asked
    <3>3. CASE SendInvite(r)
      <4>1. request'[r].pc = "answered" /\ \A q \in Request : q # r => request'[q] = request[q]
        BY <3>3, <1>3 DEF SendInvite, Step
      <4>. QED BY <4>1, <1>3 DEF Asked
    <3>. QED BY <3>1, <3>2, <3>3 DEF RequestStep
  <2>4. Asked'
    BY <1>3, <1>4, <2>2, <2>3 DEF Asked
  <2>. QED BY <1>1, <1>2, <2>1, <2>4, ElsewhereKeeps
<1>5. CASE SendInvite(r)
  <2>. DEFINE row == [status |-> "sent", company |-> request[r].company]
  <2>1. Store(OneRow(Invite(r), row)) /\ request[r].pc = "invitee" /\ Step(r, "answered")
    BY <1>5 DEF SendInvite
  <2>2. row.company \in Live(db)
    BY <2>1, <1>3 DEF Asked
  <2>. HIDE DEF row
  <2>3. /\ \A c \in Company : Row(c) \in DOMAIN db' /\ db'[Row(c)] = db[Row(c)]
        /\ \A i \in Identifier : Ident(i) \in DOMAIN db' /\ db'[Ident(i)] = db[Ident(i)]
    BY <2>1, StoredElsewhere, OneElsewhere, RowsDiffer
  <2>4. Live(db)' = Live(db)
    BY <2>3 DEF Live
  <2>5. \A q \in Request : db'[Invite(q)] = IF q = r THEN row ELSE db[Invite(q)]
    <3>1. db' = Overlay(OneRow(Invite(r), row), db) /\ \A q \in Request : Invite(q) \in DOMAIN db
      BY <2>1 DEF Store, AcceptInv, Shape
    <3>2. DOMAIN OneRow(Invite(r), row) = {Invite(r)} /\ OneRow(Invite(r), row)[Invite(r)] = row
      BY OneRowIs
    <3>3. \A x \in DOMAIN db : db'[x] = IF x = Invite(r) THEN row ELSE db[x]
      BY <3>1, <3>2 DEF Overlay
    <3>. QED BY <3>1, <3>3, RowsDiffer
  <2>6. request'[r].pc = "answered" /\ \A q \in Request : q # r => request'[q] = request[q]
    BY <2>1, <1>3 DEF Step
  <2>7. Asked'
    BY <1>3, <2>2, <2>4, <2>5, <2>6 DEF Asked
  <2>. QED BY <1>1, <1>2, <2>3, <2>7, ElsewhereKeeps
<1>. QED BY <1>4, <1>5
         DEF RequestStep, LookUpKey, ResolveInvitee, SendInvite, InviteBlocked, RequestFails, StoreAnswer

(* Invites are rows of another table. *)
LEMMA InvitesElsewhere ==
  ASSUME NEW new, \A x \in DOMAIN new : \E r : x = Invite(r) PROVE Elsewhere(new)
BY RowsDiffer DEF Elsewhere

(* What an acceptance writes. *)
LEMMA AcceptWrites ==
  ASSUME LiveInv, AcceptInv, NEW a \in Acceptor, UNCHANGED <<db, born, up, request>>,
         \A s \in Txn : s # a => own'[s] = own[s], GoodRows(own[a], Live(Seen(a)))'
  PROVE  LiveInv'
<1>1. a \in Txn /\ a \notin Upsert
  BY Transactors, DiscoveryAssumption
<1>2. UpShape'
  BY DEF LiveInv, UpShape, IsUp
<1>. QED BY <1>1, <1>2, WritesInv

(* Every step of an acceptance. *)
LEMMA AcceptKeepsLive ==
  ASSUME LiveInv, AcceptInv, NEW a \in Acceptor, AcceptStep(a) PROVE LiveInv'
<1>1. UNCHANGED <<born, up, request>> /\ a \in Txn /\ a \notin Upsert /\ own = [t \in Txn |-> own[t]]
  BY Transactors, DiscoveryAssumption
     DEF AcceptStep, LockInvite, MarkJoined, CloseOthers, CommitAccept, AbortAccept, Rest, AcceptInv, Shape
<1>2. ASSUME NEW rows, own' = [own EXCEPT ![a] = rows], Elsewhere(rows), UNCHANGED db PROVE LiveInv'
  <2>1. own'[a] = rows /\ \A s \in Txn : s # a => own'[s] = own[s]
    BY <1>1, <1>2
  <2>2. GoodRows(own[a], Live(Seen(a)))'
    BY <2>1, <1>2 DEF Elsewhere, GoodRows
  <2>. QED BY <1>1, <1>2, <2>1, <2>2, AcceptWrites
<1>3. ASSUME NEW new, Write(a, new), GoodRows(new, Live(Seen(a))), UNCHANGED db PROVE LiveInv'
  <2>1. own'[a] = Overlay(new, own[a]) /\ \A s \in Txn : s # a => own'[s] = own[s]
    BY <1>1, <1>3 DEF Write
  <2>2. GoodRows(own[a], Live(Seen(a)))'
    BY <1>1, <1>3, <2>1, WrittenGood
  <2>. QED BY <1>1, <1>3, <2>1, <2>2, AcceptWrites
<1>4. ASSUME NEW r \in Request, LockInvite(a, r) PROVE LiveInv'
  <2>1. CASE UNCHANGED own
    <3>1. GoodRows(own[a], Live(Seen(a)))'
      <4>1. UNCHANGED db /\ GoodRows(own[a], Live(Seen(a)))
        BY <1>1, <1>4 DEF LockInvite, LiveInv
      <4>2. Live(Seen(a))' = Live(Seen(a))
        BY <2>1, <4>1 DEF Live, Seen
      <4>. QED BY <1>1, <2>1, <4>1, <4>2, AgeStays DEF GoodRows
    <3>. QED BY <3>1, <1>1, <1>4, <2>1, AcceptWrites DEF LockInvite
  <2>2. ASSUME NEW row, own' = [own EXCEPT ![a] = OneRow(Invite(r), row)] PROVE LiveInv'
    <3>1. Elsewhere(OneRow(Invite(r), row))
      BY OneElsewhere, RowsDiffer
    <3>. QED BY <3>1, <2>2, <1>2, <1>4 DEF LockInvite
  <2>. QED BY <2>1, <2>2, <1>4 DEF LockInvite
<1>5. CASE MarkJoined(a)
  <2>. DEFINE c == Joining(a)
              row == [db[Row(c)] EXCEPT !.ref = a]
  <2>1. accept[a].pc = "mark" /\ Write(a, OneRow(Row(c), row)) /\ UNCHANGED db
    BY <1>5 DEF MarkJoined
  <2>2. Mine(a) \in Request /\ db[Invite(Mine(a))].status = "sent"
    BY <2>1 DEF AcceptInv, Holds, Wrote, Busy
  <2>3. c \in Live(db)
    BY <2>2 DEF LiveInv, Asked, Joining, Mine
  <2>. HIDE DEF c
  <2>4. /\ c \in Company /\ c \in Born /\ IsCompany(db[Row(c)]) /\ db[Row(c)].exists
        /\ Live(db) \subseteq Live(Seen(a))
    BY <2>3, <1>1, SeenGood DEF LiveInv, DbGood, Live
  <2>5. db[Row(c)].merged # Nothing => db[Row(c)].merged \in Live(Seen(a)) /\ Age[db[Row(c)].merged] < Age[c]
    BY <2>3, <2>4 DEF LiveInv, DbGood, Down, Merged
  <2>6. IsCompany(row) /\ row.exists /\ row.merged = db[Row(c)].merged
    BY <2>4 DEF IsCompany, CompanyField
  <2>. HIDE DEF row
  <2>7. GoodRows(OneRow(Row(c), row), Live(Seen(a)))
    BY <2>4, <2>5, <2>6, OneCompanyGood
  <2>. QED BY <2>1, <2>7, <1>3
<1>6. CASE CloseOthers(a)
  <2>1. PICK open : \E f : /\ Write(a, f) /\ DOMAIN f = {Invite(r) : r \in open}
    <3>. DEFINE open == {r \in Request \ {accept[a].invite} :
                            db[Invite(r)].status = "sent" /\ db[Invite(r)].company = Joining(a)}
                f == [i \in {Invite(r) : r \in open} |-> [db[i] EXCEPT !.status = "expired"]]
    <3>1. Write(a, f)
      BY <1>6 DEF CloseOthers
    <3>2. DOMAIN f = {Invite(r) : r \in open}
      OBVIOUS
    <3>. HIDE DEF f, open
    <3>. QED BY <3>1, <3>2
  <2>2. PICK f : Write(a, f) /\ DOMAIN f = {Invite(r) : r \in open}
    BY <2>1
  <2>3. GoodRows(f, Live(Seen(a)))
    BY <2>2, InvitesElsewhere, ElsewhereGood
  <2>. QED BY <2>2, <2>3, <1>3, <1>6 DEF CloseOthers
<1>7. CASE AbortAccept(a)
  <2>1. own' = [own EXCEPT ![a] = <<>>] /\ UNCHANGED db
    BY <1>7 DEF AbortAccept, RollBack
  <2>2. Elsewhere(<<>>)
    BY EmptyIs DEF Elsewhere
  <2>. QED BY <2>1, <2>2, <1>2
<1>8. CASE CommitAccept(a)
  <2>1. Commit(a) /\ accept[a].pc = "commit"
    BY <1>8 DEF CommitAccept
  <2>2. /\ Live(db) \subseteq Live(db)' /\ DbGood'
        /\ \A s \in Txn : GoodRows(own[s], Live(Seen(s)))'
        /\ \A s \in Txn : s # a => Live(Seen(s)) \subseteq Live(Seen(s))'
    BY <1>1, <2>1, CommitGood
  <2>3. ASSUME NEW u \in Upsert PROVE Knows(u)'
    <3>1. Live(Seen(u)) \subseteq Live(Seen(u))' /\ Knowing(u, up[u], Live(Seen(u)))
      BY <2>2, <1>1, Transactors DEF LiveInv, Knows
    <3>2. Knowing(u, up[u], Live(Seen(u))')
      BY <3>1, KnowingMore
    <3>. QED BY <3>2, <1>1, AgeStays DEF Knows, Knowing
  <2>4. BirthsOK' /\ UpShape'
    BY <1>1, AgeStays DEF LiveInv, BirthsOK, UpShape, IsUp
  <2>5. ASSUME NEW r \in Request
        PROVE  db'[Invite(r)].company = db[Invite(r)].company /\ (db'[Invite(r)].status # "none" => db[Invite(r)].status # "none")
    <3>1. db' = Overlay(own[a], db) /\ Invite(r) \in DOMAIN db
      BY <2>1 DEF Commit, Seen, AcceptInv, Shape
    <3>2. db'[Invite(r)] = IF Invite(r) \in DOMAIN own[a] THEN own[a][Invite(r)] ELSE db[Invite(r)]
      BY <3>1 DEF Overlay
    <3>3. CASE Invite(r) \in DOMAIN own[a]
      <4>. DEFINE won == IF r = Mine(a) THEN "accepted" ELSE "expired"
      <4>1. db[Invite(r)].status = "sent" /\ own[a][Invite(r)] = [status |-> won, company |-> db[Invite(r)].company]
        BY <3>3 DEF AcceptInv, Wrote
      <4>. HIDE DEF won
      <4>. QED BY <3>2, <3>3, <4>1
    <3>4. CASE Invite(r) \notin DOMAIN own[a]
      BY <3>2, <3>4
    <3>. QED BY <3>3, <3>4
  <2>6. Asked'
    BY <1>1, <2>2, <2>5 DEF LiveInv, Asked
  <2>. QED BY <2>2, <2>3, <2>4, <2>6 DEF LiveInv
<1>. QED BY <1>4, <1>5, <1>6, <1>7, <1>8 DEF AcceptStep

---------------------------------------------------------------------------
(* Merges end live *)

(* The pool starts with companies that were not merged. *)
LEMMA LiveInit == Init => LiveInv
<1>. SUFFICES ASSUME Init PROVE LiveInv
  OBVIOUS
<1>. DEFINE invites == [i \in {Invite(r) : r \in Request} |->
                     IF i[2] \in Invited THEN [status |-> "sent", company |-> CompanyOf[i[2]]] ELSE NoInvite]
<1>1. /\ own = [t \in Txn |-> <<>>] /\ born = Known /\ up = [u \in Upsert |-> Idle]
      /\ db = Overlay(invites, Tables)
      /\ request = [r \in Request |-> [pc |-> IF r \in Invited THEN "over" ELSE "idle", company |-> Nothing]]
  BY DEF Init, RegistryInit
<1>2. DOMAIN invites = {Invite(r) : r \in Request}
  OBVIOUS
<1>. DEFINE idents  == {Ident(i) : i \in Identifier}
            rows    == {Row(c) : c \in Company}
            sources == {Source(u) : u \in Upsert}
            views   == {View(t, c) : t \in Tenant, c \in Company}
            rest    == {Profile(c) : c \in Company}
            value(r) == CASE r \in idents  -> Held[r[2]]
                          [] r \in rows    -> [NoCompany EXCEPT !.exists = r[2] \notin Upsert]
                          [] r \in sources -> Nothing
                          [] r \in views   -> NoView
                          [] OTHER         -> FALSE
<1>t. Tables = [r \in idents \cup rows \cup sources \cup views \cup rest |-> value(r)]
  BY DEF Tables
<1>3. ASSUME NEW c \in Company
      PROVE  Row(c) \in DOMAIN Tables /\ Tables[Row(c)] = [NoCompany EXCEPT !.exists = c \notin Upsert]
  <2>1. Row(c) \in rows /\ Row(c) \notin idents /\ Row(c) \notin sources /\ Row(c) \notin views
    BY RegistryRows
  <2>2. Row(c)[2] = c
    BY DEF Row
  <2>. HIDE DEF idents, rows, sources, views, rest
  <2>3. value(Row(c)) = [NoCompany EXCEPT !.exists = c \notin Upsert]
    BY <2>1, <2>2
  <2>. HIDE DEF value
  <2>. QED BY <1>t, <2>1, <2>3
<1>4. ASSUME NEW i \in Identifier
      PROVE  Ident(i) \in DOMAIN Tables /\ Tables[Ident(i)] = Held[i]
  <2>1. Ident(i) \in idents /\ Ident(i) \notin rows /\ Ident(i) \notin sources /\ Ident(i) \notin views
    BY RegistryRows
  <2>2. Ident(i)[2] = i
    BY DEF Ident
  <2>. HIDE DEF idents, rows, sources, views, rest
  <2>3. value(Ident(i)) = Held[i]
    BY <2>1, <2>2
  <2>. HIDE DEF value
  <2>. QED BY <1>t, <2>1, <2>3
<1>5. ASSUME NEW r \in Request
      PROVE  db[Invite(r)] = IF r \in Invited THEN [status |-> "sent", company |-> CompanyOf[r]] ELSE NoInvite
  BY <1>1 DEF Overlay, Invite
<1>. HIDE DEF invites
<1>6. \A x \in DOMAIN Tables : x \in DOMAIN db /\ (x \notin DOMAIN invites => db[x] = Tables[x])
  BY <1>1 DEF Overlay
<1>7. ASSUME NEW c \in Company
      PROVE  Row(c) \in DOMAIN db /\ IsCompany(db[Row(c)]) /\ (db[Row(c)].exists <=> c \notin Upsert) /\ db[Row(c)].merged = Nothing
  <2>1. Row(c) \in DOMAIN db /\ db[Row(c)] = [NoCompany EXCEPT !.exists = c \notin Upsert]
    BY <1>2, <1>3, <1>6, RowsDiffer
  <2>2. IsCompany(NoCompany) /\ NoCompany.merged = Nothing
    BY DEF NoCompany, IsCompany, CompanyField
  <2>. HIDE DEF IsCompany
  <2>3. IsCompany(db[Row(c)]) /\ db[Row(c)].merged = Nothing
    BY <2>1, <2>2 DEF IsCompany, CompanyField
  <2>4. db[Row(c)].exists <=> c \notin Upsert
    BY <2>1, <2>2 DEF IsCompany, CompanyField
  <2>. QED BY <2>1, <2>3, <2>4
<1>8. \A i \in Identifier : Ident(i) \in DOMAIN db /\ db[Ident(i)] = Held[i]
  BY <1>2, <1>4, <1>6, RowsDiffer
<1>9. Live(db) = Company \ Upsert
  BY <1>7 DEF Live
<1>10. Born = Company \ Upsert
  <2>1. \A k \in 1..Len(Known) : Known[k] \in Company \ Upsert
    BY RegistryAssumption
  <2>2. \A c \in Company \ Upsert : \E k \in 1..Len(Known) : Known[k] = c
    BY DEF Company
  <2>. QED BY <1>1, <2>1, <2>2 DEF Born
<1>11. BirthsOK
  <2>1. born \in Seq(Company) /\ \A j, k \in 1..Len(born) : born[j] = born[k] => j = k
    BY <1>1, RegistryAssumption
  <2>. QED BY <2>1, <1>10 DEF BirthsOK
<1>12. DbGood
  <2>1. Down(db, Age)
    <3>1. Age \in [Company -> Nat]
      BY <1>11, AgeIs
    <3>2. \A c \in Live(db) : Merged(db, c) = Nothing
      BY <1>7 DEF Live, Merged
    <3>. QED BY <3>1, <3>2 DEF Down
  <2>2. \A i \in Identifier : db[Ident(i)] = Nothing \/ db[Ident(i)] \in Live(db)
    BY <1>8, <1>9, RegistryAssumption
  <2>. QED BY <2>1, <2>2, <1>7, <1>8, <1>9, <1>10 DEF DbGood
<1>13. Asked
  <2>1. \A r \in Request : db[Invite(r)].status # "none" => r \in Invited /\ db[Invite(r)].company = CompanyOf[r]
    <3>. HIDE DEF value
    <3>1. ASSUME NEW r \in Request, db[Invite(r)].status # "none"
          PROVE  r \in Invited /\ db[Invite(r)].company = CompanyOf[r]
      <4>1. CASE r \in Invited
        <5>1. db[Invite(r)] = [status |-> "sent", company |-> CompanyOf[r]]
          BY <4>1, <1>5
        <5>. QED BY <4>1, <5>1
      <4>2. CASE r \notin Invited
        <5>1. db[Invite(r)] = [status |-> "none", company |-> Nothing]
          BY <4>2, <1>5 DEF NoInvite
        <5>. QED BY <3>1, <5>1
      <4>. QED BY <4>1, <4>2
    <3>. QED BY <3>1
  <2>2. \A r \in Invited : CompanyOf[r] \in Company \ Upsert
    BY DiscoveryAssumption
  <2>3. \A r \in Request : request[r].pc # "invitee"
    BY <1>1
  <2>. QED BY <2>1, <2>2, <2>3, <1>9 DEF Asked
<1>14. UpShape
  <2>1. IsUp(Idle)
    BY DEF Idle, IsUp, UpField
  <2>. QED BY <2>1, <1>1 DEF UpShape
<1>15. \A t \in Txn : GoodRows(own[t], Live(Seen(t)))
  BY <1>1, EmptyIs DEF GoodRows
<1>16. \A u \in Upsert : Knows(u)
  <2>1. Idle.pc = "idle" /\ Idle.losers = {} /\ Idle.found = <<>>
    BY DEF Idle
  <2>. QED BY <1>1, <2>1, EmptyIs DEF Knows, Knowing, Holding, Merger
<1>. QED BY <1>11, <1>12, <1>13, <1>14, <1>15, <1>16 DEF LiveInv

(* And every step keeps it so. *)
LEMMA LiveKept == LiveInv /\ AcceptInv /\ [Next]_vars => LiveInv'
<1>. SUFFICES ASSUME LiveInv, AcceptInv, [Next]_vars PROVE LiveInv'
  OBVIOUS
<1>1. CASE PoolStep /\ UNCHANGED <<request, stored, accept, earlier, search>>
  BY <1>1, PoolKeeps
<1>2. CASE \E r \in Request : RequestStep(r)
  BY <1>2, RequestKeeps
<1>3. CASE \E a \in Acceptor : AcceptStep(a)
  BY <1>3, AcceptKeepsLive
<1>4. CASE (\E k \in DOMAIN stored : ForgetKey(k)) \/ (\E s \in Searcher : Search(s) \/ FindCompanyIds(s)) \/ UNCHANGED vars
  <2>1. UNCHANGED <<db, own, born, up, request>>
    BY <1>4 DEF ForgetKey, Search, SearchFinds, Hydrate, SearchAnswers, FindCompanyIds, Others, vars
  <2>2. Asked' /\ UpShape'
    BY <2>1 DEF LiveInv, Asked, UpShape, IsUp, Live
  <2>3. /\ \A c \in Company : Row(c) \in DOMAIN db' /\ db'[Row(c)] = db[Row(c)]
        /\ \A i \in Identifier : Ident(i) \in DOMAIN db' /\ db'[Ident(i)] = db[Ident(i)]
    BY <2>1 DEF LiveInv, DbGood
  <2>. QED BY <2>1, <2>2, <2>3, ElsewhereKeeps
<1>. QED BY <1>1, <1>2, <1>3, <1>4 DEF Next

(* Merges lead to a live company: resolve (registry/index.ts) ends at a    *)
(* company that was not merged away, and no identifier is held by a        *)
(* company that was never committed, however transactions overlap and      *)
(* abort.                                                                  *)
THEOREM MergesEndLiveSafe == Spec => []MergesEndLive
<1>1. LiveInv => MergesEndLive
  <2>. SUFFICES ASSUME LiveInv PROVE MergesEndLive
    OBVIOUS
  <2>1. Down(db, Age)
    BY DEF LiveInv, DbGood
  <2>2. \A c \in Live(db) : Resolve(db, c) \in Live(db) /\ Merged(db, Resolve(db, c)) = Nothing
    BY <2>1, EndLive
  <2>3. ASSUME NEW c \in Company, db[Row(c)].exists
        PROVE  db[Row(Resolve(db, c))].exists /\ db[Row(Resolve(db, c))].merged = Nothing
    BY <2>2, <2>3 DEF Live, Merged
  <2>4. \A i \in Identifier : db[Ident(i)] # Nothing => db[Row(db[Ident(i)])].exists
    BY DEF LiveInv, DbGood, Live
  <2>. QED BY <2>3, <2>4 DEF MergesEndLive
<1>2. Init => LiveInv /\ AcceptInv
  BY LiveInit, AcceptInit
<1>3. LiveInv /\ AcceptInv /\ [Next]_vars => LiveInv' /\ AcceptInv'
  BY LiveKept, AcceptKept
<1>. QED BY <1>1, <1>2, <1>3, PTL DEF Spec

---------------------------------------------------------------------------
(* What identity relies on *)

(* No two transactions have written the same row. *)
Alone == \A s, t \in Txn : s # t => DOMAIN own[s] \cap DOMAIN own[t] = {}

(* Nobody has written the row of a company whose upsert has not come to    *)
(* insert it.                                                              *)
Fresh == \A u \in Upsert : up[u].pc \in {"idle", "match"} =>
           u \notin Live(db) /\ \A t \in Txn : Row(u) \notin DOMAIN own[t]

Looking == {"match", "again"}
Working == Looking \cup Merger \cup {"attach", "view", "commit"}

(* What an upsert that is at r has on its lists. *)
Lists(u, r) ==
  /\ r.pc \in Working => r.todo \in Seq(Identifier) /\ r.rest \in Seq(Identifier)
  /\ r.pc \in {"view", "commit"} => r.todo = <<>>
  /\ r.pc \in {"idle"} \cup (Working \ Merger) => r.losers = {}
  /\ r.pc = "match" => r.rest = Ids[u]

Listed == \A u \in Upsert : Lists(u, up[u])

(* An acceptance writes no identifier. *)
NoIdents == \A a \in Acceptor, i \in Identifier : Ident(i) \notin DOMAIN own[a]

(* e has every company d has, merged where it was. *)
Extending(d, e) == \A c \in Live(d) : c \in Live(e) /\ (Merged(d, c) # Nothing => Merged(e, c) = Merged(d, c))

(* a leads where one of p does; so do a and b, or they lead to the same.   *)
Joins(d, p, a) == \E x \in p : Resolve(d, a) = Resolve(d, x)
Tied(d, p, a, b) == Resolve(d, a) = Resolve(d, b) \/ (Joins(d, p, a) /\ Joins(d, p, b))

StrongOf(u) == {Ids[u][k] : k \in 1..Len(Ids[u])} \cap Strong

(* The companies r is about to make one; what it has left; what it has     *)
(* found so far.                                                           *)
Pending(r) == IF r.pc \in Holding THEN {r.company} \cup r.losers ELSE {}
Left(r)    == IF r.pc \in Looking THEN ToSet(r.rest) ELSE ToSet(r.todo)
Base(r)    == IF r.pc \in Looking THEN DOMAIN r.found ELSE Pending(r)

(* What an upsert wrote of identifiers. *)
Moves(d, r) == \A i \in Identifier : db[Ident(i)] # Nothing => Tied(d, Pending(r), d[Ident(i)], db[Ident(i)])

(* The strong identifiers it is done with. *)
Gathers(u, d, r) == r.pc \in Working => \A i \in StrongOf(u) :
  i \in Left(r) \/ (d[Ident(i)] # Nothing /\ (i \in ToSet(r.todo) \/ Joins(d, Base(r), d[Ident(i)])))

Once(t) == t \in Upsert => ~up[t].twice

Tame(t) == Once(t) => Extending(db, Seen(t))
Sound(u) == Once(u) => Moves(Seen(u), up[u]) /\ Gathers(u, Seen(u), up[u])

(* The strong identifiers of what was committed lead to one company. *)
Decided == \A u \in Upsert : Committed(u) => \A i, j \in StrongOf(u) :
  db[Ident(i)] # Nothing /\ Resolve(db, db[Ident(i)]) = Resolve(db, db[Ident(j)])

NoneTwice == \A u \in Upsert : Committed(u) => ~up[u].twice

IdentityInv ==
  /\ Alone /\ Fresh /\ Listed /\ NoIdents
  /\ NoneTwice => Decided /\ (\A t \in Txn : Tame(t)) /\ \A u \in Upsert : Sound(u)

---------------------------------------------------------------------------
(* Merging more *)

(* Merging more and more again. *)
LEMMA ExtendsMore ==
  ASSUME NEW d, NEW e, NEW f, Extending(d, e), Extending(e, f) PROVE Extending(d, f)
BY DEF Extending

(* What leads to one company goes on doing so. *)
LEMMA Coarser ==
  ASSUME NEW d, NEW e, NEW at, Down(d, at), Down(e, at), Extending(d, e), NEW c \in Live(d)
  PROVE  Resolve(e, c) = Resolve(e, Resolve(d, c))
<1>. DEFINE P == {x \in Live(d) : Resolve(e, x) = Resolve(e, Resolve(d, x))}
<1>1. ASSUME NEW x \in Live(d), Merged(d, x) = Nothing \/ Merged(d, x) \in P PROVE x \in P
  <2>1. CASE Merged(d, x) = Nothing
    BY <2>1, EndRoot
  <2>2. CASE Merged(d, x) # Nothing /\ Merged(d, x) \in P
    <3>1. Resolve(d, x) = Resolve(d, Merged(d, x))
      BY <2>2, EndNext
    <3>2. x \in Live(e) /\ Merged(e, x) = Merged(d, x) /\ Merged(e, x) # Nothing
      BY <2>2 DEF Extending
    <3>3. Resolve(e, x) = Resolve(e, Merged(d, x))
      BY <3>2, EndNext
    <3>. QED BY <3>1, <3>3, <2>2
  <2>. QED BY <1>1, <2>1, <2>2
<1>2. Live(d) \subseteq P
  <2>. HIDE DEF P
  <2>. QED BY <1>1, DownInduct
<1>. QED BY <1>2

(* So does what leads to the same as another. *)
LEMMA StillSame ==
  ASSUME NEW d, NEW e, NEW at, Down(d, at), Down(e, at), Extending(d, e), NEW a \in Live(d), NEW b \in Live(d),
         Resolve(d, a) = Resolve(d, b)
  PROVE  Resolve(e, a) = Resolve(e, b)
BY Coarser

(* And what leads where some company leads. *)
LEMMA JoinsMore ==
  ASSUME NEW d, NEW e, NEW at, Down(d, at), Down(e, at), Extending(d, e), NEW p, NEW q, p \subseteq Live(d),
         \A x \in p : Joins(e, q, x), NEW a \in Live(d), Joins(d, p, a)
  PROVE  Joins(e, q, a)
<1>1. PICK x \in p : Resolve(d, a) = Resolve(d, x)
  BY DEF Joins
<1>2. Resolve(e, a) = Resolve(e, x)
  BY <1>1, StillSame
<1>. QED BY <1>1, <1>2 DEF Joins

(* And what is tied. *)
LEMMA TiedMore ==
  ASSUME NEW d, NEW e, NEW at, Down(d, at), Down(e, at), Extending(d, e), NEW p, NEW q, p \subseteq Live(d),
         \A x \in p : Joins(e, q, x), NEW a \in Live(d), NEW b \in Live(d), Tied(d, p, a, b)
  PROVE  Tied(e, q, a, b)
<1>1. CASE Resolve(d, a) = Resolve(d, b)
  BY <1>1, StillSame DEF Tied
<1>2. CASE Joins(d, p, a) /\ Joins(d, p, b)
  BY <1>2, JoinsMore DEF Tied
<1>. QED BY <1>1, <1>2 DEF Tied

(* What is one of them joins them. *)
LEMMA JoinsSelf == ASSUME NEW d, NEW p, NEW a \in p PROVE Joins(d, p, a)
BY DEF Joins

(* A company that is one of p, in the place of another that is.            *)
LEMMA TiedMoved ==
  ASSUME NEW d, NEW q, NEW a, NEW b, NEW c \in q, Joins(d, q, a), Tied(d, q, a, b)
  PROVE  Tied(d, q, c, b)
BY DEF Tied, Joins

---------------------------------------------------------------------------
(* The lists of an upsert, and the identifiers it gathers *)

(* With nothing to merge, what is tied leads to the same. *)
LEMMA TiedOne ==
  ASSUME NEW d, NEW r, r.losers = {}, NEW a, NEW b, Tied(d, Pending(r), a, b)
  PROVE  Resolve(d, a) = Resolve(d, b)
<1>1. ASSUME NEW x, Joins(d, Pending(r), x) PROVE Resolve(d, x) = Resolve(d, r.company)
  BY <1>1 DEF Joins, Pending
<1>. QED BY <1>1 DEF Tied

(* Identifiers of a database: held by a company that is there, or free. *)
IdentsLive(d) == \A i \in Identifier : d[Ident(i)] = Nothing \/ d[Ident(i)] \in Live(d)

(* From d to e identifiers are given away by the companies of p to those   *)
(* of q only.                                                              *)
Gives(d, e, p, q) == \A i \in Identifier : d[Ident(i)] # Nothing =>
  e[Ident(i)] = d[Ident(i)] \/ (d[Ident(i)] \in p /\ e[Ident(i)] \in q)

(* Nothing is no company. *)
LEMMA NothingIsNone == \A d : Nothing \notin Live(d)
BY RegistryAssumption DEF Live

(* Identifiers that were moved to where the survivor is stay so when more  *)
(* is merged and moved.                                                    *)
LEMMA MovesOn ==
  ASSUME NEW d, NEW e, NEW at, Down(d, at), Down(e, at), Extending(d, e), Extending(db, d), IdentsLive(d), IdentsLive(db),
         NEW r, NEW s, Pending(r) \subseteq Live(d), \A x \in Pending(r) : Joins(e, Pending(s), x),
         Moves(d, r), Gives(d, e, Pending(r), Pending(s)), \A i \in Identifier : db[Ident(i)] # Nothing => d[Ident(i)] # Nothing
  PROVE  Moves(e, s)
<1>. SUFFICES ASSUME NEW i \in Identifier, db[Ident(i)] # Nothing
              PROVE  Tied(e, Pending(s), e[Ident(i)], db[Ident(i)])
  BY DEF Moves
<1>. DEFINE a == d[Ident(i)]
            b == db[Ident(i)]
<1>1. a \in Live(d) /\ b \in Live(d) /\ a # Nothing
  BY DEF IdentsLive, Extending
<1>2. Tied(d, Pending(r), a, b)
  BY DEF Moves
<1>3. Tied(e, Pending(s), a, b)
  BY <1>1, <1>2, TiedMore
<1>4. CASE e[Ident(i)] = a
  BY <1>3, <1>4
<1>5. CASE a \in Pending(r) /\ e[Ident(i)] \in Pending(s)
  <2>1. Joins(e, Pending(s), a)
    BY <1>5
  <2>. QED BY <1>3, <1>5, <2>1, TiedMoved
<1>. QED BY <1>1, <1>4, <1>5 DEF Gives

(* What an upsert has gathered stays gathered. *)
LEMMA GathersOn ==
  ASSUME NEW u \in Upsert, NEW d, NEW e, NEW at, Down(d, at), Down(e, at), Extending(d, e), IdentsLive(d),
         NEW r, NEW s, r.pc \in Working, Gathers(u, d, r), Base(r) \subseteq Live(d),
         \A x \in Base(r) : Joins(e, Base(s), x), NEW p, NEW q, q \subseteq Base(s), Gives(d, e, p, q), Nothing \notin q,
         \A i \in StrongOf(u) :
           \/ i \in Left(s)
           \/ e[Ident(i)] # Nothing /\ (i \in ToSet(s.todo) \/ Joins(e, Base(s), e[Ident(i)]))
           \/ i \notin Left(r) /\ (i \in ToSet(r.todo) => i \in ToSet(s.todo))
  PROVE  Gathers(u, e, s)
<1>. SUFFICES ASSUME s.pc \in Working, NEW i \in StrongOf(u), i \notin Left(s)
              PROVE  e[Ident(i)] # Nothing /\ (i \in ToSet(s.todo) \/ Joins(e, Base(s), e[Ident(i)]))
  BY DEF Gathers
<1>. DEFINE a == d[Ident(i)]
<1>0. i \in Identifier
  BY RegistryAssumption DEF StrongOf
<1>1. CASE i \notin Left(r) /\ (i \in ToSet(r.todo) => i \in ToSet(s.todo))
  <2>1. a # Nothing /\ (i \in ToSet(r.todo) \/ Joins(d, Base(r), a))
    BY <1>1 DEF Gathers
  <2>2. a \in Live(d)
    BY <2>1, <1>0 DEF IdentsLive
  <2>3. e[Ident(i)] # Nothing
    BY <2>1, <1>0 DEF Gives
  <2>4. Joins(d, Base(r), a) => Joins(e, Base(s), a)
    BY <2>2, JoinsMore
  <2>5. Joins(d, Base(r), a) => Joins(e, Base(s), e[Ident(i)])
    <3>1. CASE e[Ident(i)] = a
      BY <3>1, <2>4
    <3>2. CASE e[Ident(i)] \in q
      BY <3>2, JoinsSelf
    <3>. QED BY <3>1, <3>2, <2>1, <1>0 DEF Gives
  <2>. QED BY <1>1, <2>1, <2>3, <2>5
<1>. QED BY <1>1

(* A step that commits nothing, of a transaction t. *)
LEMMA WithinIdentity ==
  ASSUME LiveInv, IdentityInv, NEW t \in Txn, UNCHANGED db, \A s \in Txn : s # t => own'[s] = own[s],
         \A u \in Upsert : u # t => up'[u] = up[u], t \in Upsert => ~Committed(t) /\ ~Committed(t)',
         Alone', Fresh', Listed', NoIdents', NoneTwice => Tame(t)' /\ (t \in Upsert => Sound(t)')
  PROVE  IdentityInv'
<1>. SUFFICES ASSUME NoneTwice' PROVE Decided' /\ (\A s \in Txn : Tame(s)') /\ \A u \in Upsert : Sound(u)'
  BY DEF IdentityInv
<1>1. NoneTwice
  BY DEF NoneTwice, Committed
<1>2. Decided /\ (\A s \in Txn : Tame(s)) /\ \A u \in Upsert : Sound(u)
  BY <1>1 DEF IdentityInv
<1>3. Decided'
  BY <1>2 DEF Decided, Committed
<1>4. ASSUME NEW s \in Txn, s # t PROVE Tame(s)'
  <2>1. Seen(s)' = Seen(s)
    BY <1>4 DEF Seen
  <2>2. Once(s)' => Once(s)
    BY <1>4 DEF Once
  <2>. QED BY <1>2, <2>1, <2>2 DEF Tame
<1>5. ASSUME NEW u \in Upsert, u # t PROVE Sound(u)'
  <2>1. Seen(u)' = Seen(u) /\ up'[u] = up[u]
    BY <1>5, Transactors DEF Seen
  <2>2. Once(u)' => Once(u)
    BY <1>5 DEF Once
  <2>3. Sound(u)
    BY <1>2
  <2>. QED BY <2>1, <2>2, <2>3 DEF Sound, Moves, Gathers
<1>. QED BY <1>1, <1>3, <1>4, <1>5

(* A transaction writes what nobody else has. *)
LEMMA AloneStays ==
  ASSUME Alone, NEW t \in Txn, NEW new, Free(t, DOMAIN new), \A s \in Txn : s # t => own'[s] = own[s],
         DOMAIN own'[t] \subseteq DOMAIN new \cup DOMAIN own[t]
  PROVE  Alone'
<1>1. \A s \in Txn : s # t => DOMAIN new \cap DOMAIN own[s] = {} /\ DOMAIN own[t] \cap DOMAIN own[s] = {}
  BY DEF Free, Alone
<1>. QED BY <1>1 DEF Alone

(* And only rows of companies that are there, unless it inserts one. *)
LEMMA FreshStays ==
  ASSUME LiveInv, Fresh, NEW t \in Txn, UNCHANGED db, \A s \in Txn : s # t => own'[s] = own[s], NEW new,
         DOMAIN own'[t] \subseteq DOMAIN new \cup DOMAIN own[t],
         \A c \in Company : Row(c) \in DOMAIN new => c \in Live(Seen(t)) \/ c \notin Upsert \/ up'[c].pc \notin {"idle", "match"},
         \A u \in Upsert : up'[u].pc \in {"idle", "match"} => up[u].pc \in {"idle", "match"}
  PROVE  Fresh'
<1>. SUFFICES ASSUME NEW u \in Upsert, up'[u].pc \in {"idle", "match"}
              PROVE  u \notin Live(db)' /\ \A s \in Txn : Row(u) \notin DOMAIN own'[s]
  BY DEF Fresh
<1>1. u \in Company /\ u \notin Live(db) /\ \A s \in Txn : Row(u) \notin DOMAIN own[s]
  BY DEF Fresh, Company
<1>2. Seen(t)[Row(u)] = db[Row(u)]
  BY <1>1, SeenIs DEF LiveInv, DbGood
<1>3. u \notin Live(Seen(t)) /\ u \notin Live(db)'
  BY <1>1, <1>2 DEF Live
<1>. QED BY <1>1, <1>3

Ended == {"done", "described"}

(* What holds for an upsert whose merges each had a company of their own. *)
LEMMA SoundHere ==
  ASSUME LiveInv, IdentityInv, NEW u \in Upsert
  PROVE  /\ IdentsLive(Seen(u)) /\ IdentsLive(db) /\ Pending(up[u]) \subseteq Live(Seen(u)) /\ Base(up[u]) \subseteq Live(Seen(u))
         /\ \A i \in Identifier : db[Ident(i)] # Nothing => Seen(u)[Ident(i)] # Nothing
         /\ Lists(u, up[u])
         /\ NoneTwice /\ ~up[u].twice => Extending(db, Seen(u)) /\ Moves(Seen(u), up[u]) /\ Gathers(u, Seen(u), up[u])
<1>1. /\ u \in Txn /\ Knowing(u, up[u], Live(Seen(u)))
      /\ \A i \in Identifier : Seen(u)[Ident(i)] = Nothing \/ Seen(u)[Ident(i)] \in Live(Seen(u))
  BY UpHere
<1>2. DbGood /\ GoodRows(own[u], Live(Seen(u)))
  BY <1>1 DEF LiveInv
<1>3. IdentsLive(Seen(u)) /\ IdentsLive(db)
  BY <1>1, <1>2 DEF IdentsLive, DbGood
<1>4. Pending(up[u]) \subseteq Live(Seen(u)) /\ Base(up[u]) \subseteq Live(Seen(u))
  BY <1>1 DEF Pending, Base, Knowing
<1>5. ASSUME NEW i \in Identifier, db[Ident(i)] # Nothing PROVE Seen(u)[Ident(i)] # Nothing
  <2>1. Seen(u)[Ident(i)] = IF Ident(i) \in DOMAIN own[u] THEN own[u][Ident(i)] ELSE db[Ident(i)]
    BY <1>2, SeenIs DEF DbGood
  <2>. QED BY <2>1, <1>2, <1>5, NothingIsNone DEF GoodRows
<1>6. Lists(u, up[u])
  BY DEF IdentityInv, Listed
<1>7. ASSUME NoneTwice, ~up[u].twice PROVE Extending(db, Seen(u)) /\ Moves(Seen(u), up[u]) /\ Gathers(u, Seen(u), up[u])
  BY <1>1, <1>7 DEF IdentityInv, Tame, Sound, Once
<1>. QED BY <1>3, <1>4, <1>5, <1>6, <1>7

(* A step of an upsert before its commit: it writes new and goes on from s. *)
LEMMA StepIdentity ==
  ASSUME LiveInv, IdentityInv, NEW u \in Upsert, NEW new, NEW s, UNCHANGED db, Free(u, DOMAIN new),
         \A t \in Txn : t # u => own'[t] = own[t], DOMAIN own'[u] \subseteq DOMAIN new \cup DOMAIN own[u],
         up' = [up EXCEPT ![u] = s], up[u].pc \notin Ended, s.pc \notin Ended, Lists(u, s),
         \A c \in Company : Row(c) \in DOMAIN new => c \in Live(Seen(u)) \/ (c = u /\ s.pc \notin {"idle", "match"}),
         s.pc \in {"idle", "match"} => up[u].pc \in {"idle", "match"},
         NoneTwice /\ ~s.twice => Extending(db, Seen(u)') /\ Moves(Seen(u)', s) /\ Gathers(u, Seen(u)', s)
  PROVE  IdentityInv'
<1>1. /\ u \in Txn /\ up = [v \in Upsert |-> up[v]]
  BY UpHere
<1>2. up'[u] = s /\ \A v \in Upsert : v # u => up'[v] = up[v]
  BY <1>1
<1>3. Alone'
  BY <1>1, AloneStays DEF IdentityInv
<1>4. Fresh'
  <2>1. \A c \in Company : Row(c) \in DOMAIN new =>
          c \in Live(Seen(u)) \/ c \notin Upsert \/ up'[c].pc \notin {"idle", "match"}
    BY <1>2
  <2>2. \A v \in Upsert : up'[v].pc \in {"idle", "match"} => up[v].pc \in {"idle", "match"}
    BY <1>2
  <2>3. Fresh
    BY DEF IdentityInv
  <2>. QED BY <1>1, <2>1, <2>2, <2>3, FreshStays
<1>5. Listed'
  BY <1>2 DEF IdentityInv, Listed, Lists
<1>6. NoIdents'
  <2>1. \A a \in Acceptor : own'[a] = own[a]
    BY Transactors
  <2>. QED BY <2>1 DEF IdentityInv, NoIdents
<1>7. ~Committed(u) /\ ~Committed(u)'
  BY <1>2 DEF Committed, Ended
<1>8. ASSUME NoneTwice PROVE Tame(u)' /\ Sound(u)'
  <2>1. CASE s.twice
    BY <2>1, <1>2 DEF Tame, Sound, Once
  <2>2. CASE ~s.twice
    <3>1. Extending(db, Seen(u)') /\ Moves(Seen(u)', s) /\ Gathers(u, Seen(u)', s)
      BY <1>8, <2>2
    <3>2. Extending(db, Seen(u))' /\ Moves(Seen(u), up[u])' /\ Gathers(u, Seen(u), up[u])'
      BY <3>1, <1>2 DEF Extending, Live, Merged, Moves, Gathers, Tied, Joins, Pending, Left, Base
    <3>. QED BY <3>2 DEF Tame, Sound
  <2>. QED BY <2>1, <2>2
<1>. QED BY <1>1, <1>2, <1>3, <1>4, <1>5, <1>6, <1>7, <1>8, WithinIdentity

(* Merges point back in what every upsert sees. *)
PointsBack == \A u \in Upsert : Down(Seen(u), Age)

(* In what a transaction sees, merges lead to older companies. *)
LEMMA DownsSeen == LiveInv => PointsBack
BY UpHere DEF PointsBack

(* In e the companies of p lead where those of q do. *)
LeadTo(e, p, q) == \A x \in p : Joins(e, q, x)

(* What is left of the strong identifiers when r goes on from s. *)
StillGathers(u, e, r, s) == \A i \in StrongOf(u) :
  \/ i \in Left(s)
  \/ e[Ident(i)] # Nothing /\ (i \in ToSet(s.todo) \/ Joins(e, Base(s), e[Ident(i)]))
  \/ i \notin Left(r) /\ (i \in ToSet(r.todo) => i \in ToSet(s.todo))

(* The rows of companies that are there, or of one that u inserts. *)
OfThose(u, new, live, s) == \A c \in Company : Row(c) \in DOMAIN new => c \in live \/ (c = u /\ s.pc # "match")

(* A step that keeps what it has found together. *)
LEMMA Onward ==
  ASSUME LiveInv, LiveInv', IdentityInv, NEW u \in Upsert, NEW new, NEW s, NEW p, NEW q,
         UNCHANGED <<db, born>>, Free(u, DOMAIN new),
         \A t \in Txn : t # u => own'[t] = own[t], DOMAIN own'[u] \subseteq DOMAIN new \cup DOMAIN own[u],
         up' = [up EXCEPT ![u] = s], up[u].pc \in Working, s.pc \in Working, Lists(u, s),
         OfThose(u, new, Live(Seen(u)), s),
         s.pc = "match" => up[u].pc = "match", ~s.twice => ~up[u].twice,
         ~s.twice => Extending(Seen(u), Seen(u)') /\ LeadTo(Seen(u)', Pending(up[u]), Pending(s))
                     /\ LeadTo(Seen(u)', Base(up[u]), Base(s)),
         p \subseteq Pending(up[u]), q \subseteq Pending(s), q \subseteq Base(s), Gives(Seen(u), Seen(u)', p, q), Nothing \notin q,
         ~s.twice /\ Gathers(u, Seen(u), up[u]) => StillGathers(u, Seen(u)', up[u], s)
  PROVE  IdentityInv'
<1>. DEFINE d == Seen(u)
            e == Seen(u)'
            r == up[u]
<1>1. Down(d, Age) /\ u \in Txn
  BY UpHere
<1>2. Down(e, Age)
  <2>1. (LiveInv => PointsBack)'
    BY DownsSeen, PTL
  <2>2. Age' = Age
    BY AgeStays
  <2>3. Down(e, Age)
    BY <2>1, <2>2 DEF PointsBack, Down, Live, Merged
  <2>. QED BY <2>3
<1>3. /\ IdentsLive(d) /\ IdentsLive(db) /\ Pending(r) \subseteq Live(d) /\ Base(r) \subseteq Live(d)
      /\ \A i \in Identifier : db[Ident(i)] # Nothing => d[Ident(i)] # Nothing
      /\ NoneTwice /\ ~r.twice => Extending(db, d) /\ Moves(d, r) /\ Gathers(u, d, r)
  BY SoundHere
<1>4. Gives(d, e, Pending(r), Pending(s))
  BY DEF Gives
<1>. HIDE DEF d, e, r
<1>5. ASSUME NoneTwice, ~s.twice PROVE Extending(db, e) /\ Moves(e, s) /\ Gathers(u, e, s)
  <2>1. Extending(db, d) /\ Moves(d, r) /\ Gathers(u, d, r)
    BY <1>3, <1>5 DEF r
  <2>2. Extending(d, e)
    BY <1>5 DEF d, e
  <2>3. Extending(db, e)
    BY <2>1, <2>2, ExtendsMore
  <2>4. Moves(e, s)
    <3>1. \A x \in Pending(r) : Joins(e, Pending(s), x)
      BY <1>5 DEF r, e, LeadTo
    <3>. QED BY <1>1, <1>2, <1>3, <1>4, <2>1, <2>2, <3>1, MovesOn DEF d, e, r
  <2>5. Gathers(u, e, s)
    <3>1. \A x \in Base(r) : Joins(e, Base(s), x)
      BY <1>5 DEF r, e, LeadTo
    <3>2. Gives(d, e, p, q) /\ r.pc \in Working
      BY DEF d, e, r
    <3>3. \A i \in StrongOf(u) :
           \/ i \in Left(s)
           \/ e[Ident(i)] # Nothing /\ (i \in ToSet(s.todo) \/ Joins(e, Base(s), e[Ident(i)]))
           \/ i \notin Left(r) /\ (i \in ToSet(r.todo) => i \in ToSet(s.todo))
      <4>1. ~s.twice /\ Gathers(u, Seen(u), up[u])
        BY <1>5, <2>1 DEF d, r
      <4>. QED BY <4>1, <1>5 DEF d, e, r, StillGathers
    <3>4. Down(d, Age) /\ Down(e, Age)
      BY <1>1, <1>2 DEF d, e
    <3>. QED BY <1>3, <2>1, <2>2, <3>1, <3>2, <3>3, <3>4, GathersOn
  <2>. QED BY <2>3, <2>4, <2>5
<1>6. /\ s.pc \notin Ended /\ up[u].pc \notin Ended /\ s.pc # "idle"
      /\ s.pc \in {"idle", "match"} => up[u].pc \in {"idle", "match"}
  BY DEF Ended, Working, Looking, Merger
<1>7. \A c \in Company : Row(c) \in DOMAIN new => c \in Live(Seen(u)) \/ (c = u /\ s.pc \notin {"idle", "match"})
  BY <1>6 DEF OfThose
<1>8. NoneTwice /\ ~s.twice => Extending(db, Seen(u)') /\ Moves(Seen(u)', s) /\ Gathers(u, Seen(u)', s)
  BY <1>5 DEF e
<1>. QED BY <1>6, <1>7, <1>8, StepIdentity

(* What a transaction sees after it wrote. *)
LEMMA SeenOver ==
  ASSUME LiveInv, NEW t \in Txn, NEW new, UNCHANGED db, own'[t] = Overlay(new, own[t])
  PROVE  /\ \A c \in Company : Seen(t)'[Row(c)] = IF Row(c) \in DOMAIN new THEN new[Row(c)] ELSE Seen(t)[Row(c)]
         /\ \A i \in Identifier : Seen(t)'[Ident(i)] = IF Ident(i) \in DOMAIN new THEN new[Ident(i)] ELSE Seen(t)[Ident(i)]
<1>. DEFINE rows == Overlay(new, own[t])
<1>1. Seen(t)' = Overlay(rows, db)
  BY DEF Seen
<1>2. /\ DOMAIN rows = DOMAIN new \cup DOMAIN own[t]
      /\ \A x \in DOMAIN new : rows[x] = new[x]
      /\ \A x \in DOMAIN own[t] : x \notin DOMAIN new => rows[x] = own[t][x]
  BY OverlayIs
<1>. HIDE DEF rows
<1>3. ASSUME NEW x \in DOMAIN db PROVE Seen(t)'[x] = IF x \in DOMAIN new THEN new[x] ELSE Seen(t)[x]
  <2>1. Seen(t)'[x] = IF x \in DOMAIN rows THEN rows[x] ELSE db[x]
    BY <1>1 DEF Overlay
  <2>. QED BY <2>1, <1>2, SeenIs
<1>. QED BY <1>3 DEF LiveInv, DbGood

(* Rows that merge nobody and take no identifier. *)
Quiet(d, new) ==
  /\ \A c \in Live(d) : Row(c) \in DOMAIN new => new[Row(c)].exists /\ new[Row(c)].merged = d[Row(c)].merged
  /\ \A i \in Identifier : Ident(i) \notin DOMAIN new

(* They leave identity as it is. *)
LEMMA QuietExtends ==
  ASSUME LiveInv, NEW t \in Txn, NEW new, UNCHANGED db, own'[t] = Overlay(new, own[t]), Quiet(Seen(t), new)
  PROVE  Extending(Seen(t), Seen(t)') /\ \A p, q : Gives(Seen(t), Seen(t)', p, q)
<1>1. /\ \A c \in Company : Seen(t)'[Row(c)] = IF Row(c) \in DOMAIN new THEN new[Row(c)] ELSE Seen(t)[Row(c)]
      /\ \A i \in Identifier : Seen(t)'[Ident(i)] = Seen(t)[Ident(i)]
  BY SeenOver DEF Quiet
<1>2. Extending(Seen(t), Seen(t)')
  BY <1>1 DEF Quiet, Extending, Live, Merged
<1>3. \A p, q : Gives(Seen(t), Seen(t)', p, q)
  BY <1>1 DEF Gives
<1>. QED BY <1>2, <1>3

---------------------------------------------------------------------------
(* Looking for the company *)

(* A step that writes nothing. *)
LEMMA NothingWritten ==
  ASSUME NEW u \in Upsert
  PROVE  Free(u, DOMAIN <<>>) /\ (\A c \in Company : Row(c) \notin DOMAIN <<>>) /\ (UNCHANGED <<db, own>> => Seen(u)' = Seen(u))
BY EmptyIs DEF Free, Seen

(* Nothing merged, nothing given. *)
LEMMA ExtendsSelf == \A d, p, q : Extending(d, d) /\ Gives(d, d, p, q)
BY DEF Extending, Gives

(* A step that reads. *)
LEMMA ReadsOn ==
  ASSUME LiveInv, LiveInv', IdentityInv, NEW u \in Upsert, NEW s, UNCHANGED <<db, born, own>>,
         up' = [up EXCEPT ![u] = s], up[u].pc \in Working, s.pc \in Working, Lists(u, s),
         s.pc = "match" => up[u].pc = "match", s.twice = up[u].twice,
         LeadTo(Seen(u), Pending(up[u]), Pending(s)), LeadTo(Seen(u), Base(up[u]), Base(s)),
         Gathers(u, Seen(u), up[u]) => StillGathers(u, Seen(u), up[u], s)
  PROVE  IdentityInv'
<1>1. Seen(u)' = Seen(u) /\ DOMAIN own'[u] = DOMAIN own[u]
  BY DEF Seen
<1>. DEFINE new == <<>>
            none == {}
<1>2. Free(u, DOMAIN new) /\ \A c \in Company : Row(c) \notin DOMAIN new
  BY EmptyIs DEF Free
<1>3. Extending(Seen(u), Seen(u)') /\ Gives(Seen(u), Seen(u)', none, none)
  BY <1>1, ExtendsSelf
<1>4. none \subseteq Pending(up[u]) /\ none \subseteq Pending(s) /\ none \subseteq Base(s) /\ Nothing \notin none
  OBVIOUS
<1>5. DOMAIN own'[u] \subseteq DOMAIN new \cup DOMAIN own[u] /\ \A t \in Txn : t # u => own'[t] = own[t]
  BY <1>1
<1>6. Seen(u) = Seen(u)'
  BY <1>1
<1>. HIDE DEF new, none
<1>7. OfThose(u, new, Live(Seen(u)), s)
  BY <1>2 DEF OfThose
<1>. QED BY <1>2, <1>3, <1>4, <1>5, <1>6, <1>7, Onward

(* An upsert that does not go on. *)
LEMMA RejectSound ==
  ASSUME LiveInv, IdentityInv, NEW u \in Upsert, RejectRow(u) PROVE IdentityInv'
<1>. DEFINE s == [up[u] EXCEPT !.pc = "aborted"]
<1>1. up = [v \in Upsert |-> up[v]] /\ IsUp(up[u])
  BY UpHere
<1>2. up' = [up EXCEPT ![u] = s] /\ UNCHANGED <<db, born, own>> /\ up[u].pc = "idle"
  BY DEF RejectRow
<1>3. s.pc = "aborted" /\ s.twice = up[u].twice
  BY <1>1 DEF IsUp, UpField
<1>. HIDE DEF s
<1>4. Lists(u, s)
  BY <1>3 DEF Lists, Working, Looking, Merger
<1>5. /\ Free(u, DOMAIN <<>>) /\ (\A c \in Company : Row(c) \notin DOMAIN <<>>) /\ Seen(u)' = Seen(u)
  BY <1>2, NothingWritten
<1>6. ASSUME NoneTwice, ~s.twice PROVE Extending(db, Seen(u)') /\ Moves(Seen(u)', s) /\ Gathers(u, Seen(u)', s)
  <2>1. Extending(db, Seen(u)) /\ Moves(Seen(u), up[u])
    BY <1>3, <1>6, SoundHere
  <2>2. Pending(s) = Pending(up[u])
    BY <1>2, <1>3 DEF Pending, Holding, Merger
  <2>3. Moves(Seen(u), s)
    BY <2>1, <2>2 DEF Moves
  <2>4. Gathers(u, Seen(u)', s)
    BY <1>3 DEF Gathers, Working, Looking, Merger
  <2>. QED BY <2>1, <2>3, <2>4, <1>5
<1>7. s.pc \notin Ended /\ up[u].pc \notin Ended /\ s.pc \notin {"idle", "match"}
  BY <1>2, <1>3 DEF Ended
<1>. QED BY <1>2, <1>4, <1>5, <1>6, <1>7, StepIdentity

(* Every strong identifier is one of them all. *)
LEMMA StrongThere ==
  ASSUME NEW u \in Upsert
  PROVE  /\ StrongOf(u) \subseteq ToSet(Ids[u]) /\ StrongOf(u) \subseteq ToSet(StrongIds(u))
         /\ StrongOf(u) \subseteq Identifier /\ StrongOf(u) \subseteq Strong
         /\ Ids[u] \in Seq(Identifier) /\ StrongIds(u) \in Seq(Identifier)
<1>1. Ids[u] \in Seq(Identifier) /\ StrongIds(u) \in Seq(Identifier)
  BY IdsAre, StrongIdsAre
<1>2. StrongOf(u) \subseteq ToSet(Ids[u])
  BY <1>1 DEF StrongOf, ToSet
<1>3. StrongOf(u) \subseteq ToSet(StrongIds(u))
  <2>. SUFFICES ASSUME NEW i \in StrongOf(u) PROVE i \in ToSet(StrongIds(u))
    OBVIOUS
  <2>1. PICK k \in 1..Len(Ids[u]) : i = Ids[u][k] /\ i \in Strong
    BY DEF StrongOf
  <2>2. PICK j \in 1..Len(StrongIds(u)) : StrongIds(u)[j] = Ids[u][k]
    BY <2>1, StrongIdsAre
  <2>3. DOMAIN StrongIds(u) = 1..Len(StrongIds(u))
    BY <1>1
  <2>. QED BY <2>1, <2>2, <2>3 DEF ToSet
<1>. QED BY <1>1, <1>2, <1>3, RegistryAssumption DEF StrongOf

(* An upsert begins with all its identifiers on its lists. *)
LEMMA BeginSound ==
  ASSUME LiveInv, IdentityInv, NEW u \in Upsert, Begin(u) PROVE IdentityInv'
<1>. DEFINE s == [up[u] EXCEPT !.pc = "match", !.todo = StrongIds(u), !.rest = Ids[u]]
<1>1. up = [v \in Upsert |-> up[v]] /\ IsUp(up[u])
  BY UpHere
<1>2. up' = [up EXCEPT ![u] = s] /\ UNCHANGED <<db, own>> /\ up[u].pc = "idle"
  BY <1>1 DEF Begin
<1>3. s.pc = "match" /\ s.twice = up[u].twice /\ s.todo = StrongIds(u) /\ s.rest = Ids[u] /\ s.losers = up[u].losers
  BY <1>1 DEF IsUp, UpField
<1>. HIDE DEF s
<1>4. Lists(u, s)
  <2>1. up[u].losers = {}
    BY <1>2, SoundHere DEF Lists
  <2>. QED BY <1>3, <2>1, StrongThere DEF Lists, Working, Looking, Merger
<1>5. /\ Free(u, DOMAIN <<>>) /\ (\A c \in Company : Row(c) \notin DOMAIN <<>>) /\ Seen(u)' = Seen(u)
  BY <1>2, NothingWritten
<1>6. ASSUME NoneTwice, ~s.twice PROVE Extending(db, Seen(u)') /\ Moves(Seen(u)', s) /\ Gathers(u, Seen(u)', s)
  <2>1. Extending(db, Seen(u)) /\ Moves(Seen(u), up[u])
    BY <1>3, <1>6, SoundHere
  <2>2. Pending(s) = Pending(up[u])
    BY <1>2, <1>3 DEF Pending, Holding, Merger
  <2>3. Moves(Seen(u), s)
    BY <2>1, <2>2 DEF Moves
  <2>4. Gathers(u, Seen(u)', s)
    BY <1>3, StrongThere DEF Gathers, Left, Looking
  <2>. QED BY <2>1, <2>3, <2>4, <1>5
<1>7. s.pc \notin Ended /\ up[u].pc \notin Ended
  BY <1>2, <1>3 DEF Ended
<1>. QED BY <1>2, <1>3, <1>4, <1>5, <1>6, <1>7, StepIdentity

(* Head and rest of a list. *)
LEMMA TailIs ==
  ASSUME NEW s \in Seq(Identifier), s # <<>>
  PROVE  Head(s) \in Identifier /\ Tail(s) \in Seq(Identifier) /\ ToSet(s) = {Head(s)} \cup ToSet(Tail(s))
<1>1. Head(s) = s[1] /\ Len(s) \in Nat /\ Len(s) # 0 /\ DOMAIN s = 1..Len(s) /\ Tail(s) \in Seq(Identifier)
      /\ Head(s) \in Identifier
  OBVIOUS
<1>2. Len(Tail(s)) = Len(s) - 1 /\ DOMAIN Tail(s) = 1..(Len(s) - 1) /\ \A j \in 1..(Len(s) - 1) : Tail(s)[j] = s[j + 1]
  BY <1>1
<1>3. ASSUME NEW j \in DOMAIN s PROVE s[j] \in {Head(s)} \cup ToSet(Tail(s))
  <2>1. CASE j = 1
    BY <2>1, <1>1
  <2>2. CASE j # 1
    <3>1. j - 1 \in 1..(Len(s) - 1) /\ (j - 1) + 1 = j
      BY <1>1, <2>2
    <3>2. Tail(s)[j - 1] = s[j]
      BY <1>2, <3>1
    <3>. QED BY <1>2, <3>1, <3>2 DEF ToSet
  <2>. QED BY <2>1, <2>2
<1>4. ASSUME NEW j \in DOMAIN Tail(s) PROVE Tail(s)[j] \in ToSet(s)
  <2>1. j + 1 \in DOMAIN s /\ Tail(s)[j] = s[j + 1]
    BY <1>1, <1>2
  <2>. QED BY <2>1 DEF ToSet
<1>5. Head(s) \in ToSet(s)
  BY <1>1 DEF ToSet
<1>. QED BY <1>1, <1>3, <1>4, <1>5 DEF ToSet

(* Where a company leads leads to itself. *)
LEMMA RootJoins ==
  ASSUME NEW d, NEW at, Down(d, at), NEW c \in Live(d) PROVE Resolve(d, Resolve(d, c)) = Resolve(d, c)
BY EndLive, EndRoot

(* A company that is found is gathered with the others. *)
LEMMA LookUpSound ==
  ASSUME LiveInv, LiveInv', IdentityInv, NEW u \in Upsert, LookUp(u) PROVE IdentityInv'
<1>. DEFINE i == Head(up[u].todo)
            c == Holder(Seen(u), i)
            row == Seen(u)[Row(c)]
            found == IF c = Nothing THEN up[u].found ELSE Overlay(OneRow(c, row), up[u].found)
            s == [up[u] EXCEPT !.todo = Tail(up[u].todo), !.found = found]
<1>1. up = [v \in Upsert |-> up[v]] /\ IsUp(up[u]) /\ Down(Seen(u), Age)
  BY UpHere
<1>2. up' = [up EXCEPT ![u] = s] /\ UNCHANGED <<db, own, born>> /\ up[u].pc \in Looking /\ up[u].todo # <<>>
  BY <1>1 DEF LookUp, Looking
<1>3. up[u].todo \in Seq(Identifier) /\ Lists(u, up[u]) /\ up[u].pc \in Working
  BY <1>2, SoundHere DEF Lists, Working
<1>4. DOMAIN found = DOMAIN up[u].found \cup (IF c = Nothing THEN {} ELSE {c})
  <2>1. DOMAIN Overlay(OneRow(c, row), up[u].found) = {c} \cup DOMAIN up[u].found
    <3>1. DOMAIN OneRow(c, row) = {c}
      BY OneRowIs
    <3>. QED BY <3>1 DEF Overlay
  <2>. QED BY <2>1
<1>. HIDE DEF found
<1>5. s.pc = up[u].pc /\ s.losers = up[u].losers /\ s.company = up[u].company /\ s.found = found
      /\ s.todo = Tail(up[u].todo) /\ s.rest = up[u].rest /\ s.twice = up[u].twice
  BY <1>1 DEF IsUp, UpField
<1>. HIDE DEF s
<1>6. i \in Identifier /\ Tail(up[u].todo) \in Seq(Identifier) /\ ToSet(up[u].todo) = {i} \cup ToSet(s.todo)
  BY <1>2, <1>3, <1>5, TailIs
<1>7. Lists(u, s)
  BY <1>2, <1>3, <1>5, <1>6 DEF Lists, Working, Looking, Merger
<1>9. Pending(s) = Pending(up[u]) /\ Left(s) = Left(up[u]) /\ Base(up[u]) = DOMAIN up[u].found /\ Base(s) = DOMAIN found
  BY <1>2, <1>5 DEF Pending, Left, Base
<1>10. ASSUME Gathers(u, Seen(u), up[u]), NEW j \in StrongOf(u)
       PROVE  \/ j \in Left(s)
              \/ Seen(u)[Ident(j)] # Nothing /\ (j \in ToSet(s.todo) \/ Joins(Seen(u), Base(s), Seen(u)[Ident(j)]))
              \/ j \notin Left(up[u]) /\ (j \in ToSet(up[u].todo) => j \in ToSet(s.todo))
  <2>. SUFFICES ASSUME j \notin Left(s), j = i PROVE Seen(u)[Ident(i)] # Nothing /\ Joins(Seen(u), Base(s), Seen(u)[Ident(i)])
    BY <1>6, <1>9
  <2>1. i \in ToSet(up[u].todo)
    BY <1>6
  <2>2. Seen(u)[Ident(i)] # Nothing
    BY <1>3, <1>9, <1>10 DEF Gathers
  <2>3. Seen(u)[Ident(i)] \in Live(Seen(u))
    BY <2>2, <1>6, SoundHere DEF IdentsLive
  <2>4. c = Resolve(Seen(u), Seen(u)[Ident(i)]) /\ c \in Live(Seen(u))
    BY <2>2, <2>3, <1>1, EndLive DEF Holder
  <2>5. Resolve(Seen(u), Seen(u)[Ident(i)]) = Resolve(Seen(u), c)
    BY <2>3, <2>4, <1>1, RootJoins
  <2>6. c \in Base(s)
    BY <2>4, <1>4, <1>9, NothingIsNone
  <2>. QED BY <2>2, <2>5, <2>6 DEF Joins
<1>11. LeadTo(Seen(u), Pending(up[u]), Pending(s)) /\ LeadTo(Seen(u), Base(up[u]), Base(s))
  BY <1>4, <1>9, JoinsSelf DEF LeadTo
<1>13. Gathers(u, Seen(u), up[u]) => StillGathers(u, Seen(u), up[u], s)
  BY <1>10 DEF StillGathers
<1>12. s.pc \in Working
  BY <1>2, <1>5 DEF Working
<1>. QED BY <1>2, <1>3, <1>5, <1>7, <1>11, <1>12, <1>13, ReadsOn

(* Those found are to be one. *)
LEMMA MatchedSound ==
  ASSUME LiveInv, IdentityInv, NEW u \in Upsert, Matched(u) PROVE IdentityInv'
<1>. DEFINE fs == DOMAIN up[u].found
            c == Oldest(fs)
<1>1. fs \subseteq Live(Seen(u)) /\ Live(Seen(u)) \subseteq Born /\ BirthsOK
  BY UpHere DEF Knowing, LiveInv
<1>2. /\ fs # {} /\ UNCHANGED <<db, born, own>> /\ up[u].pc \in Looking /\ up[u].todo = <<>>
      /\ Settles(u, c, up[u].found[c], fs \ {c}, up[u].rest)
  BY DEF Matched, Looking
<1>b. up[u].pc \in Working /\ up[u].losers = {} /\ up[u].rest \in Seq(Identifier)
  BY <1>2, SoundHere DEF Lists, Working, Looking, Merger
<1>3. Base(up[u]) = fs /\ Left(up[u]) = ToSet(up[u].rest)
  BY <1>2 DEF Base, Left
<1>. HIDE DEF fs
<1>4. c \in fs
  BY <1>1, <1>2, OldestIs
<1>. HIDE DEF c
<1>5. PICK s : /\ up' = [up EXCEPT ![u] = s] /\ IsUp(s) /\ s.company = c /\ s.losers = fs \ {c} /\ s.found = <<>>
               /\ s.todo = up[u].rest /\ s.pc = (IF fs \ {c} = {} THEN "attach" ELSE "idents")
               /\ s.rest = up[u].rest /\ s.twice = up[u].twice
  BY <1>2, SettledAs
<1>6. s.pc \in {"attach", "idents"} /\ (s.pc = "attach" => s.losers = {})
  BY <1>5
<1>7. Pending(s) = fs /\ Base(s) = fs /\ Left(s) = ToSet(up[u].rest)
  BY <1>4, <1>5, <1>6 DEF Pending, Base, Left, Holding, Merger, Looking
<1>8. Lists(u, s)
  BY <1>b, <1>5, <1>6 DEF Lists, Working, Looking, Merger
<1>9. /\ Free(u, DOMAIN <<>>) /\ (\A x \in Company : Row(x) \notin DOMAIN <<>>) /\ Seen(u)' = Seen(u)
  BY <1>2, NothingWritten
<1>10. ASSUME NoneTwice, ~s.twice PROVE Extending(db, Seen(u)') /\ Moves(Seen(u)', s) /\ Gathers(u, Seen(u)', s)
  <2>1. Extending(db, Seen(u)) /\ Moves(Seen(u), up[u]) /\ Gathers(u, Seen(u), up[u])
    BY <1>5, <1>10, SoundHere
  <2>2. ASSUME NEW i \in Identifier, db[Ident(i)] # Nothing
        PROVE  Tied(Seen(u), Pending(s), Seen(u)[Ident(i)], db[Ident(i)])
    <3>1. Tied(Seen(u), Pending(up[u]), Seen(u)[Ident(i)], db[Ident(i)])
      BY <2>1, <2>2 DEF Moves
    <3>2. Resolve(Seen(u), Seen(u)[Ident(i)]) = Resolve(Seen(u), db[Ident(i)])
      BY <3>1, <1>b, TiedOne
    <3>. QED BY <3>2 DEF Tied
  <2>3. Moves(Seen(u), s)
    BY <2>2 DEF Moves
  <2>4. ToSet(up[u].todo) = {}
    BY <1>2, EmptyIs DEF ToSet
  <2>5. Gathers(u, Seen(u), s)
    BY <2>1, <2>4, <1>b, <1>3, <1>7 DEF Gathers
  <2>. QED BY <2>1, <2>3, <2>5, <1>9
<1>11. s.pc \notin Ended /\ up[u].pc \notin Ended /\ s.pc \notin {"idle", "match"}
  BY <1>2, <1>6 DEF Ended, Looking
<1>. QED BY <1>2, <1>5, <1>8, <1>9, <1>10, <1>11, StepIdentity

(* None was found, and none of its strong identifiers is left out. *)
LEMMA LinkSound ==
  ASSUME LiveInv, LiveInv', IdentityInv, NEW u \in Upsert, LinkByName(u) PROVE IdentityInv'
<1>1. PICK c \in LiveAlike(u) : Settles(u, c, Seen(u)[Row(c)], {}, Ids[u])
  BY DEF LinkByName
<1>2. /\ UNCHANGED <<db, born, own>> /\ up[u].pc = "match" /\ up[u].todo = <<>> /\ DOMAIN up[u].found = {}
  BY <1>1 DEF LinkByName
<1>3. PICK s : /\ up' = [up EXCEPT ![u] = s] /\ s.company = c /\ s.losers = {} /\ s.pc = "attach" /\ s.todo = Ids[u]
               /\ s.rest = up[u].rest /\ s.twice = up[u].twice
  BY <1>1, SettledAs
<1>4. up[u].pc \in Working /\ s.pc \in Working /\ up[u].rest \in Seq(Identifier)
  BY <1>2, <1>3, SoundHere DEF Lists, Working, Looking, Merger
<1>5. Lists(u, s)
  BY <1>3, <1>4, StrongThere DEF Lists, Working, Looking, Merger
<1>6. Pending(up[u]) = {} /\ Base(up[u]) = {}
  BY <1>2 DEF Pending, Base, Holding, Merger, Looking
<1>7. StrongOf(u) \subseteq Left(s)
  BY <1>3, StrongThere DEF Left, Looking
<1>8. StillGathers(u, Seen(u), up[u], s) /\ LeadTo(Seen(u), Pending(up[u]), Pending(s)) /\ LeadTo(Seen(u), Base(up[u]), Base(s))
  BY <1>6, <1>7 DEF StillGathers, LeadTo
<1>. QED BY <1>2, <1>3, <1>4, <1>5, <1>8, ReadsOn

(* A company is inserted that nobody else knows. *)
LEMMA InsertSound ==
  ASSUME LiveInv, LiveInv', AcceptInv, IdentityInv, NEW u \in Upsert, InsertCompany(u) PROVE IdentityInv'
<1>. DEFINE row == [NoCompany EXCEPT !.exists = TRUE, !.country = CountryOf[u]]
            new == OneRow(Row(u), row)
            none == {}
<1>1. /\ UNCHANGED <<db, born>> /\ Write(u, new) /\ Settles(u, u, row, {}, Ids[u])
      /\ up[u].pc = "match" /\ DOMAIN up[u].found = {}
  BY DEF InsertCompany
<1>. HIDE DEF row
<1>2. PICK s : /\ up' = [up EXCEPT ![u] = s] /\ s.company = u /\ s.losers = {} /\ s.pc = "attach" /\ s.todo = Ids[u]
               /\ s.rest = up[u].rest /\ s.twice = up[u].twice
  BY <1>1, SettledAs
<1>3. up[u].pc \in Working /\ s.pc \in Working /\ up[u].rest \in Seq(Identifier)
  BY <1>1, <1>2, SoundHere DEF Lists, Working, Looking, Merger
<1>4. Lists(u, s)
  BY <1>2, <1>3, StrongThere DEF Lists, Working, Looking, Merger
<1>5. Pending(up[u]) = {} /\ Base(up[u]) = {}
  BY <1>1 DEF Pending, Base, Holding, Merger, Looking
<1>6. StrongOf(u) \subseteq Left(s)
  BY <1>2, StrongThere DEF Left, Looking
<1>7. DOMAIN new = {Row(u)}
  BY OneRowIs
<1>8. u \in Txn /\ u \in Company /\ own = [t \in Txn |-> own[t]]
  BY UpHere DEF AcceptInv, Shape
<1>. HIDE DEF new
<1>9. own'[u] = Overlay(new, own[u]) /\ (\A t \in Txn : t # u => own'[t] = own[t]) /\ Free(u, DOMAIN new)
  BY <1>1, <1>8 DEF Write
<1>10. DOMAIN own'[u] = DOMAIN new \cup DOMAIN own[u]
  BY <1>9, OverlayIs
<1>11. u \notin Live(Seen(u))
  <2>1. u \notin Live(db) /\ Row(u) \notin DOMAIN own[u]
    BY <1>1, <1>8 DEF IdentityInv, Fresh
  <2>2. Seen(u)[Row(u)] = db[Row(u)]
    BY <2>1, <1>8, SeenIs DEF LiveInv, DbGood
  <2>. QED BY <2>1, <2>2, <1>8 DEF Live
<1>12. Quiet(Seen(u), new)
  BY <1>7, <1>11, RegistryRows, RowsDiffer DEF Quiet, Live
<1>13. Extending(Seen(u), Seen(u)') /\ Gives(Seen(u), Seen(u)', none, none)
  BY <1>1, <1>8, <1>9, <1>12, QuietExtends
<1>14. OfThose(u, new, Live(Seen(u)), s)
  BY <1>2, <1>7, RowsDiffer DEF OfThose
<1>15. /\ none \subseteq Pending(up[u]) /\ none \subseteq Pending(s) /\ none \subseteq Base(s) /\ Nothing \notin none
       /\ LeadTo(Seen(u)', Pending(up[u]), Pending(s)) /\ LeadTo(Seen(u)', Base(up[u]), Base(s))
       /\ StillGathers(u, Seen(u)', up[u], s)
  BY <1>5, <1>6 DEF LeadTo, StillGathers
<1>. HIDE DEF none
<1>16. DOMAIN own'[u] \subseteq DOMAIN new \cup DOMAIN own[u]
  BY <1>10
<1>. QED BY <1>1, <1>2, <1>3, <1>4, <1>9, <1>13, <1>14, <1>15, <1>16, Onward

(* A merge goes on. *)
LEMMA MergeOn ==
  ASSUME LiveInv, LiveInv', AcceptInv, IdentityInv, NEW u \in Upsert, NEW new, NEW pc, NEW p, NEW q,
         Write(u, new), Goto(u, pc), UNCHANGED <<db, born>>,
         up[u].pc \in Merger \cup {"attach", "view"}, pc \in Merger \cup {"view", "commit"}, pc \in Merger => up[u].pc \in Merger,
         pc \notin Merger => up[u].todo = <<>> /\ up[u].pc \notin Merger,
         \A c \in Company : Row(c) \in DOMAIN new => c \in Live(Seen(u)),
         Extending(Seen(u), Seen(u)'), p \subseteq Pending(up[u]), q \subseteq Pending(up[u]), Gives(Seen(u), Seen(u)', p, q)
  PROVE  IdentityInv'
<1>. DEFINE s == [up[u] EXCEPT !.pc = pc]
<1>1. up = [v \in Upsert |-> up[v]] /\ IsUp(up[u]) /\ u \in Txn /\ own = [t \in Txn |-> own[t]]
  BY UpHere DEF AcceptInv, Shape
<1>2. up' = [up EXCEPT ![u] = s]
  BY Zenon DEF Goto
<1>3. s.pc = pc /\ s.losers = up[u].losers /\ s.company = up[u].company /\ s.todo = up[u].todo /\ s.rest = up[u].rest
      /\ s.twice = up[u].twice
  BY <1>1 DEF IsUp, UpField
<1>. HIDE DEF s
<1>4. up[u].pc \in Working /\ s.pc \in Working /\ s.pc # "match"
  BY <1>3 DEF Working, Merger, Looking
<1>5. Lists(u, s)
  BY <1>3, <1>4, SoundHere DEF Lists, Working, Merger, Looking
<1>6. Pending(s) = Pending(up[u]) /\ Base(s) = Pending(up[u]) /\ Base(up[u]) = Pending(up[u]) /\ Left(s) = Left(up[u])
      /\ ToSet(s.todo) = ToSet(up[u].todo)
  BY <1>3 DEF Pending, Base, Left, Holding, Merger, Looking
<1>7. own'[u] = Overlay(new, own[u]) /\ (\A t \in Txn : t # u => own'[t] = own[t]) /\ Free(u, DOMAIN new)
  BY <1>1 DEF Write
<1>8. DOMAIN own'[u] = DOMAIN new \cup DOMAIN own[u]
  <2>1. own'[u] = Overlay(new, own[u])
    BY <1>7
  <2>2. DOMAIN Overlay(new, own[u]) = DOMAIN new \cup DOMAIN own[u]
    BY OverlayIs
  <2>. QED BY <2>1, <2>2
<1>9. Nothing \notin q
  <2>1. Pending(up[u]) \subseteq Live(Seen(u)) /\ Nothing \notin Live(Seen(u))
    BY SoundHere, NothingIsNone
  <2>. QED BY <2>1
<1>10. LeadTo(Seen(u)', Pending(up[u]), Pending(s)) /\ LeadTo(Seen(u)', Base(up[u]), Base(s))
  BY <1>6, JoinsSelf DEF LeadTo
<1>11. StillGathers(u, Seen(u)', up[u], s)
  BY <1>6 DEF StillGathers
<1>12. OfThose(u, new, Live(Seen(u)), s)
  BY DEF OfThose
<1>13. p \subseteq Pending(up[u]) /\ q \subseteq Pending(s) /\ q \subseteq Base(s)
  BY <1>6
<1>14. (s.pc = "match" => up[u].pc = "match") /\ (~s.twice => ~up[u].twice) /\ DOMAIN own'[u] \subseteq DOMAIN new \cup DOMAIN own[u]
  BY <1>3, <1>4, <1>8
<1>. QED BY <1>2, <1>4, <1>5, <1>7, <1>9, <1>10, <1>11, <1>12, <1>13, <1>14, Onward

---------------------------------------------------------------------------
(* Merging and writing *)

(* Rows of another table merge nobody. *)
LEMMA QuietElsewhere ==
  ASSUME NEW d, NEW new, Elsewhere(new) PROVE Quiet(d, new) /\ \A c \in Company : Row(c) \notin DOMAIN new
BY DEF Quiet, Elsewhere, Live

(* The identifiers of the loser go to the survivor, and the two are        *)
(* pending.                                                                *)
LEMMA IdentsSound ==
  ASSUME LiveInv, LiveInv', AcceptInv, IdentityInv, NEW u \in Upsert, MergeIdents(u) PROVE IdentityInv'
<1>. DEFINE rows == {Ident(i) : i \in Identifier}
            new == Moved(u, rows)
            p == {Losing(u)}
            q == {up[u].company}
<1>1. Write(u, new) /\ Goto(u, "sources") /\ UNCHANGED <<db, born>> /\ up[u].pc = "idents"
  BY DEF MergeIdents
<1>2. u \in Txn /\ own = [t \in Txn |-> own[t]] /\ up[u].losers # {}
  BY <1>1, UpHere DEF AcceptInv, Shape, Knowing, Merger
<1>3. DOMAIN new = OfLoser(u, rows) /\ (\A x \in DOMAIN new : new[x] = up[u].company)
  BY DEF Moved
<1>4. \A c : Row(c) \notin DOMAIN new
  BY <1>3, RegistryRows DEF OfLoser
<1>. HIDE DEF new
<1>5. own'[u] = Overlay(new, own[u])
  BY <1>1, <1>2 DEF Write
<1>6. /\ \A c \in Company : Seen(u)'[Row(c)] = Seen(u)[Row(c)]
      /\ \A i \in Identifier : Seen(u)'[Ident(i)] = IF Ident(i) \in DOMAIN new THEN new[Ident(i)] ELSE Seen(u)[Ident(i)]
  BY <1>1, <1>2, <1>4, <1>5, SeenOver
<1>7. Extending(Seen(u), Seen(u)')
  BY <1>6 DEF Extending, Live, Merged
<1>8. Gives(Seen(u), Seen(u)', p, q)
  <2>1. \A i \in Identifier : Ident(i) \in DOMAIN new => Seen(u)[Ident(i)] \in p /\ new[Ident(i)] \in q
    BY <1>3 DEF OfLoser
  <2>. QED BY <1>6, <2>1 DEF Gives
<1>9. p \subseteq Pending(up[u]) /\ q \subseteq Pending(up[u])
  BY <1>1, <1>2, LosingIs DEF Pending, Holding, Merger
<1>. HIDE DEF p, q
<1>10. up[u].pc \in Merger /\ "sources" \in Merger
  BY <1>1 DEF Merger
<1>. QED BY <1>1, <1>4, <1>7, <1>8, <1>9, <1>10, MergeOn

(* A step that writes quietly. *)
LEMMA QuietOn ==
  ASSUME LiveInv, LiveInv', AcceptInv, IdentityInv, NEW u \in Upsert, NEW new, NEW pc,
         Write(u, new), Goto(u, pc), UNCHANGED <<db, born>>, Quiet(Seen(u), new),
         up[u].pc \in Merger \cup {"attach", "view"}, pc \in Merger \cup {"view", "commit"}, pc \in Merger => up[u].pc \in Merger,
         pc \notin Merger => up[u].todo = <<>> /\ up[u].pc \notin Merger,
         \A c \in Company : Row(c) \in DOMAIN new => c \in Live(Seen(u))
  PROVE  IdentityInv'
<1>. DEFINE none == {}
<1>1. u \in Txn /\ own = [t \in Txn |-> own[t]]
  BY UpHere DEF AcceptInv, Shape
<1>2. own'[u] = Overlay(new, own[u])
  BY <1>1 DEF Write
<1>3. Extending(Seen(u), Seen(u)') /\ Gives(Seen(u), Seen(u)', none, none)
  BY <1>1, <1>2, QuietExtends
<1>4. none \subseteq Pending(up[u])
  OBVIOUS
<1>. HIDE DEF none
<1>. QED BY <1>3, <1>4, MergeOn

(* Its sources go to the survivor. *)
LEMMA SourcesSound ==
  ASSUME LiveInv, LiveInv', AcceptInv, IdentityInv, NEW u \in Upsert, MergeSources(u) PROVE IdentityInv'
<1>. DEFINE new == Moved(u, {Source(v) : v \in Upsert})
<1>1. Write(u, new) /\ Goto(u, "views") /\ UNCHANGED <<db, born>> /\ up[u].pc = "sources"
  BY DEF MergeSources
<1>2. Elsewhere(new)
  BY RegistryRows DEF Moved, OfLoser, Elsewhere
<1>. HIDE DEF new
<1>3. up[u].pc \in Merger /\ "views" \in Merger
  BY <1>1 DEF Merger
<1>. QED BY <1>1, <1>2, <1>3, QuietElsewhere, QuietOn

(* Its views do. *)
LEMMA ViewsSound ==
  ASSUME LiveInv, LiveInv', AcceptInv, IdentityInv, NEW u \in Upsert, MergeViews(u) \/ MoveViews(u) PROVE IdentityInv'
<1>1. PICK new, pc : Write(u, new) /\ Goto(u, pc) /\ UNCHANGED <<db, born>> /\ up[u].pc \in Merger /\ pc \in Merger /\ Elsewhere(new)
  BY ViewsWritten
<1>. QED BY <1>1, QuietElsewhere, QuietOn

(* The source and the view of the upsert are written. *)
LEMMA SourceSound ==
  ASSUME LiveInv, LiveInv', AcceptInv, IdentityInv, NEW u \in Upsert, WriteSourceAndView(u) PROVE IdentityInv'
<1>. DEFINE a == OneRow(Source(u), up[u].company)
            b == OneRow(View(TenantOf[u], up[u].company), [exists |-> TRUE, tags |-> {u}])
<1>1. Write(u, Overlay(a, b)) /\ Goto(u, "commit") /\ UNCHANGED <<db, born>> /\ up[u].pc = "view"
  BY DEF WriteSourceAndView
<1>2. DOMAIN a = {Source(u)} /\ DOMAIN b = {View(TenantOf[u], up[u].company)}
  BY OneRowIs
<1>. HIDE DEF a, b
<1>3. DOMAIN Overlay(a, b) = DOMAIN a \cup DOMAIN b
  BY OverlayIs
<1>4. Elsewhere(Overlay(a, b))
  BY <1>2, <1>3, RegistryRows DEF Elsewhere
<1>5. up[u].todo = <<>> /\ "commit" \notin Merger /\ "view" \notin Merger
  BY <1>1, SoundHere DEF Lists, Merger
<1>. QED BY <1>1, <1>4, <1>5, QuietElsewhere, QuietOn

(* The facts are written, with merged_into as it was seen. *)
LEMMA FactsSound ==
  ASSUME LiveInv, LiveInv', AcceptInv, IdentityInv, NEW u \in Upsert, UpdateFacts(u) PROVE IdentityInv'
<1>. DEFINE c == up[u].company
            old == Seen(u)[Row(c)]
            named == IF u \in Registered THEN "registered" ELSE up[u].named
            country == IF CountryOf[u] # Nothing THEN CountryOf[u] ELSE up[u].country
            row == [old EXCEPT !.named = named, !.country = country]
            new == OneRow(Row(c), row)
            s == [up[u] EXCEPT !.pc = "view"]
<1>1. /\ up = [v \in Upsert |-> up[v]] /\ IsUp(up[u]) /\ Knowing(u, up[u], Live(Seen(u)))
      /\ \A x \in Company : IsCompany(Seen(u)[Row(x)])
  BY UpHere
<1>2. /\ up[u].pc = "attach" /\ up[u].todo = <<>> /\ UNCHANGED <<db, born>> /\ Goto(u, "view")
      /\ Write(u, new) \/ UNCHANGED own
  BY DEF UpdateFacts
<1>3. c \in Live(Seen(u)) /\ c \in Company /\ IsCompany(old) /\ old.exists
  BY <1>1, <1>2 DEF Knowing, Holding, Live
<1>4. row.exists /\ row.merged = old.merged
  <2>. HIDE DEF old, named, country
  <2>. QED BY <1>3 DEF IsCompany, CompanyField
<1>5. DOMAIN new = {Row(c)} /\ new[Row(c)] = row
  BY OneRowIs
<1>. HIDE DEF row, new
<1>6. Quiet(Seen(u), new) /\ \A x \in Company : Row(x) \in DOMAIN new => x \in Live(Seen(u))
  <2>. HIDE DEF c, old
  <2>1. \A x : Row(x) = Row(c) => x = c
    BY RowsDiffer
  <2>. QED BY <1>3, <1>4, <1>5, <2>1, RegistryRows DEF Quiet, old
<1>7. "view" \notin Merger /\ "attach" \notin Merger
  BY DEF Merger
<1>8. CASE Write(u, new)
  BY <1>2, <1>6, <1>7, <1>8, QuietOn
<1>9. CASE UNCHANGED own
  <2>1. up' = [up EXCEPT ![u] = s]
    BY <1>2, Zenon DEF Goto
  <2>2. s.pc = "view" /\ s.losers = up[u].losers /\ s.company = up[u].company /\ s.todo = up[u].todo /\ s.rest = up[u].rest
        /\ s.twice = up[u].twice
    BY <1>1 DEF IsUp, UpField
  <2>. HIDE DEF s
  <2>3. Lists(u, s) /\ up[u].pc \in Working /\ s.pc \in Working
    BY <1>2, <2>2, SoundHere DEF Lists, Working, Merger, Looking
  <2>4. Pending(s) = Pending(up[u]) /\ Base(s) = Pending(up[u]) /\ Base(up[u]) = Pending(up[u]) /\ Left(s) = Left(up[u])
        /\ ToSet(s.todo) = ToSet(up[u].todo)
    BY <1>2, <2>2 DEF Pending, Base, Left, Holding, Merger, Looking
  <2>5. StillGathers(u, Seen(u), up[u], s) /\ LeadTo(Seen(u), Pending(up[u]), Pending(s)) /\ LeadTo(Seen(u), Base(up[u]), Base(s))
    BY <2>4, JoinsSelf DEF StillGathers, LeadTo
  <2>. QED BY <1>2, <1>9, <2>1, <2>2, <2>3, <2>5, ReadsOn
<1>. QED BY <1>2, <1>8, <1>9

(* The loser points at the survivor: what led to it leads there now,       *)
(* unless it had been merged away before.                                  *)
LEMMA PointSound ==
  ASSUME LiveInv, LiveInv', AcceptInv, IdentityInv, NEW u \in Upsert, PointAtSurvivor(u) PROVE IdentityInv'
<1>. DEFINE l == Losing(u)
            old == Seen(u)[Row(l)]
            row == [old EXCEPT !.merged = up[u].company]
            new == OneRow(Row(l), row)
            rest == up[u].losers \ {l}
            twice == up[u].twice \/ old.merged # Nothing
            pc == IF up[u].losers = {l} THEN "attach" ELSE "idents"
            s == [up[u] EXCEPT !.losers = rest, !.twice = twice, !.pc = pc]
            none == {}
<1>1. /\ up = [v \in Upsert |-> up[v]] /\ IsUp(up[u]) /\ Knowing(u, up[u], Live(Seen(u))) /\ Down(Seen(u), Age)
      /\ \A c \in Company : IsCompany(Seen(u)[Row(c)])
      /\ u \in Txn /\ own = [t \in Txn |-> own[t]]
  BY UpHere DEF AcceptInv, Shape
<1>2. up[u].pc = "point" /\ UNCHANGED <<db, born>> /\ Write(u, new)
  BY DEF PointAtSurvivor
<1>3. up' = [up EXCEPT ![u] = s]
  BY <1>1 DEF PointAtSurvivor
<1>4. l \in up[u].losers /\ up[u].losers # {}
  BY <1>1, <1>2, LosingIs DEF Knowing, Merger
<1>5. l \in Live(Seen(u)) /\ up[u].company \in Live(Seen(u))
  BY <1>1, <1>4 DEF Knowing
<1>6. l \in Company /\ IsCompany(old) /\ old.exists /\ up[u].company \in Company /\ up[u].company # Nothing
  BY <1>1, <1>5, NothingIsNone DEF Live
<1>7. row.exists /\ row.merged = up[u].company
  BY <1>6 DEF IsCompany, CompanyField
<1>8. pc \in {"attach", "idents"} /\ (pc = "attach" => rest = {})
  BY <1>4
<1>. HIDE DEF pc, twice
<1>9. s.pc = pc /\ s.losers = rest /\ s.company = up[u].company /\ s.todo = up[u].todo /\ s.rest = up[u].rest /\ s.twice = twice
  BY <1>1 DEF IsUp, UpField
<1>10. DOMAIN new = {Row(l)} /\ new[Row(l)] = row
  BY OneRowIs
<1>. HIDE DEF l, row, s, new
<1>11. own'[u] = Overlay(new, own[u]) /\ (\A t \in Txn : t # u => own'[t] = own[t]) /\ Free(u, DOMAIN new)
  BY <1>1, <1>2 DEF Write
<1>12. DOMAIN own'[u] \subseteq DOMAIN new \cup DOMAIN own[u]
  <2>1. own'[u] = Overlay(new, own[u])
    BY <1>11
  <2>2. DOMAIN Overlay(new, own[u]) = DOMAIN new \cup DOMAIN own[u]
    BY OverlayIs
  <2>. QED BY <2>1, <2>2
<1>13. /\ \A c \in Company : Seen(u)'[Row(c)] = IF c = l THEN row ELSE Seen(u)[Row(c)]
       /\ \A i \in Identifier : Seen(u)'[Ident(i)] = Seen(u)[Ident(i)]
  <2>1. /\ \A c \in Company : Seen(u)'[Row(c)] = IF Row(c) \in DOMAIN new THEN new[Row(c)] ELSE Seen(u)[Row(c)]
        /\ \A i \in Identifier : Seen(u)'[Ident(i)] = IF Ident(i) \in DOMAIN new THEN new[Ident(i)] ELSE Seen(u)[Ident(i)]
    BY <1>1, <1>2, <1>11, SeenOver
  <2>2. \A x : Row(x) = Row(l) => x = l
    BY RowsDiffer
  <2>3. \A i : Ident(i) # Row(l)
    BY RegistryRows
  <2>. QED BY <2>1, <2>2, <2>3, <1>10
<1>14. Gives(Seen(u), Seen(u)', none, none)
  BY <1>13 DEF Gives
<1>15. ~s.twice => Extending(Seen(u), Seen(u)')
  <2>1. ~s.twice => Merged(Seen(u), l) = Nothing /\ ~up[u].twice
    BY <1>9 DEF twice, Merged, old
  <2>2. \A c \in Live(Seen(u)) : c \in Live(Seen(u)') /\ (c # l => Merged(Seen(u)', c) = Merged(Seen(u), c))
    BY <1>7, <1>13 DEF Live, Merged
  <2>. QED BY <2>1, <2>2 DEF Extending
<1>16. Down(Seen(u)', Age)
  <2>1. (LiveInv => PointsBack)'
    BY DownsSeen, PTL
  <2>2. Age' = Age
    BY <1>2, AgeStays
  <2>. QED BY <2>1, <2>2 DEF PointsBack, Down, Live, Merged
<1>17. Resolve(Seen(u)', l) = Resolve(Seen(u)', up[u].company)
  <2>1. l \in Live(Seen(u)') /\ Merged(Seen(u)', l) = up[u].company
    BY <1>6, <1>7, <1>13 DEF Live, Merged
  <2>. QED BY <2>1, <1>6, <1>16, EndNext
<1>18. LeadTo(Seen(u)', Pending(up[u]), Pending(s))
  <2>1. Pending(up[u]) = {up[u].company} \cup up[u].losers
    BY <1>2 DEF Pending, Holding, Merger
  <2>2. Pending(s) = {up[u].company} \cup (up[u].losers \ {l})
    BY <1>8, <1>9 DEF Pending, Holding, Merger
  <2>. QED BY <2>1, <2>2, <1>17 DEF LeadTo, Joins
<1>19. Base(s) = Pending(s) /\ Base(up[u]) = Pending(up[u]) /\ Left(s) = Left(up[u]) /\ ToSet(s.todo) = ToSet(up[u].todo)
  BY <1>2, <1>8, <1>9 DEF Base, Left, Looking
<1>20. StillGathers(u, Seen(u)', up[u], s)
  BY <1>19 DEF StillGathers
<1>21. up[u].pc \in Working /\ s.pc \in Working /\ s.pc # "match" /\ (~s.twice => ~up[u].twice)
  BY <1>2, <1>8, <1>9 DEF Working, Merger, twice
<1>22. Lists(u, s)
  BY <1>2, <1>8, <1>9, <1>21, SoundHere DEF Lists, Working, Merger, Looking
<1>23. OfThose(u, new, Live(Seen(u)), s)
  <2>1. \A x : Row(x) = Row(l) => x = l
    BY RowsDiffer
  <2>. QED BY <2>1, <1>5, <1>10 DEF OfThose
<1>24. none \subseteq Pending(up[u]) /\ none \subseteq Pending(s) /\ none \subseteq Base(s) /\ Nothing \notin none
  OBVIOUS
<1>. HIDE DEF none
<1>25. ~s.twice => Extending(Seen(u), Seen(u)') /\ LeadTo(Seen(u)', Pending(up[u]), Pending(s))
                     /\ LeadTo(Seen(u)', Base(up[u]), Base(s))
  BY <1>15, <1>18, <1>19
<1>. QED BY <1>2, <1>3, <1>11, <1>12, <1>14, <1>20, <1>21, <1>22, <1>23, <1>24, <1>25, Onward

(* An identifier that nobody has is attached; a strong one that somebody   *)
(* else has sends the upsert back to look.                                 *)
LEMMA AttachSound ==
  ASSUME LiveInv, LiveInv', AcceptInv, IdentityInv, NEW u \in Upsert, Attach(u) PROVE IdentityInv'
<1>. DEFINE i == Head(up[u].todo)
            d == Seen(u)
            new == OneRow(Ident(i), up[u].company)
            ag == [up[u] EXCEPT !.pc = "again", !.todo = StrongIds(u), !.rest = Tail(up[u].todo)]
            on == [up[u] EXCEPT !.todo = Tail(up[u].todo)]
            again == d[Ident(i)] # Nothing /\ Holder(d, i) # up[u].company /\ i \in Strong
<1>1. up = [v \in Upsert |-> up[v]] /\ IsUp(up[u]) /\ Knowing(u, up[u], Live(Seen(u))) /\ Down(Seen(u), Age)
      /\ u \in Txn /\ own = [t \in Txn |-> own[t]]
  BY UpHere DEF AcceptInv, Shape
<1>2. up[u].pc = "attach" /\ up[u].todo # <<>> /\ UNCHANGED <<db, born>> /\ Free(u, {Ident(i)})
  BY DEF Attach
<1>3. (again /\ up' = [up EXCEPT ![u] = ag]) \/ (~again /\ up' = [up EXCEPT ![u] = on])
  <2>1. up' = IF again
           THEN [up EXCEPT ![u].pc = "again", ![u].todo = StrongIds(u), ![u].rest = Tail(up[u].todo)]
           ELSE [up EXCEPT ![u].todo = Tail(@)]
    BY DEF Attach
  <2>2. [up EXCEPT ![u].pc = "again", ![u].todo = StrongIds(u), ![u].rest = Tail(up[u].todo)] = [up EXCEPT ![u] = ag]
    BY <1>1
  <2>3. [up EXCEPT ![u].todo = Tail(@)] = [up EXCEPT ![u] = on]
    BY <1>1
  <2>. HIDE DEF ag, on, again
  <2>. QED BY <2>1, <2>2, <2>3
<1>4. own' = [own EXCEPT ![u] = IF d[Ident(i)] = Nothing THEN Overlay(new, own[u]) ELSE own[u]]
  BY DEF Attach
<1>5. /\ ag.pc = "again" /\ ag.losers = up[u].losers /\ ag.company = up[u].company /\ ag.twice = up[u].twice
      /\ ag.todo = StrongIds(u) /\ ag.rest = Tail(up[u].todo)
  BY <1>1 DEF IsUp, UpField
<1>6. /\ on.pc = "attach" /\ on.losers = up[u].losers /\ on.company = up[u].company /\ on.twice = up[u].twice
      /\ on.todo = Tail(up[u].todo) /\ on.rest = up[u].rest
  BY <1>1, <1>2 DEF IsUp, UpField
<1>. HIDE DEF ag, on
<1>7. up[u].losers = {} /\ up[u].pc \in Working /\ up[u].todo \in Seq(Identifier) /\ up[u].rest \in Seq(Identifier)
  BY <1>2, SoundHere DEF Lists, Working, Merger, Looking
<1>8. i \in Identifier /\ Tail(up[u].todo) \in Seq(Identifier) /\ ToSet(up[u].todo) = {i} \cup ToSet(Tail(up[u].todo))
  BY <1>2, <1>7, TailIs
<1>9. Lists(u, ag) /\ Lists(u, on)
  BY <1>5, <1>6, <1>7, <1>8, StrongThere DEF Lists, Working, Merger, Looking
<1>10. Pending(up[u]) = {up[u].company} /\ Pending(on) = {up[u].company} /\ Pending(ag) = {up[u].company}
  BY <1>2, <1>5, <1>6, <1>7 DEF Pending, Holding, Merger
<1>11. /\ Base(up[u]) = {up[u].company} /\ Base(on) = {up[u].company} /\ Left(up[u]) = ToSet(up[u].todo)
       /\ Left(on) = ToSet(Tail(up[u].todo)) /\ Left(ag) = ToSet(Tail(up[u].todo))
  BY <1>2, <1>5, <1>6, <1>10 DEF Base, Left, Looking
<1>12. up[u].company \in Live(Seen(u)) /\ Nothing \notin Live(Seen(u))
  BY <1>1, <1>2, NothingIsNone DEF Knowing, Holding
<1>13. ASSUME UNCHANGED own, d[Ident(i)] # Nothing, up' = [up EXCEPT ![u] = on], ~again PROVE IdentityInv'
  <2>1. i \in Strong => Resolve(d, d[Ident(i)]) = up[u].company
    BY <1>13 DEF Holder
  <2>2. d[Ident(i)] \in Live(d)
    BY <1>8, <1>13, SoundHere DEF IdentsLive
  <2>3. i \in Strong => Joins(d, {up[u].company}, d[Ident(i)])
    BY <2>1, <2>2, <1>1, RootJoins DEF Joins
  <2>4. StillGathers(u, d, up[u], on)
    <3>. SUFFICES ASSUME NEW j \in StrongOf(u), j \notin Left(on), j \in Left(up[u])
                  PROVE  d[Ident(j)] # Nothing /\ Joins(d, Base(on), d[Ident(j)])
      BY <1>6, <1>11 DEF StillGathers
    <3>1. j = i /\ j \in Strong
      BY <1>8, <1>11, StrongThere
    <3>. QED BY <3>1, <2>3, <1>11, <1>13
  <2>. HIDE DEF d
  <2>5. LeadTo(d, Pending(up[u]), Pending(on)) /\ LeadTo(d, Base(up[u]), Base(on))
    BY <1>10, <1>11, JoinsSelf DEF LeadTo
  <2>6. on.pc \in Working /\ on.pc # "match"
    BY <1>6 DEF Working
  <2>. QED BY <1>2, <1>6, <1>7, <1>9, <1>13, <2>4, <2>5, <2>6, ReadsOn DEF d
<1>14. ASSUME d[Ident(i)] = Nothing, own' = [own EXCEPT ![u] = Overlay(new, own[u])], up' = [up EXCEPT ![u] = on] PROVE IdentityInv'
  <2>. DEFINE none == {}
  <2>1. DOMAIN new = {Ident(i)} /\ new[Ident(i)] = up[u].company
    BY OneRowIs
  <2>. HIDE DEF new
  <2>2. own'[u] = Overlay(new, own[u]) /\ \A t \in Txn : t # u => own'[t] = own[t]
    BY <1>1, <1>14
  <2>3. DOMAIN own'[u] \subseteq DOMAIN new \cup DOMAIN own[u]
    <3>1. DOMAIN Overlay(new, own[u]) = DOMAIN new \cup DOMAIN own[u]
      BY OverlayIs
    <3>. QED BY <2>2, <3>1
  <2>4. /\ \A c \in Company : Seen(u)'[Row(c)] = Seen(u)[Row(c)]
        /\ \A j \in Identifier : Seen(u)'[Ident(j)] = IF j = i THEN up[u].company ELSE Seen(u)[Ident(j)]
    <3>1. /\ \A c \in Company : Seen(u)'[Row(c)] = IF Row(c) \in DOMAIN new THEN new[Row(c)] ELSE Seen(u)[Row(c)]
          /\ \A j \in Identifier : Seen(u)'[Ident(j)] = IF Ident(j) \in DOMAIN new THEN new[Ident(j)] ELSE Seen(u)[Ident(j)]
      BY <1>1, <1>2, <2>2, SeenOver
    <3>2. \A j : (Ident(j) = Ident(i) => j = i) /\ Row(j) # Ident(i)
      BY RegistryRows
    <3>. QED BY <3>1, <3>2, <2>1
  <2>5. Extending(Seen(u), Seen(u)') /\ Gives(Seen(u), Seen(u)', none, none)
    BY <2>4, <1>14 DEF Extending, Live, Merged, Gives
  <2>6. StillGathers(u, Seen(u)', up[u], on)
    <3>. SUFFICES ASSUME NEW j \in StrongOf(u), j \notin Left(on), j \in Left(up[u])
                  PROVE  Seen(u)'[Ident(j)] # Nothing /\ Joins(Seen(u)', Base(on), Seen(u)'[Ident(j)])
      BY <1>6, <1>11 DEF StillGathers
    <3>1. j = i
      BY <1>8, <1>11
    <3>2. Seen(u)'[Ident(j)] = up[u].company /\ up[u].company # Nothing
      BY <3>1, <2>4, <1>8, <1>12
    <3>. QED BY <3>2, <1>11, JoinsSelf
  <2>7. LeadTo(Seen(u)', Pending(up[u]), Pending(on)) /\ LeadTo(Seen(u)', Base(up[u]), Base(on))
    BY <1>10, <1>11, JoinsSelf DEF LeadTo
  <2>8. on.pc \in Working /\ on.pc # "match"
    BY <1>6 DEF Working
  <2>9. OfThose(u, new, Live(Seen(u)), on)
    BY <2>1, RegistryRows DEF OfThose
  <2>10. none \subseteq Pending(up[u]) /\ none \subseteq Pending(on) /\ none \subseteq Base(on) /\ Nothing \notin none
    OBVIOUS
  <2>11. Free(u, DOMAIN new) /\ (~on.twice => ~up[u].twice)
    BY <1>2, <1>6, <2>1
  <2>. HIDE DEF none, d, i, again
  <2>. QED BY <1>2, <1>7, <1>9, <1>14, <2>2, <2>3, <2>5, <2>6, <2>7, <2>8, <2>9, <2>10, <2>11, Onward
<1>15. ASSUME UNCHANGED own, again, up' = [up EXCEPT ![u] = ag] PROVE IdentityInv'
  <2>1. /\ Free(u, DOMAIN <<>>) /\ (\A x \in Company : Row(x) \notin DOMAIN <<>>) /\ Seen(u)' = Seen(u)
    BY <1>2, <1>15, NothingWritten
  <2>2. ASSUME NoneTwice, ~ag.twice PROVE Extending(db, Seen(u)') /\ Moves(Seen(u)', ag) /\ Gathers(u, Seen(u)', ag)
    <3>1. Extending(db, Seen(u)) /\ Moves(Seen(u), up[u]) /\ Gathers(u, Seen(u), up[u])
      BY <1>5, <2>2, SoundHere
    <3>2. Moves(Seen(u), ag)
      BY <3>1, <1>10 DEF Moves
    <3>3. ASSUME NEW j \in StrongOf(u), j \notin Left(ag) PROVE Seen(u)[Ident(j)] # Nothing
      <4>1. CASE j = i
        BY <4>1, <1>15
      <4>2. CASE j # i
        <5>1. j \notin Left(up[u])
          BY <4>2, <3>3, <1>8, <1>11
        <5>. QED BY <5>1, <3>1, <1>7 DEF Gathers
      <4>. QED BY <4>1, <4>2
    <3>4. Gathers(u, Seen(u), ag)
      BY <3>3, <1>5, StrongThere DEF Gathers
    <3>. QED BY <3>1, <3>2, <3>4, <2>1
  <2>3. ag.pc \notin Ended /\ up[u].pc \notin Ended /\ ag.pc \notin {"idle", "match"}
    BY <1>2, <1>5 DEF Ended
  <2>. HIDE DEF again, i, d
  <2>. QED BY <1>2, <1>9, <1>15, <2>1, <2>2, <2>3, StepIdentity
<1>16. d[Ident(i)] # Nothing => UNCHANGED own
  BY <1>1, <1>4
<1>17. d[Ident(i)] = Nothing => ~again /\ own' = [own EXCEPT ![u] = Overlay(new, own[u])]
  BY <1>4
<1>. HIDE DEF d, i, new
<1>. QED BY <1>3, <1>13, <1>14, <1>15, <1>16, <1>17

---------------------------------------------------------------------------
(* Rolling back and committing *)

(* A transaction that is rolled back sees what is committed. *)
LEMMA SeesCommitted ==
  ASSUME DbGood', NEW t, own'[t] = <<>>
  PROVE  /\ \A c \in Company : Seen(t)'[Row(c)] = db'[Row(c)]
         /\ \A i \in Identifier : Seen(t)'[Ident(i)] = db'[Ident(i)]
<1>1. Seen(t)' = Overlay(<<>>, db')
  BY DEF Seen
<1>2. \A x \in DOMAIN db' : Seen(t)'[x] = db'[x]
  BY <1>1, EmptyIs DEF Overlay
<1>. QED BY <1>2 DEF DbGood

(* What is rolled back is forgotten. *)
LEMMA AbortSound ==
  ASSUME LiveInv, AcceptInv, IdentityInv, NEW u \in Upsert, Abort(u) PROVE IdentityInv'
<1>. DEFINE s == [Idle EXCEPT !.pc = "aborted"]
<1>1. u \in Txn /\ own' = [own EXCEPT ![u] = <<>>] /\ UNCHANGED <<db, born>> /\ up' = [up EXCEPT ![u] = s]
      /\ own = [t \in Txn |-> own[t]] /\ up[u].pc \notin Ended
  BY Transactors DEF Abort, RollBack, AcceptInv, Shape, Ended
<1>2. own'[u] = <<>> /\ \A t \in Txn : t # u => own'[t] = own[t]
  BY <1>1
<1>3. s.pc = "aborted"
  BY DEF Idle
<1>. HIDE DEF s
<1>4. Lists(u, s) /\ s.pc \notin Ended /\ s.pc \notin {"idle", "match"} /\ Pending(s) = {}
  BY <1>3 DEF Lists, Working, Merger, Looking, Ended, Pending, Holding
<1>5. /\ \A c \in Company : Seen(u)'[Row(c)] = db[Row(c)]
      /\ \A i \in Identifier : Seen(u)'[Ident(i)] = db[Ident(i)]
  <2>1. DbGood'
    BY <1>1, AgeStays DEF LiveInv, DbGood, IsCompany, Live, Down, Merged
  <2>. QED BY <1>1, <1>2, <2>1, SeesCommitted
<1>6. Extending(db, Seen(u)')
  BY <1>5 DEF Extending, Live, Merged
<1>7. Moves(Seen(u)', s)
  BY <1>5 DEF Moves, Tied
<1>8. Gathers(u, Seen(u)', s)
  BY <1>3 DEF Gathers, Working, Looking, Merger
<1>9. Free(u, DOMAIN <<>>) /\ (\A c \in Company : Row(c) \notin DOMAIN <<>>) /\ DOMAIN own'[u] \subseteq DOMAIN <<>> \cup DOMAIN own[u]
  BY <1>2, EmptyIs DEF Free
<1>. QED BY <1>1, <1>2, <1>4, <1>6, <1>7, <1>8, <1>9, StepIdentity

(* What another transaction sees when t commits. *)
LEMMA SeenCommit ==
  ASSUME LiveInv, LiveInv', IdentityInv, NEW t \in Txn, NEW s \in Txn, s # t, db' = Seen(t), own'[s] = own[s]
  PROVE  /\ \A c \in Company :
              \/ Seen(s)'[Row(c)] = Seen(s)[Row(c)] /\ db'[Row(c)] = db[Row(c)]
              \/ Seen(s)'[Row(c)] = db'[Row(c)] /\ Seen(s)[Row(c)] = db[Row(c)]
         /\ \A i \in Identifier :
              \/ Seen(s)'[Ident(i)] = Seen(s)[Ident(i)] /\ db'[Ident(i)] = db[Ident(i)]
              \/ Seen(s)'[Ident(i)] = db'[Ident(i)] /\ Seen(s)[Ident(i)] = db[Ident(i)]
<1>1. DOMAIN own[s] \cap DOMAIN own[t] = {}
  BY DEF IdentityInv, Alone
<1>2. Seen(s)' = Overlay(own[s], db')
  BY DEF Seen
<1>3. ASSUME NEW x \in DOMAIN db, x \in DOMAIN db'
      PROVE  \/ Seen(s)'[x] = Seen(s)[x] /\ db'[x] = db[x]
             \/ Seen(s)'[x] = db'[x] /\ Seen(s)[x] = db[x]
  <2>1. Seen(s)'[x] = IF x \in DOMAIN own[s] THEN own[s][x] ELSE db'[x]
    BY <1>2, <1>3 DEF Overlay
  <2>2. Seen(s)[x] = IF x \in DOMAIN own[s] THEN own[s][x] ELSE db[x]
    BY SeenIs
  <2>3. x \in DOMAIN own[s] => db'[x] = db[x]
    BY <1>1, SeenIs
  <2>. QED BY <2>1, <2>2, <2>3
<1>4. DbGood /\ DbGood'
  BY DEF LiveInv
<1>5. (\A c \in Company : Row(c) \in DOMAIN db /\ Row(c) \in DOMAIN db')
      /\ (\A i \in Identifier : Ident(i) \in DOMAIN db /\ Ident(i) \in DOMAIN db')
  BY <1>4 DEF DbGood
<1>. QED BY <1>3, <1>5

(* A commit of t moves identifiers only among those that lead to the same. *)
Steady == \A i \in Identifier : db[Ident(i)] # Nothing =>
  db'[Ident(i)] # Nothing /\ Resolve(db', db'[Ident(i)]) = Resolve(db', db[Ident(i)])

(* What another transaction commits extends what this one sees as well. *)
LEMMA CommitTame ==
  ASSUME LiveInv, LiveInv', IdentityInv, NEW t \in Txn, NEW s \in Txn, s # t, db' = Seen(t), own'[s] = own[s],
         Extending(db, db'), Extending(db, Seen(s))
  PROVE  Extending(db', Seen(s)') /\ Extending(Seen(s), Seen(s)')
<1>1. \A c \in Company :
              \/ Seen(s)'[Row(c)] = Seen(s)[Row(c)] /\ db'[Row(c)] = db[Row(c)]
              \/ Seen(s)'[Row(c)] = db'[Row(c)] /\ Seen(s)[Row(c)] = db[Row(c)]
  BY SeenCommit
<1>. QED BY <1>1 DEF Extending, Live, Merged

(* Another upsert goes on with what t committed. *)
LEMMA CommitSound ==
  ASSUME LiveInv, LiveInv', IdentityInv, NEW t \in Txn, NEW u \in Upsert, u # t, UNCHANGED born,
         db' = Seen(t), own'[u] = own[u], up'[u] = up[u],
         Extending(db, db'), Extending(db, Seen(u)), Steady, Moves(Seen(u), up[u]), Gathers(u, Seen(u), up[u])
  PROVE  Moves(Seen(u), up[u])' /\ Gathers(u, Seen(u), up[u])'
<1>. DEFINE d == Seen(u)
            e == Seen(u)'
            f == db'
            r == up[u]
<1>1. u \in Txn /\ Down(d, Age)
  BY UpHere
<1>2. Down(e, Age) /\ Down(f, Age)
  <2>1. (LiveInv => PointsBack)'
    BY DownsSeen, PTL
  <2>2. Age' = Age
    BY AgeStays
  <2>. QED BY <2>1, <2>2 DEF PointsBack, Down, Live, Merged, LiveInv, DbGood
<1>3. Extending(f, e) /\ Extending(d, e)
  BY <1>1, CommitTame
<1>4. \A i \in Identifier : (e[Ident(i)] = d[Ident(i)] /\ f[Ident(i)] = db[Ident(i)])
                            \/ (e[Ident(i)] = f[Ident(i)] /\ d[Ident(i)] = db[Ident(i)])
  BY <1>1, SeenCommit
<1>5. /\ IdentsLive(d) /\ IdentsLive(db) /\ Pending(r) \subseteq Live(d) /\ Base(r) \subseteq Live(d)
      /\ \A i \in Identifier : db[Ident(i)] # Nothing => d[Ident(i)] # Nothing
  BY SoundHere
<1>6. \A p : \A x \in p : Joins(e, p, x)
  BY JoinsSelf
<1>7. Extending(db, f) /\ Extending(db, d) /\ Moves(d, r) /\ Gathers(u, d, r)
  OBVIOUS
<1>8. \A i \in Identifier : db[Ident(i)] # Nothing => f[Ident(i)] # Nothing /\ Resolve(f, f[Ident(i)]) = Resolve(f, db[Ident(i)])
  BY DEF Steady
<1>9. \A i \in Identifier : f[Ident(i)] = Nothing \/ f[Ident(i)] \in Live(f)
  BY DEF LiveInv, DbGood, Live
<1>. HIDE DEF d, e, f, r
<1>10. ASSUME NEW i \in Identifier, f[Ident(i)] # Nothing PROVE Tied(e, Pending(r), e[Ident(i)], f[Ident(i)])
  <2>1. CASE e[Ident(i)] = f[Ident(i)]
    BY <2>1 DEF Tied
  <2>2. CASE e[Ident(i)] = d[Ident(i)] /\ f[Ident(i)] = db[Ident(i)]
    <3>1. db[Ident(i)] # Nothing /\ d[Ident(i)] # Nothing
      BY <1>5, <1>10, <2>2
    <3>2. d[Ident(i)] \in Live(d) /\ db[Ident(i)] \in Live(d)
      BY <1>5, <1>7, <3>1 DEF IdentsLive, Extending
    <3>3. Tied(d, Pending(r), d[Ident(i)], db[Ident(i)])
      BY <1>7, <3>1 DEF Moves
    <3>4. Tied(e, Pending(r), d[Ident(i)], db[Ident(i)])
      BY <1>1, <1>2, <1>3, <1>5, <1>6, <3>2, <3>3, TiedMore DEF d
    <3>. QED BY <3>4, <2>2
  <2>. QED BY <1>4, <2>1, <2>2
<1>11. ASSUME r.pc \in Working, NEW i \in StrongOf(u), i \notin Left(r)
       PROVE  e[Ident(i)] # Nothing /\ (i \in ToSet(r.todo) \/ Joins(e, Base(r), e[Ident(i)]))
  <2>1. d[Ident(i)] # Nothing /\ (i \in ToSet(r.todo) \/ Joins(d, Base(r), d[Ident(i)])) /\ i \in Identifier
    BY <1>7, <1>11, StrongThere DEF Gathers
  <2>2. d[Ident(i)] \in Live(d)
    BY <2>1, <1>5 DEF IdentsLive
  <2>3. Joins(d, Base(r), d[Ident(i)]) => Joins(e, Base(r), d[Ident(i)])
    BY <2>2, <1>1, <1>2, <1>3, <1>5, <1>6, JoinsMore DEF d
  <2>4. CASE e[Ident(i)] = d[Ident(i)]
    BY <2>1, <2>3, <2>4
  <2>5. CASE e[Ident(i)] = f[Ident(i)] /\ d[Ident(i)] = db[Ident(i)]
    <3>1. f[Ident(i)] # Nothing /\ Resolve(f, f[Ident(i)]) = Resolve(f, d[Ident(i)])
      BY <2>1, <2>5, <1>8
    <3>2. f[Ident(i)] \in Live(f) /\ d[Ident(i)] \in Live(f)
      BY <2>1, <2>5, <3>1, <1>5, <1>7, <1>9 DEF IdentsLive, Extending
    <3>3. Resolve(e, f[Ident(i)]) = Resolve(e, d[Ident(i)])
      BY <3>1, <3>2, <1>2, <1>3, StillSame
    <3>. QED BY <2>1, <2>3, <2>5, <3>1, <3>3 DEF Joins
  <2>. QED BY <1>4, <2>1, <2>4, <2>5
<1>12. Moves(Seen(u), up[u])'
  BY <1>10 DEF Moves, Tied, Joins, Pending, e, f, r
<1>13. Gathers(u, Seen(u), up[u])'
  BY <1>11 DEF Gathers, Joins, Left, Base, Pending, e, r
<1>. QED BY <1>12, <1>13

(* A commit decides the identifiers of its upsert, and leaves those of the *)
(* others decided.                                                         *)
LEMMA CommitIdentity ==
  ASSUME LiveInv, LiveInv', AcceptInv, IdentityInv, NEW t \in Txn, Commit(t), UNCHANGED born,
         \A u \in Upsert : u # t => up'[u] = up[u],
         t \in Upsert => up[t].pc = "commit" /\ up'[t] = [up[t] EXCEPT !.pc = "done"]
  PROVE  IdentityInv'
<1>1. db' = Seen(t) /\ own'[t] = <<>> /\ \A s \in Txn : s # t => own'[s] = own[s]
  BY DEF Commit, AcceptInv, Shape
<1>2. DbGood /\ DbGood' /\ Down(db, Age) /\ Down(db', Age)
  <2>1. Age' = Age
    BY AgeStays
  <2>. QED BY <2>1 DEF LiveInv, DbGood, Down, Live, Merged
<1>3. /\ \A c \in Company : Seen(t)'[Row(c)] = db'[Row(c)]
      /\ \A i \in Identifier : Seen(t)'[Ident(i)] = db'[Ident(i)]
  BY <1>1, <1>2, SeesCommitted
<1>4. t \in Upsert => /\ up'[t].pc = "done" /\ up'[t].twice = up[t].twice
                      /\ up[t].losers = {} /\ up[t].todo = <<>> /\ ToSet(up[t].todo) = {}
  <2>. SUFFICES ASSUME t \in Upsert PROVE /\ up'[t].pc = "done" /\ up'[t].twice = up[t].twice
                      /\ up[t].losers = {} /\ up[t].todo = <<>> /\ ToSet(up[t].todo) = {}
    OBVIOUS
  <2>1. IsUp(up[t])
    BY DEF LiveInv, UpShape
  <2>2. up'[t].pc = "done" /\ up'[t].twice = up[t].twice
    BY <2>1 DEF IsUp, UpField
  <2>3. up[t].losers = {} /\ up[t].todo = <<>>
    BY SoundHere DEF Lists, Working, Merger, Looking
  <2>4. ToSet(up[t].todo) = {}
    BY <2>3, EmptyIs DEF ToSet
  <2>. QED BY <2>2, <2>3, <2>4
<1>5. Alone'
  BY <1>1, EmptyIs DEF IdentityInv, Alone
<1>6. Fresh'
  <2>. SUFFICES ASSUME NEW u \in Upsert, up'[u].pc \in {"idle", "match"}
                PROVE  u \notin Live(db)' /\ \A s \in Txn : Row(u) \notin DOMAIN own'[s]
    BY DEF Fresh
  <2>1. u # t /\ up'[u] = up[u] /\ u \in Company
    BY <1>4 DEF Company
  <2>2. u \notin Live(db) /\ \A s \in Txn : Row(u) \notin DOMAIN own[s]
    BY <2>1 DEF IdentityInv, Fresh
  <2>3. db'[Row(u)] = db[Row(u)]
    BY <1>1, <1>2, <2>1, <2>2, SeenIs DEF DbGood
  <2>. QED BY <2>2, <2>3, <2>1, <1>1, EmptyIs DEF Live
<1>7. Listed'
  <2>1. t \in Upsert => Lists(t, up'[t])
    BY <1>4 DEF Lists, Working, Merger, Looking
  <2>2. \A u \in Upsert : Lists(u, up'[u])
    BY <2>1 DEF IdentityInv, Listed
  <2>. QED BY <2>2 DEF Listed, Lists
<1>8. NoIdents'
  BY <1>1, Transactors, EmptyIs DEF IdentityInv, NoIdents
<1>9. ASSUME NoneTwice' PROVE Decided' /\ (\A s \in Txn : Tame(s)') /\ \A u \in Upsert : Sound(u)'
  <2>1. NoneTwice /\ Once(t)
    <3>1. \A u \in Upsert : Committed(u) => Committed(u)' /\ up'[u].twice = up[u].twice
      BY <1>4 DEF Committed
    <3>2. t \in Upsert => Committed(t)' /\ up'[t].twice = up[t].twice
      BY <1>4 DEF Committed
    <3>. QED BY <1>9, <3>1, <3>2 DEF NoneTwice, Once
  <2>2. Decided /\ (\A s \in Txn : Tame(s)) /\ \A u \in Upsert : Sound(u)
    BY <2>1 DEF IdentityInv
  <2>3. Extending(db, db')
    BY <2>1, <2>2, <1>1 DEF Tame
  <2>4. Steady
    <3>. SUFFICES ASSUME NEW i \in Identifier, db[Ident(i)] # Nothing
                  PROVE  db'[Ident(i)] # Nothing /\ Resolve(db', db'[Ident(i)]) = Resolve(db', db[Ident(i)])
      BY DEF Steady
    <3>1. CASE t \in Upsert
      <4>1. Moves(db', up[t]) /\ db'[Ident(i)] # Nothing
        BY <3>1, <2>1, <2>2, <1>1, SoundHere DEF Sound
      <4>2. Tied(db', Pending(up[t]), db'[Ident(i)], db[Ident(i)])
        BY <4>1 DEF Moves
      <4>. QED BY <3>1, <4>1, <4>2, <1>4, TiedOne
    <3>2. CASE t \in Acceptor
      <4>1. db'[Ident(i)] = db[Ident(i)]
        BY <3>2, <1>1, <1>2, SeenIs DEF IdentityInv, NoIdents, DbGood
      <4>. QED BY <4>1
    <3>. QED BY <3>1, <3>2, RegistryAssumption
  <2>5. Decided'
    <3>. SUFFICES ASSUME NEW u \in Upsert, Committed(u)', NEW i \in StrongOf(u), NEW j \in StrongOf(u)
                  PROVE  db'[Ident(i)] # Nothing /\ Resolve(db', db'[Ident(i)]) = Resolve(db', db'[Ident(j)])
      BY DEF Decided, StrongOf
    <3>1. i \in Identifier /\ j \in Identifier
      BY StrongThere
    <3>2. CASE u = t
      <4>1. Gathers(t, db', up[t]) /\ up[t].pc = "commit" /\ t \in Upsert
        BY <3>2, <2>1, <2>2, <1>1 DEF Sound
      <4>2. Left(up[t]) = {} /\ Base(up[t]) = {up[t].company} /\ up[t].pc \in Working
        BY <4>1, <1>4 DEF Left, Base, Pending, Holding, Working, Merger, Looking
      <4>3. ASSUME NEW k \in StrongOf(t) PROVE db'[Ident(k)] # Nothing /\ Joins(db', {up[t].company}, db'[Ident(k)])
        BY <4>1, <4>2, <1>4 DEF Gathers
      <4>4. Joins(db', {up[t].company}, db'[Ident(i)]) /\ Joins(db', {up[t].company}, db'[Ident(j)]) /\ db'[Ident(i)] # Nothing
        BY <4>3, <3>2
      <4>. QED BY <4>4 DEF Joins
    <3>3. CASE u # t
      <4>1. Committed(u)
        BY <3>3 DEF Committed
      <4>2. /\ db[Ident(i)] # Nothing /\ db[Ident(j)] # Nothing
            /\ Resolve(db, db[Ident(i)]) = Resolve(db, db[Ident(j)])
        BY <4>1, <2>2 DEF Decided
      <4>3. db[Ident(i)] \in Live(db) /\ db[Ident(j)] \in Live(db)
        BY <3>1, <4>2, <1>2 DEF DbGood
      <4>4. Resolve(db', db[Ident(i)]) = Resolve(db', db[Ident(j)])
        BY <4>2, <4>3, <1>2, <2>3, StillSame
      <4>. QED BY <4>2, <4>4, <3>1, <2>4 DEF Steady
    <3>. QED BY <3>2, <3>3
  <2>6. ASSUME NEW s \in Txn, s # t, Once(s) PROVE Extending(db', Seen(s)')
    <3>1. Extending(db, Seen(s)) /\ own'[s] = own[s]
      BY <2>2, <2>6, <1>1 DEF Tame
    <3>. QED BY <3>1, <2>3, <2>6, <1>1, CommitTame
  <2>7. ASSUME NEW s \in Txn PROVE Tame(s)'
    <3>1. CASE s = t
      BY <3>1, <1>3 DEF Tame, Extending, Live, Merged
    <3>2. CASE s # t
      <4>1. Once(s)' => Once(s)
        BY <3>2 DEF Once
      <4>2. Once(s)' => Extending(db', Seen(s)')
        BY <3>2, <4>1, <2>6
      <4>. QED BY <4>2 DEF Tame, Extending, Live, Merged
    <3>. QED BY <3>1, <3>2
  <2>8. ASSUME NEW u \in Upsert PROVE Sound(u)'
    <3>1. CASE u = t
      <4>1. up'[u].pc \notin Working
        BY <3>1, <1>4 DEF Working, Merger, Looking
      <4>2. Moves(Seen(u), up[u])'
        BY <3>1, <1>3 DEF Moves, Tied
      <4>3. Gathers(u, Seen(u), up[u])'
        BY <4>1 DEF Gathers
      <4>. QED BY <4>2, <4>3 DEF Sound
    <3>2. CASE u # t
      <4>. SUFFICES ASSUME Once(u)' PROVE Moves(Seen(u), up[u])' /\ Gathers(u, Seen(u), up[u])'
        BY DEF Sound
      <4>1. Once(u) /\ up'[u] = up[u] /\ u \in Txn
        BY <3>2, Transactors DEF Once
      <4>2. Moves(Seen(u), up[u]) /\ Gathers(u, Seen(u), up[u]) /\ Extending(db, Seen(u)) /\ own'[u] = own[u]
        BY <2>2, <3>2, <4>1, <1>1 DEF Sound, Tame
      <4>. QED BY <4>1, <4>2, <2>3, <2>4, <3>2, <1>1, CommitSound
    <3>. QED BY <3>1, <3>2
  <2>. QED BY <2>5, <2>7, <2>8
<1>. QED BY <1>5, <1>6, <1>7, <1>8, <1>9 DEF IdentityInv

(* A step that changes no row of a company and no identifier. *)
LEMMA ElsewhereIdentity ==
  ASSUME LiveInv, LiveInv', IdentityInv, UNCHANGED <<own, born>>,
         \A c \in Company : Row(c) \in DOMAIN db' /\ db'[Row(c)] = db[Row(c)],
         \A i \in Identifier : Ident(i) \in DOMAIN db' /\ db'[Ident(i)] = db[Ident(i)],
         \A u \in Upsert : up'[u] = up[u] \/ (up[u].pc \in Ended /\ up'[u].pc \in Ended /\ up'[u].twice = up[u].twice)
  PROVE  IdentityInv'
<1>1. DbGood /\ DbGood' /\ Down(db, Age) /\ Down(db', Age) /\ Live(db)' = Live(db)
  <2>1. Age' = Age
    BY AgeStays
  <2>. QED BY <2>1 DEF LiveInv, DbGood, Down, Live, Merged
<1>2. ASSUME NEW t
      PROVE  /\ \A c \in Company : Seen(t)'[Row(c)] = Seen(t)[Row(c)]
             /\ \A i \in Identifier : Seen(t)'[Ident(i)] = Seen(t)[Ident(i)]
  <2>1. Seen(t)' = Overlay(own[t], db')
    BY DEF Seen
  <2>2. ASSUME NEW x \in DOMAIN db, x \in DOMAIN db', db'[x] = db[x] PROVE Seen(t)'[x] = Seen(t)[x]
    BY <2>1, <2>2, SeenIs DEF Overlay
  <2>. QED BY <2>2, <1>1 DEF DbGood
<1>3. \A u \in Upsert : /\ Committed(u)' <=> Committed(u)
                        /\ up'[u].twice = up[u].twice /\ Pending(up'[u]) = Pending(up[u])
                        /\ up'[u] = up[u] \/ up'[u].pc \notin Working
                        /\ up'[u].pc \in {"idle", "match"} => up'[u] = up[u]
  BY DEF Committed, Ended, Pending, Holding, Working, Merger, Looking
<1>4. Alone' /\ NoIdents'
  BY DEF IdentityInv, Alone, NoIdents
<1>5. Fresh'
  BY <1>1, <1>3 DEF IdentityInv, Fresh
<1>6. Listed'
  <2>1. \A u \in Upsert : Lists(u, up'[u])
    BY DEF IdentityInv, Listed, Lists, Working, Merger, Looking, Ended
  <2>. QED BY <2>1 DEF Listed, Lists
<1>7. ASSUME NoneTwice' PROVE Decided' /\ (\A s \in Txn : Tame(s)') /\ \A u \in Upsert : Sound(u)'
  <2>1. NoneTwice
    BY <1>3, <1>7 DEF NoneTwice
  <2>2. Decided /\ (\A s \in Txn : Tame(s)) /\ \A u \in Upsert : Sound(u)
    BY <2>1 DEF IdentityInv
  <2>3. Extending(db, db')
    BY <1>1 DEF Extending, Live, Merged
  <2>4. Decided'
    <3>. SUFFICES ASSUME NEW u \in Upsert, Committed(u)', NEW i \in StrongOf(u), NEW j \in StrongOf(u)
                  PROVE  db'[Ident(i)] # Nothing /\ Resolve(db', db'[Ident(i)]) = Resolve(db', db'[Ident(j)])
      BY DEF Decided, StrongOf
    <3>1. i \in Identifier /\ j \in Identifier
      BY StrongThere
    <3>2. /\ db[Ident(i)] # Nothing /\ db[Ident(j)] # Nothing
          /\ Resolve(db, db[Ident(i)]) = Resolve(db, db[Ident(j)])
      BY <1>3, <2>2 DEF Decided
    <3>3. db[Ident(i)] \in Live(db) /\ db[Ident(j)] \in Live(db)
      BY <3>1, <3>2, <1>1 DEF DbGood
    <3>4. Resolve(db', db[Ident(i)]) = Resolve(db', db[Ident(j)])
      BY <3>2, <3>3, <1>1, <2>3, StillSame
    <3>. QED BY <3>1, <3>2, <3>4
  <2>5. ASSUME NEW s \in Txn PROVE Tame(s)'
    <3>1. Once(s)' => Once(s)
      BY <1>3 DEF Once
    <3>2. Once(s)' => Extending(db', Seen(s)')
      BY <3>1, <2>2, <1>1, <1>2 DEF Tame, Extending, Live, Merged
    <3>. QED BY <3>2 DEF Tame, Extending, Live, Merged
  <2>6. ASSUME NEW u \in Upsert PROVE Sound(u)'
    <3>. SUFFICES ASSUME Once(u)' PROVE Moves(Seen(u), up[u])' /\ Gathers(u, Seen(u), up[u])'
      BY DEF Sound
    <3>. DEFINE d == Seen(u)
                e == Seen(u)'
                r == up[u]
    <3>1. Extending(db, d) /\ Moves(d, r) /\ Gathers(u, d, r)
      BY <1>3, <2>1, SoundHere DEF Once
    <3>2. Down(d, Age)
      BY UpHere
    <3>3. Down(e, Age)
      <4>1. (LiveInv => PointsBack)'
        BY DownsSeen, PTL
      <4>2. Age' = Age
        BY AgeStays
      <4>. QED BY <4>1, <4>2 DEF PointsBack, Down, Live, Merged
    <3>4. /\ IdentsLive(d) /\ IdentsLive(db) /\ Pending(r) \subseteq Live(d) /\ Base(r) \subseteq Live(d)
          /\ \A i \in Identifier : db[Ident(i)] # Nothing => d[Ident(i)] # Nothing
      BY SoundHere
    <3>5. Extending(d, e) /\ \A i \in Identifier : e[Ident(i)] = d[Ident(i)]
      BY <1>2 DEF Extending, Live, Merged
    <3>6. \A p : \A x \in p : Joins(e, p, x)
      BY JoinsSelf
    <3>. HIDE DEF d, e, r
    <3>7. ASSUME NEW i \in Identifier, db[Ident(i)] # Nothing PROVE Tied(e, Pending(r), e[Ident(i)], db[Ident(i)])
      <4>1. d[Ident(i)] # Nothing /\ d[Ident(i)] \in Live(d) /\ db[Ident(i)] \in Live(d)
        BY <3>1, <3>4, <3>7 DEF IdentsLive, Extending
      <4>2. Tied(d, Pending(r), d[Ident(i)], db[Ident(i)])
        BY <3>1, <3>7 DEF Moves
      <4>. QED BY <4>1, <4>2, <3>2, <3>3, <3>4, <3>5, <3>6, TiedMore
    <3>8. ASSUME r.pc \in Working, NEW i \in StrongOf(u), i \notin Left(r)
          PROVE  e[Ident(i)] # Nothing /\ (i \in ToSet(r.todo) \/ Joins(e, Base(r), e[Ident(i)]))
      <4>1. d[Ident(i)] # Nothing /\ (i \in ToSet(r.todo) \/ Joins(d, Base(r), d[Ident(i)])) /\ i \in Identifier
        BY <3>1, <3>8, StrongThere DEF Gathers
      <4>2. d[Ident(i)] \in Live(d)
        BY <4>1, <3>4 DEF IdentsLive
      <4>3. Joins(d, Base(r), d[Ident(i)]) => Joins(e, Base(r), d[Ident(i)])
        BY <4>2, <3>2, <3>3, <3>4, <3>5, <3>6, JoinsMore
      <4>. QED BY <4>1, <4>3, <3>5
    <3>9. Moves(Seen(u), up[u])'
      <4>1. Pending(up[u])' = Pending(r)
        BY <1>3 DEF r, Pending
      <4>2. \A i \in Identifier : db'[Ident(i)] = db[Ident(i)]
        OBVIOUS
      <4>. QED BY <3>7, <4>1, <4>2 DEF Moves, Tied, Joins, e
    <3>10. Gathers(u, Seen(u), up[u])'
      <4>1. CASE up'[u] = up[u]
        BY <3>8, <4>1 DEF Gathers, Joins, Left, Base, Pending, e, r
      <4>2. CASE up'[u].pc \notin Working
        BY <4>2 DEF Gathers
      <4>. QED BY <4>1, <4>2, <1>3
    <3>. QED BY <3>9, <3>10
  <2>. QED BY <2>4, <2>5, <2>6
<1>. QED BY <1>4, <1>5, <1>6, <1>7 DEF IdentityInv

---------------------------------------------------------------------------
(* Acceptances and identity *)

(* A step of an acceptance writes no identifier, and leaves the companies  *)
(* merged where they were.                                                 *)
LEMMA AcceptorIdentity ==
  ASSUME LiveInv, IdentityInv, NEW a \in Acceptor, NEW new, UNCHANGED <<db, up>>,
         \A s \in Txn : s # a => own'[s] = own[s], Free(a, DOMAIN new),
         DOMAIN own'[a] \subseteq DOMAIN new \cup DOMAIN own[a],
         \A c \in Company : Row(c) \in DOMAIN new => c \in Live(Seen(a)),
         \A i \in Identifier : Ident(i) \notin DOMAIN new,
         Extending(db, Seen(a)) => Extending(db, Seen(a)')
  PROVE  IdentityInv'
<1>1. a \in Txn /\ a \notin Upsert /\ Once(a)
  BY Transactors, DiscoveryAssumption DEF Once
<1>2. Alone'
  BY <1>1, AloneStays DEF IdentityInv
<1>3. Fresh'
  BY <1>1, FreshStays DEF IdentityInv
<1>4. Listed'
  BY DEF IdentityInv, Listed, Lists
<1>5. NoIdents'
  <2>1. \A b \in Acceptor : b # a => own'[b] = own[b]
    BY Transactors
  <2>. QED BY <2>1 DEF IdentityInv, NoIdents
<1>6. NoneTwice => Tame(a)'
  <2>1. NoneTwice => Extending(db, Seen(a)')
    BY <1>1 DEF IdentityInv, Tame
  <2>. QED BY <2>1 DEF Tame, Extending, Live, Merged
<1>. QED BY <1>1, <1>2, <1>3, <1>4, <1>5, <1>6, WithinIdentity

(* Every step of an acceptance. *)
LEMMA AcceptIdentity ==
  ASSUME LiveInv, LiveInv', AcceptInv, IdentityInv, NEW a \in Acceptor, AcceptStep(a) PROVE IdentityInv'
<1>1. UNCHANGED <<born, up>> /\ a \in Txn /\ a \notin Upsert /\ own = [t \in Txn |-> own[t]] /\ DbGood
  BY Transactors, DiscoveryAssumption
     DEF AcceptStep, LockInvite, MarkJoined, CloseOthers, CommitAccept, AbortAccept, Rest, AcceptInv, Shape, LiveInv
<1>2. ASSUME NEW new, Write(a, new), UNCHANGED db, \A c \in Company : Row(c) \in DOMAIN new => c \in Live(Seen(a)),
             \A i \in Identifier : Ident(i) \notin DOMAIN new, Extending(Seen(a), Seen(a)')
      PROVE  IdentityInv'
  <2>1. own'[a] = Overlay(new, own[a]) /\ \A s \in Txn : s # a => own'[s] = own[s]
    BY <1>1, <1>2 DEF Write
  <2>2. DOMAIN own'[a] \subseteq DOMAIN new \cup DOMAIN own[a]
    <3>1. DOMAIN Overlay(new, own[a]) = DOMAIN new \cup DOMAIN own[a]
      BY OverlayIs
    <3>. QED BY <2>1, <3>1
  <2>3. Free(a, DOMAIN new)
    BY <1>2 DEF Write
  <2>4. Extending(db, Seen(a)) => Extending(db, Seen(a)')
    BY <1>2, ExtendsMore
  <2>. QED BY <1>1, <1>2, <2>1, <2>2, <2>3, <2>4, AcceptorIdentity
<1>3. ASSUME NEW r \in Request, LockInvite(a, r) PROVE IdentityInv'
  <2>1. UNCHANGED db /\ Free(a, {Invite(r)})
    BY <1>3 DEF LockInvite
  <2>2. CASE UNCHANGED own
    <3>1. Free(a, DOMAIN <<>>) /\ DOMAIN <<>> = {}
      BY EmptyIs DEF Free
    <3>2. Seen(a)' = Seen(a)
      BY <2>1, <2>2 DEF Seen
    <3>. QED BY <1>1, <2>1, <2>2, <3>1, <3>2, AcceptorIdentity
  <2>3. ASSUME NEW row, own' = [own EXCEPT ![a] = OneRow(Invite(r), row)] PROVE IdentityInv'
    <3>. DEFINE new == OneRow(Invite(r), row)
    <3>1. DOMAIN new = {Invite(r)}
      BY OneRowIs
    <3>2. own'[a] = new /\ \A s \in Txn : s # a => own'[s] = own[s]
      BY <1>1, <2>3
    <3>. HIDE DEF new
    <3>3. (\A c \in Company : Row(c) \notin DOMAIN new) /\ \A i \in Identifier : Ident(i) \notin DOMAIN new
      BY <3>1, RowsDiffer
    <3>4. Seen(a)' = Overlay(new, db)
      BY <2>1, <3>2 DEF Seen
    <3>5. \A c \in Company : Seen(a)'[Row(c)] = db[Row(c)]
      BY <1>1, <3>3, <3>4 DEF Overlay, DbGood
    <3>6. Extending(db, Seen(a)')
      BY <3>5 DEF Extending, Live, Merged
    <3>. QED BY <1>1, <2>1, <3>1, <3>2, <3>3, <3>6, AcceptorIdentity
  <2>. QED BY <1>3, <2>2, <2>3 DEF LockInvite
<1>4. CASE MarkJoined(a)
  <2>. DEFINE c == Joining(a)
              row == [db[Row(c)] EXCEPT !.ref = a]
              new == OneRow(Row(c), row)
  <2>1. accept[a].pc = "mark" /\ Write(a, new) /\ UNCHANGED db
    BY <1>4 DEF MarkJoined
  <2>2. Mine(a) \in Request /\ db[Invite(Mine(a))].status = "sent"
    BY <2>1 DEF AcceptInv, Holds, Wrote, Busy
  <2>3. c \in Live(db)
    BY <2>2 DEF LiveInv, Asked, Joining, Mine
  <2>. HIDE DEF c
  <2>4. /\ c \in Company /\ IsCompany(db[Row(c)]) /\ db[Row(c)].exists
        /\ Live(db) \subseteq Live(Seen(a))
    BY <2>3, <1>1, SeenGood DEF LiveInv, DbGood, Live
  <2>5. row.exists /\ row.merged = db[Row(c)].merged
    BY <2>4 DEF IsCompany, CompanyField
  <2>. HIDE DEF row
  <2>6. DOMAIN new = {Row(c)} /\ new[Row(c)] = row
    BY OneRowIs
  <2>. HIDE DEF new
  <2>7. \A k \in Company : Row(k) \in DOMAIN new => k = c
    BY <2>6, RowsDiffer
  <2>8. own'[a] = Overlay(new, own[a])
    BY <1>1, <2>1 DEF Write
  <2>9. \A k \in Company : Seen(a)'[Row(k)] = IF Row(k) \in DOMAIN new THEN new[Row(k)] ELSE Seen(a)[Row(k)]
    BY <1>1, <2>1, <2>8, SeenOver
  <2>10. Extending(db, Seen(a)) => Extending(db, Seen(a)')
    BY <2>5, <2>6, <2>7, <2>9 DEF Extending, Live, Merged
  <2>11. DOMAIN own'[a] \subseteq DOMAIN new \cup DOMAIN own[a]
    <3>1. DOMAIN Overlay(new, own[a]) = DOMAIN new \cup DOMAIN own[a]
      BY OverlayIs
    <3>. QED BY <2>8, <3>1
  <2>12. Free(a, DOMAIN new) /\ \A s \in Txn : s # a => own'[s] = own[s]
    BY <1>1, <2>1 DEF Write
  <2>13. \A i \in Identifier : Ident(i) \notin DOMAIN new
    BY <2>6, RegistryRows
  <2>14. \A k \in Company : Row(k) \in DOMAIN new => k \in Live(Seen(a))
    BY <2>3, <2>4, <2>7
  <2>. QED BY <1>1, <2>1, <2>10, <2>11, <2>12, <2>13, <2>14, AcceptorIdentity
<1>5. CASE CloseOthers(a)
  <2>1. PICK open : \E f : Write(a, f) /\ DOMAIN f = {Invite(r) : r \in open}
    <3>. DEFINE open == {r \in Request \ {accept[a].invite} :
                            db[Invite(r)].status = "sent" /\ db[Invite(r)].company = Joining(a)}
                f == [i \in {Invite(r) : r \in open} |-> [db[i] EXCEPT !.status = "expired"]]
    <3>1. Write(a, f)
      BY <1>5 DEF CloseOthers
    <3>2. DOMAIN f = {Invite(r) : r \in open}
      OBVIOUS
    <3>. HIDE DEF f, open
    <3>. QED BY <3>1, <3>2
  <2>2. PICK f : Write(a, f) /\ DOMAIN f = {Invite(r) : r \in open}
    BY <2>1
  <2>3. Quiet(Seen(a), f) /\ (\A c \in Company : Row(c) \notin DOMAIN f) /\ \A i \in Identifier : Ident(i) \notin DOMAIN f
    <3>1. Elsewhere(f)
      BY <2>2, InvitesElsewhere
    <3>. QED BY <3>1, QuietElsewhere DEF Elsewhere
  <2>4. UNCHANGED db /\ own'[a] = Overlay(f, own[a])
    BY <1>1, <1>5, <2>2 DEF CloseOthers, Write
  <2>5. Extending(Seen(a), Seen(a)')
    BY <1>1, <2>3, <2>4, QuietExtends
  <2>. QED BY <2>2, <2>3, <2>4, <2>5, <1>2
<1>6. CASE AbortAccept(a)
  <2>1. own' = [own EXCEPT ![a] = <<>>] /\ UNCHANGED db
    BY <1>6 DEF AbortAccept, RollBack
  <2>2. own'[a] = <<>> /\ \A s \in Txn : s # a => own'[s] = own[s]
    BY <1>1, <2>1
  <2>3. \A c \in Company : Seen(a)'[Row(c)] = db'[Row(c)]
    BY <2>2, SeesCommitted DEF LiveInv
  <2>4. Extending(db, Seen(a)')
    BY <2>1, <2>3 DEF Extending, Live, Merged
  <2>5. Free(a, DOMAIN <<>>) /\ DOMAIN <<>> = {}
    BY EmptyIs DEF Free
  <2>6. DOMAIN own'[a] \subseteq DOMAIN <<>> \cup DOMAIN own[a]
    BY <2>2, <2>5
  <2>. QED BY <1>1, <2>1, <2>2, <2>4, <2>5, <2>6, AcceptorIdentity
<1>7. CASE CommitAccept(a)
  <2>1. Commit(a)
    BY <1>7 DEF CommitAccept
  <2>. QED BY <1>1, <2>1, CommitIdentity
<1>. QED BY <1>3, <1>4, <1>5, <1>6, <1>7 DEF AcceptStep

---------------------------------------------------------------------------
(* Commit, the second transaction of an import, edits and requests *)

(* An upsert commits. *)
LEMMA CommitsSound ==
  ASSUME LiveInv, LiveInv', AcceptInv, IdentityInv, NEW u \in Upsert, CommitUpsert(u) PROVE IdentityInv'
<1>1. u \in Txn /\ up = [v \in Upsert |-> up[v]]
  BY UpHere
<1>2. Commit(u) /\ UNCHANGED born /\ up[u].pc = "commit" /\ Goto(u, "done")
  BY DEF CommitUpsert
<1>3. up' = [up EXCEPT ![u] = [up[u] EXCEPT !.pc = "done"]]
  BY <1>2, Zenon DEF Goto
<1>4. up'[u] = [up[u] EXCEPT !.pc = "done"] /\ \A v \in Upsert : v # u => up'[v] = up[v]
  BY <1>1, <1>3
<1>. QED BY <1>1, <1>2, <1>4, CommitIdentity

(* The second transaction of an import. *)
LEMMA DescribeSound ==
  ASSUME LiveInv, LiveInv', IdentityInv, NEW u \in Upsert, Describe(u) PROVE IdentityInv'
<1>1. Store(OneRow(Profile(up[u].company), TRUE)) /\ UNCHANGED <<own, born>> /\ Goto(u, "described") /\ up[u].pc = "done"
  BY DEF Describe
<1>2. /\ \A c \in Company : Row(c) \in DOMAIN db' /\ db'[Row(c)] = db[Row(c)]
      /\ \A i \in Identifier : Ident(i) \in DOMAIN db' /\ db'[Ident(i)] = db[Ident(i)]
  BY <1>1, StoredElsewhere, OneElsewhere, RegistryRows
<1>. DEFINE r == [up[u] EXCEPT !.pc = "described"]
<1>3. up = [v \in Upsert |-> up[v]] /\ IsUp(up[u])
  BY DEF LiveInv, UpShape
<1>4. r.pc = "described" /\ r.twice = up[u].twice
  BY <1>3 DEF IsUp, UpField
<1>5. up' = [up EXCEPT ![u] = r]
  BY <1>1, Zenon DEF Goto
<1>. HIDE DEF r
<1>6. \A v \in Upsert : up'[v] = up[v] \/ (up[v].pc \in Ended /\ up'[v].pc \in Ended /\ up'[v].twice = up[v].twice)
  BY <1>1, <1>3, <1>4, <1>5 DEF Ended
<1>. QED BY <1>1, <1>2, <1>6, ElsewhereIdentity

(* PUT of a view or a profile. *)
LEMMA EditSound ==
  ASSUME LiveInv, LiveInv', IdentityInv, NEW w \in Writer, Edit(w) PROVE IdentityInv'
<1>1. UNCHANGED <<own, born, up>>
  BY DEF Edit, ResolveFor, PutView, PutProfile
<1>2. /\ \A c \in Company : Row(c) \in DOMAIN db' /\ db'[Row(c)] = db[Row(c)]
      /\ \A i \in Identifier : Ident(i) \in DOMAIN db' /\ db'[Ident(i)] = db[Ident(i)]
  <2>1. CASE ResolveFor(w)
    BY <2>1 DEF ResolveFor, LiveInv, DbGood
  <2>2. CASE PutView(w) \/ PutProfile(w)
    <3>1. PICK x, y : Store(OneRow(x, y)) /\ (x = View(TenantOf[w], writer[w]) \/ x = Profile(writer[w]))
      BY <2>2 DEF PutView, PutProfile
    <3>2. Elsewhere(OneRow(x, y))
      BY <3>1, OneElsewhere, RegistryRows
    <3>. QED BY <3>1, <3>2, StoredElsewhere
  <2>. QED BY <2>1, <2>2 DEF Edit
<1>. QED BY <1>1, <1>2, ElsewhereIdentity

(* Every step of the pool. *)
LEMMA PoolSound ==
  ASSUME LiveInv, LiveInv', AcceptInv, IdentityInv, PoolStep PROVE IdentityInv'
BY RejectSound, BeginSound, LookUpSound, MatchedSound, LinkSound, InsertSound, IdentsSound, SourcesSound, ViewsSound,
   PointSound, AttachSound, FactsSound, SourceSound, CommitsSound, AbortSound, DescribeSound, EditSound
   DEF PoolStep, UpsertStep, Merging

(* Every step of a request. *)
LEMMA RequestSound ==
  ASSUME LiveInv, LiveInv', IdentityInv, NEW r \in Request, RequestStep(r) PROVE IdentityInv'
<1>1. UNCHANGED <<own, born, up>>
  BY DEF RequestStep, LookUpKey, ResolveInvitee, SendInvite, InviteBlocked, RequestFails, StoreAnswer
<1>2. /\ \A c \in Company : Row(c) \in DOMAIN db' /\ db'[Row(c)] = db[Row(c)]
      /\ \A i \in Identifier : Ident(i) \in DOMAIN db' /\ db'[Ident(i)] = db[Ident(i)]
  <2>1. CASE UNCHANGED db
    BY <2>1 DEF LiveInv, DbGood
  <2>2. CASE SendInvite(r)
    <3>1. PICK row : Store(OneRow(Invite(r), row))
      BY <2>2 DEF SendInvite
    <3>. QED BY <3>1, StoredElsewhere, OneElsewhere, RowsDiffer
  <2>. QED BY <2>1, <2>2
           DEF RequestStep, LookUpKey, ResolveInvitee, SendInvite, InviteBlocked, RequestFails, StoreAnswer
<1>. QED BY <1>1, <1>2, ElsewhereIdentity

(* Every step. *)
LEMMA IdentityKept == LiveInv /\ LiveInv' /\ AcceptInv /\ IdentityInv /\ [Next]_vars => IdentityInv'
<1>. SUFFICES ASSUME LiveInv, LiveInv', AcceptInv, IdentityInv, [Next]_vars PROVE IdentityInv'
  OBVIOUS
<1>1. CASE PoolStep
  BY <1>1, PoolSound
<1>2. CASE \E r \in Request : RequestStep(r)
  BY <1>2, RequestSound
<1>3. CASE \E a \in Acceptor : AcceptStep(a)
  BY <1>3, AcceptIdentity
<1>4. CASE (\E k \in DOMAIN stored : ForgetKey(k)) \/ (\E s \in Searcher : Search(s) \/ FindCompanyIds(s)) \/ UNCHANGED vars
  <2>1. UNCHANGED <<db, own, born, up>>
    BY <1>4 DEF ForgetKey, Search, SearchFinds, Hydrate, SearchAnswers, FindCompanyIds, Others, vars
  <2>2. /\ \A c \in Company : Row(c) \in DOMAIN db' /\ db'[Row(c)] = db[Row(c)]
        /\ \A i \in Identifier : Ident(i) \in DOMAIN db' /\ db'[Ident(i)] = db[Ident(i)]
    BY <2>1 DEF LiveInv, DbGood
  <2>. QED BY <2>1, <2>2, ElsewhereIdentity
<1>. QED BY <1>1, <1>2, <1>3, <1>4 DEF Next

(* The pool starts so. *)
LEMMA IdentityInit == Init => IdentityInv
<1>. SUFFICES ASSUME Init PROVE IdentityInv
  OBVIOUS
<1>1. own = [t \in Txn |-> <<>>] /\ up = [u \in Upsert |-> Idle] /\ LiveInv
  BY LiveInit DEF Init, RegistryInit
<1>2. \A t \in Txn : DOMAIN own[t] = {} /\ own[t] = <<>>
  BY <1>1, EmptyIs
<1>3. \A u \in Upsert : up[u].pc = "idle" /\ up[u].losers = {} /\ ~up[u].twice /\ u \in Txn
  BY <1>1, Transactors DEF Idle
<1>4. ASSUME NEW t \in Txn
      PROVE  /\ \A c \in Company : Seen(t)[Row(c)] = db[Row(c)]
             /\ \A i \in Identifier : Seen(t)[Ident(i)] = db[Ident(i)]
  BY <1>1, <1>2, SeenIs DEF LiveInv, DbGood
<1>5. Alone /\ NoIdents
  BY <1>2, Transactors DEF Alone, NoIdents
<1>6. Fresh
  <2>1. \A u \in Upsert : u \notin Born
    BY <1>1, <1>3 DEF LiveInv, BirthsOK
  <2>. QED BY <1>1, <1>2, <2>1 DEF Fresh, LiveInv, DbGood
<1>7. Listed
  BY <1>3 DEF Listed, Lists, Working, Merger, Looking
<1>8. Decided
  BY <1>3 DEF Decided, Committed
<1>9. \A t \in Txn : Tame(t)
  BY <1>4 DEF Tame, Extending, Live, Merged
<1>10. \A u \in Upsert : Sound(u)
  <2>. TAKE u \in Upsert
  <2>1. Moves(Seen(u), up[u])
    BY <1>3, <1>4 DEF Moves, Tied
  <2>2. Gathers(u, Seen(u), up[u])
    BY <1>3 DEF Gathers, Working, Merger, Looking
  <2>. QED BY <2>1, <2>2 DEF Sound
<1>. QED BY <1>5, <1>6, <1>7, <1>8, <1>9, <1>10 DEF IdentityInv

(* Strong identifiers decide identity. *)
LEMMA DecidedOne == Decided => StrongDecides
<1>. SUFFICES ASSUME Decided, NEW u \in Upsert, Committed(u)
              PROVE  Cardinality({Holder(db, i) : i \in StrongOf(u)}) <= 1
  BY DEF StrongDecides, StrongOf
<1>1. \A i, j \in StrongOf(u) : Holder(db, i) = Holder(db, j)
  BY DEF Decided, Holder
<1>2. CASE StrongOf(u) = {}
  <2>1. {Holder(db, i) : i \in StrongOf(u)} = {}
    BY <1>2
  <2>. QED BY <2>1, FS_EmptySet
<1>3. CASE StrongOf(u) # {}
  <2>1. PICK i \in StrongOf(u) : TRUE
    BY <1>3
  <2>2. {Holder(db, j) : j \in StrongOf(u)} = {Holder(db, i)}
    BY <1>1, <2>1
  <2>. QED BY <2>2, FS_Singleton
<1>. QED BY <1>2, <1>3

(* Strong identifiers decide identity (registry/index.ts): those of every  *)
(* committed upsert lead to one company, whatever upserts, merges and      *)
(* acceptances overlap with it, while no merge that was committed merged   *)
(* away a company that another had merged away already.                    *)
THEOREM OneIdentitySafe == Spec => []OneIdentity
<1>1. IdentityInv => OneIdentity
  BY DecidedOne DEF IdentityInv, NoneTwice, OneIdentity
<1>2. Init => LiveInv /\ AcceptInv /\ IdentityInv
  BY LiveInit, AcceptInit, IdentityInit
<1>3. LiveInv /\ AcceptInv /\ IdentityInv /\ [Next]_vars => LiveInv' /\ AcceptInv' /\ IdentityInv'
  BY LiveKept, AcceptKept, IdentityKept
<1>. QED BY <1>1, <1>2, <1>3, PTL DEF Spec
=============================================================================
