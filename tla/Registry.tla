------------------------------ MODULE Registry ------------------------------
(***************************************************************************)
(* The company registry (spine/registry/index.ts): upsert, the only way    *)
(* into the pool, with the merges it makes, the tenants' own views of a    *)
(* company, its profile, and the import that goes through a file row by    *)
(* row (api/routes/companies.ts).                                          *)
(*                                                                         *)
(* Grain of atomicity.  A step is one statement of a transaction, as the   *)
(* module Transactions has them.  Statements without a partner to race     *)
(* with are taken together, and a row holds what the properties tell apart.*)
(*                                                                         *)
(* A company is named after the upsert that creates it.  created_at is the *)
(* start of its transaction, so the order in which they start is kept.     *)
(*                                                                         *)
(* An operator called Mutant_... is not part of the model: it is a bug put *)
(* in the place of the definition after it, to see a property catch it.    *)
(***************************************************************************)
EXTENDS SequencesExt, Transactions

CONSTANTS
  Upsert,       \* requests to upsert; a row of an import is one as well
  Writer,       \* requests to change a view or a profile
  Acceptor,     \* transactions of discovery, which lock the same rows
  Tenant, Identifier, Country,
  Strong,       \* identifiers of type cr, vat and domain
  Raw,          \* Raw[u]: what u gives for identifiers, as it gives it
  Form,         \* the identifier a raw one stands for, or Nothing when it is not one
  DomainOf,     \* of an identifier that is an email: its domain; of another: Nothing
  Useless,      \* domains of mailbox providers and the marketplace's own
  TenantOf,     \* of an upsert and of a writer
  CountryOf,    \* the country u gives, or Nothing
  Registered,   \* upserts that carry what the registrar says
  Imported,     \* upserts that are the row of an import
  Described,    \* rows of an import that have the columns of a profile
  Alike,        \* <<u, c>>: u's name and country are close enough to c's
  Known,        \* companies there are already, oldest first
  Held,         \* identifier -> the known company that has it, or Nothing
  Nothing

Company == Upsert \cup {Known[k] : k \in 1..Len(Known)}

ASSUME RegistryAssumption ==
  /\ Txn = Upsert \cup Acceptor
  /\ IsFiniteSet(Company) /\ Strong \subseteq Identifier
  /\ Form \in [DOMAIN Form -> Identifier \cup {Nothing}] /\ Raw \in [Upsert -> Seq(DOMAIN Form)]
  /\ DomainOf \in [Identifier -> Identifier \cup {Nothing}]
  /\ Described \subseteq Imported /\ Imported \subseteq Upsert
  /\ Alike \subseteq Upsert \X Company
  /\ Known \in Seq(Company \ Upsert) /\ Nothing \notin Company
  /\ \A j, k \in 1..Len(Known) : Known[j] = Known[k] => j = k
  /\ Held \in [Identifier -> (Company \ Upsert) \cup {Nothing}]

VARIABLES
  born,      \* companies in the order of their created_at
  up,        \* up[u]: where upsert u is and what it has read
  writer     \* writer[w]: the company the writer resolved, once it did

Ident(i)   == <<"ident", i>>      \* company_identifiers: its company
Row(c)     == <<"company", c>>    \* companies
Source(u)  == <<"source", u>>     \* company_sources: the company of u's row
View(t, c) == <<"view", t, c>>    \* tenant_company: the tags
Profile(c) == <<"profile", c>>    \* company_profiles

NoCompany == [exists |-> FALSE, merged |-> Nothing, ref |-> Nothing, country |-> Nothing, named |-> "claimed"]
NoView    == [exists |-> FALSE, tags |-> {}]

Tables ==
  LET idents  == {Ident(i) : i \in Identifier}
      rows    == {Row(c) : c \in Company}
      sources == {Source(u) : u \in Upsert}
      views   == {View(t, c) : t \in Tenant, c \in Company}
  IN [r \in idents \cup rows \cup sources \cup views \cup {Profile(c) : c \in Company} |->
        CASE r \in idents  -> Held[r[2]]
          [] r \in rows    -> [NoCompany EXCEPT !.exists = r[2] \notin Upsert]
          [] r \in sources -> Nothing
          [] r \in views   -> NoView
          [] OTHER         -> FALSE]

Idle == [pc |-> "idle", todo |-> <<>>, rest |-> <<>>, found |-> <<>>, company |-> Nothing, losers |-> {},
         country |-> Nothing, named |-> "claimed", twice |-> FALSE]

RegistryInit ==
  /\ own    = [t \in Txn |-> <<>>]
  /\ born   = Known
  /\ up     = [u \in Upsert |-> Idle]
  /\ writer = [w \in Writer |-> Nothing]

---------------------------------------------------------------------------
(* Identity *)

(* The company that survived, however often it was merged since. *)
Resolve(d, c) ==
  LET at[n \in 0..Cardinality(Company)] ==
        IF n = 0 THEN c
        ELSE LET next == d[Row(at[n - 1])].merged IN IF next = Nothing THEN at[n - 1] ELSE next
  IN at[Cardinality(Company)]

Holder(d, i) == IF d[Ident(i)] = Nothing THEN Nothing ELSE Resolve(d, d[Ident(i)])

Place(c) == CHOOSE k \in 1..Len(born) : born[k] = c

Oldest(cs) == CHOOSE c \in cs : \A other \in cs : Place(c) <= Place(other)

---------------------------------------------------------------------------
(* upsert: who is it? *)

(* normalizeIdentifiers: an email yields its domain as well, unless that   *)
(* says nothing, and nothing is there twice.                               *)
Added(ids, i) == IF i = Nothing \/ i \in Useless \/ Contains(ids, i) THEN ids ELSE Append(ids, i)

WithDomain(ids, i) == IF i = Nothing THEN ids ELSE Added(Added(ids, i), DomainOf[i])

Ids == [u \in Upsert |->
  LET ids[n \in 0..Len(Raw[u])] == IF n = 0 THEN <<>> ELSE WithDomain(ids[n - 1], Form[Raw[u][n]])
  IN ids[Len(Raw[u])]]

StrongIds(u) ==
  LET strong[n \in 0..Len(Ids[u])] ==
        IF n = 0 THEN <<>>
        ELSE IF Ids[u][n] \in Strong THEN Append(strong[n - 1], Ids[u][n]) ELSE strong[n - 1]
  IN strong[Len(Ids[u])]

(* A row that offered identifiers none of which can be matched on is not   *)
(* taken in, or it would land as a company that quietly duplicates.        *)
Unusable(u) == u \in Imported /\ Raw[u] # <<>> /\ Ids[u] = <<>>

RejectRow(u) ==
  /\ up[u].pc = "idle" /\ Unusable(u)
  /\ up' = [up EXCEPT ![u].pc = "aborted"]
  /\ UNCHANGED <<db, own, born, writer>>

Begin(u) ==
  /\ up[u].pc = "idle" /\ ~Unusable(u)
  /\ up' = [up EXCEPT ![u].pc = "match", ![u].todo = StrongIds(u), ![u].rest = Ids[u]]
  /\ born' = Append(born, u)
  /\ UNCHANGED <<db, own, writer>>

(* companiesOwning: one lookup for each identifier, and the row as it is. *)
LookUp(u) ==
  /\ up[u].pc \in {"match", "again"} /\ up[u].todo # <<>>
  /\ LET d == Seen(u)
         c == Holder(d, Head(up[u].todo))
     IN up' = [up EXCEPT ![u].todo = Tail(@),
                         ![u].found = IF c = Nothing THEN @ ELSE Overlay(OneRow(c, d[Row(c)]), @)]
  /\ UNCHANGED <<db, own, born, writer>>

(* What u goes on with: a company, the row it was read as, what to merge   *)
(* into it, and the identifiers that are left to attach.                   *)
Settles(u, c, row, losers, todo) ==
  up' = [up EXCEPT ![u].company = c, ![u].country = row.country, ![u].named = row.named,
                   ![u].losers = losers, ![u].todo = todo, ![u].found = <<>>,
                   ![u].pc = IF losers = {} THEN "attach" ELSE "idents"]

Matched(u) ==
  /\ up[u].pc \in {"match", "again"} /\ up[u].todo = <<>> /\ DOMAIN up[u].found # {}
  /\ LET c == Oldest(DOMAIN up[u].found)
     IN Settles(u, c, up[u].found[c], DOMAIN up[u].found \ {c}, up[u].rest)
  /\ UNCHANGED <<db, own, born, writer>>

(* fuzzyMatch: no strong identifier is known, and a live company's name is *)
(* close enough; otherwise insertCompany.                                  *)
LiveAlike(u) == {c \in Company : /\ <<u, c>> \in Alike
                                 /\ Seen(u)[Row(c)].exists /\ Seen(u)[Row(c)].merged = Nothing}

LinkByName(u) ==
  /\ up[u].pc = "match" /\ up[u].todo = <<>> /\ DOMAIN up[u].found = {}
  /\ \E c \in LiveAlike(u) : Settles(u, c, Seen(u)[Row(c)], {}, Ids[u])
  /\ UNCHANGED <<db, own, born, writer>>

InsertCompany(u) ==
  /\ up[u].pc = "match" /\ up[u].todo = <<>> /\ DOMAIN up[u].found = {}
  /\ LiveAlike(u) = {}
  /\ LET row == [NoCompany EXCEPT !.exists = TRUE, !.country = CountryOf[u]]
     IN /\ Write(u, OneRow(Row(u), row))
        /\ Settles(u, u, row, {}, Ids[u])
  /\ UNCHANGED <<db, born, writer>>

---------------------------------------------------------------------------
(* merge: for each loser its identifiers, its sources, the tenants' views  *)
(* and at last its own row, which goes on pointing at the survivor         *)

Losing(u) == Oldest(up[u].losers)
OfLoser(u, rows) == {r \in rows : Seen(u)[r] = Losing(u)}
Moved(u, rows) == [r \in OfLoser(u, rows) |-> up[u].company]
Goto(u, pc) == up' = [up EXCEPT ![u].pc = pc]

MergeIdents(u) ==
  /\ up[u].pc = "idents"
  /\ Write(u, Moved(u, {Ident(i) : i \in Identifier}))
  /\ Goto(u, "sources") /\ UNCHANGED <<db, born, writer>>

MergeSources(u) ==
  /\ up[u].pc = "sources"
  /\ Write(u, Moved(u, {Source(v) : v \in Upsert}))
  /\ Goto(u, "views") /\ UNCHANGED <<db, born, writer>>

(* A tenant that knew both ends up with one view, the tags of both in it. *)
MergeViews(u) ==
  LET d    == Seen(u)
      both == {t \in Tenant : d[View(t, Losing(u))].exists /\ d[View(t, up[u].company)].exists}
  IN /\ up[u].pc = "views"
     /\ Write(u, Overlay([r \in {View(t, up[u].company) : t \in both} |->
                            [d[r] EXCEPT !.tags = @ \cup d[View(r[2], Losing(u))].tags]],
                         [r \in {View(t, Losing(u)) : t \in both} |-> NoView]))
     /\ Goto(u, "move") /\ UNCHANGED <<db, born, writer>>

(* A tenant that knew the loser only keeps its view.  When it has written  *)
(* one of the survivor meanwhile, the key is taken and the merge fails.    *)
Movable(u) == {t \in Tenant : Seen(u)[View(t, Losing(u))].exists}
KeyTaken(u) == \E t \in Movable(u) : Seen(u)[View(t, up[u].company)].exists

MoveViews(u) ==
  /\ up[u].pc = "move" /\ ~KeyTaken(u)
  /\ Write(u, Overlay([r \in {View(t, up[u].company) : t \in Movable(u)} |-> Seen(u)[View(r[2], Losing(u))]],
                      [r \in {View(t, Losing(u)) : t \in Movable(u)} |-> NoView]))
  /\ Goto(u, "point") /\ UNCHANGED <<db, born, writer>>

PointAtSurvivor(u) ==
  /\ up[u].pc = "point"
  /\ Write(u, OneRow(Row(Losing(u)), [Seen(u)[Row(Losing(u))] EXCEPT !.merged = up[u].company]))
  /\ up' = [up EXCEPT ![u].losers = @ \ {Losing(u)},
                      ![u].twice = @ \/ Seen(u)[Row(Losing(u))].merged # Nothing,
                      ![u].pc = IF up[u].losers = {Losing(u)} THEN "attach" ELSE "idents"]
  /\ UNCHANGED <<db, born, writer>>

---------------------------------------------------------------------------
(* upsert: what it says about the company *)

(* A weak identifier that points elsewhere stays there.  A strong one that *)
(* does appeared since the match: identity is looked at once more.         *)
Mutant_LeavesStrong(u) ==
  LET i == Head(up[u].todo) d == Seen(u) IN
  /\ up[u].pc = "attach" /\ up[u].todo # <<>>
  /\ Free(u, {Ident(i)})
  /\ own' = [own EXCEPT ![u] = IF d[Ident(i)] = Nothing THEN Overlay(OneRow(Ident(i), up[u].company), @) ELSE @]
  /\ up' = [up EXCEPT ![u].todo = Tail(@)]
  /\ UNCHANGED <<db, born, writer>>

Mutant_OutsideTheTransaction(u) ==
  LET i == Head(up[u].todo) IN
  /\ up[u].pc = "attach" /\ up[u].todo # <<>>
  /\ Free(u, {Ident(i)})
  /\ db' = IF db[Ident(i)] = Nothing THEN [db EXCEPT ![Ident(i)] = up[u].company] ELSE db
  /\ up' = [up EXCEPT ![u].todo = Tail(@)]
  /\ UNCHANGED <<own, born, writer>>

Attach(u) ==
  LET i == Head(up[u].todo) d == Seen(u) IN
  /\ up[u].pc = "attach" /\ up[u].todo # <<>>
  /\ Free(u, {Ident(i)})
  /\ own' = [own EXCEPT ![u] = IF d[Ident(i)] = Nothing THEN Overlay(OneRow(Ident(i), up[u].company), @) ELSE @]
  /\ up' = IF d[Ident(i)] # Nothing /\ Holder(d, i) # up[u].company /\ i \in Strong
           THEN [up EXCEPT ![u].pc = "again", ![u].todo = StrongIds(u), ![u].rest = Tail(up[u].todo)]
           ELSE [up EXCEPT ![u].todo = Tail(@)]
  /\ UNCHANGED <<db, born, writer>>

(* A later source only fills gaps, unless the registrar said it: an update *)
(* of the whole row from what was read of it.                              *)
UpdateFacts(u) ==
  LET authoritative == u \in Registered IN
  /\ up[u].pc = "attach" /\ up[u].todo = <<>>
  /\ IF authoritative \/ up[u].country = Nothing
     THEN Write(u, OneRow(Row(up[u].company),
            [Seen(u)[Row(up[u].company)] EXCEPT
               !.named   = IF authoritative THEN "registered" ELSE up[u].named,
               !.country = IF CountryOf[u] # Nothing THEN CountryOf[u] ELSE up[u].country]))
     ELSE UNCHANGED own
  /\ Goto(u, "view") /\ UNCHANGED <<db, born, writer>>

(* Its source row and the tenant's view, which holds the tag u. *)
WriteSourceAndView(u) ==
  /\ up[u].pc = "view"
  /\ Write(u, Overlay(OneRow(Source(u), up[u].company),
                      OneRow(View(TenantOf[u], up[u].company), [exists |-> TRUE, tags |-> {u}])))
  /\ Goto(u, "commit") /\ UNCHANGED <<db, born, writer>>

CommitUpsert(u) ==
  /\ up[u].pc = "commit"
  /\ Commit(u)
  /\ Goto(u, "done") /\ UNCHANGED <<born, writer>>

(* A crash, a failed query, or Postgres breaking a deadlock. *)
Abort(u) ==
  /\ up[u].pc \notin {"idle", "done", "described", "aborted"}
  /\ RollBack(u)
  /\ up' = [up EXCEPT ![u] = [Idle EXCEPT !.pc = "aborted"]]
  /\ UNCHANGED <<db, born, writer>>

---------------------------------------------------------------------------
(* A row of an import is described in a second transaction; PUT view and   *)
(* PUT profile resolve the company in a statement before the one that      *)
(* writes                                                                  *)

Describe(u) ==
  /\ up[u].pc = "done" /\ u \in Described
  /\ Store(OneRow(Profile(up[u].company), TRUE))
  /\ Goto(u, "described") /\ UNCHANGED <<own, born, writer>>

ResolveFor(w) ==
  /\ writer[w] = Nothing
  /\ \E c \in Company : db[Row(c)].exists /\ writer' = [writer EXCEPT ![w] = Resolve(db, c)]
  /\ UNCHANGED <<db, own, born, up>>

PutView(w) ==
  /\ writer[w] \in Company
  /\ Store(OneRow(View(TenantOf[w], writer[w]), [exists |-> TRUE, tags |-> {w}]))
  /\ writer' = [writer EXCEPT ![w] = "done"] /\ UNCHANGED <<own, born, up>>

PutProfile(w) ==
  /\ writer[w] \in Company
  /\ Store(OneRow(Profile(writer[w]), TRUE))
  /\ writer' = [writer EXCEPT ![w] = "done"] /\ UNCHANGED <<own, born, up>>

---------------------------------------------------------------------------
Merging(u) == MergeIdents(u) \/ MergeSources(u) \/ MergeViews(u) \/ MoveViews(u) \/ PointAtSurvivor(u)

UpsertStep(u) ==
  \/ RejectRow(u) \/ Begin(u) \/ LookUp(u) \/ Matched(u) \/ LinkByName(u) \/ InsertCompany(u)
  \/ Merging(u) \/ Attach(u) \/ UpdateFacts(u) \/ WriteSourceAndView(u) \/ CommitUpsert(u)
  \/ Abort(u) \/ Describe(u)

RegistryNext ==
  \/ \E u \in Upsert : UpsertStep(u)
  \/ \E w \in Writer : ResolveFor(w) \/ PutView(w) \/ PutProfile(w)

---------------------------------------------------------------------------
(* Properties *)

RegistryTypeOK ==
  /\ \A i \in Identifier : db[Ident(i)] \in Company \cup {Nothing}
  /\ \A c \in Company : db[Row(c)] \in
       [exists : BOOLEAN, merged : Company \cup {Nothing}, ref : Acceptor \cup {Nothing},
        country : Country \cup {Nothing}, named : {"claimed", "registered"}]
  /\ \A t \in Txn : DOMAIN own[t] \subseteq DOMAIN db
  /\ \A u \in Upsert : up[u].company \in Company \cup {Nothing} /\ up[u].losers \subseteq Company

Committed(u) == up[u].pc \in {"done", "described"}

(* index.ts:147 "Strong identifiers decide identity: one match is the      *)
(* company, several means two records were the same company all along and  *)
(* get merged": all those of an upsert that was committed lead to one      *)
(* company, and go on doing so.                                            *)
StrongDecides ==
  \A u \in Upsert : Committed(u) =>
    Cardinality({Holder(db, i) : i \in {Ids[u][k] : k \in 1..Len(Ids[u])} \cap Strong}) <= 1

(* So it is, whatever was merged or inserted beside it and after it, while *)
(* no company that one merge had merged away was merged into another by a  *)
(* second, which had read it before the first was committed.               *)
OneIdentity == (\A u \in Upsert : Committed(u) => ~up[u].twice) => StrongDecides

(* Merges lead to a live company: whoever follows merged_into from any     *)
(* company comes to one that was not merged away, and nothing is held by a *)
(* company that was never committed.                                       *)
MergesEndLive ==
  /\ \A c \in Company : db[Row(c)].exists =>
       LET end == db[Row(Resolve(db, c))] IN end.exists /\ end.merged = Nothing
  /\ \A i \in Identifier : db[Ident(i)] # Nothing => db[Row(db[Ident(i)])].exists

(* One real company is one row: a live company an upsert inserted has an   *)
(* identifier, if it was given any.                                        *)
NoOrphan ==
  \A u \in Upsert : Committed(u) /\ db[Row(u)].exists /\ db[Row(u)].merged = Nothing =>
    Ids[u] = <<>> \/ \E i \in Identifier : db[Ident(i)] = u

(* A tenant that knew both companies ends up with one view: none is left   *)
(* on a company that was merged away.                                      *)
ViewsOnLive ==
  \A t \in Tenant, c \in Company : db[View(t, c)].exists => db[Row(c)].merged = Nothing

(* A later source only fills gaps: the country, once known, and the name,  *)
(* once registered, are changed by the registrar only.                     *)
OnlyFillsGaps ==
  [][\A c \in Company : LET old == db[Row(c)] new == db'[Row(c)] IN
       /\ old.country # Nothing /\ new.country # old.country
            => \E u \in Registered : up[u].pc = "commit"
       /\ old.named = "registered" => new.named = "registered"]_<<db, up>>
=============================================================================
