------------------------------ MODULE Contacts ------------------------------
(***************************************************************************)
(* A tenant's contacts (modules/campaigns/contacts.ts) and audiences       *)
(* (modules/campaigns/audiences.ts).  A contact is stored or filled in by  *)
(* a request, by a row of an import or by a row of members given by        *)
(* address: upsertContact in all of them, in transactions of one row or of *)
(* a batch with a savepoint for each row.                                  *)
(*                                                                         *)
(* A caller is one request; it brings batches of rows.  A contact is named *)
(* after the row that creates it.  A step is one statement, as the module  *)
(* Transactions has them; each address has a unique key.                   *)
(*                                                                         *)
(* An operator called Mutant_... is not part of the model: it is a bug put *)
(* in the place of the definition after it, to see a property catch it.    *)
(***************************************************************************)
EXTENDS SequencesExt, Transactions

CONSTANTS
  Importer,     \* requests to import a file
  Poster,       \* requests to store one contact
  Adder,        \* requests to add members by address
  Patcher,      \* requests to change a contact
  Reviser,      \* requests to change an audience
  Batches,      \* Batches[j]: the rows of j, batch by batch
  Entry,        \* rows
  Fields,       \* Fields[x]: the phone, email and company a row or a patch names
  Columns,      \* Columns[x]: what an imported row says of its attributes and consent
  Registered,   \* companies the registry has
  OwnerOf,      \* the company the registry has for an address, or Nothing
  Old,          \* contacts there are already
  OldPhone,     \* their phones
  Audience, Campaign,
  New,          \* audiences that are not there yet
  NameOf,       \* the name, or definition, of a new audience and of a revision
  PatchOf,      \* PatchOf[q]: the contact q changes
  AudienceOf,   \* of an adder, a reviser and a campaign
  Revises,      \* Revises[r]: "name" or "definition"
  MaxParties,   \* bound: requests that take part
  Picks,        \* bound: whom requests put into an audience, or take out, by id
  Nothing

Caller  == Importer \cup Poster \cup Adder
Contact == Entry \cup Old

Rows(j) == UNION {ToSet(Batches[j][b]) : b \in DOMAIN Batches[j]}

(* A row stands for its line of the file, so none comes twice; a file with *)
(* no rows is one empty batch.                                             *)
ASSUME ContactsAssumption ==
  /\ Txn = Caller /\ MaxParties \in Nat
  /\ Importer \cap (Poster \cup Adder) = {} /\ Patcher \cap Reviser = {}
  /\ Entry \cap Old = {} /\ Nothing \notin Contact /\ Entry \cup Patcher \subseteq DOMAIN Fields
  /\ \A q \in Patcher : PatchOf[q] \in Contact
  /\ \A j \in Caller : /\ Batches[j] \in Seq(Seq(Entry)) \ {<<>>} /\ (j \notin Importer => Len(Batches[j]) = 1)
                       /\ \A b, d \in DOMAIN Batches[j] :
                            \A i \in DOMAIN Batches[j][b], k \in DOMAIN Batches[j][d] :
                              Batches[j][b][i] = Batches[j][d][k] => b = d /\ i = k
  /\ \A i, j \in Caller : i # j => Rows(i) \cap Rows(j) = {}

VARIABLES
  call,      \* call[j]: where a caller is
  patch,     \* patch[q]: what a patch has read
  campaign   \* campaign[k]: whether it was created; it points at AudienceOf[k]

vars == <<db, own, call, patch, campaign>>

Key(a)       == <<"key", a>>             \* the contact with this phone or email
Person(c)    == <<"contact", c>>         \* contacts
Consent(x)   == <<"consent", x>>         \* the addresses row x recorded consent for
Member(s, c) == <<"member", s, c>>       \* audience_members
List(s)      == <<"audience", s>>        \* audiences

Address  == (UNION {{Fields[x].phone, Fields[x].email} : x \in DOMAIN Fields}
             \cup {OldPhone[c] : c \in Old}) \ {Nothing}
NoPerson == [exists |-> FALSE, phone |-> Nothing, email |-> Nothing, company |-> Nothing]

(* A known contact has a telephone number. *)
Tables ==
  LET keys    == {Key(a) : a \in Address}
      people  == {Person(c) : c \in Contact}
      members == {Member(s, c) : s \in Audience, c \in Contact}
      lists   == {List(s) : s \in Audience}
      knows(c, a) == c \in Old /\ OldPhone[c] = a
  IN [r \in keys \cup people \cup members \cup lists \cup {Consent(x) : x \in Entry} |->
        CASE r \in keys    -> IF \E c \in Old : knows(c, r[2]) THEN CHOOSE c \in Old : knows(c, r[2]) ELSE Nothing
          [] r \in people  -> IF r[2] \in Old THEN [NoPerson EXCEPT !.exists = TRUE, !.phone = OldPhone[r[2]]] ELSE NoPerson
          [] r \in members -> FALSE
          [] r \in lists   -> [is |-> IF r[2] \in Audience \ New THEN "there" ELSE "new", name |-> r[2], definition |-> "old"]
          [] OTHER         -> {}]

Init ==
  /\ db = Tables
  /\ own = [t \in Txn |-> <<>>]
  /\ call = [j \in Caller |-> [pc |-> "idle", batch |-> 1, rows |-> <<>>, match |-> Nothing,
                               company |-> Nothing, ids |-> {}, created |-> 0, updated |-> 0, rejected |-> 0]]
  /\ patch = [q \in Patcher \cup Reviser |-> [pc |-> "idle", read |-> Nothing]]
  /\ campaign = [k \in Campaign |-> FALSE]

Parties == Cardinality({j \in Caller : call[j].pc # "idle"})
           + Cardinality({q \in DOMAIN patch : patch[q].pc # "idle"})

There(s)           == db[List(s)].is = "there"
NameTaken(s, name) == \E other \in Audience \ {s} : There(other) /\ db[List(other)].name = name

Given(x) == {Fields[x].phone, Fields[x].email} \ {Nothing}
Or(new, old) == IF new # Nothing THEN new ELSE old    \* coalesce

---------------------------------------------------------------------------
(* What can be said of a row before anything is read: normalizeAddresses,  *)
(* and planRow for a row of a file.                                        *)

NoAddresses(x) == Given(x) = {} \/ ~Columns[x].addressesAreValid

ConsentColumns == {"channels", "purpose", "source", "date"}

Mutant_AddressMayBeStored(x) ==
  LET row == Columns[x] IN
  \/ NoAddresses(x) \/ ~row.attributesAreObject
  \/ row.consent \notin {{}, ConsentColumns}
  \/ /\ row.consent = ConsentColumns
     /\ \/ \E kind \in row.channels : kind \notin {"phone", "email"}
        \/ ~row.purposeIsKnown \/ row.date # "past"

Unplannable(x) ==
  LET row == Columns[x] IN
  \/ NoAddresses(x) \/ ~row.attributesAreObject
  \/ row.consent \notin {{}, ConsentColumns}
  \/ /\ row.consent = ConsentColumns
     /\ \/ \E kind \in row.channels : kind \notin {"phone", "email"} \/ Fields[x][kind] = Nothing
        \/ ~row.purposeIsKnown \/ row.date # "past"

---------------------------------------------------------------------------
(* upsertContact, one row after the other *)

Top(j) == Head(call[j].rows)

(* withTenant begins a transaction for the next batch of 500 rows. *)
NextBatch(j) ==
  /\ \/ call[j].pc = "idle" /\ Parties < MaxParties
        /\ (j \in Adder => There(AudienceOf[j]))
     \/ call[j].pc = "between"
  /\ call' = [call EXCEPT ![j].pc = "row", ![j].rows = Batches[j][call[j].batch]]
  /\ UNCHANGED <<db, own, patch, campaign>>

Thrown(j) == RollBack(j) /\ call' = [call EXCEPT ![j].pc = "thrown"]

(* A CampaignError takes a row of a file or of members, and a request of   *)
(* one contact as a whole.                                                 *)
Rejected(j) ==
  IF j \in Poster THEN Thrown(j)
  ELSE call' = [call EXCEPT ![j].pc = "row", ![j].rows = Tail(@), ![j].rejected = @ + 1] /\ UNCHANGED own

AtRow(j) == call[j].pc = "row" /\ call[j].rows # <<>>

BadRow(j) == IF j \in Importer THEN Unplannable(Top(j)) ELSE NoAddresses(Top(j))

RejectRow(j) ==
  /\ AtRow(j) /\ BadRow(j)
  /\ Rejected(j)
  /\ UNCHANGED <<db, patch, campaign>>

Matches(j, x) == {Seen(j)[Key(a)] : a \in Given(x)} \ {Nothing}

(* companyFor: the one it named, the one it had, or the registry's.  A row *)
(* of a file may name one the registry has not; others may not.            *)
Named(x) == IF Fields[x].company \in Registered THEN Fields[x].company ELSE Nothing

CompanyFor(x, current) ==
  Or(Named(x), Or(current,
     IF Fields[x].phone # Nothing /\ OwnerOf[Fields[x].phone] # Nothing THEN OwnerOf[Fields[x].phone]
     ELSE IF Fields[x].email # Nothing THEN OwnerOf[Fields[x].email] ELSE Nothing))

(* contact_ambiguous: never merges two stored contacts; company_not_found. *)
Refused(j, x) ==
  \/ Cardinality(Matches(j, x)) > 1
  \/ j \notin Importer /\ Fields[x].company # Named(x)

Match(j) ==
  LET x == Top(j)
      c == IF Matches(j, x) = {} THEN Nothing ELSE CHOOSE c \in Matches(j, x) : TRUE
  IN /\ AtRow(j) /\ ~BadRow(j)
     /\ IF Refused(j, x) THEN Rejected(j)
        ELSE /\ call' = [call EXCEPT ![j].pc = "put", ![j].match = c,
                   ![j].company = CompanyFor(x, IF c = Nothing THEN Nothing ELSE Seen(j)[Person(c)].company)]
             /\ UNCHANGED own
     /\ UNCHANGED <<db, patch, campaign>>

(* The contact row x is written to, and what is stored of it then: an      *)
(* address it gives replaces the one of its kind.                          *)
Target(j) == Or(call[j].match, Top(j))

Filled(c, x, company, d) ==
  [exists |-> TRUE, phone |-> Or(Fields[x].phone, d[Person(c)].phone),
   email |-> Or(Fields[x].email, d[Person(c)].email), company |-> company]

KeysOf(p) == {p.phone, p.email} \ {Nothing}

(* The person's row, its new keys, and the keys it gave up. *)
Stored(c, p, d) ==
  Overlay(OneRow(Person(c), p),
    Overlay([k \in {Key(a) : a \in KeysOf(p)} |-> c],
            [k \in {Key(a) : a \in KeysOf(d[Person(c)]) \ KeysOf(p)} |-> Nothing]))

Taken(c, x, d) == \E a \in Given(x) : d[Key(a)] \notin {Nothing, c}

Put(j) ==
  LET x == Top(j) c == Target(j)
      p == Filled(c, x, call[j].company, Seen(j))
      granted == IF j \in Importer /\ Columns[x].consent # {}
                 THEN {p[kind] : kind \in Columns[x].channels} ELSE {}
  IN /\ call[j].pc = "put" /\ ~Taken(c, x, Seen(j))
     /\ Write(j, Overlay(OneRow(Consent(x), granted), Stored(c, p, Seen(j))))
     /\ call' = [call EXCEPT ![j].pc = "row", ![j].rows = Tail(@), ![j].ids = @ \cup {c},
                             ![j].created = IF c = x THEN @ + 1 ELSE @,
                             ![j].updated = IF c = x THEN @ ELSE @ + 1]
     /\ UNCHANGED <<db, patch, campaign>>

(* Another request stored one of the addresses since: the unique index     *)
(* refuses, which members given by address report as a rejected row, and   *)
(* an import and a request do not expect.                                  *)
Mutant_GoesOn(j) ==
  /\ call[j].pc = "put" /\ Taken(Target(j), Top(j), Seen(j))
  /\ Free(j, {Key(a) : a \in Given(Top(j))})
  /\ IF j \in Adder THEN Rejected(j)
     ELSE IF j \in Importer
     THEN /\ RollBack(j)
          /\ call' = [call EXCEPT ![j].pc = IF @ = "put" /\ call[j].batch = Len(Batches[j]) THEN "done" ELSE "between",
                                  ![j].batch = @ + 1, ![j].rejected = @ + Len(call[j].rows), ![j].rows = <<>>]
     ELSE Thrown(j)
  /\ UNCHANGED <<db, patch, campaign>>

IndexRefuses(j) ==
  /\ call[j].pc = "put" /\ Taken(Target(j), Top(j), Seen(j))
  /\ Free(j, {Key(a) : a \in Given(Top(j))})
  /\ IF j \in Adder THEN Rejected(j) ELSE Thrown(j)
  /\ UNCHANGED <<db, patch, campaign>>

(* The batch commits, with the members it was about. *)
EndBatch(j) ==
  /\ call[j].pc = "row" /\ call[j].rows = <<>> /\ j \notin Adder
  /\ Commit(j)
  /\ call' = [call EXCEPT ![j].pc = IF call[j].batch = Len(Batches[j]) THEN "done" ELSE "between",
                          ![j].batch = @ + 1]
  /\ UNCHANGED <<patch, campaign>>

AddMembers(j) ==
  LET s == AudienceOf[j] IN
  /\ call[j].pc = "row" /\ call[j].rows = <<>> /\ j \in Adder
  /\ IF There(s)
     THEN /\ db' = Overlay([r \in {Member(s, c) : c \in call[j].ids} |-> TRUE], Seen(j))
          /\ RollBack(j)
          /\ call' = [call EXCEPT ![j].pc = "done"]
     ELSE Thrown(j) /\ UNCHANGED db
  /\ UNCHANGED <<patch, campaign>>

(* A crash, a failed query, or Postgres breaking a deadlock. *)
Fails(j) ==
  /\ call[j].pc \in {"row", "put"}
  /\ Thrown(j)
  /\ UNCHANGED <<db, patch, campaign>>

---------------------------------------------------------------------------
(* patchContact, and the audiences *)

Read(q, what) == patch' = [patch EXCEPT ![q] = [pc |-> "read", read |-> what]]
Over(q)       == patch' = [patch EXCEPT ![q].pc = "done"]

ReadContact(q) ==
  /\ patch[q].pc = "idle" /\ Parties < MaxParties /\ db[Person(PatchOf[q])].exists
  /\ Read(q, db[Person(PatchOf[q])])
  /\ UNCHANGED <<db, own, call, campaign>>

(* contact_conflict when another contact has the address. *)
PatchContact(q) ==
  LET c == PatchOf[q] IN
  /\ patch[q].pc = "read"
  /\ IF Taken(c, q, db) \/ Fields[q].company # Named(q)
     THEN UNCHANGED db /\ \A t \in Txn : {Key(a) : a \in Given(q)} \cap DOMAIN own[t] = {}
     ELSE Store(Stored(c, Filled(c, q, Or(Named(q), patch[q].read.company), db), db))
  /\ Over(q)
  /\ UNCHANGED <<own, call, campaign>>

ReadAudience(r) ==
  /\ patch[r].pc = "idle" /\ Parties < MaxParties /\ There(AudienceOf[r])
  /\ Read(r, db[List(AudienceOf[r])])
  /\ UNCHANGED <<db, own, call, campaign>>

(* What the request leaves out is written back as it was read; a name of   *)
(* another audience is refused.                                            *)
PatchAudience(r) ==
  LET s == AudienceOf[r] new == [patch[r].read EXCEPT ![Revises[r]] = NameOf[r]] IN
  /\ patch[r].pc = "read" /\ There(s)
  /\ IF NameTaken(s, new.name) THEN UNCHANGED db ELSE Store(OneRow(List(s), new))
  /\ Over(r)
  /\ UNCHANGED <<own, call, campaign>>

CreateAudience(s) ==
  /\ db[List(s)].is = "new" /\ ~NameTaken(s, NameOf[s])
  /\ Store(OneRow(List(s), [db[List(s)] EXCEPT !.is = "there", !.name = NameOf[s]]))
  /\ UNCHANGED <<own, call, patch, campaign>>

AddMember(s, c) ==
  /\ There(s) /\ db[Person(c)].exists /\ ~db[Member(s, c)]
  /\ Store(OneRow(Member(s, c), TRUE))
  /\ UNCHANGED <<own, call, patch, campaign>>

RemoveMember(s, c) ==
  /\ db[Member(s, c)]
  /\ Store(OneRow(Member(s, c), FALSE))
  /\ UNCHANGED <<own, call, patch, campaign>>

(* The look for a campaign that uses it comes a statement before, so what  *)
(* keeps the audience of a new campaign is the foreign key.  The members   *)
(* go with the audience.                                                   *)
DeleteAudience(s) ==
  /\ There(s)
  /\ ~\E k \in Campaign : campaign[k] /\ AudienceOf[k] = s
  /\ Store(Overlay(OneRow(List(s), [db[List(s)] EXCEPT !.is = "gone"]),
                   [r \in {Member(s, c) : c \in Contact} |-> FALSE]))
  /\ UNCHANGED <<own, call, patch, campaign>>

CreateCampaign(k) ==
  /\ ~campaign[k] /\ There(AudienceOf[k])
  /\ campaign' = [campaign EXCEPT ![k] = TRUE]
  /\ UNCHANGED <<db, own, call, patch>>

---------------------------------------------------------------------------
CallerStep(j) ==
  \/ NextBatch(j) \/ RejectRow(j) \/ Match(j) \/ Put(j) \/ IndexRefuses(j) \/ EndBatch(j)
  \/ AddMembers(j) \/ Fails(j)

(* The requests: POST /v1/contacts/import, POST and PATCH /v1/contacts,     *)
(* and those of /v1/audiences and its members.                             *)
ImportContacts  == \E j \in Importer : CallerStep(j)
PostContact     == \E j \in Poster : CallerStep(j)
AddressesToList == \E j \in Adder : CallerStep(j)
EditContact     == \E q \in Patcher : ReadContact(q) \/ PatchContact(q)
NewAudience     == \E s \in Audience : CreateAudience(s)
EditAudience    == \E r \in Reviser : ReadAudience(r) \/ PatchAudience(r)
DropAudience    == \E s \in Audience : DeleteAudience(s)
MembersById     == \E pick \in Picks : AddMember(pick[1], pick[2])
DropMember      == \E pick \in Picks : RemoveMember(pick[1], pick[2])

Next ==
  \/ ImportContacts \/ PostContact \/ EditContact
  \/ NewAudience \/ EditAudience \/ DropAudience
  \/ AddressesToList \/ MembersById \/ DropMember
  \/ \E k \in Campaign : CreateCampaign(k)

Spec == Init /\ [][Next]_vars

---------------------------------------------------------------------------
(* Properties *)

(* A finished import tells the truth: every row is created, updated or     *)
(* rejected, and the contacts it says it created are there, whatever       *)
(* became of its batches.                                                  *)
SummaryIsTrue ==
  \A j \in Importer : call[j].pc = "done" =>
    /\ call[j].created + call[j].updated + call[j].rejected = Cardinality(Rows(j))
    /\ call[j].created = Cardinality({x \in Rows(j) : db[Person(x)].exists})

(* Consent is never inferred from having an address: what an import        *)
(* recorded comes from a row that had all four columns, and is for         *)
(* addresses of the contact the row was stored in, not of one it merely    *)
(* resembles.                                                              *)
ConsentHasEvidence ==
  \A x \in Entry : db[Consent(x)] # {} =>
    /\ Columns[x].consent = ConsentColumns
    /\ db[Consent(x)] \subseteq Given(x)

(* A batch that fails outright cannot take the rest of the file with it:   *)
(* an import goes through all its batches.                                 *)
RestIsImported ==
  \A j \in Importer : call[j].pc = "thrown" => call[j].batch = Len(Batches[j])

(* A patch changes what the caller names: one that names no company leaves *)
(* the company alone, and one that names an audience leaves its definition.*)
OnlyWhatIsNamed ==
  [][/\ \A q \in Patcher : Fields[q].company = Nothing /\ patch[q].pc = "read" /\ patch'[q].pc = "done"
          => db'[Person(PatchOf[q])].company = db[Person(PatchOf[q])].company
     /\ \A r \in Reviser : Revises[r] = "name" /\ patch[r].pc = "read" /\ patch'[r].pc = "done"
          => db'[List(AudienceOf[r])].definition = db[List(AudienceOf[r])].definition]_vars
=============================================================================
