---------------------------- MODULE ContactsProof ----------------------------
(***************************************************************************)
(* Theorems about Contacts, for any callers, files, contacts, patches and  *)
(* audiences, and with no bound on how many requests take part.            *)
(*                                                                         *)
(* Consent: what an import recorded has its evidence in the row it came    *)
(* from.                                                                   *)
(*                                                                         *)
(* Counts: the summary of a finished import is true.  A contact is named   *)
(* after the row that creates it, so what has to be shown is that no other *)
(* request makes a contact of a row of the import, and that the contact a  *)
(* row was matched with is there when the row is stored.                   *)
(*                                                                         *)
(* Their hypothesis is ContactsAssumption.                                 *)
(***************************************************************************)
EXTENDS Contacts, SumLemmas, TLAPS

---------------------------------------------------------------------------
(* Rows of the tables *)

(* Rows of different tables are different, and so are those of one. *)
LEMMA RowsDiffer ==
  ASSUME NEW a, NEW b, NEW c, NEW s
  PROVE  /\ Person(a) = Person(b) => a = b
         /\ Key(a) = Key(b) => a = b
         /\ Consent(a) = Consent(b) => a = b
         /\ Person(a) # Key(b) /\ Person(a) # Consent(b) /\ Key(a) # Consent(b)
         /\ Person(a) # Member(s, c) /\ Key(a) # Member(s, c) /\ Consent(a) # Member(s, c)
         /\ Person(a) # List(s) /\ Key(a) # List(s) /\ Consent(a) # List(s)
<1>1. Person(a)[1] = "contact" /\ Key(a)[1] = "key" /\ Consent(a)[1] = "consent"
      /\ Key(b)[1] = "key" /\ Consent(b)[1] = "consent"
      /\ Member(s, c)[1] = "member" /\ List(s)[1] = "audience"
  BY DEF Person, Key, Consent, Member, List
<1>2. Person(a)[2] = a /\ Person(b)[2] = b /\ Key(a)[2] = a /\ Key(b)[2] = b
      /\ Consent(a)[2] = a /\ Consent(b)[2] = b
  BY DEF Person, Key, Consent
<1>. QED BY <1>1, <1>2

(* Rows written over others. *)
LEMMA OverlayIs ==
  ASSUME NEW new, NEW rows
  PROVE  /\ DOMAIN Overlay(new, rows) = DOMAIN new \cup DOMAIN rows
         /\ \A r \in DOMAIN new : Overlay(new, rows)[r] = new[r]
         /\ \A r \in DOMAIN rows \ DOMAIN new : Overlay(new, rows)[r] = rows[r]
BY DEF Overlay

(* The one row a statement writes. *)
LEMMA OneRowIs ==
  ASSUME NEW r, NEW row
  PROVE  DOMAIN OneRow(r, row) = {r} /\ OneRow(r, row)[r] = row
BY DEF OneRow

---------------------------------------------------------------------------
(* What rows may say *)

(* A contact that is there; rows of contacts that are; keys that lead to   *)
(* contacts that are, in e; consent that has its evidence.                 *)
Exists(d, c) == d[Person(c)].exists
Rowed(d)     == \A c \in Contact : Person(c) \in DOMAIN d => Exists(d, c)
Leads(d, e)  == \A a \in Address : Key(a) \in DOMAIN d =>
                  d[Key(a)] = Nothing \/ (d[Key(a)] \in Contact /\ Exists(e, d[Key(a)]))
Evidence(d)  == \A x \in Entry : Consent(x) \in DOMAIN d /\ d[Consent(x)] # {} =>
                  Columns[x].consent = ConsentColumns /\ d[Consent(x)] \subseteq Given(x)
Valid(d, e)  == Rowed(d) /\ Leads(d, e) /\ Evidence(d)
Whole(d)     == /\ \A c \in Contact : Person(c) \in DOMAIN d
                /\ \A a \in Address : Key(a) \in DOMAIN d
                /\ \A x \in Entry : Consent(x) \in DOMAIN d
Grows(d, e)  == \A c \in Contact : Exists(d, c) => Exists(e, c)

(* Rows of members and audiences alone. *)
Aside(d) == /\ \A c \in Contact : Person(c) \notin DOMAIN d
            /\ \A a \in Address : Key(a) \notin DOMAIN d
            /\ \A x \in Entry : Consent(x) \notin DOMAIN d

(* Such rows say nothing of contacts, keys or consent. *)
LEMMA AsideValid == ASSUME NEW d, NEW e, Aside(d) PROVE Valid(d, e)
BY DEF Aside, Valid, Rowed, Leads, Evidence

(* Nor does a transaction that wrote nothing. *)
LEMMA EmptyAside == Aside(<<>>)
BY DEF Aside

(* A contact that was there is there under rows that are valid. *)
LEMMA OverGrows ==
  ASSUME NEW new, Rowed(new), NEW d, Whole(d)
  PROVE  Grows(d, Overlay(new, d)) /\ Whole(Overlay(new, d))
<1>1. PICK o : o = Overlay(new, d)
  OBVIOUS
<1>2. /\ DOMAIN o = DOMAIN new \cup DOMAIN d
      /\ \A r \in DOMAIN new : o[r] = new[r]
      /\ \A r \in DOMAIN d \ DOMAIN new : o[r] = d[r]
  BY <1>1 DEF Overlay
<1>3. ASSUME NEW c \in Contact, Exists(d, c) PROVE Exists(o, c)
  <2>1. Person(c) \in DOMAIN d
    BY DEF Whole
  <2>2. CASE Person(c) \in DOMAIN new
    BY <1>2, <2>2 DEF Exists, Rowed
  <2>3. CASE Person(c) \notin DOMAIN new
    BY <1>2, <1>3, <2>1, <2>3 DEF Exists
  <2>. QED BY <2>2, <2>3
<1>4. Whole(o)
  BY <1>2 DEF Whole
<1>. QED BY <1>1, <1>3, <1>4 DEF Grows

(* Keys still lead to contacts when there are more of them. *)
LEMMA LeadsOn == ASSUME NEW d, NEW e, NEW f, Leads(d, e), Grows(e, f) PROVE Leads(d, f)
BY DEF Leads, Grows

(* So rows stay valid when there are more contacts. *)
LEMMA ValidOn == ASSUME NEW d, NEW e, NEW f, Valid(d, e), Grows(e, f) PROVE Valid(d, f)
BY LeadsOn DEF Valid

(* Keys lead on under rows that lead, and consent keeps its evidence. *)
LEMMA OverLeads ==
  ASSUME NEW new, NEW rows, NEW e, Leads(new, e), Leads(rows, e), Evidence(new), Evidence(rows)
  PROVE  Leads(Overlay(new, rows), e) /\ Evidence(Overlay(new, rows))
<1>1. PICK o : o = Overlay(new, rows)
  OBVIOUS
<1>2. /\ DOMAIN o = DOMAIN new \cup DOMAIN rows
      /\ \A r \in DOMAIN new : o[r] = new[r]
      /\ \A r \in DOMAIN rows \ DOMAIN new : o[r] = rows[r]
  BY <1>1 DEF Overlay
<1>3. ASSUME NEW a \in Address, Key(a) \in DOMAIN o
      PROVE  o[Key(a)] = Nothing \/ (o[Key(a)] \in Contact /\ Exists(e, o[Key(a)]))
  <2>1. CASE Key(a) \in DOMAIN new
    BY <1>2, <2>1 DEF Leads
  <2>2. CASE Key(a) \notin DOMAIN new
    BY <1>2, <1>3, <2>2 DEF Leads
  <2>. QED BY <2>1, <2>2
<1>4. ASSUME NEW x \in Entry, Consent(x) \in DOMAIN o, o[Consent(x)] # {}
      PROVE  Columns[x].consent = ConsentColumns /\ o[Consent(x)] \subseteq Given(x)
  <2>1. CASE Consent(x) \in DOMAIN new
    BY <1>2, <1>4, <2>1 DEF Evidence
  <2>2. CASE Consent(x) \notin DOMAIN new
    BY <1>2, <1>4, <2>2 DEF Evidence
  <2>. QED BY <2>1, <2>2
<1>5. Leads(o, e)
  BY <1>3 DEF Leads
<1>6. Evidence(o)
  BY <1>4 DEF Evidence
<1>. QED BY <1>1, <1>5, <1>6

(* Contacts of both sets of rows are there. *)
LEMMA OverRowed ==
  ASSUME NEW new, NEW rows, Rowed(new), Rowed(rows)
  PROVE  Rowed(Overlay(new, rows))
<1>1. PICK o : o = Overlay(new, rows)
  OBVIOUS
<1>2. /\ DOMAIN o = DOMAIN new \cup DOMAIN rows
      /\ \A r \in DOMAIN new : o[r] = new[r]
      /\ \A r \in DOMAIN rows \ DOMAIN new : o[r] = rows[r]
  BY <1>1 DEF Overlay
<1>3. ASSUME NEW c \in Contact, Person(c) \in DOMAIN o
      PROVE  Exists(o, c)
  BY <1>2, <1>3 DEF Rowed, Exists
<1>4. Rowed(o)
  BY <1>3 DEF Rowed
<1>. QED BY <1>1, <1>4

(* It does not matter which two are put together first. *)
LEMMA OverTwice ==
  ASSUME NEW a, NEW b, NEW c
  PROVE  Overlay(a, Overlay(b, c)) = Overlay(Overlay(a, b), c)
BY DEF Overlay

---------------------------------------------------------------------------
(* The tables, whoever writes *)

Sound == /\ Whole(db) /\ Leads(db, db) /\ Evidence(db)
         /\ \A t \in Txn : Valid(own[t], Seen(t))
         /\ own = [t \in Txn |-> own[t]]

(* A transaction sees every row. *)
LEMMA SeenWhole == ASSUME Whole(db), NEW t \in Txn PROVE Whole(Seen(t))
BY OverlayIs DEF Whole, Seen

(* The keys it sees lead to contacts it sees. *)
LEMMA SeenLeads == ASSUME Sound, NEW t \in Txn PROVE Leads(Seen(t), Seen(t))
<1>1. Grows(db, Seen(t))
  BY OverGrows DEF Sound, Valid, Seen
<1>2. Leads(db, Seen(t))
  BY <1>1, LeadsOn DEF Sound
<1>. QED BY <1>2, OverLeads DEF Sound, Valid, Seen

(* What t sees grows with what is committed. *)
LEMMA SeenGrows ==
  ASSUME NEW t \in Txn, Rowed(own[t]), own'[t] = own[t], Whole(db), Whole(db'), Grows(db, db')
  PROVE  Grows(Seen(t), Seen(t)')
<1>1. ASSUME NEW c \in Contact, Exists(Seen(t), c) PROVE Exists(Seen(t)', c)
  <2>1. CASE Person(c) \in DOMAIN own[t]
    <3>1. Seen(t)'[Person(c)] = own[t][Person(c)]
      BY <2>1 DEF Seen, Overlay
    <3>. QED BY <2>1, <3>1 DEF Rowed, Exists
  <2>2. CASE Person(c) \notin DOMAIN own[t]
    <3>1. Seen(t)[Person(c)] = db[Person(c)] /\ Seen(t)'[Person(c)] = db'[Person(c)]
      BY <2>2 DEF Seen, Overlay, Whole
    <3>. QED BY <1>1, <3>1 DEF Grows, Exists
  <2>. QED BY <2>1, <2>2
<1>. QED BY <1>1 DEF Grows

(* What one transaction writes. *)
LEMMA WriteSound ==
  ASSUME Sound, NEW j \in Txn, NEW new, Valid(new, Overlay(new, Seen(j))), db' = db,
         own' = [own EXCEPT ![j] = Overlay(new, @)]
  PROVE  Sound'
<1>1. /\ own'[j] = Overlay(new, own[j])
      /\ own' = [t \in Txn |-> own'[t]]
      /\ \A t \in Txn \ {j} : own'[t] = own[t]
  BY DEF Sound
<1>2. Seen(j)' = Overlay(new, Seen(j))
  BY <1>1, OverTwice DEF Seen
<1>3. Grows(Seen(j), Overlay(new, Seen(j)))
  BY OverGrows, SeenWhole DEF Sound, Valid
<1>4. Valid(own[j], Overlay(new, Seen(j)))
  BY <1>3, ValidOn DEF Sound
<1>5. Valid(Overlay(new, own[j]), Overlay(new, Seen(j)))
  BY <1>4, OverLeads, OverRowed DEF Valid
<1>6. ASSUME NEW t \in Txn, t # j PROVE Valid(own'[t], Seen(t)')
  <2>1. own'[t] = own[t] /\ Seen(t)' = Seen(t)
    BY <1>1, <1>6 DEF Seen
  <2>. QED BY <2>1 DEF Sound
<1>7. \A t \in Txn : Valid(own'[t], Seen(t)')
  BY <1>1, <1>2, <1>5, <1>6
<1>. QED BY <1>1, <1>7 DEF Sound

(* What is committed, by a transaction or a statement of its own, and what *)
(* is given up.                                                            *)
LEMMA StoreSound ==
  ASSUME Sound, \/ db' = db
                \/ \E new : db' = Overlay(new, db) /\ Valid(new, db'),
         own' = [t \in Txn |-> own'[t]], \A t \in Txn : own'[t] \in {own[t], <<>>}
  PROVE  Sound' /\ Grows(db, db')
<1>1. Whole(db') /\ Grows(db, db') /\ Leads(db', db') /\ Evidence(db')
  <2>1. CASE db' = db
    BY <2>1 DEF Sound, Grows
  <2>2. ASSUME NEW new, db' = Overlay(new, db), Valid(new, db') PROVE Whole(db') /\ Grows(db, db') /\ Leads(db', db') /\ Evidence(db')
    <3>1. Grows(db, db') /\ Whole(db')
      BY <2>2, OverGrows DEF Sound, Valid
    <3>2. Leads(db, db')
      BY <3>1, LeadsOn DEF Sound
    <3>. QED BY <2>2, <3>1, <3>2, OverLeads DEF Valid, Sound
  <2>. QED BY <2>1, <2>2
<1>2. ASSUME NEW t \in Txn PROVE Valid(own'[t], Seen(t)')
  <2>1. CASE own'[t] = <<>>
    BY <2>1, EmptyAside, AsideValid
  <2>2. CASE own'[t] = own[t]
    <3>1. Grows(Seen(t), Seen(t)')
      BY <1>1, <2>2, SeenGrows DEF Sound, Valid
    <3>. QED BY <2>2, <3>1, ValidOn DEF Sound
  <2>. QED BY <2>1, <2>2
<1>. QED BY <1>1, <1>2 DEF Sound

---------------------------------------------------------------------------
(* Where a caller is *)

Working(j) == call[j].pc \in {"row", "put"}
Batch(j)   == Batches[j][call[j].batch]

(* What is left of a batch is its end. *)
EndOf(rows, batch) == /\ Len(rows) <= Len(batch)
                      /\ \A i \in 1..Len(rows) : rows[i] = batch[Len(batch) - Len(rows) + i]

(* The kinds of values the steps rely on. *)
FullCall(r) ==
  r = [pc |-> r.pc, batch |-> r.batch, rows |-> r.rows, match |-> r.match, company |-> r.company, ids |-> r.ids,
       created |-> r.created, updated |-> r.updated, rejected |-> r.rejected]
Shape ==
  /\ call = [j \in Caller |-> call[j]] /\ \A j \in Caller : FullCall(call[j])
  /\ patch = [q \in Patcher \cup Reviser |-> [pc |-> patch[q].pc, read |-> patch[q].read]]

(* A caller goes through its batches, and through each from its first row  *)
(* to its last; it writes in a transaction.  A row is stored that could be *)
(* planned, in a contact that is there unless it is new.                   *)
Track(j) ==
  /\ call[j].pc \in {"idle", "between", "row", "put", "done", "thrown"}
  /\ call[j].batch \in 1..Len(Batches[j]) + 1
  /\ call[j].rows \in Seq(Entry)
  /\ call[j].pc = "idle" => call[j].batch = 1
  /\ Working(j) \/ call[j].pc = "between" => call[j].batch <= Len(Batches[j])
  /\ j \in Importer /\ call[j].pc = "done" => call[j].batch = Len(Batches[j]) + 1
  /\ Working(j) => EndOf(call[j].rows, Batch(j))
  /\ call[j].pc = "put" => call[j].rows # <<>> /\ ~BadRow(j)
  /\ ~Working(j) => own[j] = <<>>

Matched(j) == call[j].pc = "put" /\ call[j].match # Nothing =>
                call[j].match \in Contact /\ Exists(Seen(j), call[j].match)

(* What a step of a caller comes to. *)
Skipped(j) == /\ Working(j) /\ call[j].rows # <<>> /\ j \notin Poster
              /\ call' = [call EXCEPT ![j].pc = "row", ![j].rows = Tail(@), ![j].rejected = @ + 1]
              /\ UNCHANGED <<db, own, patch, campaign>>
Threw(j)   == Working(j) /\ Thrown(j) /\ UNCHANGED <<db, patch, campaign>>
Found(j)   == Match(j) /\ call'[j].pc = "put" /\ UNCHANGED own
                /\ call' = [call EXCEPT ![j].pc = "put", ![j].match = call'[j].match, ![j].company = call'[j].company]
                /\ call'[j].match \in Matches(j, Top(j)) \cup {Nothing}
Enlisted(j) == /\ AddMembers(j) /\ There(AudienceOf[j]) /\ j \in Adder
               /\ RollBack(j) /\ call' = [call EXCEPT ![j].pc = "done"]

(* There are no other steps. *)
LEMMA Kinds ==
  ASSUME Shape, NEW j \in Caller, Track(j), CallerStep(j)
  PROVE  NextBatch(j) \/ Skipped(j) \/ Threw(j) \/ Found(j) \/ Put(j) \/ EndBatch(j) \/ Enlisted(j)
<1>1. CASE NextBatch(j)
  BY <1>1
<1>2. CASE RejectRow(j)
  BY <1>2 DEF RejectRow, Rejected, AtRow, Working, Skipped, Threw
<1>3. CASE Match(j)
  <2>1. CASE Refused(j, Top(j))
    BY <1>3, <2>1 DEF Match, Rejected, AtRow, Working, Skipped, Threw
  <2>2. CASE ~Refused(j, Top(j))
    <3>. DEFINE c == IF Matches(j, Top(j)) = {} THEN Nothing ELSE CHOOSE c \in Matches(j, Top(j)) : TRUE
                k == CompanyFor(Top(j), IF c = Nothing THEN Nothing ELSE Seen(j)[Person(c)].company)
    <3>1. call' = [call EXCEPT ![j].pc = "put", ![j].match = c, ![j].company = k] /\ UNCHANGED own
      BY <1>3, <2>2 DEF Match
    <3>2. c \in Matches(j, Top(j)) \cup {Nothing}
      OBVIOUS
    <3>. HIDE DEF c, k
    <3>3. call'[j].pc = "put" /\ call'[j].match = c /\ call'[j].company = k
      BY <3>1 DEF Shape
    <3>4. Found(j)
      BY <1>3, <3>1, <3>2, <3>3 DEF Found
    <3>. QED BY <3>4
  <2>. QED BY <2>1, <2>2
<1>4. CASE Put(j)
  BY <1>4
<1>5. CASE IndexRefuses(j)
  BY <1>5 DEF IndexRefuses, Rejected, Working, Track, Skipped, Threw
<1>6. CASE EndBatch(j)
  BY <1>6
<1>7. CASE AddMembers(j)
  <2>1. CASE There(AudienceOf[j])
    BY <1>7, <2>1 DEF AddMembers, Enlisted
  <2>2. CASE ~There(AudienceOf[j])
    BY <1>7, <2>2 DEF AddMembers, Threw, Working
  <2>. QED BY <2>1, <2>2
<1>8. CASE Fails(j)
  BY <1>8 DEF Fails, Threw, Working
<1>. QED BY <1>1, <1>2, <1>3, <1>4, <1>5, <1>6, <1>7, <1>8 DEF CallerStep

(* Each of them moves its caller alone. *)
Moved(j) == /\ call' = [k \in Caller |-> IF k = j THEN call'[j] ELSE call[k]]
            /\ FullCall(call'[j])
            /\ UNCHANGED patch

(* The record of one caller is replaced. *)
LEMMA Becomes ==
  ASSUME Shape, NEW j \in Caller, NEW r, FullCall(r), call' = [call EXCEPT ![j] = r], UNCHANGED patch
  PROVE  Moved(j) /\ call'[j] = r
<1>1. call' = [k \in Caller |-> IF k = j THEN r ELSE call[k]]
  BY DEF Shape
<1>. QED BY <1>1 DEF Moved

(* A batch begins. *)
LEMMA NextBatchIs ==
  ASSUME Shape, NEW j \in Caller, Track(j), NextBatch(j)
  PROVE  /\ Moved(j) /\ call[j].pc \in {"idle", "between"} /\ UNCHANGED <<db, own>>
         /\ call'[j].pc = "row" /\ call'[j].rows = Batch(j) /\ call'[j].batch = call[j].batch
         /\ call'[j].created = call[j].created /\ call'[j].updated = call[j].updated
         /\ call'[j].rejected = call[j].rejected
<1>o. PICK o : o = call[j] /\ FullCall(o)
  BY DEF Shape
<1>r. PICK r : r = [o EXCEPT !.pc = "row", !.rows = Batch(j)]
  OBVIOUS
<1>1. call' = [call EXCEPT ![j] = r] /\ UNCHANGED patch
  BY <1>o, <1>r DEF NextBatch, Batch
<1>f. FullCall(r)
  BY <1>o, <1>r DEF FullCall
<1>2. r.pc = "row" /\ r.rows = Batch(j) /\ r.batch = call[j].batch
      /\ r.created = call[j].created /\ r.updated = call[j].updated /\ r.rejected = call[j].rejected
  BY <1>o, <1>r DEF FullCall
<1>3. Moved(j) /\ call'[j] = r
  BY <1>f, <1>1, <1>2, Becomes
<1>. QED BY <1>2, <1>3 DEF NextBatch

(* A row is rejected. *)
LEMMA SkippedIs ==
  ASSUME Shape, NEW j \in Caller, Skipped(j)
  PROVE  /\ Moved(j) /\ UNCHANGED <<db, own>>
         /\ call'[j].pc = "row" /\ call'[j].rows = Tail(call[j].rows) /\ call'[j].batch = call[j].batch
         /\ call'[j].created = call[j].created /\ call'[j].updated = call[j].updated
         /\ call'[j].rejected = call[j].rejected + 1
<1>o. PICK o : o = call[j] /\ FullCall(o)
  BY DEF Shape
<1>r. PICK r : r = [o EXCEPT !.pc = "row", !.rows = Tail(@), !.rejected = @ + 1]
  OBVIOUS
<1>1. call' = [call EXCEPT ![j] = r] /\ UNCHANGED patch
  BY <1>o, <1>r DEF Skipped
<1>f. FullCall(r)
  BY <1>o, <1>r DEF FullCall
<1>2. r.pc = "row" /\ r.rows = Tail(call[j].rows) /\ r.batch = call[j].batch
      /\ r.created = call[j].created /\ r.updated = call[j].updated /\ r.rejected = call[j].rejected + 1
  BY <1>o, <1>r DEF FullCall
<1>3. Moved(j) /\ call'[j] = r
  BY <1>f, <1>1, <1>2, Becomes
<1>. QED BY <1>2, <1>3 DEF Skipped

(* A request is given up, with what its transaction wrote. *)
LEMMA ThrewIs ==
  ASSUME Shape, Sound, NEW j \in Caller, Threw(j)
  PROVE  /\ Moved(j) /\ UNCHANGED db /\ own' = [t \in Txn |-> IF t = j THEN <<>> ELSE own[t]]
         /\ call'[j].pc = "thrown" /\ call'[j].rows = call[j].rows /\ call'[j].batch = call[j].batch
<1>o. PICK o : o = call[j] /\ FullCall(o)
  BY DEF Shape
<1>r. PICK r : r = [o EXCEPT !.pc = "thrown"]
  OBVIOUS
<1>1. call' = [call EXCEPT ![j] = r] /\ UNCHANGED patch
  BY <1>o, <1>r DEF Threw, Thrown
<1>f. FullCall(r)
  BY <1>o, <1>r DEF FullCall
<1>2. r.pc = "thrown" /\ r.rows = call[j].rows /\ r.batch = call[j].batch
  BY <1>o, <1>r DEF FullCall
<1>3. own' = [t \in Txn |-> IF t = j THEN <<>> ELSE own[t]]
  BY DEF Threw, Thrown, RollBack, Sound
<1>4. Moved(j) /\ call'[j] = r
  BY <1>f, <1>1, <1>2, Becomes
<1>. QED BY <1>2, <1>3, <1>4 DEF Threw

(* A row is matched. *)
LEMMA FoundIs ==
  ASSUME Shape, NEW j \in Caller, Found(j)
  PROVE  /\ Moved(j) /\ UNCHANGED <<db, own>>
         /\ call[j].pc = "row" /\ call[j].rows # <<>> /\ ~BadRow(j)
         /\ call'[j].pc = "put" /\ call'[j].rows = call[j].rows /\ call'[j].batch = call[j].batch
         /\ call'[j].match \in Matches(j, Top(j)) \cup {Nothing}
         /\ call'[j].created = call[j].created /\ call'[j].updated = call[j].updated
         /\ call'[j].rejected = call[j].rejected
<1>o. PICK o : o = call[j] /\ FullCall(o)
  BY DEF Shape
<1>. DEFINE m == call'[j].match  k == call'[j].company
<1>r. PICK r : r = [o EXCEPT !.pc = "put", !.match = m, !.company = k]
  OBVIOUS
<1>1. m \in Matches(j, Top(j)) \cup {Nothing}
  BY DEF Found
<1>2. call' = [call EXCEPT ![j].pc = "put", ![j].match = m, ![j].company = k]
  BY DEF Found
<1>3. UNCHANGED patch
  BY DEF Found, Match
<1>. HIDE DEF m, k
<1>6. call' = [call EXCEPT ![j] = r]
  BY <1>o, <1>r, <1>2
<1>f. FullCall(r)
  BY <1>o, <1>r DEF FullCall
<1>7. r.pc = "put" /\ r.rows = call[j].rows /\ r.batch = call[j].batch /\ r.match = m
      /\ r.created = call[j].created /\ r.updated = call[j].updated /\ r.rejected = call[j].rejected
  BY <1>o, <1>r DEF FullCall
<1>8. Moved(j) /\ call'[j] = r
  BY <1>f, <1>3, <1>6, <1>7, Becomes
<1>. QED BY <1>1, <1>7, <1>8 DEF Found, Match, AtRow

Granted(j) == LET x == Top(j)
                  p == Filled(Target(j), x, call[j].company, Seen(j))
              IN IF j \in Importer /\ Columns[x].consent # {} THEN {p[kind] : kind \in Columns[x].channels} ELSE {}
Placed(j) == Overlay(OneRow(Consent(Top(j)), Granted(j)),
                     Stored(Target(j), Filled(Target(j), Top(j), call[j].company, Seen(j)), Seen(j)))

(* A row is stored. *)
LEMMA PutIs ==
  ASSUME Shape, NEW j \in Caller, Put(j)
  PROVE  /\ Moved(j) /\ UNCHANGED db /\ own' = [own EXCEPT ![j] = Overlay(Placed(j), @)]
         /\ call[j].pc = "put"
         /\ call'[j].pc = "row" /\ call'[j].rows = Tail(call[j].rows) /\ call'[j].batch = call[j].batch
         /\ call'[j].created = IF Target(j) = Top(j) THEN call[j].created + 1 ELSE call[j].created
         /\ call'[j].updated = IF Target(j) = Top(j) THEN call[j].updated ELSE call[j].updated + 1
         /\ call'[j].rejected = call[j].rejected
<1>o. PICK o : o = call[j] /\ FullCall(o)
  BY DEF Shape
<1>. DEFINE c == Target(j)  x == Top(j)
<1>r. PICK r : r = [o EXCEPT !.pc = "row", !.rows = Tail(@), !.ids = @ \cup {c},
                       !.created = IF c = x THEN @ + 1 ELSE @,
                       !.updated = IF c = x THEN @ ELSE @ + 1]
  OBVIOUS
<1>1. own' = [own EXCEPT ![j] = Overlay(Placed(j), @)] /\ UNCHANGED <<db, patch>> /\ call[j].pc = "put"
  BY DEF Put, Write, Placed, Granted
<1>2. call' = [call EXCEPT ![j] = r]
  BY <1>o, <1>r DEF Put
<1>. HIDE DEF c, x
<1>f. FullCall(r)
  BY <1>o, <1>r DEF FullCall
<1>3. r.pc = "row" /\ r.rows = Tail(call[j].rows) /\ r.batch = call[j].batch
      /\ r.created = (IF c = x THEN call[j].created + 1 ELSE call[j].created)
      /\ r.updated = (IF c = x THEN call[j].updated ELSE call[j].updated + 1)
      /\ r.rejected = call[j].rejected
  BY <1>o, <1>r DEF FullCall
<1>4. Moved(j) /\ call'[j] = r
  BY <1>f, <1>1, <1>2, <1>3, Becomes
<1>. QED BY <1>1, <1>3, <1>4 DEF c, x

(* A batch commits. *)
LEMMA EndBatchIs ==
  ASSUME Shape, Sound, NEW j \in Caller, EndBatch(j)
  PROVE  /\ Moved(j) /\ db' = Seen(j) /\ own' = [t \in Txn |-> IF t = j THEN <<>> ELSE own[t]]
         /\ call[j].pc = "row" /\ call[j].rows = <<>>
         /\ call'[j].pc = IF call[j].batch = Len(Batches[j]) THEN "done" ELSE "between"
         /\ call'[j].rows = call[j].rows /\ call'[j].batch = call[j].batch + 1
         /\ call'[j].created = call[j].created /\ call'[j].updated = call[j].updated
         /\ call'[j].rejected = call[j].rejected
<1>o. PICK o : o = call[j] /\ FullCall(o)
  BY DEF Shape
<1>. DEFINE pc == IF call[j].batch = Len(Batches[j]) THEN "done" ELSE "between"
<1>r. PICK r : r = [o EXCEPT !.pc = pc, !.batch = @ + 1]
  OBVIOUS
<1>1. db' = Seen(j) /\ own' = [t \in Txn |-> IF t = j THEN <<>> ELSE own[t]]
  BY DEF EndBatch, Commit, Sound
<1>2. UNCHANGED patch /\ call[j].pc = "row" /\ call[j].rows = <<>>
  BY DEF EndBatch
<1>3. call' = [call EXCEPT ![j] = r]
  BY <1>o, <1>r DEF EndBatch
<1>. HIDE DEF pc
<1>f. FullCall(r)
  BY <1>o, <1>r DEF FullCall
<1>4. r.pc = pc /\ r.rows = call[j].rows /\ r.batch = call[j].batch + 1
      /\ r.created = call[j].created /\ r.updated = call[j].updated /\ r.rejected = call[j].rejected
  BY <1>o, <1>r DEF FullCall
<1>5. Moved(j) /\ call'[j] = r
  BY <1>f, <1>2, <1>3, <1>4, Becomes
<1>. QED BY <1>1, <1>2, <1>4, <1>5 DEF pc

(* Members are added, and the transaction commits. *)
LEMMA EnlistedIs ==
  ASSUME Shape, Sound, NEW j \in Caller, Enlisted(j)
  PROVE  /\ Moved(j) /\ j \in Adder
         /\ db' = Overlay([r \in {Member(AudienceOf[j], c) : c \in call[j].ids} |-> TRUE], Seen(j))
         /\ own' = [t \in Txn |-> IF t = j THEN <<>> ELSE own[t]]
         /\ call'[j].pc = "done" /\ call'[j].rows = call[j].rows /\ call'[j].batch = call[j].batch
<1>o. PICK o : o = call[j] /\ FullCall(o)
  BY DEF Shape
<1>r. PICK r : r = [o EXCEPT !.pc = "done"]
  OBVIOUS
<1>1. db' = Overlay([row \in {Member(AudienceOf[j], c) : c \in call[j].ids} |-> TRUE], Seen(j))
      /\ own' = [t \in Txn |-> IF t = j THEN <<>> ELSE own[t]]
  BY DEF Enlisted, AddMembers, RollBack, Sound
<1>2. UNCHANGED patch /\ call' = [call EXCEPT ![j] = r]
  BY <1>o, <1>r DEF Enlisted, AddMembers
<1>f. FullCall(r)
  BY <1>o, <1>r DEF FullCall
<1>3. r.pc = "done" /\ r.rows = call[j].rows /\ r.batch = call[j].batch
  BY <1>o, <1>r DEF FullCall
<1>4. Moved(j) /\ call'[j] = r
  BY <1>f, <1>2, <1>3, Becomes
<1>. QED BY <1>1, <1>3, <1>4 DEF Enlisted

(* The others stay as they are. *)
LEMMA MovedShape ==
  ASSUME Shape, NEW j \in Caller, Moved(j)
  PROVE  Shape' /\ \A k \in Caller \ {j} : call'[k] = call[k]
<1>1. \A k \in Caller \ {j} : call'[k] = call[k]
  BY DEF Moved
<1>. QED BY <1>1 DEF Shape, Moved

---------------------------------------------------------------------------
(* What is stored of a contact *)

(* The row of the contact, and keys that lead to it or nowhere. *)
LEMMA StoredIs ==
  ASSUME NEW c \in Contact, NEW p, p.exists = TRUE, NEW d
  PROVE  /\ Person(c) \in DOMAIN Stored(c, p, d) /\ Stored(c, p, d)[Person(c)] = p
         /\ \A r \in DOMAIN Stored(c, p, d) : r = Person(c) \/ (\E a : r = Key(a) /\ Stored(c, p, d)[r] \in {c, Nothing})
<1>. DEFINE took == [k \in {Key(a) : a \in KeysOf(p)} |-> c]
            gave == [k \in {Key(a) : a \in KeysOf(d[Person(c)]) \ KeysOf(p)} |-> Nothing]
<1>1. PICK o : o = Overlay(took, gave)
  OBVIOUS
<1>2. Stored(c, p, d) = Overlay(OneRow(Person(c), p), o)
  BY <1>1 DEF Stored
<1>3. \A r \in DOMAIN o : \E a : r = Key(a) /\ o[r] \in {c, Nothing}
  BY <1>1 DEF Overlay
<1>. HIDE DEF took, gave
<1>4. PICK s : s = Stored(c, p, d)
  OBVIOUS
<1>5. /\ DOMAIN s = {Person(c)} \cup DOMAIN o /\ s[Person(c)] = p
      /\ \A r \in DOMAIN o \ {Person(c)} : s[r] = o[r]
  BY <1>2, <1>4 DEF Overlay, OneRow
<1>6. ASSUME NEW r \in DOMAIN s, r # Person(c) PROVE \E a : r = Key(a) /\ s[r] \in {c, Nothing}
  <2>1. r \in DOMAIN o /\ s[r] = o[r]
    BY <1>5, <1>6
  <2>. QED BY <1>3, <2>1
<1>7. \A r \in DOMAIN s : r = Person(c) \/ (\E a : r = Key(a) /\ s[r] \in {c, Nothing})
  BY <1>6, Zenon
<1>8. Person(c) \in DOMAIN s /\ s[Person(c)] = p
  BY <1>5
<1>. QED BY <1>4, <1>7, <1>8, Zenon

(* They are valid wherever the contact is there. *)
LEMMA StoredValid ==
  ASSUME NEW c \in Contact, NEW p, p.exists = TRUE, NEW d, NEW e, Exists(e, c)
  PROVE  Valid(Stored(c, p, d), e)
<1>. DEFINE o == Stored(c, p, d)
<1>1. o = Stored(c, p, d)
  OBVIOUS
<1>2. /\ Person(c) \in DOMAIN o /\ o[Person(c)] = p
      /\ \A r \in DOMAIN o : r = Person(c) \/ (\E a : r = Key(a) /\ o[r] \in {c, Nothing})
  BY StoredIs
<1>. HIDE DEF o
<1>3. Rowed(o)
  <2>1. ASSUME NEW x \in Contact, Person(x) \in DOMAIN o PROVE Exists(o, x)
    <3>1. Person(x) = Person(c)
      BY <1>2, <2>1, RowsDiffer
    <3>. QED BY <1>2, <3>1 DEF Exists
  <2>. QED BY <2>1 DEF Rowed
<1>4. Leads(o, e)
  <2>1. ASSUME NEW a \in Address, Key(a) \in DOMAIN o PROVE o[Key(a)] \in {c, Nothing}
    BY <1>2, <2>1, RowsDiffer
  <2>. QED BY <2>1 DEF Leads
<1>5. Evidence(o)
  <2>1. ASSUME NEW x \in Entry, Consent(x) \in DOMAIN o PROVE FALSE
    BY <1>2, <2>1, RowsDiffer
  <2>. QED BY <2>1 DEF Evidence
<1>. QED BY <1>1, <1>3, <1>4, <1>5 DEF Valid

(* A row that has all four columns, and is for addresses it gives. *)
LEMMA GrantedHas ==
  ASSUME NEW j \in Caller, Track(j), call[j].pc = "put", Granted(j) # {}
  PROVE  Columns[Top(j)].consent = ConsentColumns /\ Granted(j) \subseteq Given(Top(j))
<1>. DEFINE x == Top(j)
            p == Filled(Target(j), x, call[j].company, Seen(j))
<1>1. j \in Importer /\ Columns[x].consent # {} /\ Granted(j) = {p[kind] : kind \in Columns[x].channels}
  BY DEF Granted
<1>2. ~Unplannable(x)
  BY <1>1 DEF Track, BadRow
<1>3. Columns[x].consent = ConsentColumns
      /\ \A kind \in Columns[x].channels : kind \in {"phone", "email"} /\ Fields[x][kind] # Nothing
  BY <1>1, <1>2 DEF Unplannable
<1>4. ASSUME NEW kind \in Columns[x].channels PROVE p[kind] \in Given(x)
  <2>1. CASE kind = "phone"
    <3>1. p[kind] = Or(Fields[x].phone, Seen(j)[Person(Target(j))].phone)
      BY <2>1 DEF Filled
    <3>2. Fields[x].phone # Nothing
      BY <1>3, <2>1
    <3>. QED BY <3>1, <3>2 DEF Or, Given
  <2>2. CASE kind = "email"
    <3>1. p[kind] = Or(Fields[x].email, Seen(j)[Person(Target(j))].email)
      BY <2>2 DEF Filled
    <3>2. Fields[x].email # Nothing
      BY <1>3, <2>2
    <3>. QED BY <3>1, <3>2 DEF Or, Given
  <2>. QED BY <1>3, <2>1, <2>2
<1>. QED BY <1>1, <1>3, <1>4

(* The row a caller is at. *)
LEMMA TopIn ==
  ASSUME NEW j \in Caller, Track(j), call[j].rows # <<>>
  PROVE  Top(j) \in Entry
BY DEF Track, Top

(* The contact its row goes to. *)
LEMMA TargetIn ==
  ASSUME NEW j \in Caller, Track(j), Matched(j), call[j].pc = "put"
  PROVE  Target(j) \in Contact /\ Top(j) \in Entry
BY TopIn DEF Track, Matched, Target, Or, Contact

(* What a row writes is valid, and makes no contact but its own. *)
LEMMA PlacedIs ==
  ASSUME NEW j \in Caller, Track(j), Matched(j), call[j].pc = "put"
  PROVE  /\ Valid(Placed(j), Overlay(Placed(j), Seen(j)))
         /\ Person(Target(j)) \in DOMAIN Placed(j) /\ Exists(Placed(j), Target(j))
         /\ \A c \in Contact \ {Target(j)} : Person(c) \notin DOMAIN Placed(j)
<1>. DEFINE c == Target(j)
            p == Filled(c, Top(j), call[j].company, Seen(j))
            s == Stored(c, p, Seen(j))
            g == OneRow(Consent(Top(j)), Granted(j))
<1>1. Placed(j) = Overlay(g, s) /\ p.exists = TRUE /\ c \in Contact /\ Top(j) \in Entry
  BY TargetIn DEF Placed, Filled
<1>2. /\ Person(c) \in DOMAIN s /\ s[Person(c)] = p
      /\ \A r \in DOMAIN s : r = Person(c) \/ (\E a : r = Key(a) /\ s[r] \in {c, Nothing})
  <2>. HIDE DEF c, p
  <2>. QED BY <1>1, StoredIs
<1>3. DOMAIN g = {Consent(Top(j))} /\ g[Consent(Top(j))] = Granted(j)
  BY OneRowIs
<1>4. PICK o : o = Placed(j)
  OBVIOUS
<1>. HIDE DEF g, s, p, c
<1>5. DOMAIN o = DOMAIN g \cup DOMAIN s /\ \A r \in DOMAIN s \ DOMAIN g : o[r] = s[r]
  BY <1>1, <1>4 DEF Overlay
<1>6. Person(c) \in DOMAIN o /\ o[Person(c)] = p
  BY <1>2, <1>3, <1>5, RowsDiffer
<1>7. \A x \in Contact \ {c} : Person(x) \notin DOMAIN o
  BY <1>2, <1>3, <1>5, RowsDiffer
<1>8. PICK e : e = Overlay(o, Seen(j))
  OBVIOUS
<1>9. Exists(e, c)
  <2>1. e[Person(c)] = o[Person(c)]
    BY <1>6, <1>8 DEF Overlay
  <2>. QED BY <1>1, <1>6, <2>1 DEF Exists
<1>10. Valid(s, e)
  BY <1>1, <1>9, StoredValid DEF s
<1>11. Valid(g, e)
  <2>1. Rowed(g)
    BY <1>3, RowsDiffer DEF Rowed
  <2>2. Leads(g, e)
    BY <1>3, RowsDiffer DEF Leads
  <2>3. Evidence(g)
    <3>1. ASSUME NEW x \in Entry, Consent(x) \in DOMAIN g, g[Consent(x)] # {}
          PROVE  Columns[x].consent = ConsentColumns /\ g[Consent(x)] \subseteq Given(x)
      <4>1. x = Top(j)
        BY <1>3, <3>1, RowsDiffer
      <4>. QED BY <1>3, <3>1, <4>1, GrantedHas
    <3>. QED BY <3>1 DEF Evidence
  <2>. QED BY <2>1, <2>2, <2>3 DEF Valid
<1>12. Valid(o, e)
  BY <1>1, <1>4, <1>10, <1>11, OverLeads, OverRowed DEF Valid
<1>13. Exists(o, c)
  BY <1>1, <1>6 DEF Exists
<1>. QED BY <1>4, <1>6, <1>7, <1>8, <1>12, <1>13 DEF c

---------------------------------------------------------------------------
(* The tables are sound after a step of a caller *)

(* Nothing is written. *)
LEMMA SameSound == ASSUME Sound, UNCHANGED <<db, own>> PROVE Sound' /\ Grows(db, db')
BY DEF Sound, Grows, Whole, Valid, Rowed, Leads, Evidence, Exists, Seen, Overlay

(* Whichever step it is. *)
LEMMA CallerSound ==
  ASSUME Shape, Sound, NEW j \in Caller, Track(j), Matched(j), CallerStep(j)
  PROVE  Sound' /\ Grows(db, db')
<1>1. CASE NextBatch(j)
  BY <1>1, NextBatchIs, SameSound
<1>2. CASE Skipped(j)
  BY <1>2, SkippedIs, SameSound
<1>3. CASE Threw(j)
  <2>1. db' = db /\ own' = [t \in Txn |-> IF t = j THEN <<>> ELSE own[t]]
    BY <1>3, ThrewIs
  <2>2. own' = [t \in Txn |-> own'[t]] /\ \A t \in Txn : own'[t] \in {own[t], <<>>}
    BY <2>1
  <2>. QED BY <2>1, <2>2, StoreSound
<1>4. CASE Found(j)
  BY <1>4, FoundIs, SameSound
<1>5. CASE Put(j)
  <2>1. db' = db /\ own' = [own EXCEPT ![j] = Overlay(Placed(j), @)] /\ call[j].pc = "put"
    BY <1>5, PutIs
  <2>2. Valid(Placed(j), Overlay(Placed(j), Seen(j)))
    BY <2>1, PlacedIs
  <2>3. j \in Txn
    BY ContactsAssumption
  <2>4. Sound'
    BY <2>1, <2>2, <2>3, WriteSound
  <2>. QED BY <2>1, <2>4 DEF Grows
<1>6. CASE EndBatch(j)
  <2>1. db' = Overlay(own[j], db) /\ own' = [t \in Txn |-> IF t = j THEN <<>> ELSE own[t]] /\ j \in Txn
    BY <1>6, EndBatchIs, ContactsAssumption DEF Seen
  <2>2. Valid(own[j], db')
    BY <2>1 DEF Sound, Seen
  <2>3. own' = [t \in Txn |-> own'[t]] /\ \A t \in Txn : own'[t] \in {own[t], <<>>}
    BY <2>1
  <2>. QED BY <2>1, <2>2, <2>3, StoreSound
<1>7. CASE Enlisted(j)
  <2>. DEFINE m == [r \in {Member(AudienceOf[j], c) : c \in call[j].ids} |-> TRUE]
  <2>1. db' = Overlay(m, Seen(j)) /\ own' = [t \in Txn |-> IF t = j THEN <<>> ELSE own[t]] /\ j \in Txn
    BY <1>7, EnlistedIs, ContactsAssumption
  <2>2. Aside(m)
    BY RowsDiffer DEF Aside
  <2>. HIDE DEF m
  <2>3. Valid(m, db') /\ Rowed(m)
    BY <2>2, AsideValid DEF Valid
  <2>4. Grows(Seen(j), db')
    BY <2>1, <2>3, OverGrows, SeenWhole DEF Sound
  <2>5. Valid(own[j], db')
    BY <2>1, <2>4, ValidOn DEF Sound
  <2>6. Valid(Overlay(m, own[j]), db')
    BY <2>3, <2>5, OverLeads, OverRowed DEF Valid
  <2>7. db' = Overlay(Overlay(m, own[j]), db)
    BY <2>1, OverTwice DEF Seen
  <2>8. own' = [t \in Txn |-> own'[t]] /\ \A t \in Txn : own'[t] \in {own[t], <<>>}
    BY <2>1
  <2>. QED BY <2>6, <2>7, <2>8, StoreSound
<1>. QED BY <1>1, <1>2, <1>3, <1>4, <1>5, <1>6, <1>7, Kinds

---------------------------------------------------------------------------
(* The requests of one statement *)

(* A contact is read before it is changed. *)
PatchesThere == \A q \in Patcher : patch[q].pc = "read" => Exists(db, PatchOf[q])

NoNewPerson == \A c \in Contact : Exists(db', c) => Exists(db, c)

(* A statement about members or audiences makes no contact. *)
LEMMA StoreAside ==
  ASSUME Sound, NEW new, Aside(new), Store(new), UNCHANGED own
  PROVE  Sound' /\ Grows(db, db') /\ NoNewPerson
<1>1. db' = Overlay(new, db) /\ Valid(new, db')
  BY AsideValid DEF Store
<1>2. own' = [t \in Txn |-> own'[t]] /\ \A t \in Txn : own'[t] \in {own[t], <<>>}
  BY DEF Sound
<1>3. Sound' /\ Grows(db, db')
  BY <1>1, <1>2, StoreSound
<1>4. ASSUME NEW c \in Contact, Exists(db', c) PROVE Exists(db, c)
  <2>1. Person(c) \notin DOMAIN new /\ Person(c) \in DOMAIN db
    BY DEF Aside, Sound, Whole
  <2>2. db'[Person(c)] = db[Person(c)]
    BY <1>1, <2>1 DEF Overlay
  <2>. QED BY <1>4, <2>2 DEF Exists
<1>. QED BY <1>3, <1>4 DEF NoNewPerson

(* A statement about a contact that is there makes none either. *)
LEMMA StoreContact ==
  ASSUME Sound, NEW c \in Contact, Exists(db, c), NEW p, p.exists = TRUE,
         Store(Stored(c, p, db)), UNCHANGED own
  PROVE  Sound' /\ Grows(db, db') /\ NoNewPerson
<1>. DEFINE new == Stored(c, p, db)
<1>1. /\ Person(c) \in DOMAIN new /\ new[Person(c)] = p
      /\ \A r \in DOMAIN new : r = Person(c) \/ (\E a : r = Key(a) /\ new[r] \in {c, Nothing})
  BY StoredIs
<1>2. db' = Overlay(new, db)
  BY DEF Store
<1>3. Exists(db', c) => Valid(new, db')
  BY StoredValid
<1>. HIDE DEF new
<1>4. Exists(db', c)
  <2>1. db'[Person(c)] = p
    BY <1>1, <1>2 DEF Overlay
  <2>. QED BY <2>1 DEF Exists
<1>5. own' = [t \in Txn |-> own'[t]] /\ \A t \in Txn : own'[t] \in {own[t], <<>>}
  BY DEF Sound
<1>6. Sound' /\ Grows(db, db')
  BY <1>2, <1>3, <1>4, <1>5, StoreSound
<1>7. ASSUME NEW x \in Contact, Exists(db', x) PROVE Exists(db, x)
  <2>1. CASE x = c
    BY <2>1
  <2>2. CASE x # c
    <3>1. Person(x) \notin DOMAIN new /\ Person(x) \in DOMAIN db
      BY <1>1, <2>2, RowsDiffer DEF Sound, Whole
    <3>2. db'[Person(x)] = db[Person(x)]
      BY <1>2, <3>1 DEF Overlay
    <3>. QED BY <1>7, <3>2 DEF Exists
  <2>. QED BY <2>1, <2>2
<1>. QED BY <1>6, <1>7 DEF NoNewPerson

(* Rows of members and of audiences. *)
LEMMA ListAside ==
  ASSUME NEW s, NEW c, NEW row
  PROVE  Aside(OneRow(List(s), row)) /\ Aside(OneRow(Member(s, c), row))
<1>1. \A r : r \in DOMAIN OneRow(List(s), row) <=> r = List(s)
  BY OneRowIs
<1>2. \A r : r \in DOMAIN OneRow(Member(s, c), row) <=> r = Member(s, c)
  BY OneRowIs
<1>3. \A x : Person(x) # List(s) /\ Key(x) # List(s) /\ Consent(x) # List(s)
             /\ Person(x) # Member(s, c) /\ Key(x) # Member(s, c) /\ Consent(x) # Member(s, c)
  BY RowsDiffer
<1>. QED BY <1>1, <1>2, <1>3 DEF Aside

Others ==
  \/ EditContact \/ NewAudience \/ EditAudience \/ DropAudience \/ MembersById \/ DropMember
  \/ \E k \in Campaign : CreateCampaign(k)

Outside == Shape' /\ Sound' /\ PatchesThere' /\ Grows(db, db') /\ NoNewPerson

(* A step that is no patch. *)
LEMMA PatchKept ==
  ASSUME Shape, PatchesThere, Grows(db, db'), UNCHANGED <<call, patch>>
  PROVE  Shape' /\ PatchesThere'
<1>1. Shape'
  BY DEF Shape, FullCall
<1>2. PatchesThere'
  BY ContactsAssumption DEF PatchesThere, Grows
<1>. QED BY <1>1, <1>2

(* A patch reads what it is about. *)
LEMMA PatchReads ==
  ASSUME Shape, PatchesThere, NEW q \in Patcher \cup Reviser, NEW what, Read(q, what), UNCHANGED <<db, call>>,
         q \in Patcher => Exists(db, PatchOf[q])
  PROVE  Shape' /\ PatchesThere'
<1>1. patch' = [patch EXCEPT ![q] = [pc |-> "read", read |-> what]]
  BY DEF Read
<1>2. Shape'
  BY <1>1 DEF Shape, FullCall
<1>3. \A p \in Patcher \ {q} : patch'[p] = patch[p]
  BY <1>1 DEF Shape
<1>4. PatchesThere'
  BY <1>3 DEF PatchesThere, Exists
<1>. QED BY <1>2, <1>4

(* A patch is over. *)
LEMMA PatchEnds ==
  ASSUME Shape, PatchesThere, NEW q \in Patcher \cup Reviser, Over(q), Grows(db, db'), UNCHANGED call
  PROVE  Shape' /\ PatchesThere'
<1>1. patch' = [patch EXCEPT ![q].pc = "done"]
  BY DEF Over
<1>2. Shape'
  <2>1. patch' = [p \in Patcher \cup Reviser |->
                    [pc |-> IF p = q THEN "done" ELSE patch[p].pc, read |-> patch[p].read]]
    <3>1. [patch[q] EXCEPT !.pc = "done"] = [pc |-> "done", read |-> patch[q].read]
      BY DEF Shape
    <3>2. patch' = [p \in Patcher \cup Reviser |-> IF p = q THEN [patch[q] EXCEPT !.pc = "done"] ELSE patch[p]]
      BY <1>1 DEF Shape
    <3>. QED BY <3>1, <3>2 DEF Shape
  <2>. QED BY <2>1 DEF Shape, FullCall
<1>3. patch'[q].pc = "done" /\ \A p \in Patcher \ {q} : patch'[p] = patch[p]
  BY <1>1 DEF Shape
<1>4. PatchesThere'
  BY <1>3, ContactsAssumption DEF PatchesThere, Grows
<1>. QED BY <1>2, <1>4

(* PATCH /v1/contacts makes no contact. *)
LEMMA EditContactKeeps ==
  ASSUME Shape, Sound, PatchesThere, EditContact
  PROVE  Outside /\ UNCHANGED <<own, call>>
<1>1. ASSUME NEW q \in Patcher, ReadContact(q) PROVE Outside /\ UNCHANGED <<own, call>>
  <2>. DEFINE what == db[Person(PatchOf[q])]
  <2>1. UNCHANGED <<db, own, call>> /\ Read(q, what) /\ Exists(db, PatchOf[q])
    BY <1>1 DEF ReadContact, Exists
  <2>. HIDE DEF what
  <2>2. q \in Patcher \cup Reviser /\ UNCHANGED <<db, call>> /\ (q \in Patcher => Exists(db, PatchOf[q]))
    BY <2>1
  <2>3. Shape' /\ PatchesThere'
    BY <2>1, <2>2, PatchReads
  <2>. QED BY <2>1, <2>3, SameSound DEF Outside, NoNewPerson
<1>2. ASSUME NEW q \in Patcher, PatchContact(q) PROVE Outside /\ UNCHANGED <<own, call>>
  <2>. DEFINE c == PatchOf[q]
              p == Filled(c, q, Or(Named(q), patch[q].read.company), db)
  <2>1. patch[q].pc = "read" /\ Over(q) /\ UNCHANGED <<own, call>> /\ (UNCHANGED db \/ Store(Stored(c, p, db)))
    BY <1>2 DEF PatchContact
  <2>2. c \in Contact /\ Exists(db, c) /\ p.exists = TRUE
    BY <2>1, ContactsAssumption DEF PatchesThere, Filled
  <2>. HIDE DEF c, p
  <2>3. Sound' /\ Grows(db, db') /\ NoNewPerson
    <3>1. CASE UNCHANGED db
      BY <2>1, <3>1, SameSound DEF NoNewPerson
    <3>2. CASE Store(Stored(c, p, db))
      BY <2>1, <2>2, <3>2, StoreContact
    <3>. QED BY <2>1, <3>1, <3>2
  <2>4. Shape' /\ PatchesThere'
    BY <2>1, <2>3, PatchEnds
  <2>. QED BY <2>1, <2>3, <2>4 DEF Outside
<1>. QED BY <1>1, <1>2 DEF EditContact

(* Nor does PATCH /v1/audiences. *)
LEMMA EditAudienceKeeps ==
  ASSUME Shape, Sound, PatchesThere, EditAudience
  PROVE  Outside /\ UNCHANGED <<own, call>>
<1>1. ASSUME NEW r \in Reviser, ReadAudience(r) PROVE Outside /\ UNCHANGED <<own, call>>
  <2>1. UNCHANGED <<db, own, call>> /\ Read(r, db[List(AudienceOf[r])]) /\ r \notin Patcher
    BY <1>1, ContactsAssumption DEF ReadAudience
  <2>2. Shape' /\ PatchesThere'
    BY <2>1, PatchReads
  <2>. QED BY <2>1, <2>2, SameSound DEF Outside, NoNewPerson
<1>2. ASSUME NEW r \in Reviser, PatchAudience(r) PROVE Outside /\ UNCHANGED <<own, call>>
  <2>. DEFINE s == AudienceOf[r]
              new == [patch[r].read EXCEPT ![Revises[r]] = NameOf[r]]
  <2>1. Over(r) /\ UNCHANGED <<own, call>> /\ (UNCHANGED db \/ Store(OneRow(List(s), new)))
    BY <1>2 DEF PatchAudience
  <2>. HIDE DEF new
  <2>2. Sound' /\ Grows(db, db') /\ NoNewPerson
    <3>1. CASE UNCHANGED db
      BY <2>1, <3>1, SameSound DEF NoNewPerson
    <3>2. CASE Store(OneRow(List(s), new))
      BY <2>1, <3>2, ListAside, StoreAside
    <3>. QED BY <2>1, <3>1, <3>2
  <2>3. Shape' /\ PatchesThere'
    BY <2>1, <2>2, PatchEnds
  <2>. QED BY <2>1, <2>2, <2>3 DEF Outside
<1>. QED BY <1>1, <1>2 DEF EditAudience

(* No request of one statement does. *)
LEMMA OthersKeep ==
  ASSUME Shape, Sound, PatchesThere, Others
  PROVE  Outside /\ UNCHANGED <<own, call>>
<1>1. ASSUME NEW new, Aside(new), Store(new), UNCHANGED <<own, call, patch>>
      PROVE  Outside /\ UNCHANGED <<own, call>>
  <2>1. Sound' /\ Grows(db, db') /\ NoNewPerson
    BY <1>1, StoreAside
  <2>2. Shape' /\ PatchesThere'
    BY <1>1, <2>1, PatchKept
  <2>. QED BY <1>1, <2>1, <2>2 DEF Outside
<1>2. CASE NewAudience
  <2>1. PICK s \in Audience : CreateAudience(s)
    BY <1>2 DEF NewAudience
  <2>2. PICK row : Store(OneRow(List(s), row))
    BY <2>1 DEF CreateAudience
  <2>. QED BY <1>1, <2>1, <2>2, ListAside DEF CreateAudience
<1>3. CASE DropAudience
  <2>1. PICK s \in Audience : DeleteAudience(s)
    BY <1>3 DEF DropAudience
  <2>. DEFINE l == OneRow(List(s), [db[List(s)] EXCEPT !.is = "gone"])
              m == [r \in {Member(s, c) : c \in Contact} |-> FALSE]
  <2>2. Store(Overlay(l, m)) /\ UNCHANGED <<own, call, patch>>
    BY <2>1 DEF DeleteAudience
  <2>3. Aside(l)
    BY ListAside
  <2>4. Aside(m)
    BY RowsDiffer DEF Aside
  <2>5. Aside(Overlay(l, m))
    <3>. HIDE DEF l, m
    <3>. QED BY <2>3, <2>4 DEF Aside, Overlay
  <2>. HIDE DEF l, m
  <2>. QED BY <1>1, <2>2, <2>5
<1>4. CASE MembersById
  <2>1. PICK pick \in Picks : AddMember(pick[1], pick[2])
    BY <1>4 DEF MembersById
  <2>. QED BY <1>1, <2>1, ListAside DEF AddMember
<1>5. CASE DropMember
  <2>1. PICK pick \in Picks : RemoveMember(pick[1], pick[2])
    BY <1>5 DEF DropMember
  <2>. QED BY <1>1, <2>1, ListAside DEF RemoveMember
<1>6. CASE \E k \in Campaign : CreateCampaign(k)
  <2>1. UNCHANGED <<db, own, call, patch>>
    BY <1>6 DEF CreateCampaign
  <2>2. Sound' /\ Grows(db, db') /\ NoNewPerson
    BY <2>1, SameSound DEF NoNewPerson
  <2>. QED BY <2>1, <2>2, PatchKept DEF Outside
<1>. QED BY <1>2, <1>3, <1>4, <1>5, <1>6, EditContactKeeps, EditAudienceKeeps DEF Others

---------------------------------------------------------------------------
(* Callers stay on their track *)

(* What is left of rows without the first. *)
LEMMA TailOf ==
  ASSUME NEW rows \in Seq(Entry), rows # <<>>
  PROVE  /\ Tail(rows) \in Seq(Entry) /\ Len(Tail(rows)) = Len(rows) - 1 /\ Len(rows) \in Nat \ {0}
         /\ \A i \in 1..Len(rows) - 1 : Tail(rows)[i] = rows[i + 1]
         /\ Head(rows) = rows[1] /\ Head(rows) \in Entry
OBVIOUS

(* It is still the end of the batch. *)
LEMMA EndOfTail ==
  ASSUME NEW rows \in Seq(Entry), rows # <<>>, NEW batch, Len(batch) \in Nat, EndOf(rows, batch)
  PROVE  EndOf(Tail(rows), batch)
<1>1. /\ Len(Tail(rows)) = Len(rows) - 1 /\ Len(rows) \in Nat \ {0}
      /\ \A i \in 1..Len(rows) - 1 : Tail(rows)[i] = rows[i + 1]
  BY TailOf
<1>2. Len(Tail(rows)) <= Len(batch)
  BY <1>1 DEF EndOf
<1>3. ASSUME NEW i \in 1..Len(Tail(rows)) PROVE Tail(rows)[i] = batch[Len(batch) - Len(Tail(rows)) + i]
  <2>1. i + 1 \in 1..Len(rows) /\ Tail(rows)[i] = rows[i + 1]
    BY <1>1
  <2>2. rows[i + 1] = batch[Len(batch) - Len(rows) + (i + 1)]
    BY <2>1 DEF EndOf
  <2>3. Len(batch) - Len(rows) + (i + 1) = Len(batch) - Len(Tail(rows)) + i
    BY <1>1
  <2>. QED BY <2>1, <2>2, <2>3
<1>. QED BY <1>2, <1>3 DEF EndOf

(* So is a whole batch. *)
LEMMA EndOfAll == ASSUME NEW batch \in Seq(Entry) PROVE EndOf(batch, batch)
BY DEF EndOf

(* The batches a caller brings. *)
LEMMA BatchIn ==
  ASSUME NEW j \in Caller
  PROVE  /\ Len(Batches[j]) \in Nat \ {0} /\ DOMAIN Batches[j] = 1..Len(Batches[j])
         /\ \A n \in 1..Len(Batches[j]) : Batches[j][n] \in Seq(Entry)
<1>1. Batches[j] \in Seq(Seq(Entry)) /\ Batches[j] # <<>>
  BY ContactsAssumption
<1>. QED BY <1>1

(* A caller that does not move, and what it has found. *)
LEMMA TrackKept ==
  ASSUME NEW k \in Caller, Track(k), call'[k] = call[k], own'[k] = own[k]
  PROVE  Track(k)'
BY DEF Track, Working, Batch, BadRow, Top

(* The contact it found stays. *)
LEMMA MatchedKept ==
  ASSUME NEW k \in Caller, Matched(k), call'[k] = call[k], own'[k] = own[k], Sound, Sound', Grows(db, db')
  PROVE  Matched(k)'
<1>1. k \in Txn /\ Rowed(own[k]) /\ Whole(db) /\ Whole(db')
  BY ContactsAssumption DEF Sound, Valid
<1>2. Grows(Seen(k), Seen(k)')
  BY <1>1, SeenGrows
<1>. QED BY <1>2 DEF Matched, Grows

(* One that reads its row finds a contact that is there. *)
LEMMA MatchesThere ==
  ASSUME Sound, NEW j \in Caller, NEW x \in Entry, NEW c \in Matches(j, x)
  PROVE  c \in Contact /\ Exists(Seen(j), c)
<1>1. j \in Txn /\ x \in DOMAIN Fields
  BY ContactsAssumption
<1>2. Given(x) \subseteq Address
  BY <1>1 DEF Given, Address
<1>3. PICK a \in Given(x) : c = Seen(j)[Key(a)]
  BY DEF Matches
<1>4. c # Nothing /\ a \in Address
  BY <1>2 DEF Matches
<1>5. Whole(Seen(j)) /\ Leads(Seen(j), Seen(j))
  BY <1>1, SeenWhole, SeenLeads DEF Sound
<1>. QED BY <1>3, <1>4, <1>5 DEF Whole, Leads

(* A caller stays on its track when it moves. *)
LEMMA TrackStep ==
  ASSUME Shape, Sound, NEW j \in Caller, Track(j), CallerStep(j)
  PROVE  Track(j)' /\ Matched(j)'
<1>0. /\ Len(Batches[j]) \in Nat \ {0} /\ DOMAIN Batches[j] = 1..Len(Batches[j])
      /\ \A n \in 1..Len(Batches[j]) : Batches[j][n] \in Seq(Entry)
  BY BatchIn
<1>t. j \in Txn
  BY ContactsAssumption
<1>b. call[j].batch \in Nat /\ (Working(j) => Batch(j) \in Seq(Entry))
  BY <1>0 DEF Track, Batch
<1>1. CASE NextBatch(j)
  <2>1. /\ call[j].pc \in {"idle", "between"} /\ call'[j].pc = "row" /\ call'[j].rows = Batch(j)
        /\ call'[j].batch = call[j].batch
    BY <1>1, NextBatchIs
  <2>2. call[j].batch \in 1..Len(Batches[j])
    BY <1>0, <2>1 DEF Track
  <2>3. Batch(j) \in Seq(Entry) /\ Batch(j)' = Batch(j)
    BY <1>0, <2>1, <2>2 DEF Batch
  <2>4. EndOf(call'[j].rows, Batch(j)')
    BY <2>1, <2>3, EndOfAll
  <2>. QED BY <2>1, <2>2, <2>3, <2>4 DEF Track, Matched, Working
<1>2. CASE Skipped(j)
  <2>1. /\ Working(j) /\ call[j].rows # <<>> /\ UNCHANGED own
        /\ call'[j].pc = "row" /\ call'[j].rows = Tail(call[j].rows) /\ call'[j].batch = call[j].batch
    BY <1>2, SkippedIs DEF Skipped
  <2>2. Tail(call[j].rows) \in Seq(Entry) /\ EndOf(Tail(call[j].rows), Batch(j)) /\ Batch(j)' = Batch(j)
    BY <1>b, <2>1, TailOf, EndOfTail DEF Track, Batch
  <2>. QED BY <2>1, <2>2 DEF Track, Matched, Working
<1>3. CASE Threw(j)
  <2>1. /\ call'[j].pc = "thrown" /\ call'[j].rows = call[j].rows /\ call'[j].batch = call[j].batch
        /\ own'[j] = <<>>
    BY <1>t, <1>3, ThrewIs
  <2>. QED BY <2>1 DEF Track, Matched, Working
<1>4. CASE Found(j)
  <2>1. /\ UNCHANGED <<db, own>> /\ call[j].pc = "row" /\ call[j].rows # <<>> /\ ~BadRow(j)
        /\ call'[j].pc = "put" /\ call'[j].rows = call[j].rows /\ call'[j].batch = call[j].batch
        /\ call'[j].match \in Matches(j, Top(j)) \cup {Nothing}
    BY <1>4, FoundIs
  <2>2. ~BadRow(j)' /\ Seen(j)' = Seen(j)
    BY <2>1 DEF BadRow, Top, Seen
  <2>3. Track(j)'
    BY <2>1, <2>2 DEF Track, Working, Batch
  <2>4. Top(j) \in Entry
    BY <2>1, TopIn
  <2>5. Matched(j)'
    BY <2>1, <2>2, <2>4, MatchesThere DEF Matched
  <2>. QED BY <2>3, <2>5
<1>5. CASE Put(j)
  <2>1. /\ call[j].pc = "put"
        /\ call'[j].pc = "row" /\ call'[j].rows = Tail(call[j].rows) /\ call'[j].batch = call[j].batch
    BY <1>5, PutIs
  <2>2. Working(j) /\ call[j].rows # <<>>
    BY <2>1 DEF Working, Track
  <2>3. Tail(call[j].rows) \in Seq(Entry) /\ EndOf(Tail(call[j].rows), Batch(j)) /\ Batch(j)' = Batch(j)
    BY <1>b, <2>1, <2>2, TailOf, EndOfTail DEF Track, Batch
  <2>. QED BY <2>1, <2>2, <2>3 DEF Track, Matched, Working
<1>6. CASE EndBatch(j)
  <2>1. /\ call[j].pc = "row" /\ call'[j].rows = call[j].rows /\ call'[j].batch = call[j].batch + 1
        /\ call'[j].pc = (IF call[j].batch = Len(Batches[j]) THEN "done" ELSE "between")
        /\ own'[j] = <<>>
    BY <1>t, <1>6, EndBatchIs
  <2>2. call[j].batch \in 1..Len(Batches[j])
    BY <1>0, <2>1 DEF Track, Working
  <2>. QED BY <1>0, <2>1, <2>2 DEF Track, Matched, Working
<1>7. CASE Enlisted(j)
  <2>1. /\ call'[j].pc = "done" /\ call'[j].rows = call[j].rows /\ call'[j].batch = call[j].batch
        /\ own'[j] = <<>> /\ j \in Adder
    BY <1>t, <1>7, EnlistedIs
  <2>2. j \notin Importer
    BY <2>1, ContactsAssumption
  <2>. QED BY <2>1, <2>2 DEF Track, Matched, Working
<1>. QED BY <1>1, <1>2, <1>3, <1>4, <1>5, <1>6, <1>7, Kinds

---------------------------------------------------------------------------
(* The tables and whoever writes to them *)

Tidy == /\ Shape /\ Sound /\ PatchesThere
        /\ \A j \in Caller : Track(j) /\ Matched(j)

(* It leaves the other callers alone, and what they wrote. *)
LEMMA CallerAlone ==
  ASSUME Shape, Sound, NEW j \in Caller, Track(j), CallerStep(j)
  PROVE  /\ Moved(j) /\ \A k \in Caller \ {j} : call'[k] = call[k] /\ own'[k] = own[k]
<1>1. Caller = Txn /\ j \in Txn
  BY ContactsAssumption
<1>2. Moved(j) /\ \A k \in Caller \ {j} : own'[k] = own[k]
  <2>1. CASE NextBatch(j)
    BY <2>1, NextBatchIs
  <2>2. CASE Skipped(j)
    BY <2>2, SkippedIs
  <2>3. CASE Threw(j)
    BY <1>1, <2>3, ThrewIs
  <2>4. CASE Found(j)
    BY <2>4, FoundIs
  <2>5. CASE Put(j)
    <3>1. Moved(j) /\ own' = [own EXCEPT ![j] = Overlay(Placed(j), @)]
      BY <2>5, PutIs
    <3>. QED BY <1>1, <3>1 DEF Sound
  <2>6. CASE EndBatch(j)
    BY <1>1, <2>6, EndBatchIs
  <2>7. CASE Enlisted(j)
    BY <1>1, <2>7, EnlistedIs
  <2>. QED BY <2>1, <2>2, <2>3, <2>4, <2>5, <2>6, <2>7, Kinds
<1>. QED BY <1>2, MovedShape

(* A step of a caller keeps all of that. *)
LEMMA TidyCaller ==
  ASSUME Tidy, NEW j \in Caller, CallerStep(j)
  PROVE  Tidy' /\ Grows(db, db')
<1>1. Shape /\ Sound /\ PatchesThere /\ \A k \in Caller : Track(k) /\ Matched(k)
  BY DEF Tidy
<1>2. Sound' /\ Grows(db, db')
  BY <1>1, CallerSound
<1>3. Moved(j) /\ \A k \in Caller \ {j} : call'[k] = call[k] /\ own'[k] = own[k]
  BY <1>1, CallerAlone
<1>4. Shape' /\ UNCHANGED patch
  BY <1>1, <1>3, MovedShape DEF Moved
<1>5. PatchesThere'
  BY <1>1, <1>2, <1>4, ContactsAssumption DEF PatchesThere, Grows
<1>6. \A k \in Caller \ {j} : Track(k)' /\ Matched(k)'
  BY <1>1, <1>2, <1>3, TrackKept, MatchedKept
<1>7. Track(j)' /\ Matched(j)'
  BY <1>1, TrackStep
<1>. QED BY <1>2, <1>4, <1>5, <1>6, <1>7 DEF Tidy

(* So does a request of one statement. *)
LEMMA TidyOthers ==
  ASSUME Tidy, Others
  PROVE  Tidy' /\ Grows(db, db') /\ NoNewPerson /\ UNCHANGED <<own, call>>
<1>1. Shape /\ Sound /\ PatchesThere /\ \A k \in Caller : Track(k) /\ Matched(k)
  BY DEF Tidy
<1>2. Outside /\ UNCHANGED <<own, call>>
  BY <1>1, OthersKeep
<1>3. Sound' /\ Grows(db, db') /\ Shape' /\ PatchesThere' /\ NoNewPerson
  BY <1>2 DEF Outside
<1>4. \A k \in Caller : Track(k)' /\ Matched(k)'
  BY <1>1, <1>2, <1>3, TrackKept, MatchedKept
<1>. QED BY <1>2, <1>3, <1>4 DEF Tidy

(* Every step is one or the other. *)
LEMMA NextIs == ASSUME Next PROVE Others \/ \E j \in Caller : CallerStep(j)
BY DEF Next, Others, ImportContacts, PostContact, AddressesToList, Caller

(* Or none. *)
LEMMA TidyStutters == ASSUME Tidy, UNCHANGED vars PROVE Tidy'
<1>1. UNCHANGED <<db, own>> /\ UNCHANGED call /\ UNCHANGED patch
  BY DEF vars
<1>2. Shape' /\ PatchesThere'
  BY <1>1 DEF Tidy, Shape, FullCall, PatchesThere, Exists
<1>3. Sound' /\ Grows(db, db')
  BY <1>1, SameSound DEF Tidy
<1>4. \A k \in Caller : Track(k)' /\ Matched(k)'
  BY <1>1, <1>3, TrackKept, MatchedKept DEF Tidy
<1>. QED BY <1>2, <1>3, <1>4 DEF Tidy

(* Hence every step keeps it. *)
LEMMA TidyNext == ASSUME Tidy, [Next]_vars PROVE Tidy'
BY TidyCaller, TidyOthers, TidyStutters, NextIs

(* What is there to begin with. *)
LEMMA TablesAre ==
  /\ DOMAIN Tables = {Key(a) : a \in Address} \cup {Person(c) : c \in Contact}
                       \cup {Member(s, c) : s \in Audience, c \in Contact} \cup {List(s) : s \in Audience}
                       \cup {Consent(x) : x \in Entry}
  /\ \A a \in Address : Tables[Key(a)] \in Old \cup {Nothing}
  /\ \A c \in Contact : Tables[Person(c)].exists <=> c \in Old
  /\ \A x \in Entry : Tables[Consent(x)] = {}
<1>. DEFINE keys     == {Key(a) : a \in Address}
            people   == {Person(c) : c \in Contact}
            members  == {Member(s, c) : s \in Audience, c \in Contact}
            lists    == {List(s) : s \in Audience}
            consents == {Consent(x) : x \in Entry}
            knows(c, a) == c \in Old /\ OldPhone[c] = a
            known(r) == IF \E c \in Old : knows(c, r[2]) THEN CHOOSE c \in Old : knows(c, r[2]) ELSE Nothing
            person(r) == IF r[2] \in Old THEN [NoPerson EXCEPT !.exists = TRUE, !.phone = OldPhone[r[2]]] ELSE NoPerson
            list(r) == [is |-> IF r[2] \in Audience \ New THEN "there" ELSE "new", name |-> r[2], definition |-> "old"]
<1>1. Tables = [r \in keys \cup people \cup members \cup lists \cup consents |->
        CASE r \in keys    -> known(r)
          [] r \in people  -> person(r)
          [] r \in members -> FALSE
          [] r \in lists   -> list(r)
          [] OTHER         -> {}]
  BY DEF Tables
<1>2. \A r : known(r) \in Old \cup {Nothing}
  OBVIOUS
<1>3. \A r : person(r).exists <=> r[2] \in Old
  BY DEF NoPerson
<1>4. \A a \in Address : Key(a) \in keys /\ Key(a) \notin people \cup members \cup lists
  <2>1. \A a : Key(a) \notin people
    BY RowsDiffer
  <2>2. \A a : Key(a) \notin members \cup lists
    BY RowsDiffer
  <2>. QED BY <2>1, <2>2
<1>5. \A c \in Contact : Person(c) \in people /\ Person(c) \notin keys \cup members \cup lists /\ Person(c)[2] = c
  <2>1. \A c : Person(c) \notin keys
    BY RowsDiffer
  <2>2. \A c : Person(c) \notin members \cup lists
    BY RowsDiffer
  <2>3. \A c \in Contact : Person(c) \in people
    OBVIOUS
  <2>4. \A c : Person(c)[2] = c
    BY DEF Person
  <2>. QED BY <2>1, <2>2, <2>3, <2>4
<1>6. \A x \in Entry : Consent(x) \in consents /\ Consent(x) \notin keys \cup people \cup members \cup lists
  <2>1. \A x : Consent(x) \notin keys \cup people
    BY RowsDiffer
  <2>2. \A x : Consent(x) \notin members \cup lists
    BY RowsDiffer
  <2>. QED BY <2>1, <2>2
<1>. HIDE DEF keys, people, members, lists, consents, known, person, list
<1>7. ASSUME NEW a \in Address PROVE Tables[Key(a)] = known(Key(a))
  <2>1. PICK r : r = Key(a)
    OBVIOUS
  <2>2. r \in keys /\ r \notin people /\ r \notin members /\ r \notin lists
    BY <1>4, <2>1
  <2>3. Tables[r] = known(r)
    BY <1>1, <2>2
  <2>. QED BY <2>1, <2>3
<1>8. ASSUME NEW c \in Contact PROVE Tables[Person(c)] = person(Person(c))
  <2>1. PICK r : r = Person(c)
    OBVIOUS
  <2>2. r \in people /\ r \notin keys /\ r \notin members /\ r \notin lists
    BY <1>5, <2>1
  <2>3. Tables[r] = person(r)
    BY <1>1, <2>2
  <2>. QED BY <2>1, <2>3
<1>9. ASSUME NEW x \in Entry PROVE Tables[Consent(x)] = {}
  <2>1. PICK r : r = Consent(x)
    OBVIOUS
  <2>2. r \in consents /\ r \notin people /\ r \notin keys /\ r \notin members /\ r \notin lists
    BY <1>6, <2>1
  <2>3. Tables[r] = {}
    BY <1>1, <2>2
  <2>. QED BY <2>1, <2>3
<1>10. DOMAIN Tables = keys \cup people \cup members \cup lists \cup consents
  BY <1>1
<1>11. \A a \in Address : Tables[Key(a)] \in Old \cup {Nothing}
  BY <1>2, <1>7
<1>12. \A c \in Contact : Tables[Person(c)].exists <=> c \in Old
  BY <1>3, <1>5, <1>8
<1>. QED BY <1>9, <1>10, <1>11, <1>12 DEF keys, people, members, lists, consents

(* The tables are sound to begin with, and nobody has begun. *)
LEMMA TidyInit == ASSUME Init PROVE Tidy
<1>1. Shape
  BY DEF Init, Shape, FullCall
<1>2. db = Tables /\ own = [t \in Txn |-> <<>>] /\ Txn = Caller
  BY ContactsAssumption DEF Init
<1>3. \A c \in Contact : Exists(db, c) <=> c \in Old
  BY <1>2, TablesAre DEF Exists
<1>4. Whole(db) /\ Leads(db, db) /\ Evidence(db)
  <2>1. Whole(db)
    BY <1>2, TablesAre DEF Whole
  <2>2. Leads(db, db)
    BY <1>2, <1>3, TablesAre DEF Leads, Contact
  <2>3. Evidence(db)
    BY <1>2, TablesAre DEF Evidence
  <2>. QED BY <2>1, <2>2, <2>3
<1>5. Sound
  <2>1. \A t \in Txn : Valid(own[t], Seen(t))
    BY <1>2, EmptyAside, AsideValid
  <2>. QED BY <1>2, <1>4, <2>1 DEF Sound
<1>6. PatchesThere
  BY DEF Init, PatchesThere
<1>7. ASSUME NEW j \in Caller PROVE Track(j) /\ Matched(j)
  <2>1. call[j].pc = "idle" /\ call[j].batch = 1 /\ call[j].rows = <<>> /\ own[j] = <<>>
    BY <1>2 DEF Init
  <2>2. Len(Batches[j]) \in Nat
    BY BatchIn
  <2>. QED BY <2>1, <2>2 DEF Track, Matched, Working
<1>. QED BY <1>1, <1>5, <1>6, <1>7 DEF Tidy

(* Whoever writes, and whatever is given up: each key leads to a contact *)
(* that is there, recorded consent has its evidence, and each caller is on *)
(* its track.                                                              *)
THEOREM AllTidy == Spec => []Tidy
BY TidyInit, TidyNext, PTL DEF Spec

(* Consent is never inferred from having an address: what an import        *)
(* recorded comes from a row with all four columns, and is for addresses   *)
(* that row gave, not for those of the contact it was stored in.           *)
THEOREM ConsentSafe == Spec => []ConsentHasEvidence
<1>1. ASSUME Tidy PROVE ConsentHasEvidence
  <2>1. Whole(db) /\ Evidence(db)
    BY <1>1 DEF Tidy, Sound
  <2>. QED BY <2>1 DEF Whole, Evidence, ConsentHasEvidence
<1>. QED BY <1>1, AllTidy, PTL

---------------------------------------------------------------------------
(* The rows of a file *)

From(j, n) == {x \in Rows(j) : \E b \in DOMAIN Batches[j] : b >= n /\ x \in ToSet(Batches[j][b])}

(* Those an import has not come to, and those it sees a contact of. *)
Ahead(j) == IF Working(j) THEN ToSet(call[j].rows) \cup From(j, call[j].batch + 1)
            ELSE From(j, call[j].batch)
Made(j)  == {x \in Rows(j) : Exists(Seen(j), x)}

(* Each row of a batch is one of the file. *)
LEMMA RowIn ==
  ASSUME NEW j \in Caller, NEW b \in DOMAIN Batches[j], NEW i \in DOMAIN Batches[j][b]
  PROVE  Batches[j][b][i] \in Rows(j)
BY DEF Rows, ToSet

(* They are finitely many. *)
LEMMA RowsAre ==
  ASSUME NEW j \in Caller
  PROVE  IsFiniteSet(Rows(j)) /\ Rows(j) \subseteq Entry /\ Rows(j) \subseteq Contact
<1>1. /\ Len(Batches[j]) \in Nat \ {0} /\ DOMAIN Batches[j] = 1..Len(Batches[j])
      /\ \A n \in 1..Len(Batches[j]) : Batches[j][n] \in Seq(Entry)
  BY BatchIn
<1>2. ASSUME NEW s \in Seq(Entry) PROVE IsFiniteSet(ToSet(s)) /\ ToSet(s) \subseteq Entry
  <2>1. Len(s) \in Nat /\ s \in [1..Len(s) -> Entry] /\ DOMAIN s = 1..Len(s)
    OBVIOUS
  <2>2. s \in Surjection(1..Len(s), ToSet(s))
    BY <2>1 DEF Surjection, ToSet
  <2>3. IsFiniteSet(1..Len(s))
    BY <2>1, FS_Interval
  <2>4. IsFiniteSet(ToSet(s))
    BY <2>2, <2>3, FS_Surjection
  <2>5. ToSet(s) \subseteq Entry
    BY <2>1 DEF ToSet
  <2>. QED BY <2>4, <2>5
<1>. DEFINE D == DOMAIN Batches[j]
            A == {ToSet(Batches[j][b]) : b \in D}
            f == [b \in D |-> ToSet(Batches[j][b])]
<1>3. f \in Surjection(D, A)
  BY DEF Surjection
<1>4. IsFiniteSet(D)
  BY <1>1, FS_Interval
<1>5. IsFiniteSet(A)
  <2>. HIDE DEF D, A, f
  <2>. QED BY <1>3, <1>4, FS_Surjection
<1>6. \A T \in A : IsFiniteSet(T) /\ T \subseteq Entry
  BY <1>1, <1>2
<1>7. Rows(j) = UNION A
  BY DEF Rows
<1>. HIDE DEF A
<1>8. IsFiniteSet(UNION A)
  BY <1>5, <1>6, FS_UNION
<1>. QED BY <1>6, <1>7, <1>8 DEF Contact

(* The rows from batch n on are those of n and those after it. *)
LEMMA FromStep ==
  ASSUME NEW j \in Caller, NEW n \in DOMAIN Batches[j]
  PROVE  From(j, n) = ToSet(Batches[j][n]) \cup From(j, n + 1)
<1>1. DOMAIN Batches[j] \subseteq Nat
  BY BatchIn
<1>2. ToSet(Batches[j][n]) \subseteq Rows(j)
  BY DEF Rows
<1>3. \A b \in DOMAIN Batches[j] : b >= n <=> b = n \/ b >= n + 1
  BY <1>1
<1>. QED BY <1>2, <1>3 DEF From

(* From the first batch on: all of them. *)
LEMMA FromFirst == ASSUME NEW j \in Caller PROVE From(j, 1) = Rows(j)
<1>1. \A b \in DOMAIN Batches[j] : b >= 1
  BY BatchIn
<1>. QED BY <1>1 DEF From, Rows

(* After the last: none. *)
LEMMA FromLast == ASSUME NEW j \in Caller PROVE From(j, Len(Batches[j]) + 1) = {}
<1>1. \A b \in DOMAIN Batches[j] : ~(b >= Len(Batches[j]) + 1)
  BY BatchIn
<1>. QED BY <1>1 DEF From

(* The row it is at is one of the file, and comes no more. *)
LEMMA Popped ==
  ASSUME NEW j \in Caller, Track(j), Working(j), call[j].rows # <<>>
  PROVE  /\ Top(j) \in Ahead(j) /\ Top(j) \in Rows(j)
         /\ ToSet(Tail(call[j].rows)) \cup From(j, call[j].batch + 1) = Ahead(j) \ {Top(j)}
<1>. DEFINE rows == call[j].rows  n == call[j].batch  B == Batches[j][n]
<1>1. n \in DOMAIN Batches[j] /\ B \in Seq(Entry) /\ rows \in Seq(Entry) /\ rows # <<>> /\ EndOf(rows, B)
  BY BatchIn DEF Track, Batch
<1>2. n \in Nat /\ DOMAIN Batches[j] \subseteq Nat
  BY <1>1, BatchIn
<1>. DEFINE at == Len(B) - Len(rows)
<1>3. Ahead(j) = ToSet(rows) \cup From(j, n + 1)
  BY DEF Ahead
<1>. HIDE DEF rows, n, B
<1>4. /\ Tail(rows) \in Seq(Entry) /\ Len(Tail(rows)) = Len(rows) - 1 /\ Len(rows) \in Nat \ {0}
      /\ \A i \in 1..Len(rows) - 1 : Tail(rows)[i] = rows[i + 1]
      /\ Head(rows) = rows[1] /\ Head(rows) \in Entry
  BY <1>1, TailOf
<1>5. Len(B) \in Nat /\ DOMAIN B = 1..Len(B) /\ DOMAIN rows = 1..Len(rows) /\ DOMAIN Tail(rows) = 1..Len(rows) - 1
  BY <1>1, <1>4
<1>6. at \in Nat /\ \A i \in 1..Len(rows) : at + i \in DOMAIN B /\ rows[i] = B[at + i]
  BY <1>1, <1>4, <1>5 DEF EndOf
<1>. HIDE DEF at
<1>7. \A i \in 1..Len(rows) : rows[i] \in Rows(j)
  BY <1>1, <1>6, RowIn DEF B
<1>8. \A i \in 2..Len(rows) : rows[i] # rows[1]
  <2>1. ASSUME NEW i \in 2..Len(rows), rows[i] = rows[1] PROVE FALSE
    <3>1. B[at + i] = B[at + 1] /\ at + i \in DOMAIN B /\ at + 1 \in DOMAIN B /\ at + i # at + 1
      BY <1>4, <1>6, <2>1
    <3>. QED BY <1>1, <3>1, ContactsAssumption DEF B
  <2>. QED BY <2>1
<1>9. rows[1] \notin From(j, n + 1)
  <2>1. ASSUME NEW b \in DOMAIN Batches[j], b >= n + 1, NEW k \in DOMAIN Batches[j][b], Batches[j][b][k] = rows[1]
        PROVE  FALSE
    <3>1. Batches[j][b][k] = Batches[j][n][at + 1] /\ at + 1 \in DOMAIN Batches[j][n] /\ b # n
      BY <1>2, <1>4, <1>6, <2>1 DEF B
    <3>. QED BY <1>1, <2>1, <3>1, ContactsAssumption
  <2>. QED BY <2>1 DEF From, ToSet
<1>10. ToSet(rows) = {rows[1]} \cup ToSet(Tail(rows)) /\ rows[1] \notin ToSet(Tail(rows))
  <2>1. ASSUME NEW i \in DOMAIN rows PROVE rows[i] \in {rows[1]} \cup ToSet(Tail(rows))
    <3>1. CASE i = 1
      BY <3>1
    <3>2. CASE i # 1
      <4>1. i - 1 \in DOMAIN Tail(rows) /\ Tail(rows)[i - 1] = rows[i]
        BY <1>4, <1>5, <3>2
      <4>. QED BY <4>1 DEF ToSet
    <3>. QED BY <3>1, <3>2
  <2>2. ASSUME NEW i \in DOMAIN Tail(rows) PROVE Tail(rows)[i] \in ToSet(rows) /\ Tail(rows)[i] # rows[1]
    <3>1. i + 1 \in DOMAIN rows /\ Tail(rows)[i] = rows[i + 1] /\ i + 1 \in 2..Len(rows)
      BY <1>4, <1>5
    <3>. QED BY <1>8, <3>1 DEF ToSet
  <2>3. rows[1] \in ToSet(rows)
    BY <1>4, <1>5 DEF ToSet
  <2>. QED BY <2>1, <2>2, <2>3 DEF ToSet
<1>11. Top(j) = rows[1]
  BY <1>4 DEF Top, rows
<1>12. rows[1] \in Rows(j)
  BY <1>4, <1>7
<1>13. ToSet(Tail(rows)) \cup From(j, n + 1) = Ahead(j) \ {rows[1]}
  BY <1>3, <1>9, <1>10
<1>. QED BY <1>3, <1>10, <1>11, <1>12, <1>13 DEF rows, n

(* What an import has not come to is of its file. *)
LEMMA AheadIn == ASSUME NEW j \in Caller, Track(j) PROVE Ahead(j) \subseteq Rows(j)
<1>1. \A n : From(j, n) \subseteq Rows(j)
  BY DEF From
<1>2. CASE Working(j)
  <2>. DEFINE rows == call[j].rows  B == Batch(j)
  <2>1. call[j].batch \in DOMAIN Batches[j] /\ B \in Seq(Entry) /\ rows \in Seq(Entry) /\ EndOf(rows, B)
    BY <1>2, BatchIn DEF Track, Batch
  <2>2. ASSUME NEW i \in DOMAIN rows PROVE rows[i] \in Rows(j)
    <3>. HIDE DEF rows, B
    <3>1. i \in 1..Len(rows) /\ Len(rows) \in Nat /\ Len(B) \in Nat /\ DOMAIN B = 1..Len(B)
      BY <2>1
    <3>2. Len(B) - Len(rows) + i \in DOMAIN B /\ rows[i] = B[Len(B) - Len(rows) + i]
      BY <2>1, <3>1 DEF EndOf
    <3>. QED BY <2>1, <3>2, RowIn DEF B, Batch
  <2>. QED BY <1>1, <1>2, <2>2 DEF Ahead, ToSet
<1>3. CASE ~Working(j)
  BY <1>1, <1>3 DEF Ahead
<1>. QED BY <1>2, <1>3

---------------------------------------------------------------------------
(* A contact named after a row of one caller is made by no other *)

Apart(j, t) == \A x \in Rows(j) : Person(x) \in DOMAIN own[t] => Exists(db, x)
AllApart    == \A j, t \in Caller : j # t => Apart(j, t)

(* Rows of one are not of another. *)
LEMMA NotShared ==
  ASSUME NEW j \in Caller, NEW t \in Caller, j # t, NEW x \in Rows(t)
  PROVE  x \notin Rows(j)
BY ContactsAssumption

(* A transaction sees the contacts it wrote and those that are committed. *)
LEMMA SeenExists ==
  ASSUME Sound, NEW t \in Caller, NEW c \in Contact
  PROVE  /\ Person(c) \in DOMAIN own[t] => Exists(Seen(t), c)
         /\ Person(c) \notin DOMAIN own[t] => (Exists(Seen(t), c) <=> Exists(db, c))
<1>1. t \in Txn /\ Rowed(own[t]) /\ Whole(db)
  BY ContactsAssumption DEF Sound, Valid
<1>2. CASE Person(c) \in DOMAIN own[t]
  <2>1. Seen(t)[Person(c)] = own[t][Person(c)]
    BY <1>2 DEF Seen, Overlay
  <2>. QED BY <1>1, <1>2, <2>1 DEF Rowed, Exists
<1>3. CASE Person(c) \notin DOMAIN own[t]
  <2>1. Seen(t)[Person(c)] = db[Person(c)]
    BY <1>1, <1>3 DEF Seen, Overlay, Whole
  <2>. QED BY <1>3, <2>1 DEF Exists
<1>. QED BY <1>2, <1>3

SeenAs(t, c) == /\ Person(c) \in DOMAIN own[t] => Exists(Seen(t), c)
                /\ Person(c) \notin DOMAIN own[t] => (Exists(Seen(t), c) <=> Exists(db, c))

(* The same as one formula, to be read of the next state. *)
LEMMA SeenAlways == Sound => \A t \in Caller, c \in Contact : SeenAs(t, c)
BY SeenExists DEF SeenAs

(* What t sees of the rows of j is committed. *)
LEMMA SeenApart ==
  ASSUME Sound, NEW j \in Caller, NEW t \in Caller, Apart(j, t), NEW x \in Rows(j), Exists(Seen(t), x)
  PROVE  Exists(db, x)
<1>1. x \in Contact
  BY RowsAre
<1>. QED BY <1>1, SeenExists DEF Apart

(* What a caller's step leaves of what is committed and of its own rows. *)
LEMMA CommitShows ==
  ASSUME Tidy, NEW t \in Caller, CallerStep(t)
  PROVE  /\ \A c \in Contact : Exists(db', c) => Exists(Seen(t), c)
         /\ \/ own'[t] \in {own[t], <<>>}
            \/ Put(t) /\ own'[t] = Overlay(Placed(t), own[t]) /\ call[t].pc = "put"
<1>0. Shape /\ Sound /\ Track(t) /\ Matched(t) /\ t \in Txn
  BY ContactsAssumption DEF Tidy
<1>1. \A c \in Contact : Exists(db, c) => Exists(Seen(t), c)
  BY <1>0, SeenExists
<1>2. CASE NextBatch(t)
  BY <1>0, <1>1, <1>2, NextBatchIs
<1>3. CASE Skipped(t)
  BY <1>0, <1>1, <1>3, SkippedIs
<1>4. CASE Threw(t)
  BY <1>0, <1>1, <1>4, ThrewIs
<1>5. CASE Found(t)
  BY <1>0, <1>1, <1>5, FoundIs
<1>6. CASE Put(t)
  <2>1. UNCHANGED db /\ own' = [own EXCEPT ![t] = Overlay(Placed(t), @)] /\ call[t].pc = "put"
    BY <1>0, <1>6, PutIs
  <2>2. own'[t] = Overlay(Placed(t), own[t])
    BY <1>0, <2>1 DEF Sound
  <2>. QED BY <1>1, <1>6, <2>1, <2>2
<1>7. CASE EndBatch(t)
  BY <1>0, <1>7, EndBatchIs
<1>8. CASE Enlisted(t)
  <2>. DEFINE m == [r \in {Member(AudienceOf[t], c) : c \in call[t].ids} |-> TRUE]
  <2>1. db' = Overlay(m, Seen(t)) /\ own'[t] = <<>>
    BY <1>0, <1>8, EnlistedIs
  <2>2. Aside(m)
    BY RowsDiffer DEF Aside
  <2>. HIDE DEF m
  <2>3. Whole(Seen(t))
    BY <1>0, SeenWhole DEF Sound
  <2>4. ASSUME NEW c \in Contact PROVE db'[Person(c)] = Seen(t)[Person(c)]
    BY <2>1, <2>2, <2>3 DEF Overlay, Aside, Whole
  <2>. QED BY <2>1, <2>4 DEF Exists
<1>. QED BY <1>0, <1>2, <1>3, <1>4, <1>5, <1>6, <1>7, <1>8, Kinds

(* What is committed, or given up, leaves it so. *)
LEMMA ApartOn ==
  ASSUME NEW j \in Caller, NEW t \in Caller, Apart(j, t), Grows(db, db'), own'[t] \in {own[t], <<>>}
  PROVE  Apart(j, t)'
<1>1. Rows(j) \subseteq Contact
  BY RowsAre
<1>. QED BY <1>1 DEF Apart, Grows

(* A row is stored in a contact that is there, or that is named after it. *)
LEMMA ApartPut ==
  ASSUME Tidy, NEW j \in Caller, NEW t \in Caller, j # t, Apart(j, t), Grows(db, db'),
         call[t].pc = "put", own'[t] = Overlay(Placed(t), own[t])
  PROVE  Apart(j, t)'
<1>0. Sound /\ Track(t) /\ Matched(t) /\ Rows(j) \subseteq Contact
  BY RowsAre DEF Tidy
<1>1. ASSUME NEW x \in Rows(j), Person(x) \in DOMAIN own'[t] PROVE Exists(db, x)
  <2>1. Person(x) \in DOMAIN Placed(t) \/ Person(x) \in DOMAIN own[t]
    BY <1>1 DEF Overlay
  <2>2. CASE Person(x) \in DOMAIN own[t]
    BY <2>2 DEF Apart
  <2>3. CASE Person(x) \in DOMAIN Placed(t)
    <3>1. x = Target(t)
      BY <1>0, <2>3, PlacedIs
    <3>2. Working(t) /\ call[t].rows # <<>>
      BY <1>0 DEF Working, Track
    <3>3. x # Top(t)
      BY <1>0, <3>2, Popped, NotShared
    <3>4. call[t].match # Nothing /\ x = call[t].match
      BY <3>1, <3>3 DEF Target, Or
    <3>5. Exists(Seen(t), x)
      BY <1>0, <3>4 DEF Matched
    <3>. QED BY <1>0, <3>5, SeenApart
  <2>. QED BY <2>1, <2>2, <2>3
<1>2. \A x \in Rows(j) : Person(x) \in DOMAIN own'[t] => Exists(db', x)
  BY <1>0, <1>1 DEF Grows
<1>. QED BY <1>2 DEF Apart

(* Hence every step of a caller does. *)
LEMMA ApartCaller ==
  ASSUME Tidy, AllApart, NEW k \in Caller, CallerStep(k)
  PROVE  AllApart'
<1>1. Grows(db, db') /\ \A t \in Caller \ {k} : own'[t] = own[t]
  BY TidyCaller, CallerAlone DEF Tidy
<1>2. ASSUME NEW j \in Caller, NEW t \in Caller, j # t PROVE Apart(j, t)'
  <2>1. Apart(j, t)
    BY <1>2 DEF AllApart
  <2>2. CASE own'[t] \in {own[t], <<>>}
    BY <1>1, <2>1, <2>2, ApartOn
  <2>3. CASE ~(own'[t] \in {own[t], <<>>})
    <3>1. t = k
      BY <1>1, <2>3
    <3>2. call[t].pc = "put" /\ own'[t] = Overlay(Placed(t), own[t])
      BY <2>3, <3>1, CommitShows
    <3>. QED BY <1>1, <1>2, <2>1, <3>2, ApartPut
  <2>. QED BY <2>2, <2>3
<1>. QED BY <1>2 DEF AllApart

---------------------------------------------------------------------------
(* An import counts its rows *)

(* A row it has been through was created, updated or rejected, the         *)
(* contacts it made are those it sees of its rows, and none of a row it    *)
(* has not come to.                                                        *)
Counted(j) == j \in Importer /\ call[j].pc # "thrown" =>
  /\ call[j].created \in Nat /\ call[j].updated \in Nat /\ call[j].rejected \in Nat
  /\ call[j].created + call[j].updated + call[j].rejected = Cardinality(Rows(j) \ Ahead(j))
  /\ call[j].created = Cardinality(Made(j))
  /\ Ahead(j) \cap Made(j) = {}

(* The contacts it made of its rows stay those when none of them appears. *)
LEMMA MadeSame ==
  ASSUME Sound, Sound', NEW j \in Caller, own'[j] = own[j],
         \A x \in Rows(j) : Person(x) \notin DOMAIN own[j] => (Exists(db', x) <=> Exists(db, x))
  PROVE  Made(j)' = Made(j)
<1>1. Rows(j) \subseteq Contact
  BY RowsAre
<1>2. ASSUME NEW x \in Rows(j) PROVE Exists(Seen(j), x)' <=> Exists(Seen(j), x)
  <2>1. x \in Contact
    BY <1>1
  <2>2. SeenAs(j, x)
    BY <2>1, SeenAlways
  <2>3. (Sound => \A t \in Caller, c \in Contact : SeenAs(t, c))'
    BY SeenAlways, PTL
  <2>4. SeenAs(j, x)'
    BY <2>1, <2>3
  <2>. QED BY <2>2, <2>4 DEF SeenAs, Exists
<1>. QED BY <1>2 DEF Made

(* A step that leaves it where it is, and what it made. *)
LEMMA CountedKept ==
  ASSUME NEW j \in Caller, Counted(j), call'[j] = call[j], Made(j)' = Made(j)
  PROVE  Counted(j)'
<1>1. Ahead(j)' = Ahead(j)
  BY DEF Ahead, Working
<1>. QED BY <1>1 DEF Counted

(* A request of one statement makes no contact. *)
LEMMA CountedOthers ==
  ASSUME Tidy, Others, NEW j \in Caller, Counted(j)
  PROVE  Counted(j)'
<1>1. Sound /\ Tidy' /\ Sound' /\ Grows(db, db') /\ NoNewPerson /\ UNCHANGED <<own, call>> /\ Rows(j) \subseteq Contact
  BY TidyOthers, RowsAre DEF Tidy
<1>2. Made(j)' = Made(j)
  BY <1>1, MadeSame DEF Grows, NoNewPerson
<1>. QED BY <1>1, <1>2, CountedKept

(* Nor does another caller make one of its rows. *)
LEMMA CountedElse ==
  ASSUME Tidy, AllApart, NEW t \in Caller, CallerStep(t), NEW j \in Caller, j # t, Counted(j)
  PROVE  Counted(j)'
<1>1. Sound /\ Sound' /\ Grows(db, db') /\ call'[j] = call[j] /\ own'[j] = own[j] /\ Rows(j) \subseteq Contact
  BY TidyCaller, CallerAlone, RowsAre DEF Tidy
<1>2. ASSUME NEW x \in Rows(j), Exists(db', x) PROVE Exists(db, x)
  <2>1. Exists(Seen(t), x) /\ Apart(j, t)
    BY <1>1, <1>2, CommitShows DEF AllApart
  <2>. QED BY <1>1, <2>1, SeenApart
<1>3. \A x \in Rows(j) : Exists(db', x) <=> Exists(db, x)
  BY <1>1, <1>2 DEF Grows
<1>4. Made(j)' = Made(j)
  BY <1>1, <1>3, MadeSame
<1>. QED BY <1>1, <1>4, CountedKept

(* Through one more row. *)
LEMMA OneLess ==
  ASSUME NEW j \in Caller, NEW A, A \subseteq Rows(j), NEW x \in A
  PROVE  Cardinality(Rows(j) \ (A \ {x})) = Cardinality(Rows(j) \ A) + 1
         /\ Cardinality(Rows(j) \ A) \in Nat
<1>1. IsFiniteSet(Rows(j) \ A)
  BY RowsAre, FS_Subset
<1>2. Rows(j) \ (A \ {x}) = (Rows(j) \ A) \cup {x} /\ x \notin Rows(j) \ A
  OBVIOUS
<1>. QED BY <1>1, <1>2, FS_AddElement, FS_CardinalityType

(* They are finitely many. *)
LEMMA MadeFinite == ASSUME NEW j \in Caller PROVE IsFiniteSet(Made(j)) /\ Made(j) \subseteq Rows(j)
BY RowsAre, FS_Subset DEF Made

(* A row that is stored is counted as created when its contact is new. *)
LEMMA CountedPut ==
  ASSUME Tidy, NEW j \in Caller, CallerStep(j), Put(j), Counted(j)
  PROVE  Counted(j)'
<1>0. Shape /\ Sound /\ Track(j) /\ Matched(j) /\ j \in Txn
  BY ContactsAssumption DEF Tidy
<1>1. /\ UNCHANGED db /\ own' = [own EXCEPT ![j] = Overlay(Placed(j), @)] /\ call[j].pc = "put"
      /\ call'[j].pc = "row" /\ call'[j].rows = Tail(call[j].rows) /\ call'[j].batch = call[j].batch
      /\ call'[j].created = (IF Target(j) = Top(j) THEN call[j].created + 1 ELSE call[j].created)
      /\ call'[j].updated = (IF Target(j) = Top(j) THEN call[j].updated ELSE call[j].updated + 1)
      /\ call'[j].rejected = call[j].rejected
  BY <1>0, PutIs
<1>2. Working(j) /\ call[j].rows # <<>> /\ Working(j)'
  BY <1>0, <1>1 DEF Working, Track
<1>3. /\ Top(j) \in Ahead(j) /\ Top(j) \in Rows(j) /\ Ahead(j)' = Ahead(j) \ {Top(j)}
  BY <1>0, <1>1, <1>2, Popped DEF Ahead
<1>4. Ahead(j) \subseteq Rows(j) /\ Rows(j) \subseteq Contact
  BY <1>0, AheadIn, RowsAre
<1>. DEFINE c == Target(j)
<1>5. Seen(j)' = Overlay(Placed(j), Seen(j))
  <2>1. own'[j] = Overlay(Placed(j), own[j])
    BY <1>0, <1>1 DEF Sound
  <2>. QED BY <1>1, <2>1, OverTwice DEF Seen
<1>6. /\ Person(c) \in DOMAIN Placed(j) /\ Exists(Placed(j), c)
      /\ \A x \in Contact \ {c} : Person(x) \notin DOMAIN Placed(j)
  BY <1>0, <1>1, PlacedIs
<1>7. Whole(Seen(j))
  BY <1>0, SeenWhole DEF Sound
<1>8. ASSUME NEW x \in Contact PROVE Exists(Seen(j), x)' <=> x = c \/ Exists(Seen(j), x)
  <2>1. CASE x = c
    <3>1. Seen(j)'[Person(c)] = Placed(j)[Person(c)]
      BY <1>5, <1>6 DEF Overlay
    <3>. QED BY <1>6, <2>1, <3>1 DEF Exists
  <2>2. CASE x # c
    <3>1. Seen(j)'[Person(x)] = Seen(j)[Person(x)]
      BY <1>5, <1>6, <1>7, <2>2 DEF Overlay, Whole
    <3>. QED BY <2>2, <3>1 DEF Exists
  <2>. QED BY <2>1, <2>2
<1>9. c # Top(j) => Exists(Seen(j), c)
  BY <1>0, <1>1 DEF Target, Or, Matched
<1>. HIDE DEF c
<1>10. SUFFICES ASSUME j \in Importer PROVE Counted(j)'
  BY DEF Counted
<1>11. /\ call[j].created \in Nat /\ call[j].updated \in Nat /\ call[j].rejected \in Nat
       /\ call[j].created + call[j].updated + call[j].rejected = Cardinality(Rows(j) \ Ahead(j))
       /\ call[j].created = Cardinality(Made(j))
       /\ Ahead(j) \cap Made(j) = {}
  BY <1>1, <1>10 DEF Counted
<1>12. Cardinality(Rows(j) \ Ahead(j)') = Cardinality(Rows(j) \ Ahead(j)) + 1
  BY <1>3, <1>4, OneLess
<1>13. Made(j)' = {x \in Rows(j) : x = c \/ Exists(Seen(j), x)}
  BY <1>4, <1>8 DEF Made
<1>14. CASE c = Top(j)
  <2>1. Made(j)' = Made(j) \cup {c} /\ c \notin Made(j)
    BY <1>3, <1>11, <1>13, <1>14 DEF Made
  <2>2. Cardinality(Made(j)') = Cardinality(Made(j)) + 1
    BY <2>1, MadeFinite, FS_AddElement
  <2>3. Ahead(j)' \cap Made(j)' = {}
    BY <1>3, <1>11, <1>14, <2>1
  <2>4. call'[j].created = call[j].created + 1 /\ call'[j].updated = call[j].updated
        /\ call'[j].rejected = call[j].rejected
    BY <1>1, <1>14 DEF c
  <2>. QED BY <1>11, <1>12, <2>2, <2>3, <2>4 DEF Counted
<1>15. CASE c # Top(j)
  <2>1. Made(j)' = Made(j)
    BY <1>9, <1>13, <1>15 DEF Made
  <2>2. Ahead(j)' \cap Made(j)' = {}
    BY <1>3, <1>11, <2>1
  <2>3. call'[j].created = call[j].created /\ call'[j].updated = call[j].updated + 1
        /\ call'[j].rejected = call[j].rejected
    BY <1>1, <1>15 DEF c
  <2>. QED BY <1>11, <1>12, <2>1, <2>2, <2>3 DEF Counted
<1>. QED BY <1>14, <1>15

(* Whatever step it takes. *)
LEMMA CountedStep ==
  ASSUME Tidy, NEW j \in Caller, CallerStep(j), Counted(j)
  PROVE  Counted(j)'
<1>0. Shape /\ Sound /\ Track(j) /\ Matched(j) /\ j \in Txn /\ Sound'
  BY ContactsAssumption, TidyCaller DEF Tidy
<1>1. CASE NextBatch(j)
  <2>1. /\ call[j].pc \in {"idle", "between"} /\ UNCHANGED <<db, own>>
        /\ call'[j].pc = "row" /\ call'[j].rows = Batch(j) /\ call'[j].batch = call[j].batch
        /\ call'[j].created = call[j].created /\ call'[j].updated = call[j].updated
        /\ call'[j].rejected = call[j].rejected
    BY <1>0, <1>1, NextBatchIs
  <2>2. call[j].batch \in DOMAIN Batches[j]
    BY <1>0, <2>1, BatchIn DEF Track
  <2>3. Ahead(j)' = Ahead(j)
    <3>1. Ahead(j) = From(j, call[j].batch)
      BY <2>1 DEF Ahead, Working
    <3>2. Ahead(j)' = ToSet(Batch(j)) \cup From(j, call[j].batch + 1)
      BY <2>1 DEF Ahead, Working
    <3>. QED BY <2>2, <3>1, <3>2, FromStep DEF Batch
  <2>4. Made(j)' = Made(j)
    BY <1>0, <2>1, MadeSame
  <2>5. call[j].pc # "thrown"
    BY <2>1
  <2>. QED BY <2>1, <2>3, <2>4, <2>5 DEF Counted
<1>2. CASE Skipped(j)
  <2>1. /\ UNCHANGED <<db, own>> /\ Working(j) /\ call[j].rows # <<>>
        /\ call'[j].pc = "row" /\ call'[j].rows = Tail(call[j].rows) /\ call'[j].batch = call[j].batch
        /\ call'[j].created = call[j].created /\ call'[j].updated = call[j].updated
        /\ call'[j].rejected = call[j].rejected + 1
    BY <1>0, <1>2, SkippedIs DEF Skipped
  <2>2. /\ Top(j) \in Ahead(j) /\ Ahead(j)' = Ahead(j) \ {Top(j)}
    BY <1>0, <2>1, Popped DEF Ahead, Working
  <2>3. Cardinality(Rows(j) \ Ahead(j)') = Cardinality(Rows(j) \ Ahead(j)) + 1
    BY <1>0, <2>2, OneLess, AheadIn
  <2>4. Made(j)' = Made(j)
    BY <1>0, <2>1, MadeSame
  <2>5. call[j].pc # "thrown"
    BY <2>1 DEF Working
  <2>. QED BY <2>1, <2>2, <2>3, <2>4, <2>5 DEF Counted
<1>3. CASE Threw(j)
  BY <1>0, <1>3, ThrewIs DEF Counted
<1>4. CASE Found(j)
  <2>1. /\ UNCHANGED <<db, own>> /\ call[j].pc = "row"
        /\ call'[j].pc = "put" /\ call'[j].rows = call[j].rows /\ call'[j].batch = call[j].batch
        /\ call'[j].created = call[j].created /\ call'[j].updated = call[j].updated
        /\ call'[j].rejected = call[j].rejected
    BY <1>0, <1>4, FoundIs
  <2>2. Ahead(j)' = Ahead(j)
    BY <2>1 DEF Ahead, Working
  <2>3. Made(j)' = Made(j)
    BY <1>0, <2>1, MadeSame
  <2>. QED BY <2>1, <2>2, <2>3 DEF Counted
<1>5. CASE Put(j)
  BY <1>5, CountedPut
<1>6. CASE EndBatch(j)
  <2>1. /\ db' = Seen(j) /\ own' = [t \in Txn |-> IF t = j THEN <<>> ELSE own[t]]
        /\ call[j].pc = "row" /\ call[j].rows = <<>>
        /\ call'[j].pc = (IF call[j].batch = Len(Batches[j]) THEN "done" ELSE "between")
        /\ call'[j].rows = call[j].rows /\ call'[j].batch = call[j].batch + 1
        /\ call'[j].created = call[j].created /\ call'[j].updated = call[j].updated
        /\ call'[j].rejected = call[j].rejected
    BY <1>0, <1>6, EndBatchIs
  <2>2. Ahead(j)' = Ahead(j)
    <3>1. Ahead(j) = From(j, call[j].batch + 1)
      BY <2>1 DEF Ahead, Working, ToSet
    <3>. QED BY <2>1, <3>1 DEF Ahead, Working
  <2>3. own'[j] = <<>>
    BY <1>0, <2>1
  <2>4. ASSUME NEW x \in Rows(j) PROVE Exists(Seen(j), x)' <=> Exists(Seen(j), x)
    <3>1. x \in Contact /\ Whole(db')
      BY <1>0, RowsAre DEF Sound
    <3>2. Seen(j)'[Person(x)] = db'[Person(x)]
      BY <2>3, <3>1 DEF Seen, Overlay, Whole
    <3>. QED BY <2>1, <3>2 DEF Exists
  <2>5. Made(j)' = Made(j)
    BY <2>4 DEF Made
  <2>. QED BY <2>1, <2>2, <2>5 DEF Counted
<1>7. CASE Enlisted(j)
  BY <1>0, <1>7, EnlistedIs, ContactsAssumption DEF Counted
<1>. QED BY <1>0, <1>1, <1>2, <1>3, <1>4, <1>5, <1>6, <1>7, Kinds

---------------------------------------------------------------------------
Honest == Tidy /\ AllApart /\ \A j \in Caller : Counted(j)

(* It has counted nothing to begin with. *)
LEMMA HonestInit == ASSUME Init PROVE Honest
<1>1. Tidy
  BY TidyInit
<1>2. db = Tables /\ own = [t \in Txn |-> <<>>] /\ Txn = Caller
  BY ContactsAssumption DEF Init
<1>3. AllApart
  BY <1>2 DEF AllApart, Apart
<1>4. ASSUME NEW j \in Caller PROVE Counted(j)
  <2>1. call[j].pc = "idle" /\ call[j].batch = 1 /\ call[j].created = 0 /\ call[j].updated = 0 /\ call[j].rejected = 0
    BY DEF Init
  <2>2. Ahead(j) = Rows(j)
    BY <2>1, FromFirst DEF Ahead, Working
  <2>3. ASSUME NEW x \in Rows(j) PROVE ~Exists(Seen(j), x)
    <3>1. x \in Contact /\ x \notin Old
      BY RowsAre, ContactsAssumption
    <3>2. ~Exists(db, x)
      BY <1>2, <3>1, TablesAre DEF Exists
    <3>3. Person(x) \notin DOMAIN own[j]
      BY <1>2
    <3>. QED BY <1>1, <3>1, <3>2, <3>3, SeenExists DEF Tidy
  <2>4. Made(j) = {}
    BY <2>3 DEF Made
  <2>5. Cardinality({}) = 0
    BY FS_EmptySet
  <2>6. Rows(j) \ Ahead(j) = {}
    BY <2>2
  <2>. QED BY <2>1, <2>4, <2>5, <2>6 DEF Counted
<1>. QED BY <1>1, <1>3, <1>4 DEF Honest

(* Every step keeps the counts. *)
LEMMA HonestNext == ASSUME Honest, [Next]_vars PROVE Honest'
<1>0. Tidy /\ AllApart /\ \A j \in Caller : Counted(j)
  BY DEF Honest
<1>1. ASSUME NEW k \in Caller, CallerStep(k) PROVE Honest'
  <2>1. Tidy' /\ AllApart'
    BY <1>0, <1>1, TidyCaller, ApartCaller
  <2>2. \A j \in Caller : Counted(j)'
    BY <1>0, <1>1, CountedStep, CountedElse
  <2>. QED BY <2>1, <2>2 DEF Honest
<1>2. CASE Others
  <2>1. Tidy' /\ Grows(db, db') /\ UNCHANGED own
    BY <1>0, <1>2, TidyOthers
  <2>2. AllApart'
    BY <1>0, <2>1, ApartOn DEF AllApart
  <2>3. \A j \in Caller : Counted(j)'
    BY <1>0, <1>2, CountedOthers
  <2>. QED BY <2>1, <2>2, <2>3 DEF Honest
<1>3. CASE UNCHANGED vars
  <2>1. UNCHANGED <<db, own, call>> /\ Tidy'
    BY <1>0, <1>3, TidyStutters DEF vars
  <2>2. AllApart'
    BY <1>0, <2>1 DEF AllApart, Apart, Exists
  <2>3. \A j \in Caller : Made(j)' = Made(j)
    BY <2>1 DEF Made, Exists, Seen, Overlay
  <2>4. \A j \in Caller : Counted(j)'
    BY <1>0, <2>1, <2>3, CountedKept
  <2>. QED BY <2>1, <2>2, <2>4 DEF Honest
<1>. QED BY <1>1, <1>2, <1>3, NextIs

(* A finished import tells the truth: each row is created, updated or      *)
(* rejected, and the contacts it says it created are there, whatever its   *)
(* batches met.                                                            *)
THEOREM SummarySafe == Spec => []SummaryIsTrue
<1>1. ASSUME Honest PROVE SummaryIsTrue
  <2>1. ASSUME NEW j \in Importer, call[j].pc = "done"
        PROVE  /\ call[j].created + call[j].updated + call[j].rejected = Cardinality(Rows(j))
               /\ call[j].created = Cardinality({x \in Rows(j) : db[Person(x)].exists})
    <3>1. j \in Caller /\ Track(j) /\ Counted(j) /\ Sound
      BY <1>1 DEF Honest, Tidy, Caller
    <3>2. ~Working(j) /\ call[j].batch = Len(Batches[j]) + 1 /\ own[j] = <<>>
      BY <2>1, <3>1 DEF Working, Track
    <3>3. Ahead(j) = {}
      BY <3>1, <3>2, FromLast DEF Ahead
    <3>4. \A x \in Rows(j) : Exists(Seen(j), x) <=> Exists(db, x)
      BY <3>1, <3>2, SeenExists, RowsAre
    <3>5. Made(j) = {x \in Rows(j) : db[Person(x)].exists}
      BY <3>4 DEF Made, Exists
    <3>6. Rows(j) \ Ahead(j) = Rows(j)
      BY <3>3
    <3>. QED BY <2>1, <3>1, <3>5, <3>6 DEF Counted
  <2>. QED BY <2>1 DEF SummaryIsTrue
<1>2. Init => Honest
  BY HonestInit
<1>3. Honest /\ [Next]_vars => Honest'
  BY HonestNext
<1>. QED BY <1>1, <1>2, <1>3, PTL DEF Spec
=============================================================================
