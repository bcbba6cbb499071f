----------------------------- MODULE Discovery -----------------------------
(***************************************************************************)
(* Discovery (modules/discovery/index.ts) over the registry: companies are *)
(* suggested, invited and, once the marketplace reports that they signed   *)
(* up, no longer suggested.  An invitation is asked for by a request with  *)
(* an Idempotency-Key (api/middleware/idempotency.ts), which is looked up  *)
(* in one transaction and stored in another, with the handler in between.  *)
(*                                                                         *)
(* Accepting runs in a transaction of several statements and locks the     *)
(* rows it writes as upsert does; see Transactions.                        *)
(***************************************************************************)
EXTENDS Registry

CONSTANTS
  Request,      \* requests to invite; the invite a request makes is named after it
  KeyOf,        \* the Idempotency-Key of a request
  BodyOf,       \* what it asks: the company's id and the rest
  CompanyOf,    \* the company of its URL
  Searcher,     \* searches of the pool
  Limit,        \* query.limit
  Invited,      \* requests that were answered already: their invites are open
  MaxParties    \* bound: upserts, writers, requests, acceptances and searches that take part

ASSUME DiscoveryAssumption ==
  /\ Invited \subseteq Request /\ CompanyOf \in [Request -> Company]
  /\ MaxParties \in Nat /\ Limit \in Nat
  /\ Upsert \cap Acceptor = {} /\ \A r \in Invited : CompanyOf[r] \notin Upsert

VARIABLES
  request,    \* where each request is, and the company it resolved
  stored,     \* idempotency_keys: the request whose answer is kept for a key
  accept,     \* accept[a]: where acceptance a is and the invite it is about
  earlier,    \* earlier[r]: invites of its company whose acceptance had closed the others when r was sent
  search      \* search[s]: where search s is, the companies found and those shown

vars == <<db, own, born, up, writer, request, stored, accept, earlier, search>>

Invite(r) == <<"invite", r>>
NoInvite  == [status |-> "none", company |-> Nothing]

Init ==
  /\ RegistryInit
  /\ db = Overlay([i \in {Invite(r) : r \in Request} |->
                     IF i[2] \in Invited THEN [status |-> "sent", company |-> CompanyOf[i[2]]] ELSE NoInvite], Tables)
  /\ request = [r \in Request |-> [pc |-> IF r \in Invited THEN "over" ELSE "idle", company |-> Nothing]]
  /\ stored  = [k \in {KeyOf[r] : r \in Request} |-> Nothing]
  /\ accept  = [a \in Acceptor |-> [pc |-> "idle", invite |-> Nothing]]
  /\ earlier = [r \in Request |-> {}]
  /\ search  = [s \in Searcher |-> [pc |-> "idle", found |-> {}, shown |-> {}]]

Parties == Cardinality({u \in Upsert : up[u].pc # "idle"}) + Cardinality({w \in Writer : writer[w] # Nothing})
           + Cardinality({r \in Request \ Invited : request[r].pc # "idle"})
           + Cardinality({a \in Acceptor : accept[a].pc # "idle"})
           + Cardinality({s \in Searcher : search[s].pc # "idle"})

---------------------------------------------------------------------------
(* POST /v1/companies/:id/invite under the idempotency middleware *)

Step(r, pc) == request' = [request EXCEPT ![r].pc = pc]

(* A stored answer is given again, and refused for another body: the       *)
(* request is over either way.                                             *)
LookUpKey(r) ==
  /\ request[r].pc = "idle" /\ Parties < MaxParties
  /\ IF stored[KeyOf[r]] # Nothing
     THEN Step(r, IF BodyOf[stored[KeyOf[r]]] = BodyOf[r] THEN "replayed" ELSE "reused")
     ELSE Step(r, "handler")
  /\ UNCHANGED <<db, own, born, up, writer, stored, accept, earlier, search>>

ResolveInvitee(r) ==
  /\ request[r].pc = "handler" /\ db[Row(CompanyOf[r])].exists
  /\ request' = [request EXCEPT ![r] = [pc |-> "invitee", company |-> Resolve(db, CompanyOf[r])]]
  /\ UNCHANGED <<db, own, born, up, writer, stored, accept, earlier, search>>

(* The message and the invite commit together; a blocked message makes no  *)
(* invite, and is an answer as well.  An error is none: it is not stored.  *)
Joining(a) == db[Invite(accept[a].invite)].company

Joined(c) ==
  {s \in Request : db[Invite(s)].status = "accepted" /\ db[Invite(s)].company = c}
  \cup {accept[a].invite : a \in {b \in Acceptor : accept[b].pc = "commit" /\ Joining(b) = c}}

SendInvite(r) ==
  /\ request[r].pc = "invitee"
  /\ Store(OneRow(Invite(r), [status |-> "sent", company |-> request[r].company]))
  /\ earlier' = [earlier EXCEPT ![r] = Joined(request[r].company)]
  /\ Step(r, "answered")
  /\ UNCHANGED <<own, born, up, writer, stored, accept, search>>

InviteBlocked(r) ==
  /\ request[r].pc = "invitee"
  /\ Step(r, "answered")
  /\ UNCHANGED <<db, own, born, up, writer, stored, accept, earlier, search>>

RequestFails(r) ==
  /\ request[r].pc \in {"handler", "invitee", "answered"}
  /\ Step(r, "cut")
  /\ UNCHANGED <<db, own, born, up, writer, stored, accept, earlier, search>>

(* Of two first calls the one that stores first keeps its answer. *)
Mutant_LastOneStays(r) ==
  /\ request[r].pc = "answered"
  /\ stored' = [stored EXCEPT ![KeyOf[r]] = r]
  /\ Step(r, "over")
  /\ UNCHANGED <<db, own, born, up, writer, accept, earlier, search>>

StoreAnswer(r) ==
  /\ request[r].pc = "answered"
  /\ stored' = [stored EXCEPT ![KeyOf[r]] = IF @ = Nothing THEN r ELSE @]
  /\ Step(r, "over")
  /\ UNCHANGED <<db, own, born, up, writer, accept, earlier, search>>

(* idempotency.cleanup, a day later. *)
ForgetKey(k) ==
  /\ stored[k] # Nothing
  /\ stored' = [stored EXCEPT ![k] = Nothing]
  /\ UNCHANGED <<db, own, born, up, writer, request, accept, earlier, search>>

---------------------------------------------------------------------------
(* acceptInvite *)

Reached(a, pc) == accept' = [accept EXCEPT ![a].pc = pc]
Rest == <<born, up, writer, request, stored, earlier, search>>

(* for update: a row another acceptance has written is waited for.  The    *)
(* time may have run out on any invite.                                    *)
Mutant_TakesExpired(a, r) ==
  /\ accept[a].pc = "idle" /\ Parties < MaxParties
  /\ Free(a, {Invite(r)})
  /\ \/ /\ db[Invite(r)].status \in {"sent", "expired"}
        /\ own' = [own EXCEPT ![a] = OneRow(Invite(r), [db[Invite(r)] EXCEPT !.status = "accepted"])]
        /\ accept' = [accept EXCEPT ![a] = [pc |-> "mark", invite |-> r]]
     \/ /\ db[Invite(r)].status # "none"
        /\ Reached(a, "over") /\ UNCHANGED own
  /\ UNCHANGED <<db, Rest>>

LockInvite(a, r) ==
  /\ accept[a].pc = "idle" /\ Parties < MaxParties
  /\ Free(a, {Invite(r)})
  /\ \/ /\ db[Invite(r)].status = "sent"
        /\ own' = [own EXCEPT ![a] = OneRow(Invite(r), [db[Invite(r)] EXCEPT !.status = "accepted"])]
        /\ accept' = [accept EXCEPT ![a] = [pc |-> "mark", invite |-> r]]
     \/ /\ db[Invite(r)].status # "none"
        /\ Reached(a, "over") /\ UNCHANGED own
  /\ UNCHANGED <<db, Rest>>

MarkJoined(a) ==
  /\ accept[a].pc = "mark"
  /\ Write(a, OneRow(Row(Joining(a)), [db[Row(Joining(a))] EXCEPT !.ref = a]))
  /\ Reached(a, "close") /\ UNCHANGED <<db, Rest>>

CloseOthers(a) ==
  /\ accept[a].pc = "close"
  /\ LET open == {r \in Request \ {accept[a].invite} :
                    db[Invite(r)].status = "sent" /\ db[Invite(r)].company = Joining(a)}
     IN Write(a, [i \in {Invite(r) : r \in open} |-> [db[i] EXCEPT !.status = "expired"]])
  /\ Reached(a, "commit") /\ UNCHANGED <<db, Rest>>

CommitAccept(a) ==
  /\ accept[a].pc = "commit"
  /\ Commit(a)
  /\ Reached(a, "over") /\ UNCHANGED Rest

AbortAccept(a) ==
  /\ accept[a].pc \in {"mark", "close", "commit"}
  /\ RollBack(a)
  /\ earlier' = [r \in Request |-> earlier[r] \ {accept[a].invite}]
  /\ Reached(a, "over") /\ UNCHANGED <<db, born, up, writer, request, stored, search>>

---------------------------------------------------------------------------
(* POST /v1/discovery/search: the finder's query, then each company it     *)
(* found is read again, in a statement of its own, with profile and view.  *)

(* What the finder may suggest: live, and not on the marketplace. *)
Suggested == {c \in Company : /\ db[Row(c)].exists /\ db[Row(c)].merged = Nothing
                              /\ db[Row(c)].ref = Nothing}

Found(S) == {F \in SUBSET S : Cardinality(F) <= Limit}
Others == <<db, own, born, up, writer, request, stored, accept, earlier>>

SearchFinds(s) ==
  /\ search[s].pc = "idle" /\ Parties < MaxParties
  /\ \E found \in Found(Suggested) : search' = [search EXCEPT ![s].pc = "filling", ![s].found = found]
  /\ UNCHANGED Others

Hydrate(s) ==
  /\ search[s].pc = "filling"
  /\ \E c \in search[s].found \ search[s].shown :
       /\ db[Row(c)].exists
       /\ search' = [search EXCEPT ![s].shown = @ \cup {c}]
  /\ UNCHANGED Others

SearchAnswers(s) ==
  /\ search[s].pc = "filling" /\ search[s].shown = search[s].found
  /\ search' = [search EXCEPT ![s].pc = "over"]
  /\ UNCHANGED Others

(* For an audience: the ids of one query are the answer.                   *)
FindCompanyIds(s) ==
  /\ search[s].pc = "idle" /\ Parties < MaxParties
  /\ \E found \in Found(Suggested) :
       search' = [search EXCEPT ![s] = [pc |-> "over", found |-> found, shown |-> found]]
  /\ UNCHANGED Others

Search(s) == SearchFinds(s) \/ Hydrate(s) \/ SearchAnswers(s)

---------------------------------------------------------------------------
RequestStep(r) ==
  \/ LookUpKey(r) \/ ResolveInvitee(r) \/ SendInvite(r) \/ InviteBlocked(r)
  \/ RequestFails(r) \/ StoreAnswer(r)

AcceptStep(a) ==
  \/ \E r \in Request : LockInvite(a, r)
  \/ MarkJoined(a) \/ CloseOthers(a) \/ CommitAccept(a) \/ AbortAccept(a)

(* PUT of a view or a profile: the live company first, then the write. *)
Edit(w) == (Parties < MaxParties /\ ResolveFor(w)) \/ PutView(w) \/ PutProfile(w)

PoolStep ==
  \/ \E u \in Upsert : (up[u].pc = "idle" => Parties < MaxParties) /\ UpsertStep(u)
  \/ \E w \in Writer : Edit(w)

Next ==
  \/ PoolStep /\ UNCHANGED <<request, stored, accept, earlier, search>>
  \/ \E r \in Request : RequestStep(r)
  \/ \E k \in DOMAIN stored : ForgetKey(k)
  \/ \E a \in Acceptor : AcceptStep(a)
  \/ \E s \in Searcher : Search(s) \/ FindCompanyIds(s)

Spec == Init /\ [][Next]_vars

---------------------------------------------------------------------------
(* Properties *)

TypeOK ==
  /\ RegistryTypeOK
  /\ \A r \in Request : db[Invite(r)].status \in {"none", "sent", "accepted", "expired"}
                        /\ db[Invite(r)].company \in Company \cup {Nothing}
  /\ \A k \in DOMAIN stored : stored[k] \in Request \cup {Nothing}

(* Nobody else needs to invite a company that has joined: of two invites   *)
(* of a company one at most is accepted, however their acceptances         *)
(* overlap, unless the other was sent after the first acceptance had       *)
(* closed what was open.                                                   *)
OneAcceptance ==
  \A r, s \in Request :
    /\ r # s /\ db[Invite(r)].status = "accepted" /\ db[Invite(s)].status = "accepted"
    /\ db[Invite(r)].company = db[Invite(s)].company
    => r \in earlier[s] \/ s \in earlier[r]

(* A company that accepted is on the marketplace, and stays in no list of  *)
(* suggestions, whatever is merged into it or it is merged into.           *)
JoinedNotSuggested ==
  \A r \in Request : db[Invite(r)].status = "accepted" =>
    Resolve(db, db[Invite(r)].company) \notin Suggested

(* The answer kept for a key stays the one that was kept first until the   *)
(* key is forgotten, so that two retries are never told different things.  *)
AnswerStays ==
  [][\A k \in DOMAIN stored : stored[k] # Nothing => stored'[k] \in {stored[k], Nothing}]_vars

(* basic.ts:15 "no merged-away company, no company already on the          *)
(* marketplace": a company an answer shows is one that may be suggested    *)
(* when it is read for the answer (search, hydrate).                       *)
ShowsSuggested ==
  [][\A s \in Searcher : search'[s].shown \ search[s].shown \subseteq Suggested]_vars
=============================================================================
