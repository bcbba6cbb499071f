------------------------------ MODULE Messages ------------------------------
(***************************************************************************)
(* Messaging for one contact of one tenant: the send intent                *)
(* (modules/messaging/index.ts) with channel selection and can_send        *)
(* (selection.ts, spine/consent), the send worker with its retries and its *)
(* fallback to the next channel, and the provider's status reports         *)
(* (worker.ts), over the pg-boss queue message.send (jobs/index.ts).       *)
(*                                                                         *)
(* Grain of atomicity.  A step is one transaction, or one call of the      *)
(* provider.  processSend holds no transaction across the call: between    *)
(* reading a message and writing what became of it anything may happen.    *)
(* send() is one step from its check to its insert: what commits between   *)
(* these two statements of one transaction is taken to come after them.    *)
(*                                                                         *)
(* A message's number stands for its row and its job.  A provider hands    *)
(* out its own ids: the n-th acceptance of a message is id n of it.  cut   *)
(* and calls are kept for the properties only; accepted and told are what  *)
(* the provider knows.                                                     *)
(*                                                                         *)
(* An operator called Mutant_... is not part of the model: it is a bug put *)
(* in the place of the definition after it, to see a property catch it.    *)
(***************************************************************************)
EXTENDS Integers, Sequences, FiniteSets, Functions

CONSTANTS
  Channel,       \* CHANNELS the contact has an address for
  NoChannel,     \* an intent that leaves the channel to the rules
  Purpose,       \* purposes the intents of an instance have
  Worker,        \* executions of message.send jobs
  NMessage,      \* bound: rows of messages
  NIntent,       \* bound: intents, the messages with no parent
  RetryLimit,    \* SEND_RETRY_LIMIT
  MaxFaults,     \* bound: crashes, failed transactions, stalls, lost answers
  MaxEdits       \* bound: changes of consent, windows, templates, providers

ASSUME BoundsAssumption ==
  /\ NMessage \in Nat \ {0} /\ NIntent \in Nat \ {0}
  /\ RetryLimit \in Nat /\ MaxFaults \in Nat /\ MaxEdits \in Nat
ASSUME ChannelAssumption == "sms" \in Channel /\ NoChannel \notin Channel /\ IsFiniteSet(Channel)
ASSUME PurposeAssumption == Purpose \subseteq {"transactional", "marketing"}

Message == 1..NMessage

VARIABLES
  messages,   \* the messages table
  events,     \* events about each message, in order
  job,        \* the message.send job of each message
  wk,         \* where each execution of processSend is
  accepted,   \* how often the provider took each message
  told,       \* acceptances of each message reported delivered at least once
  calls,      \* adapter.send calls for each message
  cut,        \* executions of each message's job a fault came into
  suppressed, \* channels with a suppression row for the contact
  granted,    \* channels whose latest marketing consent is granted
  closed,     \* channels a sending_window rule now denies
  fits,       \* channels the template exists for, renders and may be used
  usable,     \* channels with a provider configured
  faults, edits

env  == <<suppressed, granted, closed, fits, usable, edits>>
vars == <<messages, events, job, wk, accepted, told, calls, cut, env, faults>>

Status == {"none", "blocked", "queued", "sent", "delivered", "read", "failed"}
ReportStatus == {"delivered", "read", "failed"}

(* Lists of channels without repetition, as orderFor returns them. *)
ChannelLists ==
  UNION { {s \in [1..n -> Channel] : \A i, j \in 1..n : s[i] = s[j] => i = j}
          : n \in 0..Cardinality(Channel) }

(* s without the channels outside S, in the same order; one list. *)
Kept(s, S) ==
  {t \in ChannelLists :
     /\ Range(t) = Range(s) \cap S
     /\ \A i, j \in DOMAIN t : i < j =>
          \E k, l \in DOMAIN s : k < l /\ s[k] = t[i] /\ s[l] = t[j]}

NoRow == [status |-> "none", channel |-> NoChannel, fallback |-> <<>>, parent |-> 0,
          purpose |-> "transactional", run |-> FALSE, national |-> FALSE, providerId |-> 0]
NoJob == [state |-> "none", fetches |-> 0]
IdleWorker == [pc |-> "idle", at |-> 0, fetch |-> 0, id |-> 0]

Init ==
  /\ messages = [m \in Message |-> NoRow]
  /\ events   = [m \in Message |-> <<>>]
  /\ job      = [m \in Message |-> NoJob]
  /\ wk       = [w \in Worker |-> IdleWorker]
  /\ accepted = [m \in Message |-> 0]
  /\ told     = [m \in Message |-> {}]
  /\ calls    = [m \in Message |-> 0]
  /\ cut      = [m \in Message |-> 0]
  /\ usable \in SUBSET Channel /\ fits \in SUBSET Channel
  /\ granted \in SUBSET Channel /\ suppressed = {} /\ closed = {}
  /\ faults = 0 /\ edits = 0

---------------------------------------------------------------------------
(* Who may be reached where: canSend with checkRules false and true.       *)

Consented(purpose) ==
  (usable \ suppressed) \cap (IF purpose = "marketing" THEN granted ELSE Channel)
(* shut are the channels the rules deny at the clock the caller names. *)
CanSend(purpose, shut) == Consented(purpose) \ shut

(* A number that parses with the intent's country only, sms and whatsapp   *)
(* sharing it: normalize throws when one of them is asked about.           *)
Phone == {"sms", "whatsapp"}
Unreadable(row) == row.national /\ usable \cap Phone /= {}

(* a channel that was allowed when it was listed is taken to be so still *)
Mutant_TrustsTheList(order, purpose, shut) == {i \in DOMAIN order : i = 1}

(* renderFor: the template of the channel has the subject or the reference *)
(* the channel asks for, and renders.                                      *)
Renders(c) == c \in fits

(* selectChannel: the first channel of the order that may be sent on now.  *)
Chosen(order, purpose, shut) ==
  {i \in DOMAIN order : order[i] \in CanSend(purpose, shut)
                        /\ \A j \in 1..(i - 1) : order[j] \notin CanSend(purpose, shut)}

Orders(preferred) ==
  IF preferred = NoChannel THEN {s \in ChannelLists : Range(s) \subseteq usable}
                           ELSE {<<preferred>>}

Ids    == {m \in Message : messages[m].status /= "none"}
Unused == {m \in Message \ Ids : \A k \in 1..(m - 1) : k \in Ids}

Event(type, id) == [type |-> type, id |-> id]
Emit(log, m, type, id) == [log EXCEPT ![m] = Append(@, Event(type, id))]

(* The row send() inserts as message k, with its event and its job.  base  *)
(* is what the caller names: parent, purpose, run, contact, and for a child *)
(* the order that remains of its parent's.                                 *)
Insert(k, row, newJob) ==
  /\ messages' = [messages EXCEPT ![k] = row]
  /\ events'   = Emit(events, k, row.status, 0)
  /\ job'      = [job EXCEPT ![k] = newJob]

FirstJob == [state |-> "waiting", fetches |-> 0]
QueuedOn(base, channel, list) ==
  [base EXCEPT !.status = "queued", !.channel = channel, !.fallback = list]

(* the channel chosen stays on the list of those to fall back on *)
Mutant_KeepsChosen(k, preferred, shut, base) ==
  \E order \in Orders(preferred) : \E i \in Chosen(order, base.purpose, shut) :
    /\ Renders(order[i])
    /\ LET list == IF base.parent = 0 THEN SubSeq(order, i, Len(order)) ELSE base.fallback
       IN  Insert(k, QueuedOn(base, order[i], list), FirstJob)

SendQueues(k, preferred, shut, base) ==
  \E order \in Orders(preferred) : \E i \in Chosen(order, base.purpose, shut) :
    /\ Renders(order[i])
    /\ \E list \in IF base.parent = 0
                   THEN Kept(SubSeq(order, i + 1, Len(order)), Consented(base.purpose))
                   ELSE {base.fallback} :
         Insert(k, QueuedOn(base, order[i], list), FirstJob)

SendBlocks(k, preferred, shut, base) ==
  /\ \E order \in Orders(preferred) : Chosen(order, base.purpose, shut) = {}
  /\ Insert(k, [base EXCEPT !.status = "blocked", !.fallback = <<>>,
                  !.channel = IF preferred = NoChannel THEN "sms" ELSE preferred], NoJob)

(* send() throws a MessagingError: a channel not configured, or a template *)
(* that does not exist, render or carry an unsubscribe text for it.        *)
SendThrows(preferred, purpose) ==
  \/ preferred \notin usable
  \/ preferred \in CanSend(purpose, closed) /\ ~Renders(preferred)

Send(k, preferred, shut, base) ==
  SendQueues(k, preferred, shut, base) \/ SendBlocks(k, preferred, shut, base)

Intent(purpose, run, national) ==
  [NoRow EXCEPT !.purpose = purpose, !.run = run, !.national = national]

(* POST /v1/messages, an invite or a campaign; an intent that throws is    *)
(* answered with the error and leaves nothing behind.  Over the API it may *)
(* name another clock for the windows (evaluateAt), and the country of a   *)
(* national number; a campaign's contacts were normalized when stored.     *)
SendIntent(k) ==
  /\ k \in Unused
  /\ Cardinality({m \in Ids : messages[m].parent = 0}) < NIntent
  /\ \E preferred \in usable \cup {NoChannel}, purpose \in Purpose, shut \in SUBSET Channel,
        run, national \in BOOLEAN :
       /\ run => shut = closed /\ ~national
       /\ Send(k, preferred, shut, Intent(purpose, run, national))
  /\ UNCHANGED <<wk, accepted, told, calls, cut, env, faults>>

---------------------------------------------------------------------------
(* The queue.  A job is handed out RetryLimit + 1 times at most; an        *)
(* execution whose job was taken from it runs on, but no longer settles it.*)

Holds(w) == job[wk[w].at].state = "active" /\ job[wk[w].at].fetches = wk[w].fetch

Final(w) == wk[w].fetch - 1 >= RetryLimit   \* opts.finalAttempt

Failed(j) == [j EXCEPT !.state = IF j.fetches - 1 < RetryLimit THEN "waiting" ELSE "failed"]

Goto(w, pc) == wk' = [wk EXCEPT ![w].pc = pc]

Fetch(w, m) ==
  /\ wk[w].pc = "idle"
  /\ job[m].state = "waiting"
  /\ job' = [job EXCEPT ![m] = [state |-> "active", fetches |-> job[m].fetches + 1]]
  /\ wk'  = [wk EXCEPT ![w] = [pc |-> "reading", at |-> m, fetch |-> job[m].fetches + 1, id |-> 0]]
  /\ UNCHANGED <<messages, events, accepted, told, calls, cut, env, faults>>

(* The handler returned, or threw. *)
Return(w) ==
  /\ wk[w].pc \in {"returning", "throwing"}
  /\ job' = IF ~Holds(w) THEN job
            ELSE [job EXCEPT ![wk[w].at] =
                    IF wk[w].pc = "returning" THEN [@ EXCEPT !.state = "completed"] ELSE Failed(@)]
  /\ wk' = [wk EXCEPT ![w] = IdleWorker]
  /\ UNCHANGED <<messages, events, accepted, told, calls, cut, env, faults>>

---------------------------------------------------------------------------
(* processSend                                                             *)

Read(w) ==
  /\ wk[w].pc = "reading"
  /\ Goto(w, IF messages[wk[w].at].status = "queued" THEN "calling" ELSE "returning")
  /\ UNCHANGED <<messages, events, job, accepted, told, calls, cut, env, faults>>

ProviderAccepts(w) ==
  LET m == wk[w].at IN
  /\ wk[w].pc = "calling"
  /\ calls'    = [calls EXCEPT ![m] = @ + 1]
  /\ accepted' = [accepted EXCEPT ![m] = @ + 1]
  /\ wk' = [wk EXCEPT ![w].pc = "committing", ![w].id = accepted[m] + 1]
  /\ UNCHANGED <<messages, events, job, told, cut, env, faults>>

(* on to the next channel at every refusal, with the message left queued *)
Mutant_FallsBackEachTime(w) ==
  /\ wk[w].pc = "calling"
  /\ calls' = [calls EXCEPT ![wk[w].at] = @ + 1]
  /\ Goto(w, IF messages[wk[w].at].fallback /= <<>> THEN "fallingback"
             ELSE IF Final(w) THEN "failing" ELSE "throwing")
  /\ UNCHANGED <<messages, events, job, accepted, told, cut, env, faults>>

(* the error is logged and not thrown again *)
Mutant_SwallowsError(w) ==
  /\ wk[w].pc = "calling"
  /\ calls' = [calls EXCEPT ![wk[w].at] = @ + 1]
  /\ Goto(w, IF Final(w) THEN "failing" ELSE "returning")
  /\ UNCHANGED <<messages, events, job, accepted, told, cut, env, faults>>

ProviderRefuses(w) ==
  /\ wk[w].pc = "calling"
  /\ calls' = [calls EXCEPT ![wk[w].at] = @ + 1]
  /\ Goto(w, IF Final(w) THEN "failing" ELSE "throwing")
  /\ UNCHANGED <<messages, events, job, accepted, told, cut, env, faults>>

(* The provider took the message and its answer never came: a refusal, to  *)
(* the worker.                                                             *)
AnswerLost(w) ==
  LET m == wk[w].at IN
  /\ wk[w].pc = "calling"
  /\ faults < MaxFaults
  /\ calls'    = [calls EXCEPT ![m] = @ + 1]
  /\ accepted' = [accepted EXCEPT ![m] = @ + 1]
  /\ cut'      = [cut EXCEPT ![m] = @ + 1]
  /\ faults'   = faults + 1
  /\ Goto(w, IF Final(w) THEN "failing" ELSE "throwing")
  /\ UNCHANGED <<messages, events, job, told, env>>

(* No status in the where clause: a late execution overwrites. *)
CommitSent(w) ==
  LET m == wk[w].at IN
  /\ wk[w].pc = "committing"
  /\ messages' = [messages EXCEPT ![m].status = "sent", ![m].providerId = wk[w].id]
  /\ events'   = Emit(events, m, "sent", wk[w].id)
  /\ Goto(w, "returning")
  /\ UNCHANGED <<job, accepted, told, calls, cut, env, faults>>

(* without the call of fallBack *)
Mutant_FailsOnly(w) ==
  /\ wk[w].pc = "failing"
  /\ messages' = [messages EXCEPT ![wk[w].at].status = "failed"]
  /\ events'   = Emit(events, wk[w].at, "failed", 0)
  /\ Goto(w, "throwing")
  /\ UNCHANGED <<job, accepted, told, calls, cut, env, faults>>

FailMessage(w) ==
  LET m == wk[w].at IN
  /\ wk[w].pc = "failing"
  /\ messages' = [messages EXCEPT ![m].status = "failed"]
  /\ events'   = Emit(events, m, "failed", 0)
  /\ Goto(w, IF messages[m].fallback = <<>> THEN "throwing" ELSE "fallingback")
  /\ UNCHANGED <<job, accepted, told, calls, cut, env, faults>>

(* The same intent on the next channel, as a child message: queued, or     *)
(* blocked by can_send.  It is sent without the country of its parent.     *)
FallBack(w) ==
  LET m == wk[w].at  row == messages[m]  next == Head(row.fallback) IN
  /\ wk[w].pc = "fallingback"
  /\ next \in usable => ~Unreadable(row)
  /\ \E k \in Unused :
       \/ /\ ~SendThrows(next, row.purpose)
          /\ Send(k, next, closed, [row EXCEPT !.parent = m, !.fallback = Tail(@), !.providerId = 0])
       \/ /\ SendThrows(next, row.purpose)
          /\ Insert(k, [row EXCEPT !.status = "blocked", !.channel = next, !.fallback = <<>>,
                         !.parent = m, !.run = FALSE, !.providerId = 0], NoJob)
  /\ Goto(w, "announcing")
  /\ UNCHANGED <<accepted, told, calls, cut, env, faults>>

(* An error that is no MessagingError is thrown on: no child is written,   *)
(* and the execution was the last.                                         *)
FallBackThrows(w) ==
  LET row == messages[wk[w].at] IN
  /\ wk[w].pc = "fallingback"
  /\ Head(row.fallback) \in usable /\ Unreadable(row)
  /\ Goto(w, "throwing")
  /\ UNCHANGED <<messages, events, job, accepted, told, calls, cut, env, faults>>

(* message.fallback, in a transaction of its own. *)
Announce(w) ==
  /\ wk[w].pc = "announcing"
  /\ events' = Emit(events, wk[w].at, "fallback", 0)
  /\ Goto(w, "throwing")
  /\ UNCHANGED <<messages, job, accepted, told, calls, cut, env, faults>>

---------------------------------------------------------------------------
(* applyStatusReport.  Reports come late, twice, in any order or never.    *)

Mutant_FromAny(status)     == {"sent", "delivered", "read"}
Mutant_FailsAnyTime(status) == IF status = "delivered" THEN {"sent"} ELSE {"sent", "delivered"}
From(status) == IF status = "read" THEN {"sent", "delivered"} ELSE {"sent"}

Report(m, id, status) ==
  /\ id \in 1..accepted[m]
  /\ told' = IF status = "delivered" THEN [told EXCEPT ![m] = @ \cup {id}] ELSE told
  /\ IF messages[m].providerId = id /\ messages[m].status \in From(status)
     THEN /\ messages' = [messages EXCEPT ![m].status = status]
          /\ events'   = Emit(events, m, status, id)
     ELSE UNCHANGED <<messages, events>>
  /\ UNCHANGED <<job, wk, accepted, calls, cut, env, faults>>

(* POST /webhooks/:provider/:token.  The reports of a body are applied one *)
(* by one, each in a transaction of its own; what a body that is refused   *)
(* or cut short still held is not applied.                                 *)
Callback(m) == \E id \in 1..accepted[m], status \in ReportStatus : Report(m, id, status)

---------------------------------------------------------------------------
(* Faults *)

Fault(m) ==
  /\ faults < MaxFaults
  /\ faults' = faults + 1
  /\ cut' = [cut EXCEPT ![m] = @ + 1]

(* The process dies; its job stays active until it expires. *)
Crash(w) ==
  /\ wk[w].pc /= "idle"
  /\ Fault(wk[w].at)
  /\ wk' = [wk EXCEPT ![w] = IdleWorker]
  /\ UNCHANGED <<messages, events, job, accepted, told, calls, env>>

(* A query or a transaction fails, and the handler throws. *)
TransactionFails(w) ==
  /\ wk[w].pc \in {"reading", "committing", "failing", "fallingback", "announcing"}
  /\ Fault(wk[w].at)
  /\ Goto(w, "throwing")
  /\ UNCHANGED <<messages, events, job, accepted, told, calls, env>>

Expire(m) ==
  /\ job[m].state = "active"
  /\ job' = [job EXCEPT ![m] = Failed(@)]
  /\ UNCHANGED <<messages, events, wk, accepted, told, calls, env>>

Held(m) == \E w \in Worker : wk[w].pc /= "idle" /\ wk[w].at = m /\ Holds(w)

ExpireDead(m)    == ~Held(m) /\ Expire(m) /\ UNCHANGED <<cut, faults>>
ExpireRunning(m) == Held(m) /\ Expire(m) /\ Fault(m)

---------------------------------------------------------------------------
(* What changes around a message while it waits, is sent or falls back     *)

Edit ==
  /\ edits < MaxEdits
  /\ edits' = edits + 1
  /\ UNCHANGED <<messages, events, job, wk, accepted, told, calls, cut, faults>>

Suppress(c) ==
  /\ Edit
  /\ suppressed' = suppressed \cup {c}
  /\ UNCHANGED <<granted, closed, fits, usable>>

RecordConsent(c) ==
  /\ Edit
  /\ \/ granted' = granted \cup {c}
     \/ granted' = granted \ {c}
  /\ UNCHANGED <<suppressed, closed, fits, usable>>

WindowTurns(c) ==
  /\ Edit
  /\ \/ closed' = closed \cup {c}
     \/ closed' = closed \ {c}
  /\ UNCHANGED <<suppressed, granted, fits, usable>>

UpsertTemplate(c) ==
  /\ Edit
  /\ \/ fits' = fits \cup {c}
     \/ fits' = fits \ {c}
  /\ UNCHANGED <<suppressed, granted, closed, usable>>

StoreChannelConfig(c) ==
  /\ Edit
  /\ usable' = usable \cup {c}
  /\ UNCHANGED <<suppressed, granted, closed, fits>>

(* POST /v1/suppression and /v1/consent; PUT /v1/channels/:channel, which  *)
(* asks the provider first and stores in another transaction, and          *)
(* /v1/templates/:name.                                                    *)
ConsentRequest(c)   == Suppress(c) \/ RecordConsent(c)
MessagingRequest(c) == UpsertTemplate(c) \/ StoreChannelConfig(c)

Settings(c) == ConsentRequest(c) \/ MessagingRequest(c) \/ WindowTurns(c)

ProcessSend(w) ==
  \/ Read(w) \/ ProviderAccepts(w) \/ ProviderRefuses(w) \/ CommitSent(w)
  \/ FailMessage(w) \/ FallBack(w) \/ FallBackThrows(w) \/ Announce(w) \/ Return(w)

Next ==
  \/ \E m \in Message : SendIntent(m) \/ ExpireDead(m) \/ ExpireRunning(m)
  \/ \E w \in Worker : ProcessSend(w) \/ AnswerLost(w) \/ Crash(w) \/ TransactionFails(w)
  \/ \E w \in Worker, m \in Message : Fetch(w, m)
  \/ \E m \in Message : Callback(m)
  \/ \E c \in Channel : Settings(c)

Spec == Init /\ [][Next]_vars

---------------------------------------------------------------------------
(* Properties *)

RowType == [status : Status, channel : Channel \cup {NoChannel}, fallback : ChannelLists,
            parent : 0..NMessage, purpose : {"transactional", "marketing"}, run : BOOLEAN,
            national : BOOLEAN, providerId : Nat]
JobType == [state : {"none", "waiting", "active", "completed", "failed"}, fetches : 0..RetryLimit + 1]
WorkerType == [pc : {"idle", "reading", "calling", "committing", "failing", "fallingback",
                     "announcing", "returning", "throwing"},
               at : 0..NMessage, fetch : 0..RetryLimit + 1, id : Nat]

(* The shapes of the tables, the jobs and the executions; an execution at  *)
(* work has a message, and a final attempt alone declares it failed.       *)
TypeOK ==
  /\ messages \in [Message -> RowType]
  /\ job      \in [Message -> JobType]
  /\ wk       \in [Worker -> WorkerType]
  /\ \A w \in Worker : wk[w].pc /= "idle" => wk[w].at \in Message
  /\ \A w \in Worker : wk[w].pc \in {"failing", "fallingback", "announcing"} => Final(w)

RootOf[m \in Message] == IF messages[m].parent = 0 THEN m ELSE RootOf[messages[m].parent]
Chain(m) == {k \in Ids : RootOf[k] = m}
Intents  == {m \in Ids : messages[m].parent = 0}

(* One intent tries a channel once: however often its messages are retried *)
(* and whatever the settings become, a fallback never returns to a channel *)
(* that failed, nor starts twice (fallBack, and selection.ts:148).         *)
OneTryPerChannel ==
  \A m \in Intents : \A j, k \in Chain(m) :
    j /= k => messages[j].channel /= messages[k].channel

(* One intent reaches the provider once, over all its retries, fallbacks   *)
(* and channels, and once more at most for each execution a fault cut into *)
(* (processSend's early return, and failing only after the last refusal).  *)
OneAcceptancePerIntent ==
  \A m \in Intents : SumFunctionOnSet(accepted, Chain(m)) <= 1 + SumFunctionOnSet(cut, Chain(m))

(* A message whose job is over has been decided; one still queued with a   *)
(* job that is not coming back had its last execution cut short. And only  *)
(* a message that was queued ever had a job (the enqueue inside send).     *)
QueuedHasJob ==
  \A m \in Message :
    /\ job[m].state = "completed" => messages[m].status \notin {"none", "blocked", "queued"}
    /\ messages[m].status = "queued" =>
         \/ job[m].state \in {"waiting", "active"}
         \/ job[m].state = "failed" /\ cut[m] > 0

(* "A report that arrives twice, or out of order, matches nothing and so   *)
(* emits nothing": the log holds two reports of one provider id only where *)
(* a delivery is followed by a reading (applyStatusReport).                *)
ReportsCountOnce ==
  \A m \in Message : \A i, j \in DOMAIN events[m] :
    /\ i < j /\ events[m][i].id = events[m][j].id /\ events[m][i].id \in 1..accepted[m]
    /\ {events[m][i].type, events[m][j].type} \subseteq ReportStatus
    => events[m][i].type = "delivered" /\ events[m][j].type = "read"

Later(status) == CASE status = "none"      -> {"blocked", "queued"}
                   [] status = "queued"    -> {"sent", "failed"}
                   [] status = "sent"      -> ReportStatus
                   [] status = "delivered" -> {"read"}
                   [] OTHER                -> {}

(* A status only moves forward, unless a fault cut into an execution of    *)
(* the message before: retries and reports alone never take one back.      *)
StatusMovesForward ==
  [][\A m \in Message : cut'[m] = 0 /\ messages'[m].status /= messages[m].status =>
        messages'[m].status \in Later(messages[m].status)]_vars

(* "The only door out" (ARCHITECTURE.md:50): a message is queued only on a *)
(* channel whose consent and suppressions send() found to allow it there   *)
(* and then, on a fallback as on the first try, whatever selection found   *)
(* when the intent came in; and, but for an intent that named its own      *)
(* clock, one no window denies at that moment.                             *)
OnlyDoorOut ==
  [][\A m \in Message :
       messages[m].status = "none" /\ messages'[m].status = "queued" =>
         /\ messages'[m].channel \in Consented(messages'[m].purpose)
         /\ messages'[m].parent /= 0 \/ messages'[m].run => messages'[m].channel \notin closed
         /\ messages'[m].channel \notin Range(messages'[m].fallback)]_vars

---------------------------------------------------------------------------
(* Liveness.  Executions go on, pg-boss hands out waiting jobs and expires *)
(* those nobody works at any more.  Faults, reports, intents and settings  *)
(* are not fair.                                                           *)

Fairness ==
  /\ \A w \in Worker : WF_vars(ProcessSend(w))
  /\ \A m \in Message : WF_vars(\E w \in Worker : Fetch(w, m)) /\ WF_vars(ExpireDead(m))

FairSpec == Spec /\ Fairness

FailedBySender(m) == \E i \in DOMAIN events[m] : events[m][i] = Event("failed", 0)
Children(m) == {k \in Ids : messages[k].parent = m}

(* A queued message is sent or failed in the end, and a failed one goes on *)
(* to its next channel, unless a fault cut into its last executions, or    *)
(* the fallback cannot read the number its intent came with.               *)
IntentMovesOn ==
  \A m \in Message :
    /\ messages[m].status = "queued" ~> (messages[m].status /= "queued" \/ cut[m] > 0)
    /\ (FailedBySender(m) /\ messages[m].fallback /= <<>>) ~>
         (Children(m) /= {} \/ cut[m] > 0 \/ Unreadable(messages[m]))

---------------------------------------------------------------------------
(* What a comment or a document says and the code does not keep            *)

(* index.ts:18 "Three provider attempts before a message is failed":       *)
(* RetryLimit counts the retries, so there is one attempt more.            *)
AttemptsAreTheLimit == \A m \in Message : calls[m] <= RetryLimit

(* README.md:149 "When a send fails for good and a fallback remains, the   *)
(* worker re-runs the same intent on the next channel".                    *)
FallbackFollows ==
  \A m \in Message :
    (FailedBySender(m) /\ messages[m].fallback /= <<>>) ~> (Children(m) /= {})

(* index.ts:230 "Set when a campaign sent this, so the run can be traced   *)
(* from the message": a child belongs to the run of its parent.            *)
ChildKeepsRun ==
  \A m \in Ids : messages[m].parent /= 0 => messages[m].run = messages[messages[m].parent].run

(* README.md:148 "provider callbacks move it to `delivered`, `read` or     *)
(* `failed`": a message does not stay sent when the provider reported the  *)
(* very sending it is stamped with as delivered.                           *)
DeliveryIsRecorded ==
  \A m \in Message :
    messages[m].providerId \in told[m] ~> messages[m].status \in {"delivered", "read", "failed"}
=============================================================================
