------------------------------ MODULE Sending ------------------------------
(***************************************************************************)
(* When a campaign's message may go out, and on which channel: consent and *)
(* suppression (spine/consent), rules in their scopes (spine/rules), the   *)
(* choice of a channel (modules/messaging/selection.ts), the search for an *)
(* open window (modules/campaigns/window.ts) and the next run of a         *)
(* recurrence (cron.ts, nextRunAt).  One campaign is followed from its     *)
(* schedule through batches that send, defer or block its recipients,      *)
(* while consent, suppression and the tenant's rules change and the clock  *)
(* moves.  What else a batch does is the module Campaigns'.                *)
(*                                                                         *)
(* A minute is the unit of time, of the calendar in the module Calendar.   *)
(*                                                                         *)
(* An operator called Mutant_... is not part of the model: it is a bug put *)
(* in the place of the definition after it, to see a property catch it.    *)
(***************************************************************************)
EXTENDS SequencesExt, Calendar

CONSTANTS
  Channels,      \* the channels, in the order of CHANNELS
  DefaultOrder,  \* the order they are tried in when no rule says
  Configured,    \* the channels the tenant has a provider for
  Preferred,     \* the channel the campaign names, or Nothing
  TemplateFor,   \* the channels the campaign's template exists for
  Marketing,     \* whether the campaign is marketing
  Persons,       \* contacts, in the order of their ids
  AddressOf,     \* AddressOf[p][channel], or Nothing
  RegionOf,      \* the region an address implies, or Nothing
  ZoneOf,        \* the zone of a region; Nothing's is UTC
  Rule,          \* Rule[r]: its scope, region, kind, whether the tenant's, and what it answers
  TenantRule,    \* the rules the tenant may create and delete
  Audience,      \* the audience: its kind, members or definition
  Tags, CompanyOf, Found,   \* of contacts; the companies the finder finds
  Step, Horizon, \* the marks a window is looked for at, and how far ahead
  Plans,         \* the recurrences, each with a zone, that a campaign may have
  Granted,       \* the consent there is at the start
  Decisions,     \* bound: consent decisions somebody may record
  Blocks,        \* bound: addresses somebody may suppress
  Start, MaxTime,\* bound: the clock
  MaxChanges     \* bound: decisions, suppressions, rules, and edits and pauses of the campaign

Person == ToSet(Persons)

(* CHANNELS and the default order are lists of names, and so is the order   *)
(* that a rule of channel_selection answers with, if it answers.            *)
ASSUME ChannelsAssumption ==
  /\ Nothing \notin Int
  /\ Channels \in Seq(ToSet(Channels)) /\ Nothing \notin ToSet(Channels)
  /\ DefaultOrder \in Seq(ToSet(DefaultOrder))
  /\ TenantRule \subseteq DOMAIN Rule
  /\ \A r \in DOMAIN Rule : Rule[r].kind = "channel_selection" =>
       \A asked \in DOMAIN Rule[r].answers :
         \/ Rule[r].answers[asked] = Nothing
         \/ Rule[r].answers[asked] \in Seq(ToSet(Rule[r].answers[asked]))

(* Hours of the clock begin at marks, in every zone and across its changes: *)
(* a mark is a quarter of an hour, and so is the unit of the offsets.       *)
OnMarks(zone) ==
  /\ {zone.before, zone.after, zone.change} \subseteq Int
  /\ zone.before % Step = 0 /\ zone.after % Step = 0 /\ zone.change % Step = 0

ASSUME MarksAssumption ==
  /\ Step \in Nat \ {0} /\ Hour % Step = 0 /\ Horizon \in Nat /\ Start \in Nat
  /\ \A p \in Person, c \in ToSet(Channels) :
       AddressOf[p][c] # Nothing => OnMarks(ZoneOf[RegionOf[AddressOf[p][c]]])

(* A change of clocks moves them by two hours at most. *)
Moves(zone) ==
  /\ {zone.before, zone.after, zone.change} \subseteq Int
  /\ zone.before - zone.after \in -2 * Hour..2 * Hour

ASSUME PlansAssumption ==
  /\ Day > 1 /\ SearchDays > 2
  /\ \A new \in Plans : {new[1].scheduledAt, new[1].endsAt, new[1].maxRuns} \subseteq Nat /\ Moves(new[2])

Nobody == [state |-> "none", until |-> Nothing, why |-> Nothing]

VARIABLES
  now, changes,
  consent,      \* the rows of consent, in the order they were inserted
  suppression,  \* the suppressed channels and addresses, platform's and tenant's
  rules,        \* the rules that are there
  recip,        \* recip[p]: a recipient's state, not_before and reason
  batch,        \* the batch that runs: its clock, whom it has left, windows it found
  plan          \* the schedule: its recurrence, zone, what next_run_at was counted from

vars == <<now, changes, consent, suppression, rules, recip, batch, plan>>

---------------------------------------------------------------------------
(* What create and patch ask of a campaign; scheduledAt 0 is none.         *)

Needed == IF Preferred = Nothing THEN Configured ELSE {Preferred}

ValidInput(is, time) ==
  /\ TemplateFor # {} /\ Needed \subseteq TemplateFor
  /\ is.cron # Nothing => ~CronError(is.cron)
  /\ is.scheduledAt \notin 1..time

Init ==
  /\ now = Start /\ changes = 0
  /\ consent = Granted /\ suppression = {}
  /\ rules = (DOMAIN Rule) \ TenantRule
  /\ recip = [p \in Person |-> Nobody]
  /\ batch = [on |-> FALSE, at |-> Start, left |-> <<>>, windows |-> <<>>]
  /\ \E new \in Plans : \E is \in {new[1]} :
       /\ ValidInput(is, Start)
       /\ plan = [status |-> "draft", is |-> is, zone |-> new[2], from |-> Start, next |-> Nothing, runs |-> 0]

---------------------------------------------------------------------------
(* Rules *)

Rank(scope) == CASE scope = "platform" -> 0 [] scope = "region" -> 1 [] OTHER -> 2

Loaded(kind, region) ==
  {r \in rules : Rule[r].kind = kind /\ (Rule[r].scope = "region" => Rule[r].region = region)}

(* Nothing for null, and for a document that throws, which is skipped. *)
Answer(r, context) == IF context \in DOMAIN Rule[r].answers THEN Rule[r].answers[context] ELSE Nothing

Said(kind, region, context) == {r \in Loaded(kind, region) : Answer(r, context) # Nothing}

MostSpecific(said, r) == \A s \in said : Rank(Rule[s].scope) <= Rank(Rule[r].scope)

(* The first deny wins, from the platform to the tenant: it is a deny      *)
(* whenever one of them is.                                                *)
Mutant_SpecificFirst(kind, region, context) ==
  \E r \in Said(kind, region, context) :
    Answer(r, context) = "deny" /\ MostSpecific(Said(kind, region, context), r)

Denied(kind, region, context) == \E r \in Said(kind, region, context) : Answer(r, context) = "deny"

(* The most specific value, for a kind that states a preference. *)
ValueOf(said, context) ==
  IF said = {} THEN Nothing ELSE Answer(CHOOSE r \in said : MostSpecific(said, r), context)

Decide(kind, region, context) == ValueOf(Said(kind, region, context), context)

---------------------------------------------------------------------------
(* Consent: the one decision point *)

Suppressed(c, a) == \E s \in suppression : s.channel = c /\ s.address = a

(* The row with the latest date, and the last of those. *)
RowsOf(c, a) == {i \in DOMAIN consent : consent[i].channel = c /\ consent[i].address = a}

Latest(rows) ==
  IF rows = {} THEN "none" ELSE consent[Max({i \in rows : \A j \in rows : consent[j].at <= consent[i].at})].status

Agreed(c, a) == ~Suppressed(c, a) /\ (Marketing => Latest(RowsOf(c, a)) = "granted")

(* In the address's own local time.  A document also reads the purpose,    *)
(* which is the same for a whole campaign.                                 *)
WindowClosed(c, a, at) ==
  LET local == WallClock(at, ZoneOf[RegionOf[a]])
  IN  Denied("sending_window", RegionOf[a], <<c, RegionOf[a], HourOf(local), DayOfWeek(local)>>)

Mutant_RulesFirst(c, a, at) ==
  IF WindowClosed(c, a, at) THEN "rule"
  ELSE IF Suppressed(c, a) THEN "suppressed"
  ELSE IF ~Agreed(c, a) THEN "no_consent" ELSE "allowed"

CanSend(c, a, at) ==
  IF Suppressed(c, a) THEN "suppressed"
  ELSE IF ~Agreed(c, a) THEN "no_consent"
  ELSE IF WindowClosed(c, a, at) THEN "rule" ELSE "allowed"

---------------------------------------------------------------------------
(* The choice of a channel *)

(* A channel named twice counts where it is named first. *)
OnlyIn(order, channels) ==
  LET kept[n \in 0..Len(order)] ==
        IF n = 0 THEN <<>>
        ELSE IF order[n] \in channels \ ToSet(kept[n - 1]) THEN Append(kept[n - 1], order[n]) ELSE kept[n - 1]
  IN kept[Len(order)]

Available(p) == OnlyIn(Channels, {c \in Configured : AddressOf[p][c] # Nothing})

(* Only a phone implies the region that the order of channels is ruled by. *)
OrderRegion(p) == IF AddressOf[p]["sms"] = Nothing THEN Nothing ELSE RegionOf[AddressOf[p]["sms"]]

AgreedTo(p) == {c \in ToSet(Available(p)) : Agreed(c, AddressOf[p][c])}

Ruled(order) == IF order = Nothing THEN DefaultOrder ELSE order

OrderFor(p) ==
  IF Preferred # Nothing THEN OnlyIn(Available(p), {Preferred})
  ELSE OnlyIn(Ruled(Decide("channel_selection", OrderRegion(p), AgreedTo(p))), ToSet(Available(p)))

Verdicts(p, order, at) == [i \in DOMAIN order |-> CanSend(order[i], AddressOf[p][order[i]], at)]

FirstWith(verdicts, said) == Earliest({i \in DOMAIN verdicts : verdicts[i] = said})

(* The first channel in the order that may be sent on, and what is left to *)
(* fall back on, which need not be open now; else the first that only a    *)
(* window holds back.                                                      *)
Fallback(order, verdicts, i) ==
  [k \in 1..Cardinality({j \in i + 1..Len(order) : verdicts[j] \in {"allowed", "rule"}}) |->
     order[Min({j \in i + 1..Len(order) :
       Cardinality({l \in i + 1..j : verdicts[l] \in {"allowed", "rule"}}) = k})]]

Chosen(order, verdicts, i) ==
  IF i # Nothing
  THEN [chosen |-> order[i], fallback |-> Fallback(order, verdicts, i), window |-> Nothing]
  ELSE [chosen |-> Nothing, fallback |-> <<>>,
        window |-> IF FirstWith(verdicts, "rule") = Nothing THEN Nothing ELSE order[FirstWith(verdicts, "rule")]]

Select(order, verdicts) == Chosen(order, verdicts, FirstWith(verdicts, "allowed"))

Preflight(p, at) == Select(OrderFor(p), Verdicts(p, OrderFor(p), at))

Allowed(p, at) ==
  \E c \in ToSet(Available(p)) : CanSend(c, AddressOf[p][c], at) = "allowed" /\ c \in ToSet(OrderFor(p))

---------------------------------------------------------------------------
(* The next open window, and who is in the audience *)

Mutant_NotOnTheClock(p, from) ==
  Earliest({t \in from + 1..from + Horizon : (t - from) % Step = 0 /\ Allowed(p, t)})

NextSendingWindow(p, from) == Earliest({t \in from + 1..from + Horizon : t % Step = 0 /\ Allowed(p, t)})

Resolve ==
  IF Audience.kind = "static" THEN Audience.members
  ELSE {p \in Person :
          /\ CompanyOf[p] \in Found
          /\ Audience.companies = {} \/ CompanyOf[p] \in Audience.companies
          /\ Audience.tags = {} \/ Tags[p] \cap Audience.tags # {}
          /\ Audience.channels = {} \/ \E c \in Audience.channels : AddressOf[p][c] # Nothing}

(* Somebody held back only by a window counts. *)
AnySendable(at) ==
  Configured # {} /\ \E p \in Resolve : \E v \in {Preflight(p, at)} : v.chosen # Nothing \/ v.window # Nothing

---------------------------------------------------------------------------
(* The schedule *)

Change == changes < MaxChanges /\ changes' = changes + 1

(* A recurrence with a scheduledAt starts no earlier than it, and ends     *)
(* after maxRuns or endsAt.                                                *)
Ended(is, runs, next) == runs >= is.maxRuns \/ next = Nothing \/ (next # Nothing /\ next > is.endsAt)

NextRunAt(is, zone, after, runs) ==
  IF is.cron = Nothing
  THEN IF runs > 0 THEN Nothing ELSE IF is.scheduledAt > after THEN is.scheduledAt ELSE after
  ELSE Earliest({next \in {NextOccurrence(ParseCron(is.cron),
                              IF is.scheduledAt > after THEN is.scheduledAt - 1 ELSE after, zone)} :
                   ~Ended(is, runs, next)})

Schedule ==
  /\ plan.status = "draft" /\ plan.is.scheduledAt \notin 1..now
  /\ \E at \in {NextRunAt(plan.is, plan.zone, now, 0)} :
       /\ at # Nothing /\ (Marketing => AnySendable(at))
       /\ plan' = [plan EXCEPT !.status = "scheduled", !.from = now, !.next = at]
  /\ UNCHANGED <<now, changes, consent, suppression, rules, recip, batch>>

RunActive == \E p \in Person : recip[p].state = "pending"

(* A run opens when its time has come, counts the next from now, and takes *)
(* its recipients from the audience as it is.                              *)
OpenRun ==
  /\ plan.status = "scheduled" /\ plan.next # Nothing /\ plan.next <= now
  /\ ~RunActive
  /\ plan' = [plan EXCEPT !.from = now, !.runs = @ + 1,
                          !.next = IF plan.is.cron = Nothing THEN Nothing
                                   ELSE NextRunAt(plan.is, plan.zone, now, plan.runs + 1)]
  /\ recip' = [p \in Person |-> IF p \in Resolve THEN [Nobody EXCEPT !.state = "pending"] ELSE Nobody]
  /\ UNCHANGED <<now, changes, consent, suppression, rules, batch>>

(* A draft, or a paused campaign between runs, whose next run is counted   *)
(* again.  Its start is checked when it is a draft's, or edited.           *)
PatchCampaign ==
  /\ Change /\ plan.status \in {"draft", "paused"} /\ ~RunActive
  /\ \E new \in Plans \ {<<plan.is, plan.zone>>} : \E is \in {new[1]}, zone \in {new[2]} :
       /\ ValidInput(is, IF plan.status = "draft" \/ is.scheduledAt # plan.is.scheduledAt THEN now ELSE 0)
       /\ plan' = IF plan.status = "draft" THEN [plan EXCEPT !.is = is, !.zone = zone]
                  ELSE [plan EXCEPT !.is = is, !.zone = zone, !.from = now,
                                    !.next = NextRunAt(is, zone, now, plan.runs)]
  /\ UNCHANGED <<now, consent, suppression, rules, recip, batch>>

Pause ==
  /\ Change /\ plan.status = "scheduled" /\ (RunActive \/ plan.next # Nothing)
  /\ plan' = [plan EXCEPT !.status = "paused"]
  /\ UNCHANGED <<now, consent, suppression, rules, recip, batch>>

Resume ==
  /\ plan.status = "paused"
  /\ plan' = [plan EXCEPT !.status = IF RunActive \/ plan.next # Nothing THEN "scheduled" ELSE "done"]
  /\ UNCHANGED <<now, changes, consent, suppression, rules, recip, batch>>

---------------------------------------------------------------------------
(* A batch: one clock, and one search per channel and region *)

Ready(p) == recip[p].state = "pending" /\ (recip[p].until # Nothing => recip[p].until <= now)

StartBatch ==
  /\ ~batch.on /\ plan.status = "scheduled" /\ \E p \in Person : Ready(p)
  /\ batch' = [on |-> TRUE, at |-> now, left |-> SelectSeq(Persons, Ready), windows |-> <<>>]
  /\ UNCHANGED <<now, changes, consent, suppression, rules, recip, plan>>

EndBatch ==
  /\ batch.on /\ batch.left = <<>>
  /\ batch' = [batch EXCEPT !.on = FALSE, !.windows = <<>>]
  /\ UNCHANGED <<now, changes, consent, suppression, rules, recip, plan>>

Settled(p, state, why) ==
  recip' = [recip EXCEPT ![p] = [state |-> state, until |-> Nothing, why |-> why]]

Key(p, channel) == <<channel, RegionOf[AddressOf[p][channel]]>>

Windows(p, channel) ==
  IF Key(p, channel) \in DOMAIN batch.windows THEN batch.windows
  ELSE (Key(p, channel) :> NextSendingWindow(p, batch.at)) @@ batch.windows

Wait(p, until) ==
  IF until = Nothing THEN Settled(p, "blocked", "no_sending_window")
  ELSE recip' = [recip EXCEPT ![p].until = until, ![p].why = "deferred"]

(* Preflight, and send() at the same time of the clock. *)
Attempt ==
  /\ batch.on /\ batch.left # <<>>
  /\ \E p \in {Head(batch.left)} : \E v \in {Preflight(p, batch.at)} :
       IF v.window = Nothing
       THEN /\ IF v.chosen # Nothing THEN Settled(p, "queued", v.chosen) ELSE Settled(p, "blocked", "refused")
            /\ batch' = [batch EXCEPT !.left = Tail(@)]
       ELSE \E windows \in {Windows(p, v.window)} :
            /\ Wait(p, windows[Key(p, v.window)])
            /\ batch' = [batch EXCEPT !.left = Tail(@), !.windows = windows]
  /\ UNCHANGED <<now, changes, consent, suppression, rules, plan>>

---------------------------------------------------------------------------
(* What changes meanwhile *)

(* POST /v1/consent, or a row of an import with an earlier date *)
Record(d) ==
  /\ Change
  /\ consent' = Append(consent, [channel |-> d.channel, address |-> d.address, status |-> d.status,
                                 at |-> IF d.at = Nothing THEN now ELSE d.at])
  /\ UNCHANGED <<now, suppression, rules, recip, batch, plan>>

Suppress(b) ==
  /\ Change /\ b \notin suppression
  /\ suppression' = suppression \cup {b}
  /\ UNCHANGED <<now, consent, rules, recip, batch, plan>>

(* The link in an email: suppressed, and consent revoked. *)
OptOut(b) ==
  /\ Change /\ b.scope = "tenant"
  /\ suppression' = suppression \cup {b}
  /\ consent' = Append(consent, [channel |-> b.channel, address |-> b.address, status |-> "revoked", at |-> now])
  /\ UNCHANGED <<now, rules, recip, batch, plan>>

CreateTenantRule(r) ==
  /\ Change /\ r \in TenantRule \ rules
  /\ rules' = rules \cup {r}
  /\ UNCHANGED <<now, consent, suppression, recip, batch, plan>>

DeleteTenantRule(r) ==
  /\ Change /\ r \in TenantRule \cap rules
  /\ rules' = rules \ {r}
  /\ UNCHANGED <<now, consent, suppression, recip, batch, plan>>

Tick ==
  /\ now < MaxTime /\ now' = now + 1
  /\ UNCHANGED <<changes, consent, suppression, rules, recip, batch, plan>>

Next ==
  \/ PatchCampaign \/ Schedule \/ Pause \/ Resume \/ OpenRun \/ StartBatch \/ Attempt \/ EndBatch \/ Tick
  \/ \E d \in Decisions : Record(d)
  \/ \E b \in Blocks : Suppress(b) \/ OptOut(b)
  \/ \E r \in TenantRule : CreateTenantRule(r) \/ DeleteTenantRule(r)

Spec == Init /\ [][Next]_vars

---------------------------------------------------------------------------
(* Properties *)

(* A tenant can add restrictions but never lift one: a rule it creates     *)
(* lets no address be sent to, at any hour, that could not be before.      *)
TenantNeverLifts ==
  [][rules # rules' /\ rules \subseteq rules' =>
       \A p \in Person, c \in Configured, h \in 0..Day :
         AddressOf[p][c] # Nothing /\ CanSend(c, AddressOf[p][c], now + h * Hour)' = "allowed"
           => CanSend(c, AddressOf[p][c], now + h * Hour) = "allowed"]_vars

(* A recipient is made to wait exactly when only windows are in the way:   *)
(* with every window open it could be sent to, on a channel it agreed to   *)
(* and nobody suppressed.                                                  *)
OnlyWindowsWait ==
  \A p \in Person :
    Preflight(p, now).window # Nothing <=>
      Preflight(p, now).chosen = Nothing /\ AgreedTo(p) \cap ToSet(OrderFor(p)) # {}

(* The search at marks misses nothing: when a window is closed it finds the*)
(* very first minute in the horizon at which the recipient could be sent   *)
(* to, whatever its zone, a change of clocks in between included.  This is *)
(* the search made for one recipient; whom a batch gives its answer to is  *)
(* another matter (DefersNotDrops).                                        *)
FirstOpenMinute ==
  \A p \in Person : Preflight(p, now).window # Nothing =>
    NextSendingWindow(p, now) = Earliest({t \in now + 1..now + Horizon : Allowed(p, t)})

Twin(t, u) == t # u /\ WallClock(t, plan.zone) = WallClock(u, plan.zone)

(* A recurrence skips no time: between the minute the next run was counted *)
(* from and that run, the cron matches no time of the clock but the twin   *)
(* of one, at a change of clocks; and when there is no next run although   *)
(* none of its ends is reached, it matches none.                           *)
NoRunSkipped ==
  plan.is.cron # Nothing /\ plan.status \in {"scheduled", "paused"} /\ plan.runs < plan.is.maxRuns =>
    LET cron  == ParseCron(plan.is.cron)
        until == IF plan.next = Nothing THEN Min({plan.is.endsAt, plan.from + Day * Hour}) ELSE plan.next - 1
    IN /\ plan.next # Nothing => Fires(cron, WallClock(plan.next, plan.zone)) /\ plan.next > plan.from
       /\ \A t \in Max({plan.from + 1, plan.is.scheduledAt})..until :
            Fires(cron, WallClock(t, plan.zone)) => \E u \in t - 2 * Hour..t + 2 * Hour : Twin(t, u)

(* A local time that happens twice fires on the first. *)
FirstOfTwins ==
  plan.is.cron # Nothing /\ plan.next # Nothing =>
    \A t \in plan.from + 1..plan.next - 1 : ~Twin(t, plan.next)

(* A closed sending window defers, it does not drop: only one that does    *)
(* not open within the horizon blocks a recipient.                         *)
DefersNotDrops ==
  [][\A p \in Person :
       recip'[p].why = "no_sending_window" /\ recip[p].state = "pending"
         => NextSendingWindow(p, batch.at) = Nothing]_vars
=============================================================================
