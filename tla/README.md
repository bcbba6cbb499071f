# Formal models of the marketing engine

This directory holds TLA+ models of the engine under `src/`, the TLC
configurations that model-check them on small instances, and proofs that TLAPS
checks for every value of the constants. The code is the reference: every
definition that models code is listed in `PROJECT.json` under `map`, with the
lines it stands for. Paths below are relative to `src/src/` unless they say
otherwise.

To check a run: `tlc -workers 2 -config MCCampaigns_overlap.cfg MCCampaigns`.
To check the proofs of a module: `tlapm CampaignsProof.tla`.

## 1. Inventory

One Node process, or several replicas of it, in front of one Postgres database.
The HTTP API, the job workers and the operator console share the database and
nothing else. Transactions run at READ COMMITTED. pg-boss keeps its queue in
the same database, so a job is booked in the transaction that makes it
necessary, and comes back when its worker fails, dies or takes too long.

| Component | State | Operations | Hard behaviour | What makes it correct |
|---|---|---|---|---|
| Campaign engine (`modules/campaigns/{campaigns,worker,sweep}.ts`) | `campaigns`, `campaign_runs`, `campaign_recipients` | API: create, duplicate, patch, schedule, unschedule, pause, resume, cancel. Jobs: `campaign.run`, `campaign.batch`, the sweep | overlapping batches and runs, repeated and lost jobs, an API call between any two transactions of a worker | a recipient is decided once, the counts are right, runs open in order, what ended stays ended, a run whose jobs died is put back to work |
| Messaging (`modules/messaging/{index,worker}.ts`) | `messages`, events, `message.send` jobs | `send`, `processSend`, `fallBack`, `applyStatusReport` | the provider is called outside any transaction; answers are lost; reports come early, twice and out of order | no message is stranded, no channel tried twice, no way round `can_send`, reports count once |
| Channel selection (`messaging/selection.ts`), consent (`spine/consent`), rules (`spine/rules`) | `consents`, `suppressions`, `rules`, templates, channel configurations | `selectChannel`, `canSend`, `record`, `suppress`, `evaluate`, `decide` | what they answered is stale when it is used; rules of several scopes, some of which throw | evaluation follows scope and priority; a tenant lifts nothing the platform denies |
| Promocodes (`modules/promocodes`) | `promocodes`, `redemptions`, `ledger_entries` | create, pause, `validate`, `reserve`, `settle`, `release`, `expireReservations`, `reconcile` | checkouts racing for a budget, expiry racing settlement, rounding between funders | budgets hold, every hold is closed with its order, redemptions and ledger agree |
| Outgoing webhooks and events (`modules/webhooks`, `spine/events`) | `webhook_endpoints`, `webhook_deliveries`, `webhook.fanout` and `webhook.deliver` jobs | `emit`, `fanOut`, `deliver`, `replay`, the operator's retry | a fan-out that dies half-way; a replay beside a retry; a job lost between attempts | nobody is left out, one chain of attempts, a pending delivery has a job |
| Company registry (`spine/registry`) | `companies`, identifiers, aliases, tenant views | `upsert`, `merge`, attach, edits, imports | two imports of one company; a merge beside either, statement by statement | what was bound together is one live company |
| Discovery, idempotency (`modules/discovery`, `api/middleware/idempotency.ts`) | invites, `idempotency_keys` | search, invite, expire, accept; look up, run the handler, store | two acceptances at once, a merge between; two first calls with one key | a company is taken in once; a stored answer stays |
| Sending windows and schedules (`campaigns/{window,cron}.ts`) | none | `nextSendingWindow`, `nextOccurrence`, `nextRunAt` | clocks that change, cron's two day fields, a grid of marks | the first open minute; no time of a recurrence is skipped |
| Audiences and contacts (`campaigns/{audiences,contacts}.ts`) | contacts, lists, audiences | import, store, patch, members by address or id, edit, delete | rows of a file beside requests for the same addresses; savepoints in a batch | the summary is what became of the rows; consent has evidence |
| Operator stream (`api/routes/operator/stream.ts`) | one LISTEN per process, the watchers, replay by event id | `watch`, `startListening`, `stopListening`, `replaySince` | two first watchers at once; ids that commit out of order | not modelled (section 8) |
| Adapters, the rest of the operator API, auth, secrets, migrations, dashboard | I/O, read-only views, or configuration | | | not modelled (section 8) |

Interaction. A campaign batch asks for a window and calls messaging's `send`
inside the transaction that marks its recipient queued. `send` asks selection
and consent, writes the message, and books `message.send`. Its worker calls an
adapter and, on the last failure, `send` again for the next channel. Providers
answer on a route of their own. Promocodes call the ledger inside their own
transaction. Contacts ask the registry whose address they were given. Every
module appends events, and events fan out to webhook deliveries.

`PROJECT.json` lists every component and, under `hazards`, what is hard to test
in this code, each at its line.

## 2. Modules

| Module | Models | |
|---|---|---|
| `Campaigns` | the campaign engine and its two queues | component |
| `RunOutcomes` | what a campaign's runs promise: recipients are written down, decided once, and closed off | abstract specification |
| `CampaignsProof` | types; the locks, final states and cancel; outcomes, counters and the refinement; the order of runs and the first run's job | proofs |
| `Messages` | `send`, its worker, fallbacks, provider reports, and the settings they read | component |
| `MessagesProof` | types, the only door out, a queued message's job, statuses that move forward, the log of reports, the chain of channels, one acceptance per intent | proofs |
| `Money` | `compute`, `split`, `proportion` | pure arithmetic |
| `Promocodes` | redemptions over the internal ledger (extends `Money`) | component |
| `Reconcile` | the reconciliation request beside the checkouts (extends `Promocodes`) | composition |
| `PromocodesProof` | types and closed holds, the lock on the code, the budgets in uses and in money, the books, the report | proofs |
| `SumLemmas` | sums over finite sets, and induction over the naturals | lemmas |
| `Webhooks` | endpoints, events, fan-out, deliveries and their queues | component |
| `WebhooksProof` | types, a pending delivery's job, everyone's delivery of an event, one chain of attempts | proofs |
| `Transactions` | rows under READ COMMITTED: what a transaction has written, its locks, its commit | shared by the two below |
| `Registry` | upsert, merge, views and edits of companies (extends `Transactions`) | component |
| `Discovery` | searching, inviting and accepting over the registry, under idempotency keys (extends `Registry`) | composition |
| `DiscoveryProof` | one acceptance, stored answers, chains of merges, one identity | proofs |
| `Contacts` | contacts, imports and audiences (extends `Transactions`) | component |
| `ContactsProof` | sound tables, evidence of consent, the summary of an import | proofs |
| `Calendar` | wall clocks in zones, cron expressions, the next occurrence | pure arithmetic |
| `Sending` | when and on which channel a recipient is sent to: rules, consent, selection, windows, recurrence (extends `Calendar`) | composition |
| `SendingProof` | who is made to wait, tenants' rules, the first open minute, the next run | proofs |
| `MC...` | constants and symmetry for TLC | |

An operator called `Mutant_...` is not part of a model. It is a plausible bug in
the definition after it; `PROJECT.json` pairs every checked property with one,
and TLC finds the property violated when the bug is put in place.

### 2.1 Campaigns

The grain of atomicity is a transaction, or the part of one between two points
where another can come in between. Opening a run (`startRun`) and finishing one
(`finishRun`) are such transactions: they read, another commits, they take a
lock and write. The locks are derived from where the workers are
(`CampaignLocked`, `RunLocked`), so that a mutant that drops `for update` is a
one-line change. The tail of a batch has the run's row locked before it looks
for pending recipients. The sweep has not: its UPDATE takes a snapshot
(`SweepLooks`), may wait for the row behind a late chunk, and then looks at the
row again but not at the recipients (`FinishMarks`, from that old snapshot).

| Code | State or action |
|---|---|
| `campaigns` row | `camp[c]`: status, recurring, whether a next run is announced |
| `campaign_runs` row | `runStatus`, `size`, `tally` of `<<c, n>>` |
| `campaign_recipients` rows | `recip`, `attempts`; `messages` counts the sends handed to messaging |
| `campaign.run`, `campaign.batch` | `runJob`, `batchJob`: at most one waiting job per key (short policy), and any number being retried |
| a job execution, a sweep | `wk[p]`: its place in the code and what it has read |
| `createCampaign`, `duplicateCampaign`, `scheduleCampaign`, `unscheduleCampaign`, `pauseCampaign`, `resumeCampaign`, `cancelCampaign`, `patchCampaign` | one action each, with the jobs they book or withdraw |
| `runCampaign` | admission, resolving, chunks of the expansion, and its end, with the branches for no room, a paused or cancelled campaign, an empty audience and a failure |
| `runBatch` | reading a page, deciding each recipient (`decide`; one that another batch has locked is skipped, `Held`) with the counters, `countAttempt`, booking the next batch, finishing |
| `sweepRuns` | finding a stalled run and booking its job, or finishing it |
| crash, failed transaction, expired job | faults, bounded by `MaxFaults` |

Data is abstract: contacts are numbers, the audience is fixed, a recipient may
be *deferred* at any decision (quiet hours, caps), and `Poison` contacts make
messaging throw. `Sending` has the other half: which recipients wait, and until
when.

### 2.2 Messages

One contact, one tenant. A message's number stands for its row and its job.
`processSend` holds no transaction across the provider's call, so it has steps
`Read`, the provider's answer (accepted, refused, lost), and the commit; the
failure, the fallback and the announcement are transactions of their own, as in
the code. A provider's request (`Callback`) applies its reports one by one.
`Settings` changes consent, suppressions, windows, templates and channel
configurations between any two of them, bounded by `MaxEdits`. `send` is one
step, from its checks to its insert: a suppression that commits between the two
is not seen, and the model has it as one that came just after. A request may
have its sending window judged at another time (`evaluateAt`): the intent picks
which channels are shut then, a fallback is judged by the clock. Its number may
be readable only with the country the request gave (`national`); a fallback is
sent without it and throws (`FallBackThrows`). `accepted` and
`told` are what the provider knows; `cut` and `calls` are kept for the
properties only.

No operation removes an adapter or a configuration, so the branches of
`processSend` for a missing one are unreachable and left out. Any list of
channels without repetition stands for the order the rules and the defaults
give; `Sending` computes that order.

### 2.3 Promocodes, Money, Reconcile

`reserve` is `Look` (the order, without a lock), `Validate` (which takes the
lock on the code, here `PromoLocked`, and reads the usage under it) and
`HoldCommits` or `HoldThrows`. `settle` and `release` are a transaction each on
the locked redemption. The expiry job reads its list (`ExpireStarts`) and then
releases row by row, looking at the status again (`ExpireOne`). The ledger keeps
the postings of each funder's hold. `Reconcile` reads the redemptions in one
step and each party's balance in another. A code is created by a request that
may ask for what `createPromocode` refuses (`CreatePromocode`).

`Money` computes with exact fractions: shares are numerators over a whole.
`Math.round` is its definition, half up. The error of the floating-point product
`amount * share` is left out. A reservation expires at any moment
(`TimePasses`). `Denied` buyers stand for the rules of kind `promo_eligibility`.

### 2.4 Webhooks

`emit` books a fan-out job in the caller's transaction. `fanOut` reads the list
of endpoints (`FanOut`) and books each delivery with its job in a transaction of
its own (`Book`); an endpoint deleted in between violates the foreign key and
throws the execution away (`FanOutThrows`). `deliver` is `Deliver` (the read),
`Post` (outside any transaction) and the update by id, `MarkDelivered`, `GiveUp`
or `BookNext`, the last with the next job. pg-boss settles a job in a step after
that (`Complete`), so a crash between the two repeats the handler. `replay`
finds the delivery and its owner in one step and puts it back in another. `tale`
is what the receiver saw of a delivery for as long as nothing cut in, and is
kept for `OneChain` only; so is `heard` for `NobodyLeftOut`.

### 2.5 Transactions, Registry, Discovery

`Transactions` keeps committed rows in `db` and what a transaction has written
in `own[t]`, which others neither see nor overwrite until it commits. A unique
key is a row too. On it, `Registry` goes through `upsert` statement by
statement: normalise, look up the identifiers, insert or take the existing
company, attach each identifier with `on conflict`, merge when a conflict shows
two companies to be one, move views and aliases, follow `merged_into`. The
tenants' edits and the rows of an import (two transactions each) run beside it.

`Discovery` adds the search, whose answer is filled in by queries after the one
that found the candidates, the invitations and the transaction that accepts one.
A request to invite carries an `Idempotency-Key`: it is looked up in one
transaction and its answer stored in another, with the handler in between.

### 2.6 Contacts

`upsertContact` is `Match` (read by any address) and `Put` (the write, which
waits for the unique keys). An import is batches of rows in one transaction
each, a savepoint per row: a row that is refused is taken back and counted, a
unique violation throws away the batch and the rest of the file. Requests that
store one contact, add members by address, or patch what they have read run
beside it, and an audience may be deleted or taken into a campaign meanwhile.

### 2.7 Calendar, Sending

`Calendar` is the arithmetic of `cron.ts` over a small planet whose hour, day,
week, month and year are constants. A zone is an offset that changes once.
`FromWallClock` asks for the offset twice, as the code does; `ParseField`
refuses what `parseField` refuses, and a day field counts as free only when its
text is `*`, as in `parseCron`; `NextOccurrence` goes through the days from
the one it is in the zone.

`Sending` follows one campaign and its contacts: `decide` over the rules in
order of scope and priority (a document may throw), `canSend` by consent,
suppression and rules, `selectChannel` with its fallbacks, `nextSendingWindow`
on a grid of marks, and batches that share one answer per channel and region.
Time passes in minutes; rules, consent and suppressions change between any two
steps. A document about windows answers for the channel, region, hour and day of
the week; the purpose is the campaign's. It shares no variables with
`Campaigns`: what a batch does beyond deciding is modelled there.

## 3. Runs

Every run is under five minutes with two workers. `CHECK_DEADLOCK FALSE` is
said wherever the bounds or the program let the system come to rest: nobody has
to create another campaign, send or checkout.

| Run | Question | Bounds |
|---|---|---|
| `campaigns_overlap` | Do runs open in order, does nothing start a draft or a cancelled campaign, does what ended stay ended, under every API call in any order? | 1 campaign, 2 runs, 1 contact, 2 workers |
| `campaigns_batches` | Is each of two contacts decided once, with the right counts, by two batches of one run, one contact throwing? Does whoever finishes the run, a batch or the sweep, leave nobody pending whom it could have seen? Does the engine implement `RunOutcomes`? | 1 run, 2 contacts, chunk 1, page 2, 2 workers, sweeper, 1 attempt for a contact that throws (`campaigns_recovery` has 2) |
| `campaigns_room` | With two campaigns and one slot, does a run put back for lack of room keep its job? | 2 campaigns, 1 run each, 1 worker, sweeper |
| `campaigns_recovery` | With two faults anywhere, does every run of a running campaign move on? | 1 run, 1 contact, 1 worker, sweeper, 2 faults |
| `messages_chain` | Does a chain of fallbacks ever repeat a channel, or pass one by `can_send`, while the settings change? | 3 channels, 3 messages, 1 retry, 1 edit |
| `messages_retries` | How often may the provider accept an intent under faults? Is a queued message always in the hands of a job? Do reports count once and forward? Does each intent come to an end, unless a fault cut in or only its country made the number readable? | 2 channels, 2 messages, 2 workers, 1 retry, 1 fault |
| `promo_budget` | Can racing checkouts break a budget in uses, uses per buyer or spend? | 3 orders, 2 buyers, 2 requests; all three limits bind (2 uses, 1 per buyer, a spend of 3 with discounts of 2 settled in part) |
| `reconcile_books` | Do redemptions and ledger agree, order by order, with partial settlements, expiry and a report in between? Do expired carts end? | 2 orders, 2 funders at 50%, a discount of 3 (an odd split), an expiry job that may die once |
| `webhooks` | Is nobody left out, nothing booked twice, and no pending delivery without a job? Does each come to an end? | 1 event, 2 endpoints, a schedule of 1 delay, 1 retry of a job, 3 jobs of a delivery at a time (a booking waits for one), 1 crash, lost answer, replay or deletion |
| `discovery_pool` | Does whatever is bound together by identifiers end as one live company, while no company is merged away twice? Is a company taken in once, and does a stored answer stay? | any 3 of: 4 upserts (of which one imported), an edit, 5 requests under one key, 2 acceptances, a search |
| `contacts_import` | Is the summary of an import what became of its rows, and has every consent its row's evidence? | any 3 of: an import of two batches, a request, members by address, 2 patches; 2 phones, 2 emails |
| `sending_windows` | Does only a window make a recipient wait, and does the search made for one recipient find the first open minute? Is no time of a recurrence skipped, and does a tenant lift nothing? | 3 contacts, 2 channels, an hour of 4 minutes, a day of 4 hours, a horizon of one day; windows that differ by channel, hour and day; 4 recurrences, one of them refused, in zones whose clocks go forward and back; 2 changes |

Why the bounds are enough. The races of this code are between two actors (two
batches, a batch and a cancel, two checkouts, a job and its own redelivery) over
one row and its parent, so two workers and one or two rows reach them; where
three take part (two upserts and what binds them), there are three. The
bounds that matter are those that make a branch possible: a chunk of one with
two contacts splits an expansion; a page of two lets batches overlap; two runs
are a recurrence; one slot for two campaigns is contention; a retry limit of one
has a first, a middle and a last attempt with the first delivery; three channels
give a chain a middle; two endpoints let a fan-out die half-way; two batches of
two rows have a batch that fails before and after another; a day of four hours
has hours that are shut, skipped and repeated. For the properties of section 6
the bounds do not matter: they are proved for all.

What the properties say, and why they could fail, is told above each of them in
its module. The deepest are:

- `OutcomeIsFinal`, `SentOnce`, `TallyMatches`: overlapping batches, late error
  counts and a cancel all write the same rows.
- `DraftIsClean`: unscheduling leaves no job that would swallow the next
  schedule's.
- `OneAcceptancePerIntent`: the provider accepts an intent at most once more
  than faults cut into its executions. This is the exact price of calling it
  outside a transaction.
- `OnlyDoorOut`, `OneTryPerChannel`: the fallback goes through the whole of
  `send` again, on the channels that are left.
- `UsesKept`, `SpendKept`: the usage is read under the lock the insert is made
  under, and settling, releasing and pausing leave it good.
- `SettledIsCaptured`: the order of `reconcile`'s queries makes its error
  one-sided.
- `OneChain`, `NobodyLeftOut`: a fan-out executed twice books once, and what the
  receiver saw agrees with the row.
- `OneIdentity`, `MergesEndLive`: every conflict on an identifier ends in a merge
  or an attachment, whoever commits first, and chains of merges end at a company
  that is there. The first has an exception, stated in it and shown by
  `MCDiscovery_split`: two merges of one company that both read it live.
- `SummaryIsTrue`: a batch that fails is not counted, a row that is taken back is.
- `NoRunSkipped`, `FirstOpenMinute`: against the definition by search, across
  changes of clocks, pauses and edits.

## 4. Fairness

`Campaigns!FairSpec`. A worker keeps taking steps (weak fairness of each
execution), pg-boss hands out every waiting job in the end (strong fairness of
taking it, since a job can be put back again and again), the sweep is a cron
that comes round to every run, and sending windows open. A recipient is not
deferred for ever: strong fairness of a decision that settles. API calls and
faults are never fair; `MaxFaults` makes them finite, as crashes that never
cease allow no progress in the code either.

`Messages!FairSpec`. Executions take steps, waiting jobs are fetched, and the
jobs of dead workers expire (`expireInSeconds`). Reports, settings and intents
are not fair.

`Webhooks!FairSpec`. The workers of both queues keep polling: weak fairness of
each event's fan-out and of each delivery's jobs. Nobody has to create an
endpoint, emit, delete, replay or retry by hand.

`Reconcile!RFairSpec`. The expiry job is a cron that gets through its list.
Nobody is bound to settle, release or ask for a report.

## 5. Where code and documents disagree

Found while modelling. Each has a configuration beside the listed runs, and a
property in its module that quotes the line; TLC shows the behaviour. Where a
configuration lists several, TLC stops at the first: take that out for the next.

| Configuration | The text | What happens |
|---|---|---|
| `MCCampaigns_pause_loses_run` | `campaigns.ts:539` "Whatever the pause stopped is put back on the queue" | Pausing a recurring campaign while a run is active drops the next run's job when it is delivered; resume puts back only the active runs, and the recurrence silently stops. |
| `MCCampaigns_room_race` | `campaigns.ts:14` "At most this many of one tenant's campaigns may be `running` at once" | two starts, or resumes, both count the running campaigns without a lock |
| `MCCampaigns_finish` | `worker.ts:454` "Mark the run done, once, and move the campaign on" (`RunningHasRun`) | two runs finishing at once each see the other still sending; the campaign stays running with nothing active |
| | `worker.ts:455` "done when it has not" (`DoneIsIdle`) | a run opened between `finishRun`'s read and its lock leaves a campaign done with a run expanding |
| `MCCampaigns_late_snapshot` | `db/migrations/0013_campaigns.sql:132` "a run's counts always add up to its audience once it is done" | a second delivery of the run's job goes on inserting recipients after the run is done |
| | `docs/API.md:729` "a `sending` run with nothing pending is finished" (`DoneLeavesNobody`) | the sweep's UPDATE waits behind a chunk of that delivery and keeps the snapshot it took before: the run is marked done with the chunk's recipients pending |
| `MCCampaigns_cancel_expanding` | `campaigns.ts:588` "Pending recipients are skipped with reason `cancelled`" | chunks inserted after the cancel stay pending |
| `MCMessages_fallback_lost` | `src/README.md:149` "When a send fails for good and a fallback remains, the worker re-runs the same intent on the next channel" | A number the request's `defaultCountry` made readable is kept as it was given. `fallBack` sends without the country, `normalize` throws, and no child is written; no fault is needed. `fail()` also commits the failure before it starts the fallback in another transaction: a crash in between ends the chain too. |
| `MCMessages_child_run` | `messaging/index.ts:230` "Set when a campaign sent this, so the run can be traced from the message" | a blocked fallback child is written without it |
| `MCMessages_early_report` | `src/README.md:148` "provider callbacks move it to `delivered`" | a report that arrives before the send commits matches nothing and is dropped |
| `MCPromocodes_same_order` | `src/README.md:385` "the same order twice gets the same redemption" | Of two requests for one order at once, the second is refused for the budget the first one used, or fails on the unique index. |
| `MCPromocodes_rounded_capture` | `promocodes/index.ts:492` "Spend equals settlement" (`BooksAgree`) | Shares of 20, 40 and 40%, a discount of 2, settled for 1: the first part is -1 and skipped, the others capture 2, and the books disagree for good. |
| `MCPromocodes_over_capture` | `ledger/types.ts:26` "may be less than the hold (a partial order), never more" | holds of 1, 3, 3, 3 settled for 8 ask 2 of the first, and the settlement throws |
| `MCReconcile_torn` | `docs/API.md:841` "both `agrees` should always be true" | a checkout that commits between two queries makes correct books look wrong |
| `MCSending_drops` | `src/README.md:469` "A closed sending window defers, it does not drop." | a batch keeps one answer per channel and region: a recipient whose other channel opens in time is blocked with those who have no window |
| `MCSending_twins` | `cron.ts:97` "One that happens twice fires on the first" | the offset is guessed twice, so in a zone ahead of the meridian the second of two equal local times is taken |
| `MCDiscovery_unkept` | `src/README.md:239` "One real company is one row" (`NoOrphan`) | a merge beside an upsert leaves a company without identifiers |
| | `registry/index.ts:350` "A tenant that knew both companies ends up with one view" (`ViewsOnLive`) | a view written beside the merge stays on the loser |
| | `discovery/index.ts:288` "it stays in the pool, and discovery stops suggesting it" (`JoinedNotSuggested`) | a company merged with one that joined is suggested again |
| | `finder/basic.ts:15` "no merged-away company, no company already on the marketplace" (`ShowsSuggested`) | the answer is filled in after the search, from companies merged or taken in since |
| | `registry/index.ts:214` "A later source only fills gaps" (`OnlyFillsGaps`) | of two upserts that both read an empty field, the later overwrites |
| `MCDiscovery_split` | `registry/index.ts:147` "Strong identifiers decide identity: one match is the company, several means two records were the same company all along and get merged" (`StrongDecides`) | Two upserts both read a company before either has merged it away into another. The later commit overwrites `merged_into`, and the strong identifiers the first had brought together lead to two companies. |
| `MCContacts_unkept` | `contacts.ts:362` "fails outright cannot take the rest of the file with it" (`RestIsImported`) | a unique violation throws the import away with the batches to come |
| | `contacts.ts:187`, `audiences.ts:121` (`OnlyWhatIsNamed`) | a patch writes back what it read of the fields the caller did not name |

Two more are properties in their module, for which the configuration of a run
with that property in the place of its own will do: `AttemptsAreTheLimit`
(`messaging/index.ts:18` "Three provider attempts before a message is failed":
the limit counts retries, so there are four) in `Messages`, and `HoldsAreAmounts`
(`ledger/internal.ts:111` "is not a whole amount in minor units": shares of 10,
30, 30 and 30% of 2 give a first part of -1; the code validates and cannot be
reserved) in `Promocodes`.

## 6. Proofs

Assumptions: the named `ASSUME`s of the components about their constants, and
nothing else. Sizes, bounds and amounts are naturals; sets are finite; a
sentinel is not one of what it stands beside; transactions of upserts and of
acceptances are different ones; the funders' shares are what `fundersAreValid`
lets through; of `Contacts`, the rows of all files and requests are different
ones, each in one place, since a contact is named after the row that creates it
(`ContactsAssumption`); of `Sending`, an hour and every offset are whole quarters
(`MarksAssumption`), a change of clocks moves them by two hours at most and a
day has more than one hour (`PlansAssumption`). TLC evaluates each on the run of
its component.

**Campaigns** (`CampaignsProof`). The inductive invariant is
`TypeOK /\ LocksHold`. `TypeOK` alone does not carry the safety properties,
since `startRun` and `finishRun` write on the strength of what they read a step
before: that nobody opened the run, or that no recipient was pending.
`LocksHold` says what is left of that while the process is at that place, and
that no two are there for the same campaign or run. It has two parts.
`RowLocks`: what was read under a row lock is still true, so for a batch that
finishes a run nobody is pending. `SweepSees`: the sweep looks without a lock,
so by the time it has the row others may be pending, or the run may be over; but
whom it saw decided still is.

1. `TypeCorrect`: one step per action of `Next`.
2. `LocksSafe` shows `LocksHold` inductive relative to `TypeOK`, one lemma per
   group of actions (which of them can touch a run that somebody is opening or
   finishing?). `EndFinal`, `DoneDecided` and `CancelQuiet` follow from it.
   `DoneDecided` says no more than the code keeps: a batch leaves nobody
   pending, the sweep only those written down after its snapshot. That nobody is
   left at all is refuted (`DoneLeavesNobody`, section 5).
3. `RecipientStep` characterises every change of a recipient, `StatusMoves`
   every change of a run. From them `OutcomeFinal`, `SentOnceSafe`, `TallySafe`
   (a cardinality argument: one recipient moves from pending to a settled state
   as one counter goes up), and `Implements`: initial states map to initial
   states, and every step to a step of `RunOutcomes` or a stutter.
   A run closes there when nobody in it is pending and completes in a later step,
   which is all that the sweep's old snapshot allows.
4. `InOrder`: not only an opened run, also a run with a job and one in a worker's
   hands come after an opened one, a campaign never scheduled has neither a run
   nor a waiting job, and a next run is announced only while the last is not
   open. `RunsInOrder` and `DraftIsClean` are two of its faces (`OrderSafe`,
   `DraftCleanSafe`); neither is inductive, since the job that would open a run
   out of order was booked long before.
5. `FirstInv`: the job of a scheduled campaign's first run is queued or in a
   worker's hands, while no fault has come. `FirstJobSafe` says just that: a
   crash may use up the last retry of a job, and the sweep looks only at runs
   that are open already.

**Promocodes** (`PromocodesProof`, with `Reconcile`). Types and
`HoldsCloseWithOrder` are one invariant: what `release` posts is held minus
captured, and that is an amount only because a reserved order has captured
nothing and `settle` checks each part against its hold. Nothing is assumed of
the rounding, so these hold for the shares of section 5 too.

1. `LockHolds` and `UsesKept`: what `reserve` read under the lock is true until
   its commit, since every other step leaves the counted rows as they are or
   fewer (`OthersFewer`) and a commit adds one row, to the code it has the lock
   on (`CommitAdds`). `SpendInv` is the same argument about money: the sum over
   the counted rows only falls, except by the amount validated under the lock
   (`SpendSafe`).
2. `OrderBooks`: the parts held for a reserved order add up to its amount, and
   those captured for a settled one to at least its amount, since `settle` skips
   a negative part. Where no part is negative they add up exactly. The sums over
   orders and over funders exchanged (`SumSwap`), this is `BooksBalance`: the
   books agree in every behaviour in which `EveryPartSettles`. That hypothesis is
   needed: without it `MCPromocodes_rounded_capture` has books that disagree.
   `ReportInv` says that a report half read has settled at most what it has
   captured and what is captured of the parties still to read, which only grows
   (`ReportSafe`, whatever the shares).
3. `FewFundersSettle`, `FewFundersBalance`, `FewFundersHold`: with one or two
   funders the hypothesis is a theorem, for all shares and amounts, and so is
   what section 5 shows false of four (`HoldsAreAmounts`).

`EndsOnce` needs the types only.

**Webhooks** (`WebhooksProof`). Each property has an invariant of its own,
relative to `TypeOK`, and a lemma that every step keeps it.

1. `Carried`: a pending row has a job that waits, runs or has visibly died
   (`PendingSafe`). A settled job carries nothing, so the property is stronger
   than it looks: the update and the next job have to commit together.
2. `Reached`: until its fan-out has completed, every endpoint that could hear an
   event and is still there is either booked or still on the list of a fan-out
   that runs; one that waits starts over with a fresh list (`NobodyLeft`).
3. `Chained`: `OneChain` is not inductive, since it says nothing of what an
   execution has read and not yet written. While nothing cut in, at most one job
   of a delivery is unsettled (`Single`), the row counts the posts that are
   written (`Tells`), and a job is ahead of it by what it read (`Agrees`:
   attempt, posts and the answer). A row and a job that do not exist yet have no
   past (`Fresh`). `OneChainSafe` follows for schedules of any length.

**Messages** (`MessagesProof`).

1. `Types` and `Started` are one invariant: `Head` of a fallback list is a channel
   only because who falls back has found the list not empty, a job is fetched
   `RetryLimit + 1` times at most because one that waits has been fetched fewer,
   and a row that is inserted is nobody's because only a message that was queued
   has a job (`TypeCorrect`).
2. `OnlyDoor`: `StatusStep` lists every change of a status, and `SendAdds` says
   what `send` inserts: consent and suppressions at that moment, and the window
   too unless the intent was judged at a time of its own. The rest is about lists
   without repetition.
3. `Sound`, of each message: until a fault cuts into its executions, the only
   execution that works at it holds its job and knows whether it is queued; when
   it throws with no retry left, the message is failed. Whatever cuts in, who
   returns has seen it decided. `Onward`, `Ended` and `Elsewhere` are the three
   ways a step can touch a message (`AllSound`); `QueuedSafe` and `MovesForward`
   follow.
4. `Logged`, of each message and with any faults: ids are those the provider has
   given out (`Issued`), one on its way to the row is nobody else's and was not
   reported yet (`Pending`), and what was logged of the id the row carries fits
   the row's status (`Standing`). `ReportsSafe` needs all of that, because a late
   execution overwrites the row and its id, and the old id's reports must then
   match nothing.
5. `Joined`: the messages of an intent are a chain. A function `r` leads every
   message to its intent (`Leads`; `RootFound` shows by induction over the rows
   that it is the recursive `RootOf`), and of two messages of one chain the
   earlier has been continued and the later is on the earlier's list, with a part
   of that list left (`Ordered`). A second continuation is excluded by the
   attempts (`Fetches`): executions of one message are different attempts, only
   the last attempt falls back, and once there is a child no execution of the
   last attempt is on its way to another. `OneTry` follows, since what is chosen
   is not on its own list.
6. `Paid`: what counts against the bound is not only the acceptances of a message
   but also its `Chances`, the attempts under way that may still get it accepted
   or continued and the one that is still to come. Acceptances and chances
   together are at most the faults, plus one for a message without a child. A
   retry turns one chance into another, an acceptance uses one up, a fallback
   hands the last one on to the child, and whatever makes a chance out of nothing
   (a crash, a lost answer, a failed transaction, a job that expires under its
   execution) is a fault. One message of a chain at most has no child
   (`LastOfChain`), so the sum over the chain is `OneAcceptance`.

**Contacts** (`ContactsProof`). Everything is relative to `Tidy`, which is
inductive (`AllTidy`).

1. `Sound`: in what is committed, and in what each transaction sees with its own
   rows on top, the key of an address leads to a contact that exists or nowhere,
   and consent has its evidence (`Evidence`), which is `ConsentSafe`. `Track` says
   that a caller goes through its batches in order and stores only what could be
   planned, `Matched` that it does so in a contact that is there. A patch writes
   the whole row back, so it must have read a contact that exists
   (`PatchesThere`). The attempt to prove this showed a fault of the model: where
   no request has a transaction, a refused patch had left the tables open.
2. `Counted`: what an import created, updated and rejected adds up to the rows it
   has been through, the contacts it created are those it sees that are named
   after its rows, and none is of a row still ahead of it. `Apart` says that no
   other transaction makes a contact of its rows. `SummarySafe` is `Counted` after
   the last batch.

**SumLemmas** says what `SumFunctionOnSet` of the community modules yields:
nothing of an empty set, one value more for one element more, monotone,
additive, and rows and columns exchange. The induction is over a set of naturals
in the place of a predicate (`Induct`), from the library's well-foundedness of
`<`: no step instantiates an operator parameter, which is what the installed
provers cannot do. `DiscoveryProof` takes the walk along merges, `SendingProof`
the least time of a search and `MessagesProof` the way up a chain from the same
lemmas.

`PROJECT.json` lists the forty-five theorems with the property each states, if a
run checks it too; `TypeOK`, `LocksHold`, `LockHolds` and `Tidy` carry the
others. Every invariant and every action property that a run checks is a theorem.

Only model-checked, since liveness under fairness is out of the prover's reach:
`ActiveRunMovesOn`, `IntentMovesOn`, `AbandonedCartsEnd`, `DeliveryEnds`.

`EveryPartSettles` is false in general with three or more funders, as section 5
shows, and neither checked nor proved for them. `FirstRunHasJob` is proved, as it
is checked, for behaviours without a fault. What section 5 lists is refuted by
TLC and has no proof.

## 7. Plan

Order: by what the system is for, and by how hard it is to test.

1. Done: `Campaigns` with `RunOutcomes`, `Messages`, `Promocodes` with `Money`
   and `Reconcile`, `Webhooks`, `Registry` with `Discovery` and the idempotency
   keys, `Contacts`, `Calendar` and `Sending`, each with the properties above;
   the proofs of section 6.
2. `Stream`: watchers, the subscription they share, and replay after a
   reconnect, over events that commit out of order.
3. Composition: `Campaigns` and `Messages` meet in one transaction of `decide`.
   `RunOutcomes` is what the one promises and `send` what the other offers; an
   abstract specification of a message's life for `Messages` to implement.
4. The throttle: batches of one run that read what the last minute sent.

Theorems to prove next: that `Messages` implements the life of a message.

## 8. Not modelled, and why

- Adapters, templates, SMTP and HTTP: I/O and text. What they answer is a choice.
- Inbound replies: one event is appended, and nothing else depends on it.
- Normalisation of names, identifiers, numbers and CSV: string processing. Its
  outcome (the same form, another, none) is a constant of the instance.
- JsonLogic: a library. A rule's document is a function of what it is asked.
- The ranking of search results, previews, lists, the operator API's views and
  the dashboard: read-only.
- The live stream of the operator console: planned, and with the two hazards of
  `PROJECT.json` not covered by a property.
- Row-level security, API keys, encryption, tracing, running the migrations: no
  behaviour of their own over time.
- The finance engine ledger: every method of the stub throws.
- Clocks outside `Sending`: a reservation, an invite, a key or a job expires at
  any moment.
- The throttle per minute: the bound is a count over a sliding minute.
- Deadlocks between row locks: Postgres breaks them by failing a transaction,
  which is one of the modelled faults.
