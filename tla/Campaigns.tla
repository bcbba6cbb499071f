----------------------------- MODULE Campaigns -----------------------------
(***************************************************************************)
(* The campaign engine of one tenant: the API operations on a campaign     *)
(* (modules/campaigns/campaigns.ts), the run and batch workers             *)
(* (worker.ts), the sweeper that restarts dead job chains (sweep.ts) and   *)
(* the part of pg-boss they stand on (jobs/queue.ts, jobs/index.ts).       *)
(*                                                                         *)
(* Grain of atomicity.  A step is one database transaction, or the part of *)
(* one between two points where another transaction can come in between    *)
(* (READ COMMITTED): opening a run and finishing a run are two steps, and  *)
(* the row lock the code holds over both is derived from the program       *)
(* counters (CampaignLocked, RunLocked).                                   *)
(*                                                                         *)
(* Time is not modelled: a waiting job may be delivered at any moment,     *)
(* "the next run" is present or absent rather than dated, a sending window *)
(* opens when WindowOpens happens, and the sweeper may find any run idle.  *)
(*                                                                         *)
(* An operator called Mutant_... is not part of the model: it is a bug put *)
(* in the place of the definition after it, to see a property catch it.    *)
(***************************************************************************)
EXTENDS Naturals, FiniteSets

CONSTANTS
  Campaign,        \* campaigns of the tenant
  Worker,          \* executions of campaign.run and campaign.batch jobs
  Sweeper,         \* executions of campaign.sweep
  NContact,        \* contacts the tenant has; ids are ordered
  MaxRuns,         \* Recurrence.maxRuns, and the bound on runs explored
  MaxRunning,      \* MAX_RUNNING_PER_TENANT
  Allowance,       \* ceil(throttle_per_minute / 6): recipients per batch
  ExpansionChunk,  \* EXPANSION_CHUNK
  ReadyPage,       \* READY_PAGE
  PoisonAttempts,  \* POISON_ATTEMPTS
  Poison,          \* contacts whose decision may throw an unexpected error
  MaxFaults,       \* bound: crashes, failed expansions and expired jobs
  NoRun            \* not a run: what an idle process works at

ASSUME CountsAssumption ==
  /\ NContact \in Nat /\ MaxFaults \in Nat
  /\ \A n \in {MaxRuns, MaxRunning, Allowance, ExpansionChunk, ReadyPage, PoisonAttempts} :
       n \in Nat \ {0}
ASSUME PoisonAssumption == Poison \subseteq 1..NContact
ASSUME ProcAssumption == Worker \cap Sweeper = {}
ASSUME NoRunAssumption == NoRun \notin Campaign \X (1..MaxRuns)

Contact == 1..NContact
RunNo   == 1..MaxRuns
Run     == Campaign \X RunNo
Proc    == Worker \cup Sweeper

VARIABLES
  camp,      \* campaigns: status, has a recurrence, next_run_at is set
  runStatus, \* campaign_runs.status
  size,      \* campaign_runs.audience_size
  tally,     \* campaign_runs.queued, .blocked, .skipped
  recip,     \* campaign_recipients: state of each contact in each run
  attempts,  \* campaign_recipients.attempts
  messages,  \* messages accepted for sending, by campaign_run_id and contact
  runJob,    \* pg-boss campaign.run jobs, by singleton key
  batchJob,  \* pg-boss campaign.batch jobs, by singleton key
  wk,        \* where each job execution is
  faults     \* faults so far

vars == <<camp, runStatus, size, tally, recip, attempts, messages, runJob, batchJob, wk, faults>>

CampaignStatus == {"absent", "draft", "scheduled", "running", "paused", "done", "cancelled", "failed"}
RunStatus      == {"none", "expanding", "sending", "done", "cancelled", "failed"}
RecipientState == {"none", "ready", "deferred", "queued", "blocked", "skipped"}

ActiveRun    == {"expanding", "sending"}
FinalRun     == {"done", "cancelled", "failed"}
FinalCampaign == {"done", "cancelled", "failed"}
Pending      == {"ready", "deferred"}     \* state = 'pending'; deferred: not_before lies ahead
Settled      == {"queued", "blocked", "skipped"}

IdleWorker == [pc |-> "idle", at |-> NoRun, page |-> {}, cursor |-> 0, processed |-> 0, busy |-> FALSE]

Init ==
  /\ camp     = [c \in Campaign |-> [status |-> "absent", recurring |-> FALSE, next |-> FALSE]]
  /\ runStatus = [r \in Run |-> "none"]
  /\ size     = [r \in Run |-> 0]
  /\ tally    = [r \in Run |-> [o \in Settled |-> 0]]
  /\ recip    = [r \in Run |-> [k \in Contact |-> "none"]]
  /\ attempts = [r \in Run |-> [k \in Contact |-> 0]]
  /\ messages = [r \in Run |-> [k \in Contact |-> 0]]
  /\ runJob   = [r \in Run |-> [waiting |-> FALSE, retrying |-> 0]]
  /\ batchJob = [r \in Run |-> [waiting |-> FALSE, retrying |-> 0]]
  /\ wk       = [p \in Proc |-> IdleWorker]
  /\ faults   = 0

---------------------------------------------------------------------------
(* Reading the tables *)

RunsOf(c)       == {c} \X RunNo
Opened(c)       == {n \in RunNo : runStatus[<<c, n>>] /= "none"}
LastRunNo(c)    == Cardinality(Opened(c))
ActiveRuns(c)   == {r \in RunsOf(c) : runStatus[r] \in ActiveRun}
RunningCount(except) == Cardinality({c \in Campaign \ except : camp[c].status = "running"})
PendingOf(r)    == {k \in Contact : recip[r][k] \in Pending}
ReadyOf(r)      == {k \in Contact : recip[r][k] = "ready"}
SnapshotOf(r)   == {k \in Contact : recip[r][k] /= "none"}
StatusOf(r)     == camp[r[1]].status

(* Row locks another transaction holds from its first step to its commit.  *)
Mutant_NoRowLock(x) == FALSE
CampaignLocked(c) == \E p \in Proc : wk[p].pc = "admitted" /\ wk[p].at[1] = c
RunLocked(r)      == \E p \in Proc : wk[p].pc = "closing" /\ wk[p].at = r

Mutant_OneRunTooMany(recurring, runsSoFar) ==
  IF recurring THEN {b \in BOOLEAN : b => runsSoFar <= MaxRuns} ELSE {runsSoFar = 0}

(* Whether there is a next run after runsSoFar: a cron or an endsAt may say *)
(* no where maxRuns would still allow one.                                  *)
NextRunAt(recurring, runsSoFar) ==
  IF recurring THEN {b \in BOOLEAN : b => runsSoFar < MaxRuns}
               ELSE {runsSoFar = 0}

FirstOf(S, n) == {k \in S : Cardinality({j \in S : j < k}) < n}
HeadOf(S)     == {k \in S : \A j \in S : k <= j}   \* its least element, if any

---------------------------------------------------------------------------
(* The queue: policy "short".  One job of a singleton key may wait; a job  *)
(* that is active or waiting to be retried does not count.                 *)

Send(jobs, rs)          == [r \in Run |-> IF r \in rs THEN [jobs[r] EXCEPT !.waiting = TRUE] ELSE jobs[r]]
Mutant_NothingWithdrawn(jobs, rs) == jobs
CancelWaiting(jobs, rs) == [r \in Run |-> IF r \in rs THEN [waiting |-> FALSE, retrying |-> 0] ELSE jobs[r]]

Fetched(job) == (IF job.waiting      THEN {[job EXCEPT !.waiting = FALSE]} ELSE {}) \cup
                (IF job.retrying > 0 THEN {[job EXCEPT !.retrying = @ - 1]} ELSE {})

(* A job that fails is retried, or dropped once its retries are used up.   *)
Returned(job) == {job, [job EXCEPT !.retrying = @ + 1]}

Goto(p, pc) == wk' = [wk EXCEPT ![p].pc = pc]
Rest(p)     == wk' = [wk EXCEPT ![p] = IdleWorker]

RunPc   == {"starting", "admitted", "resolving", "inserting", "failing"}
BatchPc == {"reading", "filling", "deciding", "counting", "tailing", "closing"}
SweepPc == {"reexpanding", "rebatching", "finishing", "looked"}

(* The job execution p ends by throwing. *)
JobFails(p) ==
  /\ IF p \in Sweeper THEN UNCHANGED <<runJob, batchJob>>
     ELSE IF wk[p].pc \in RunPc
     THEN /\ \E j \in Returned(runJob[wk[p].at]) : runJob' = [runJob EXCEPT ![wk[p].at] = j]
          /\ UNCHANGED batchJob
     ELSE /\ \E j \in Returned(batchJob[wk[p].at]) : batchJob' = [batchJob EXCEPT ![wk[p].at] = j]
          /\ UNCHANGED runJob
  /\ Rest(p)

EnqueueRun(rs)   == Send(runJob, rs)
EnqueueBatch(rs) == Send(batchJob, rs)

---------------------------------------------------------------------------
(* API operations: each one transaction, on the campaign row FOR UPDATE.   *)

NewDraft(c, recurring) ==
  /\ camp[c].status = "absent"
  /\ camp' = [camp EXCEPT ![c] = [status |-> "draft", recurring |-> recurring, next |-> FALSE]]
  /\ UNCHANGED <<runStatus, size, tally, recip, attempts, messages, runJob, batchJob, wk, faults>>

CreateCampaign(c) == \E recurring \in BOOLEAN : NewDraft(c, recurring)

(* A copy of any campaign, finished or not: its settings, never its status *)
(* or its runs.                                                            *)
DuplicateCampaign(c) ==
  \E source \in Campaign : camp[source].status /= "absent" /\ NewDraft(c, camp[source].recurring)

PatchDraft(c) ==
  /\ ~CampaignLocked(c)
  /\ camp[c].status = "draft"
  /\ \E recurring \in BOOLEAN : camp' = [camp EXCEPT ![c].recurring = recurring]
  /\ UNCHANGED <<runStatus, size, tally, recip, attempts, messages, runJob, batchJob, wk, faults>>

(* A paused campaign between runs: the job queued for the old settings     *)
(* goes, and the next run is worked out again.                             *)
PatchPaused(c) ==
  /\ ~CampaignLocked(c)
  /\ camp[c].status = "paused"
  /\ ActiveRuns(c) = {}
  /\ runJob' = CancelWaiting(runJob, {r \in RunsOf(c) : r[2] = LastRunNo(c) + 1})
  /\ \E recurring \in BOOLEAN : \E next \in NextRunAt(recurring, LastRunNo(c)) :
       camp' = [camp EXCEPT ![c].recurring = recurring, ![c].next = next]
  /\ UNCHANGED <<runStatus, size, tally, recip, attempts, messages, batchJob, wk, faults>>

(* Refused when the recurrence never fires; anySendable is taken to pass.  *)
AssertRoom(running) == running < MaxRunning

ScheduleCampaign(c) ==
  /\ ~CampaignLocked(c)
  /\ camp[c].status = "draft"
  /\ AssertRoom(RunningCount({}))
  /\ TRUE \in NextRunAt(camp[c].recurring, 0)
  /\ camp' = [camp EXCEPT ![c].status = "scheduled", ![c].next = TRUE]
  /\ runJob' = EnqueueRun({<<c, 1>>})
  /\ UNCHANGED <<runStatus, size, tally, recip, attempts, messages, batchJob, wk, faults>>

UnscheduleCampaign(c) ==
  /\ ~CampaignLocked(c)
  /\ camp[c].status \in {"scheduled", "paused"}
  /\ LastRunNo(c) = 0
  /\ runJob' = CancelWaiting(runJob, {<<c, 1>>})
  /\ camp' = [camp EXCEPT ![c].status = "draft", ![c].next = FALSE]
  /\ UNCHANGED <<runStatus, size, tally, recip, attempts, messages, batchJob, wk, faults>>

PauseCampaign(c) ==
  /\ ~CampaignLocked(c)
  /\ camp[c].status \in {"scheduled", "running"}
  /\ camp' = [camp EXCEPT ![c].status = "paused"]
  /\ UNCHANGED <<runStatus, size, tally, recip, attempts, messages, runJob, batchJob, wk, faults>>

(* A run was in progress: every active run gets the job its status calls   *)
(* for.                                                                    *)
ResumeActive(c) ==
  /\ ~CampaignLocked(c)
  /\ camp[c].status = "paused"
  /\ ActiveRuns(c) /= {}
  /\ AssertRoom(RunningCount({c}))
  /\ batchJob' = EnqueueBatch({r \in RunsOf(c) : runStatus[r] = "sending"})
  /\ runJob'   = EnqueueRun({r \in RunsOf(c) : runStatus[r] = "expanding"})
  /\ camp' = [camp EXCEPT ![c].status = "running"]
  /\ UNCHANGED <<runStatus, size, tally, recip, attempts, messages, wk, faults>>

(* Between runs: back to waiting for the next one, or done without one.    *)
ResumeBetween(c) ==
  /\ ~CampaignLocked(c)
  /\ camp[c].status = "paused"
  /\ ActiveRuns(c) = {}
  /\ IF camp[c].next
     THEN /\ runJob' = EnqueueRun({r \in RunsOf(c) : r[2] = LastRunNo(c) + 1})
          /\ camp' = [camp EXCEPT ![c].status = "scheduled"]
     ELSE /\ camp' = [camp EXCEPT ![c].status = "done"]
          /\ UNCHANGED runJob
  /\ UNCHANGED <<runStatus, size, tally, recip, attempts, messages, batchJob, wk, faults>>

(* Takes the run rows too, so it waits for a run that is being finished.   *)
CancelCampaign(c) ==
  /\ ~CampaignLocked(c)
  /\ camp[c].status \notin FinalCampaign \cup {"absent"}
  /\ \A r \in ActiveRuns(c) : ~RunLocked(r)
  /\ runStatus' = [r \in Run |-> IF r \in ActiveRuns(c) THEN "cancelled" ELSE runStatus[r]]
  /\ tally' = [r \in Run |-> [o \in Settled |->
                 IF r \in ActiveRuns(c) /\ o = "skipped"
                 THEN tally[r][o] + Cardinality(PendingOf(r)) ELSE tally[r][o]]]
  /\ recip' = [r \in Run |-> [k \in Contact |->
                 IF r \in ActiveRuns(c) /\ k \in PendingOf(r) THEN "skipped" ELSE recip[r][k]]]
  /\ camp' = [camp EXCEPT ![c].status = "cancelled", ![c].next = FALSE]
  /\ UNCHANGED <<size, attempts, messages, runJob, batchJob, wk, faults>>

---------------------------------------------------------------------------
(* campaign.run: startRun, the audience snapshot, hand-over to the batches *)

TakeRun(w, r) ==
  /\ wk[w].pc = "idle"
  /\ \E j \in Fetched(runJob[r]) : runJob' = [runJob EXCEPT ![r] = j]
  /\ wk' = [wk EXCEPT ![w].pc = "starting", ![w].at = r]
  /\ UNCHANGED <<camp, runStatus, size, tally, recip, attempts, messages, batchJob, faults>>

(* startRun returns null: not scheduled or running, or past expansion.     *)
StartRunStops(w) ==
  LET r == wk[w].at IN
  /\ wk[w].pc = "starting"
  /\ ~CampaignLocked(r[1])
  /\ \/ StatusOf(r) \notin {"scheduled", "running"}
     \/ runStatus[r] \notin {"none", "expanding"}
  /\ Rest(w)
  /\ UNCHANGED <<camp, runStatus, size, tally, recip, attempts, messages, runJob, batchJob, faults>>

(* A previous delivery left the run expanding: finish the same snapshot.   *)
StartRunResumes(w) ==
  LET r == wk[w].at IN
  /\ wk[w].pc = "starting"
  /\ ~CampaignLocked(r[1])
  /\ StatusOf(r) \in {"scheduled", "running"}
  /\ runStatus[r] = "expanding"
  /\ Goto(w, "resolving")
  /\ UNCHANGED <<camp, runStatus, size, tally, recip, attempts, messages, runJob, batchJob, faults>>

Mutant_ForgetsToWait(w) ==
  LET r == wk[w].at IN
  /\ wk[w].pc = "starting" /\ ~CampaignLocked(r[1])
  /\ StatusOf(r) = "scheduled" /\ runStatus[r] = "none" /\ RunningCount({r[1]}) >= MaxRunning
  /\ Rest(w)
  /\ UNCHANGED <<camp, runStatus, size, tally, recip, attempts, messages, runJob, batchJob, faults>>

(* No room: the run goes back on the queue, a minute out.                  *)
StartRunWaits(w) ==
  LET r == wk[w].at IN
  /\ wk[w].pc = "starting"
  /\ ~CampaignLocked(r[1])
  /\ StatusOf(r) = "scheduled"
  /\ runStatus[r] = "none"
  /\ RunningCount({r[1]}) >= MaxRunning
  /\ runJob' = EnqueueRun({r})
  /\ Rest(w)
  /\ UNCHANGED <<camp, runStatus, size, tally, recip, attempts, messages, batchJob, faults>>

(* Room was found.  The campaign row stays locked until StartRunOpens.     *)
StartRunAdmits(w) ==
  LET r == wk[w].at IN
  /\ wk[w].pc = "starting"
  /\ ~CampaignLocked(r[1])
  /\ runStatus[r] = "none"
  /\ \/ StatusOf(r) = "running"
     \/ StatusOf(r) = "scheduled" /\ RunningCount({r[1]}) < MaxRunning
  /\ Goto(w, "admitted")
  /\ UNCHANGED <<camp, runStatus, size, tally, recip, attempts, messages, runJob, batchJob, faults>>

(* The run row, the next occurrence's job, and the campaign's new status.  *)
StartRunOpens(w) ==
  LET r == wk[w].at  c == r[1]  n == r[2] IN
  /\ wk[w].pc = "admitted"
  /\ runStatus' = [runStatus EXCEPT ![r] = "expanding"]
  /\ \E next \in NextRunAt(camp[c].recurring, n) :
       /\ camp' = [camp EXCEPT ![c].status = "running", ![c].next = camp[c].recurring /\ next]
       /\ runJob' = IF camp[c].recurring /\ next
                    THEN EnqueueRun({q \in RunsOf(c) : q[2] = n + 1})
                    ELSE runJob
  /\ Goto(w, "resolving")
  /\ UNCHANGED <<size, tally, recip, attempts, messages, batchJob, faults>>

(* resolveAudience: whoever matches now; audiences change between reads.   *)
ResolveAudience(w) ==
  /\ wk[w].pc = "resolving"
  /\ \E ids \in SUBSET Contact :
       wk' = [wk EXCEPT ![w].pc = "inserting", ![w].page = ids]
  /\ UNCHANGED <<camp, runStatus, size, tally, recip, attempts, messages, runJob, batchJob, faults>>

(* on conflict do update *)
Mutant_ChunkOverwrites(w) ==
  LET r == wk[w].at  chunk == FirstOf(wk[w].page, ExpansionChunk) IN
  /\ wk[w].pc = "inserting" /\ chunk /= {} /\ ~RunLocked(r)
  /\ recip' = [recip EXCEPT ![r] = [k \in Contact |-> IF k \in chunk THEN "ready" ELSE @[k]]]
  /\ wk' = [wk EXCEPT ![w].page = @ \ chunk]
  /\ UNCHANGED <<camp, runStatus, size, tally, attempts, messages, runJob, batchJob, faults>>

(* One chunk, on conflict do nothing.  It touches the run row, so it waits *)
(* for a run being finished; it does not look at the run's status.         *)
InsertChunk(w) ==
  LET r == wk[w].at  chunk == FirstOf(wk[w].page, ExpansionChunk) IN
  /\ wk[w].pc = "inserting"
  /\ chunk /= {}
  /\ ~RunLocked(r)
  /\ recip' = [recip EXCEPT ![r] = [k \in Contact |->
                 IF k \in chunk /\ @[k] = "none" THEN "ready" ELSE @[k]]]
  /\ wk' = [wk EXCEPT ![w].page = @ \ chunk]
  /\ UNCHANGED <<camp, runStatus, size, tally, attempts, messages, runJob, batchJob, faults>>

(* without "and status = 'expanding'" *)
Mutant_ExpansionRevives(w) ==
  LET r == wk[w].at IN
  /\ wk[w].pc = "inserting" /\ wk[w].page = {} /\ ~RunLocked(r)
  /\ runStatus' = [runStatus EXCEPT ![r] = "sending"]
  /\ size' = [size EXCEPT ![r] = Cardinality(SnapshotOf(r))]
  /\ batchJob' = EnqueueBatch({r})
  /\ Rest(w)
  /\ UNCHANGED <<camp, tally, recip, attempts, messages, runJob, faults>>

(* audience_size is counted in the UPDATE's own snapshot, so after a wait   *)
(* for another delivery's chunk it may be older still than it is here.     *)
ExpansionDone(w) ==
  LET r == wk[w].at IN
  /\ wk[w].pc = "inserting"
  /\ wk[w].page = {}
  /\ ~RunLocked(r)
  /\ runStatus[r] = "expanding"
  /\ runStatus' = [runStatus EXCEPT ![r] = "sending"]
  /\ size' = [size EXCEPT ![r] = Cardinality(SnapshotOf(r))]
  /\ batchJob' = EnqueueBatch({r})
  /\ Rest(w)
  /\ UNCHANGED <<camp, tally, recip, attempts, messages, runJob, faults>>

(* A cancel, or another delivery of the job, had the last word.            *)
ExpansionOvertaken(w) ==
  LET r == wk[w].at IN
  /\ wk[w].pc = "inserting"
  /\ wk[w].page = {}
  /\ ~RunLocked(r)
  /\ runStatus[r] /= "expanding"
  /\ Rest(w)
  /\ UNCHANGED <<camp, runStatus, size, tally, recip, attempts, messages, runJob, batchJob, faults>>

ExpansionThrows(w) ==
  /\ wk[w].pc \in {"resolving", "inserting"}
  /\ faults < MaxFaults
  /\ faults' = faults + 1
  /\ wk' = [wk EXCEPT ![w].pc = "failing", ![w].page = {}]
  /\ UNCHANGED <<camp, runStatus, size, tally, recip, attempts, messages, runJob, batchJob>>

FailRun(w) ==
  LET r == wk[w].at  c == r[1] IN
  /\ wk[w].pc = "failing"
  /\ ~RunLocked(r)
  /\ ~CampaignLocked(c)
  /\ runStatus' = IF runStatus[r] \in ActiveRun THEN [runStatus EXCEPT ![r] = "failed"] ELSE runStatus
  /\ camp' = IF camp[c].status \notin {"cancelled", "done"}
             THEN [camp EXCEPT ![c].status = "failed", ![c].next = FALSE] ELSE camp
  /\ Rest(w)
  /\ UNCHANGED <<size, tally, recip, attempts, messages, runJob, batchJob, faults>>

---------------------------------------------------------------------------
(* campaign.batch: read the run, fill the allowance, then queue the next   *)
(* batch or finish the run                                                 *)

TakeBatch(w, r) ==
  /\ wk[w].pc = "idle"
  /\ \E j \in Fetched(batchJob[r]) : batchJob' = [batchJob EXCEPT ![r] = j]
  /\ wk' = [wk EXCEPT ![w].pc = "reading", ![w].at = r]
  /\ UNCHANGED <<camp, runStatus, size, tally, recip, attempts, messages, runJob, faults>>

BatchStops(w) ==
  LET r == wk[w].at IN
  /\ wk[w].pc = "reading"
  /\ runStatus[r] /= "sending" \/ StatusOf(r) /= "running"
  /\ Rest(w)
  /\ UNCHANGED <<camp, runStatus, size, tally, recip, attempts, messages, runJob, batchJob, faults>>

BatchBegins(w) ==
  LET r == wk[w].at IN
  /\ wk[w].pc = "reading"
  /\ runStatus[r] = "sending" /\ StatusOf(r) = "running"
  /\ Goto(w, "filling")
  /\ UNCHANGED <<camp, runStatus, size, tally, recip, attempts, messages, runJob, batchJob, faults>>

(* The loop is over, and what it kept count with is gone.                  *)
LoopEnds(w) == [wk EXCEPT ![w].pc = "tailing", ![w].page = {}, ![w].cursor = 0, ![w].processed = 0]

FillPage(w) ==
  LET r == wk[w].at
      page == FirstOf({k \in ReadyOf(r) : k > wk[w].cursor}, ReadyPage) IN
  /\ wk[w].pc = "filling"
  /\ wk' = IF page = {} THEN LoopEnds(w) ELSE [wk EXCEPT ![w].pc = "deciding", ![w].page = page]
  /\ UNCHANGED <<camp, runStatus, size, tally, recip, attempts, messages, runJob, batchJob, faults>>

(* The fill loop after one recipient, counted against the allowance or not *)
Advance(w, k, counted) ==
  LET done == wk[w].processed + (IF counted THEN 1 ELSE 0)
      rest == wk[w].page \ {k} IN
  wk' = IF done >= Allowance THEN LoopEnds(w)
        ELSE [wk EXCEPT ![w].cursor = k, ![w].processed = done, ![w].page = rest,
                        ![w].pc = IF rest = {} THEN "filling" ELSE "deciding"]

Mutant_NotReadAgain(r, k) == TRUE

(* The recipient's row, taken FOR UPDATE if it is still ready.             *)
Ready(r, k) == recip[r][k] = "ready"

(* Another batch may be holding k's row at this moment (SKIP LOCKED).      *)
Held(w, k) ==
  \E q \in Worker \ {w} :
    wk[q].at = wk[w].at /\ wk[q].pc \in {"deciding", "counting"} /\ k \in HeadOf(wk[q].page)

(* Someone else decided this recipient since the page was read, or is at   *)
(* it.                                                                     *)
DecideTaken(w) ==
  /\ wk[w].pc = "deciding"
  /\ \E k \in HeadOf(wk[w].page) :
       /\ ~Ready(wk[w].at, k) \/ Held(w, k)
       /\ Advance(w, k, FALSE)
  /\ UNCHANGED <<camp, runStatus, size, tally, recip, attempts, messages, runJob, batchJob, faults>>

(* settle: the recipient's final state, counted on the run.                *)
Settle(r, k, outcome) ==
  /\ recip' = [recip EXCEPT ![r][k] = outcome]
  /\ tally' = [tally EXCEPT ![r][outcome] = @ + 1]

(* Sent, refused by consent, rules or selection, or impossible to send.    *)
DecideSettles(w) ==
  LET r == wk[w].at IN
  /\ wk[w].pc = "deciding"
  /\ ~RunLocked(r)
  /\ \E k \in HeadOf(wk[w].page), outcome \in Settled :
       /\ Ready(r, k)
       /\ Settle(r, k, outcome)
       /\ messages' = IF outcome = "queued" THEN [messages EXCEPT ![r][k] = @ + 1] ELSE messages
       /\ Advance(w, k, TRUE)
  /\ UNCHANGED <<camp, runStatus, size, attempts, runJob, batchJob, faults>>

(* Held back only by a sending window.                                     *)
DecideDefers(w) ==
  LET r == wk[w].at IN
  /\ wk[w].pc = "deciding"
  /\ \E k \in HeadOf(wk[w].page) :
       /\ Ready(r, k)
       /\ recip' = [recip EXCEPT ![r][k] = "deferred"]
       /\ Advance(w, k, FALSE)
  /\ UNCHANGED <<camp, runStatus, size, tally, attempts, messages, runJob, batchJob, faults>>

DecideThrows(w) ==
  /\ wk[w].pc = "deciding"
  /\ \E k \in HeadOf(wk[w].page) \cap Poison : Ready(wk[w].at, k)
  /\ Goto(w, "counting")
  /\ UNCHANGED <<camp, runStatus, size, tally, recip, attempts, messages, runJob, batchJob, faults>>

(* without "and state = 'pending'" *)
Mutant_ErrorOverrules(w) ==
  LET r == wk[w].at IN
  /\ wk[w].pc = "counting"
  /\ \E k \in HeadOf(wk[w].page) :
       /\ attempts' = [attempts EXCEPT ![r][k] = @ + 1]
       /\ \/ /\ attempts[r][k] + 1 >= PoisonAttempts
             /\ ~RunLocked(r) /\ Settle(r, k, "skipped") /\ Advance(w, k, TRUE)
             /\ UNCHANGED <<runJob, batchJob>>
          \/ attempts[r][k] + 1 < PoisonAttempts /\ JobFails(w) /\ UNCHANGED <<recip, tally>>
  /\ UNCHANGED <<camp, runStatus, size, messages, faults>>

(* The error is counted while the recipient is pending, and on the last    *)
(* attempt the recipient is skipped and the batch carries on.              *)
CountAttempt(w) ==
  LET r == wk[w].at IN
  /\ wk[w].pc = "counting"
  /\ \E k \in HeadOf(wk[w].page) :
       LET pending == recip[r][k] \in Pending
           last == pending /\ attempts[r][k] + 1 >= PoisonAttempts IN
       /\ attempts' = IF pending THEN [attempts EXCEPT ![r][k] = @ + 1] ELSE attempts
       /\ \/ /\ last
             /\ ~RunLocked(r)
             /\ Settle(r, k, "skipped")
             /\ Advance(w, k, TRUE)
             /\ UNCHANGED <<runJob, batchJob>>
          \/ ~last /\ JobFails(w) /\ UNCHANGED <<recip, tally>>
  /\ UNCHANGED <<camp, runStatus, size, messages, faults>>

(* Recipients are left: the next batch is queued, now or for the earliest  *)
(* deferred one.                                                           *)
BatchRequeues(w) ==
  LET r == wk[w].at IN
  /\ wk[w].pc = "tailing"
  /\ ~RunLocked(r)
  /\ PendingOf(r) /= {}
  /\ StatusOf(r) = "running"
  /\ batchJob' = EnqueueBatch({r})
  /\ Rest(w)
  /\ UNCHANGED <<camp, runStatus, size, tally, recip, attempts, messages, runJob, faults>>

(* A pause or a cancel that landed during the batch stops the chain.       *)
BatchHalts(w) ==
  LET r == wk[w].at IN
  /\ wk[w].pc = "tailing"
  /\ ~RunLocked(r)
  /\ PendingOf(r) /= {}
  /\ StatusOf(r) /= "running"
  /\ Rest(w)
  /\ UNCHANGED <<camp, runStatus, size, tally, recip, attempts, messages, runJob, batchJob, faults>>

---------------------------------------------------------------------------
(* finishRun, reached from a batch or from the sweeper: the run row is     *)
(* taken, the other runs are read, then the campaign row is taken.  A      *)
(* batch holds the run row before it looks at the recipients.  The sweep   *)
(* does not: its UPDATE looks, then may wait for the row, and what is      *)
(* checked again after the wait is the run's status, not its recipients.   *)

MayFinish(r) == runStatus[r] = "sending" /\ \A k \in Contact : recip[r][k] \notin Pending

Mutant_LooksAtStatusOnly(s) ==
  /\ wk[s].pc = "finishing" /\ runStatus[wk[s].at] = "sending"
  /\ wk' = [wk EXCEPT ![s].pc = "looked", ![s].page = SnapshotOf(wk[s].at)]
  /\ UNCHANGED <<camp, runStatus, size, tally, recip, attempts, messages, runJob, batchJob, faults>>

(* The snapshot of the sweep's UPDATE: page is whom it shows.              *)
SweepLooks(s) ==
  /\ wk[s].pc = "finishing"
  /\ MayFinish(wk[s].at)
  /\ wk' = [wk EXCEPT ![s].pc = "looked", ![s].page = SnapshotOf(wk[s].at)]
  /\ UNCHANGED <<camp, runStatus, size, tally, recip, attempts, messages, runJob, batchJob, faults>>

FinishMarks(p) ==
  LET r == wk[p].at IN
  /\ \/ p \in Worker  /\ wk[p].pc = "tailing" /\ PendingOf(r) = {}
     \/ p \in Sweeper /\ wk[p].pc = "looked"
  /\ ~RunLocked(r)
  /\ runStatus[r] = "sending"
  /\ wk' = [wk EXCEPT ![p].pc = "closing", ![p].busy = (ActiveRuns(r[1]) \ {r} /= {})]
  /\ UNCHANGED <<camp, runStatus, size, tally, recip, attempts, messages, runJob, batchJob, faults>>

(* Overtaken by another finish, a cancel or a failure; or the sweep looked *)
(* and somebody is pending.                                                *)
FinishSkips(p) ==
  LET r == wk[p].at IN
  /\ \/ wk[p].pc = "finishing" /\ ~MayFinish(r)
     \/ wk[p].pc = "looked" /\ ~RunLocked(r) /\ runStatus[r] /= "sending"
     \/ wk[p].pc = "tailing" /\ ~RunLocked(r) /\ runStatus[r] /= "sending" /\ PendingOf(r) = {}
  /\ Rest(p)
  /\ UNCHANGED <<camp, runStatus, size, tally, recip, attempts, messages, runJob, batchJob, faults>>

FinishCommits(p) ==
  LET r == wk[p].at  c == r[1] IN
  /\ wk[p].pc = "closing"
  /\ runStatus' = [runStatus EXCEPT ![r] = "done"]
  /\ \/ wk[p].busy /\ UNCHANGED camp
     \/ /\ ~wk[p].busy
        /\ ~CampaignLocked(c)
        /\ camp' = IF camp[c].status = "running"
                   THEN [camp EXCEPT ![c].status = IF camp[c].next THEN "scheduled" ELSE "done"]
                   ELSE camp
  /\ Rest(p)
  /\ UNCHANGED <<size, tally, recip, attempts, messages, runJob, batchJob, faults>>

---------------------------------------------------------------------------
(* campaign.sweep: candidates are read first, each is acted on in a        *)
(* transaction of its own                                                  *)

(* a sending run with recipients ready is not looked for *)
Mutant_SweepMissesBatches(s, r) ==
  /\ wk[s].pc = "idle"
  /\ \E pc \in {"reexpanding", "finishing"} :
       /\ CASE pc = "reexpanding" -> runStatus[r] = "expanding" /\ StatusOf(r) \in {"scheduled", "running"}
            [] pc = "finishing"   -> runStatus[r] = "sending" /\ StatusOf(r) = "running" /\ PendingOf(r) = {}
       /\ wk' = [wk EXCEPT ![s].pc = pc, ![s].at = r]
  /\ UNCHANGED <<camp, runStatus, size, tally, recip, attempts, messages, runJob, batchJob, faults>>

SweepFinds(s, r) ==
  /\ wk[s].pc = "idle"
  /\ \E pc \in SweepPc \ {"looked"} :
       /\ CASE pc = "reexpanding" -> runStatus[r] = "expanding" /\ StatusOf(r) \in {"scheduled", "running"}
            [] pc = "rebatching"  -> runStatus[r] = "sending" /\ StatusOf(r) = "running" /\ ReadyOf(r) /= {}
            [] pc = "finishing"   -> runStatus[r] = "sending" /\ StatusOf(r) = "running" /\ PendingOf(r) = {}
       /\ wk' = [wk EXCEPT ![s].pc = pc, ![s].at = r]
  /\ UNCHANGED <<camp, runStatus, size, tally, recip, attempts, messages, runJob, batchJob, faults>>

SweepResumesExpansion(s) ==
  /\ wk[s].pc = "reexpanding"
  /\ ~RunLocked(wk[s].at)
  /\ runJob' = EnqueueRun({wk[s].at})
  /\ Rest(s)
  /\ UNCHANGED <<camp, runStatus, size, tally, recip, attempts, messages, batchJob, faults>>

SweepEnqueuesBatch(s) ==
  /\ wk[s].pc = "rebatching"
  /\ ~RunLocked(wk[s].at)
  /\ batchJob' = EnqueueBatch({wk[s].at})
  /\ Rest(s)
  /\ UNCHANGED <<camp, runStatus, size, tally, recip, attempts, messages, runJob, faults>>

---------------------------------------------------------------------------
(* The environment *)

(* not_before passes.                                                      *)
WindowOpens(r, k) ==
  /\ recip[r][k] = "deferred"
  /\ recip' = [recip EXCEPT ![r][k] = "ready"]
  /\ UNCHANGED <<camp, runStatus, size, tally, attempts, messages, runJob, batchJob, wk, faults>>

(* The process dies, or a statement fails (a lost connection, a deadlock   *)
(* broken by Postgres): the open transaction is rolled back.               *)
Crash(p) ==
  /\ wk[p].pc /= "idle"
  /\ faults < MaxFaults
  /\ faults' = faults + 1
  /\ JobFails(p)
  /\ UNCHANGED <<camp, runStatus, size, tally, recip, attempts, messages>>

(* pg-boss takes a job back after expireIn while its worker is still at it *)
JobExpires(w) ==
  /\ wk[w].pc \in RunPc \cup BatchPc
  /\ faults < MaxFaults
  /\ faults' = faults + 1
  /\ IF wk[w].pc \in RunPc
     THEN runJob' = [runJob EXCEPT ![wk[w].at].retrying = @ + 1] /\ UNCHANGED batchJob
     ELSE batchJob' = [batchJob EXCEPT ![wk[w].at].retrying = @ + 1] /\ UNCHANGED runJob
  /\ UNCHANGED <<camp, runStatus, size, tally, recip, attempts, messages, wk>>

---------------------------------------------------------------------------
Api(c) ==
  \/ CreateCampaign(c)     \/ DuplicateCampaign(c)
  \/ PatchDraft(c)         \/ PatchPaused(c)  \/ ScheduleCampaign(c)
  \/ UnscheduleCampaign(c) \/ PauseCampaign(c) \/ ResumeActive(c)  \/ ResumeBetween(c)
  \/ CancelCampaign(c)

RunWorker(w) ==
  \/ \E r \in Run : TakeRun(w, r)
  \/ StartRunStops(w)   \/ StartRunResumes(w) \/ StartRunWaits(w) \/ StartRunAdmits(w)
  \/ StartRunOpens(w)   \/ ResolveAudience(w) \/ InsertChunk(w)   \/ ExpansionDone(w)
  \/ ExpansionOvertaken(w) \/ FailRun(w)

BatchWorker(w) ==
  \/ \E r \in Run : TakeBatch(w, r)
  \/ BatchStops(w)    \/ BatchBegins(w)  \/ FillPage(w)     \/ DecideTaken(w)
  \/ DecideSettles(w) \/ DecideDefers(w) \/ DecideThrows(w) \/ CountAttempt(w)
  \/ BatchRequeues(w) \/ BatchHalts(w)

Finish(p) == FinishMarks(p) \/ FinishSkips(p) \/ FinishCommits(p)

Sweep(s) ==
  \/ \E r \in Run : SweepFinds(s, r)
  \/ SweepResumesExpansion(s) \/ SweepEnqueuesBatch(s) \/ SweepLooks(s)

Fault ==
  \/ \E p \in Proc : Crash(p)
  \/ \E w \in Worker : JobExpires(w) \/ ExpansionThrows(w)

Next ==
  \/ \E c \in Campaign : Api(c)
  \/ \E w \in Worker : RunWorker(w) \/ BatchWorker(w)
  \/ \E s \in Sweeper : Sweep(s)
  \/ \E p \in Proc : Finish(p)
  \/ \E r \in Run, k \in Contact : WindowOpens(r, k)
  \/ Fault

Spec == Init /\ [][Next]_vars

---------------------------------------------------------------------------
(* Properties *)

CampaignRec == [status : CampaignStatus, recurring : BOOLEAN, next : BOOLEAN]
JobRec      == [waiting : BOOLEAN, retrying : Nat]
WorkerRec   == [pc : {"idle"} \cup RunPc \cup BatchPc \cup SweepPc, at : Run \cup {NoRun},
                page : SUBSET Contact, cursor : Nat, processed : Nat, busy : BOOLEAN]

TypeOK ==
  /\ camp     \in [Campaign -> CampaignRec]
  /\ runStatus \in [Run -> RunStatus]
  /\ size     \in [Run -> Nat]
  /\ tally    \in [Run -> [Settled -> Nat]]
  /\ recip    \in [Run -> [Contact -> RecipientState]]
  /\ attempts \in [Run -> [Contact -> Nat]]
  /\ messages \in [Run -> [Contact -> Nat]]
  /\ runJob   \in [Run -> JobRec]
  /\ batchJob \in [Run -> JobRec]
  /\ wk       \in [Proc -> WorkerRec]
  /\ faults   \in 0..MaxFaults
  /\ \A p \in Proc : wk[p].pc /= "idle" => wk[p].at \in Run

(* What a job execution has read under a row lock holds to its commit.     *)
(* While a run is being opened its row does not exist and its campaign is  *)
(* scheduled or running; while it is being finished it is sending, and if  *)
(* a batch does it nobody is pending; nobody else opens or finishes it     *)
(* then; and an expansion never works on a run that was not opened (the    *)
(* locks of startRun and finishRun).                                       *)
MayClose(p) ==
  /\ runStatus[wk[p].at] = "sending"
  /\ p \in Worker => \A k \in Contact : recip[wk[p].at][k] \notin Pending

RowLocks ==
  \A p \in Proc :
    /\ wk[p].pc = "admitted" => /\ runStatus[wk[p].at] = "none"
                               /\ StatusOf(wk[p].at) \in {"scheduled", "running"}
    /\ wk[p].pc = "closing" => MayClose(p)
    /\ wk[p].pc \in {"resolving", "inserting"} => runStatus[wk[p].at] /= "none"
    /\ \A q \in Proc : wk[p].pc = wk[q].pc /\ p /= q =>
         /\ wk[p].pc = "admitted" => wk[p].at[1] /= wk[q].at[1]
         /\ wk[p].pc = "closing"  => wk[p].at /= wk[q].at

(* The sweep looks without a lock: by the time it has the run's row others *)
(* may be pending there, or somebody else may have ended the run; but whom *)
(* it saw decided still is.                                                *)
SweepSees ==
  \A s \in Sweeper : wk[s].pc \in {"looked", "closing"} =>
    /\ runStatus[wk[s].at] \notin {"none", "expanding"}
    /\ \A k \in wk[s].page : recip[wk[s].at][k] \in Settled

(* What a job execution that opens or finishes a run has read may still be *)
(* relied on: as far as the row locks go, and for the sweep its snapshot.  *)
LocksHold == RowLocks /\ SweepSees

(* A run's queued, blocked and skipped counts are the numbers of its       *)
(* recipients in those states, whichever of the batches, the error counter *)
(* and the cancel settled them (settle, cancelCampaign).                   *)
TallyMatches ==
  \A r \in Run, o \in Settled : tally[r][o] = Cardinality({k \in Contact : recip[r][k] = o})

(* "Two batches for one run can never send to anyone twice": a recipient   *)
(* has one message exactly when it is queued, else none, whatever batches  *)
(* overlap, die half way or are delivered again (decide).                  *)
SentOnce ==
  \A r \in Run, k \in Contact : messages[r][k] = (IF recip[r][k] = "queued" THEN 1 ELSE 0)

(* Runs open in order, with no number left out, and a next run is only     *)
(* announced when maxRuns allows it, though jobs for a run are queued by   *)
(* schedule, resume, startRun and the sweeper, and patch withdraws them.   *)
RunsInOrder ==
  \A c \in Campaign : /\ Opened(c) = 1..LastRunNo(c)
                      /\ camp[c].next => LastRunNo(c) < MaxRuns

(* A draft has never run, and no job waits that would start it: a job left *)
(* behind would swallow the next schedule's (unscheduleCampaign).          *)
DraftIsClean ==
  \A c \in Campaign : camp[c].status = "draft" =>
    \A r \in RunsOf(c) : runStatus[r] = "none" /\ ~runJob[r].waiting

(* A cancelled campaign has no run expanding or sending, not even one that *)
(* was being opened while the cancel came (the lock of startRun).          *)
CancelledIsQuiet ==
  \A c \in Campaign : camp[c].status = "cancelled" => ActiveRuns(c) = {}

(* A recipient's outcome, once settled, never changes: not by a batch that *)
(* read it as ready, an error counted late, a repeated expansion or a      *)
(* cancel.                                                                 *)
OutcomeIsFinal ==
  [][\A r \in Run, k \in Contact : recip[r][k] \in Settled => recip'[r][k] = recip[r][k]]_vars

(* A finished, cancelled or failed run or campaign stays so, though the    *)
(* workers act on a status read earlier (the where clauses of runCampaign, *)
(* finishRun and failRun).                                                 *)
EndIsFinal ==
  [][/\ \A r \in Run : runStatus[r] \in FinalRun => runStatus'[r] = runStatus[r]
     /\ \A c \in Campaign : camp[c].status \in FinalCampaign => camp'[c].status = camp[c].status]_vars

(* Whom p, finishing a run, may leave pending: nobody if p is a batch; if  *)
(* p is the sweep, those written down since it looked.                     *)
Unseen(p) == IF p \in Worker THEN {} ELSE Contact \ wk[p].page

(* Whoever marks a run done leaves nobody pending whom it could have seen: *)
(* a batch nobody at all, though an expansion is still writing recipients  *)
(* down, and the sweep only those written down after its UPDATE took its   *)
(* snapshot (finishRun, from processBatch and from sweepRuns).             *)
DoneMeansDecided ==
  [][\A r \in Run : runStatus[r] /= "done" /\ runStatus'[r] = "done" =>
       \E p \in Proc : /\ wk[p].pc = "closing" /\ wk[p].at = r
                       /\ PendingOf(r)' \subseteq Unseen(p)]_vars

(* A scheduled campaign that has not run yet has its first run's job, in   *)
(* the queue or in hand: not lost while it waits for room among the        *)
(* tenant's campaigns, nor over a pause (startRun, resumeCampaign).        *)
FirstRunHasJob ==
  \A c \in Campaign : camp[c].status = "scheduled" /\ LastRunNo(c) = 0 =>
    \E r \in RunsOf(c) :
      /\ r[2] = 1
      /\ \/ runJob[r].waiting \/ runJob[r].retrying > 0
         \/ \E w \in Worker : wk[w].at = r /\ wk[w].pc \in RunPc

---------------------------------------------------------------------------
(* The engine implements RunOutcomes: seen from outside, a run's           *)
(* recipients are only ever written down, decided once and closed off.     *)

(* Someone has seen nobody pending in r and is about to mark it done.      *)
Finishing(r) == RunLocked(r) \/ \E s \in Sweeper : wk[s].pc = "looked" /\ wk[s].at = r

Phase(r) == CASE runStatus[r] = "none"      -> "none"
              [] runStatus[r] = "expanding" -> "open"
              [] runStatus[r] = "sending"   -> IF Finishing(r) THEN "closing" ELSE "open"
              [] runStatus[r] = "done"      -> "complete"
              [] OTHER                       -> "stopped"

Outcomes == INSTANCE RunOutcomes WITH
  phase   <- [r \in Run |-> Phase(r)],
  outcome <- [r \in Run |-> [k \in Contact |-> IF recip[r][k] \in Pending THEN "pending" ELSE recip[r][k]]]

(* Every behaviour of the engine is one RunOutcomes allows, with the       *)
(* deferrals, retries, duplicates and crashes as stuttering.               *)
ImplementsOutcomes == Outcomes!Spec

---------------------------------------------------------------------------
(* What a comment or a document says and the code does not keep            *)

(* campaigns.ts:14 "At most this many of one tenant's campaigns may be     *)
(* `running` at once": the count is read without a lock on it.             *)
RoomIsKept == RunningCount({}) <= MaxRunning

(* campaigns.ts:539 "Whatever the pause stopped is put back on the queue": *)
(* so a scheduled campaign's next run has a job, waiting or in hand.       *)
ScheduledHasJob ==
  \A c \in Campaign : camp[c].status = "scheduled" =>
    \E r \in RunsOf(c) :
      /\ r[2] = LastRunNo(c) + 1
      /\ \/ runJob[r].waiting \/ runJob[r].retrying > 0
         \/ \E w \in Worker : wk[w].at = r /\ wk[w].pc \in RunPc

(* worker.ts:454 "move the campaign on": a campaign whose runs are all     *)
(* over, and none of them being finished, is not left running.             *)
RunningHasRun ==
  \A c \in Campaign : camp[c].status = "running" => ActiveRuns(c) /= {}

(* worker.ts:455 "done when it has not" another run coming: a campaign     *)
(* marked done has no run still expanding or sending.                      *)
DoneIsIdle ==
  \A c \in Campaign : camp[c].status = "done" => ActiveRuns(c) = {}

(* 0013_campaigns.sql:132 "a run's counts always add up to its audience    *)
(* once it is done".                                                       *)
CountsAddUp ==
  \A r \in Run : runStatus[r] = "done" =>
    /\ tally[r]["queued"] + tally[r]["blocked"] + tally[r]["skipped"] = size[r]
    /\ size[r] = Cardinality(SnapshotOf(r))

(* docs/API.md:729 "a `sending` run with nothing pending is finished": one *)
(* with somebody pending is not.                                           *)
DoneLeavesNobody ==
  [][\A r \in Run : runStatus[r] /= "done" /\ runStatus'[r] = "done" => PendingOf(r)' = {}]_vars

(* campaigns.ts:588 "Pending recipients are skipped with reason            *)
(* `cancelled`": a cancelled run has none left pending.                    *)
CancelSkipsAll ==
  \A r \in Run : runStatus[r] = "cancelled" => PendingOf(r) = {}

---------------------------------------------------------------------------
(* Liveness.  Workers keep taking steps, pg-boss hands out every job in    *)
(* the end, the sweep comes round to every run, and sending windows open.  *)
(* Nobody is bound to call the API, and a fault is never fair.  A          *)
(* recipient is not deferred for ever: a window that opened lets some      *)
(* later attempt through.                                                  *)

Fairness ==
  /\ \A w \in Worker :
       /\ WF_vars(RunWorker(w) \/ BatchWorker(w) \/ Finish(w))
       /\ SF_vars(DecideSettles(w))
       /\ \A r \in Run : SF_vars(TakeRun(w, r)) /\ SF_vars(TakeBatch(w, r))
  /\ \A s \in Sweeper :
       /\ WF_vars(SweepResumesExpansion(s) \/ SweepEnqueuesBatch(s) \/ SweepLooks(s) \/ Finish(s))
       /\ \A r \in Run : SF_vars(SweepFinds(s, r))
  /\ \A r \in Run, k \in Contact : WF_vars(WindowOpens(r, k))

FairSpec == Spec /\ Fairness

(* A run whose job chain died is put back on it: while its campaign stays  *)
(* running, an expanding run gets to sending and a sending run to its end  *)
(* (sweepRuns).                                                            *)
ActiveRunMovesOn ==
  \A r \in Run :
    /\ (runStatus[r] = "expanding" /\ StatusOf(r) = "running")
         ~> (runStatus[r] /= "expanding" \/ StatusOf(r) /= "running")
    /\ (runStatus[r] = "sending" /\ StatusOf(r) = "running")
         ~> (runStatus[r] /= "sending" \/ StatusOf(r) /= "running")
=============================================================================
