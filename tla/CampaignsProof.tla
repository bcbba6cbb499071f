--------------------------- MODULE CampaignsProof ---------------------------
(***************************************************************************)
(* The campaign engine, for every number of campaigns, runs, contacts,     *)
(* workers and faults: its types, what the row locks keep true, the final  *)
(* states, what becomes of a recipient, the refinement of RunOutcomes, and *)
(* the order in which runs open.                                           *)
(***************************************************************************)
EXTENDS Campaigns, SumLemmas

---------------------------------------------------------------------------
(* Types: one lemma per group of actions.                                  *)

LEMMA TypeInit == Init => TypeOK
BY CountsAssumption DEF Init, Settled, TypeOK, IdleWorker, CampaignStatus, RunStatus, RecipientState,
   CampaignRec, JobRec, WorkerRec

LEMMA SendType ==
  ASSUME NEW jobs \in [Run -> JobRec], NEW rs
  PROVE  /\ Send(jobs, rs) \in [Run -> JobRec]
         /\ CancelWaiting(jobs, rs) \in [Run -> JobRec]
BY DEF Send, CancelWaiting, JobRec

LEMMA FetchedType ==
  ASSUME NEW job \in JobRec, NEW j \in Fetched(job) \cup Returned(job)
  PROVE  j \in JobRec
<1>1. CASE j \in Returned(job)
  BY <1>1 DEF Returned, JobRec
<1>2. CASE j = [job EXCEPT !.waiting = FALSE]
  BY <1>2 DEF JobRec
<1>3. CASE job.retrying > 0 /\ j = [job EXCEPT !.retrying = @ - 1]
  BY <1>3 DEF JobRec
<1> QED BY <1>1, <1>2, <1>3 DEF Fetched

LEMMA ContactSets ==
  ASSUME NEW S \in SUBSET Contact
  PROVE  IsFiniteSet(S) /\ Cardinality(S) \in Nat
<1>1. IsFiniteSet(Contact)
  BY CountsAssumption, FS_Interval DEF Contact
<1> QED BY <1>1, FS_Subset, FS_CardinalityType

LEMMA RetrySet ==
  ASSUME NEW jobs \in [Run -> JobRec], NEW r \in Run
  PROVE  [jobs EXCEPT ![r].retrying = @ + 1] \in [Run -> JobRec]
BY DEF JobRec

LEMMA StatusSet ==
  ASSUME NEW f \in [Campaign -> CampaignRec], NEW c, NEW status \in CampaignStatus
  PROVE  [f EXCEPT ![c].status = status] \in [Campaign -> CampaignRec]
BY DEF CampaignRec

LEMMA ApiType == TypeOK /\ (\E c \in Campaign : Api(c)) => TypeOK'
<1> SUFFICES ASSUME TypeOK, NEW c \in Campaign, Api(c) PROVE TypeOK'
  OBVIOUS
<1>a. ASSUME camp' \in [Campaign -> CampaignRec], runStatus' \in [Run -> RunStatus],
             tally' \in [Run -> [Settled -> Nat]], runJob' \in [Run -> JobRec], batchJob' \in [Run -> JobRec],
             recip' \in [Run -> [Contact -> RecipientState]],
             UNCHANGED <<size, attempts, messages, wk, faults>>
      PROVE  TypeOK'
  BY <1>a DEF TypeOK
<1>b. /\ camp \in [Campaign -> CampaignRec] /\ runStatus \in [Run -> RunStatus]
      /\ tally \in [Run -> [Settled -> Nat]] /\ recip \in [Run -> [Contact -> RecipientState]]
      /\ runJob \in [Run -> JobRec] /\ batchJob \in [Run -> JobRec]
  BY DEF TypeOK
<1>1. CASE CreateCampaign(c)
  BY <1>1, <1>a, <1>b DEF CreateCampaign, NewDraft, CampaignRec, CampaignStatus
<1>10. CASE DuplicateCampaign(c)
  BY <1>10, <1>a, <1>b DEF DuplicateCampaign, NewDraft, CampaignRec, CampaignStatus
<1>2. CASE PatchDraft(c)
  BY <1>2, <1>a, <1>b DEF PatchDraft, CampaignRec
<1>3. CASE PatchPaused(c)
  <2>1. PICK recurring \in BOOLEAN : \E next \in NextRunAt(recurring, LastRunNo(c)) :
          camp' = [camp EXCEPT ![c].recurring = recurring, ![c].next = next]
    BY <1>3 DEF PatchPaused
  <2>2. PICK next \in BOOLEAN :
          camp' = [camp EXCEPT ![c].recurring = recurring, ![c].next = next]
    BY <2>1 DEF NextRunAt
  <2>3. camp' \in [Campaign -> CampaignRec]
    BY <2>2, <1>b DEF CampaignRec
  <2> QED BY <1>3, <2>3, <1>a, <1>b, SendType DEF PatchPaused
<1>4. CASE ScheduleCampaign(c)
  BY <1>4, <1>a, <1>b, SendType DEF EnqueueRun, EnqueueBatch, ScheduleCampaign, CampaignRec, CampaignStatus
<1>5. CASE UnscheduleCampaign(c)
  BY <1>5, <1>a, <1>b, SendType DEF UnscheduleCampaign, CampaignRec, CampaignStatus
<1>6. CASE PauseCampaign(c)
  BY <1>6, <1>a, <1>b DEF PauseCampaign, CampaignRec, CampaignStatus
<1>7. CASE ResumeActive(c)
  BY <1>7, <1>a, <1>b, SendType DEF EnqueueRun, EnqueueBatch, ResumeActive, CampaignRec, CampaignStatus
<1>8. CASE ResumeBetween(c)
  <2>1. PICK status \in CampaignStatus : camp' = [camp EXCEPT ![c].status = status]
    BY <1>8 DEF ResumeBetween, CampaignStatus
  <2>2. camp' \in [Campaign -> CampaignRec]
    BY <2>1, <1>b, StatusSet
  <2>3. runJob' \in [Run -> JobRec]
    BY <1>8, <1>b, SendType DEF EnqueueRun, EnqueueBatch, ResumeBetween
  <2> QED BY <1>8, <2>2, <2>3, <1>a, <1>b DEF ResumeBetween
<1>9. CASE CancelCampaign(c)
  <2>1. camp' \in [Campaign -> CampaignRec]
    BY <1>9, <1>b DEF CancelCampaign, CampaignRec, CampaignStatus
  <2>2. \A r \in Run : Cardinality(PendingOf(r)) \in Nat
    BY ContactSets DEF PendingOf
  <2>3. runStatus' \in [Run -> RunStatus] /\ tally' \in [Run -> [Settled -> Nat]]
    <3>1. runStatus' \in [Run -> RunStatus]
      BY <1>9, <1>b DEF CancelCampaign, RunStatus
    <3>2. \A r \in Run, o \in Settled : tally[r][o] + Cardinality(PendingOf(r)) \in Nat
      BY <1>b, <2>2
    <3>3. tally' = [r \in Run |-> [o \in Settled |->
                     IF r \in ActiveRuns(c) /\ o = "skipped"
                     THEN tally[r][o] + Cardinality(PendingOf(r)) ELSE tally[r][o]]]
      BY <1>9 DEF CancelCampaign
    <3> QED BY <1>b, <3>1, <3>2, <3>3
  <2>4. recip' \in [Run -> [Contact -> RecipientState]]
    BY <1>9, <1>b DEF CancelCampaign, RecipientState
  <2> QED BY <1>9, <2>1, <2>3, <2>4, <1>a, <1>b DEF CancelCampaign
<1> QED BY <1>1, <1>2, <1>3, <1>4, <1>5, <1>6, <1>7, <1>8, <1>9, <1>10 DEF Api

(* The place of each job execution, typed. *)
PlacesOK == /\ wk \in [Proc -> WorkerRec]
            /\ \A p \in Proc : wk[p].pc /= "idle" => wk[p].at \in Run

LEMMA PlaceSet ==
  ASSUME PlacesOK, NEW p \in Proc, NEW rec \in WorkerRec, rec.pc /= "idle" => rec.at \in Run,
         wk' = [wk EXCEPT ![p] = rec]
  PROVE  PlacesOK'
BY DEF PlacesOK

LEMMA PlaceType ==
  ASSUME PlacesOK, NEW p \in Proc
  PROVE  /\ Rest(p) => PlacesOK'
         /\ \A pc \in RunPc \cup BatchPc \cup SweepPc :
              wk[p].pc /= "idle" /\ Goto(p, pc) => PlacesOK'
         /\ wk[p].pc /= "idle" /\ wk' = LoopEnds(p) => PlacesOK'
         /\ \A k \in Contact, counted \in BOOLEAN :
              wk[p].pc /= "idle" /\ Advance(p, k, counted) => PlacesOK'
<1>1. ASSUME Rest(p) PROVE PlacesOK'
  <2>1. IdleWorker \in WorkerRec /\ IdleWorker.pc = "idle"
    BY DEF IdleWorker, WorkerRec
  <2> QED BY <1>1, <2>1, PlaceSet DEF Rest
<1>2. ASSUME NEW pc \in RunPc \cup BatchPc \cup SweepPc, wk[p].pc /= "idle", Goto(p, pc)
      PROVE  PlacesOK'
  <2>1. [wk[p] EXCEPT !.pc = pc] \in WorkerRec /\ [wk[p] EXCEPT !.pc = pc].at \in Run
    BY <1>2 DEF PlacesOK, WorkerRec
  <2> QED BY <1>2, <2>1, PlaceSet DEF Goto, PlacesOK
<1>3. ASSUME wk[p].pc /= "idle", wk' = LoopEnds(p) PROVE PlacesOK'
  <2> DEFINE rec == [wk[p] EXCEPT !.pc = "tailing", !.page = {}, !.cursor = 0, !.processed = 0]
  <2>1. rec \in WorkerRec /\ rec.at \in Run
    BY <1>3 DEF PlacesOK, WorkerRec, BatchPc
  <2>2. wk' = [wk EXCEPT ![p] = rec]
    BY <1>3 DEF LoopEnds, PlacesOK
  <2> HIDE DEF rec
  <2> QED BY <2>1, <2>2, PlaceSet
<1>4. ASSUME NEW k \in Contact, NEW counted \in BOOLEAN, wk[p].pc /= "idle", Advance(p, k, counted)
      PROVE  PlacesOK'
  <2> DEFINE done == wk[p].processed + (IF counted THEN 1 ELSE 0)
             rest == wk[p].page \ {k}
             pc   == IF rest = {} THEN "filling" ELSE "deciding"
             rec  == [wk[p] EXCEPT !.cursor = k, !.processed = done, !.page = rest, !.pc = pc]
  <2>1. done \in Nat /\ rest \in SUBSET Contact /\ pc \in BatchPc /\ k \in Nat
    BY CountsAssumption DEF PlacesOK, WorkerRec, BatchPc, Contact
  <2>2. wk' = LoopEnds(p) \/ wk' = [wk EXCEPT ![p] = rec]
    BY <1>4 DEF Advance, PlacesOK
  <2> HIDE DEF done, rest, pc
  <2>3. ASSUME NEW x \in WorkerRec, NEW y, x.at \in Run,
               y = [x EXCEPT !.cursor = k, !.processed = done, !.page = rest, !.pc = pc]
        PROVE  y \in WorkerRec /\ y.at \in Run
    BY <2>1, <2>3 DEF WorkerRec
  <2>4. wk[p] \in WorkerRec /\ wk[p].at \in Run
    BY <1>4 DEF PlacesOK
  <2>5. rec \in WorkerRec /\ rec.at \in Run
    BY <2>3, <2>4
  <2> HIDE DEF rec
  <2> QED BY <2>2, <2>5, <1>3, <1>4, PlaceSet
<1> QED BY <1>1, <1>2, <1>3, <1>4

LEMMA FailsType ==
  ASSUME TypeOK, NEW p \in Proc, wk[p].pc /= "idle", JobFails(p)
  PROVE  PlacesOK' /\ runJob' \in [Run -> JobRec] /\ batchJob' \in [Run -> JobRec]
<1>1. wk[p].at \in Run /\ runJob \in [Run -> JobRec] /\ batchJob \in [Run -> JobRec]
  BY DEF TypeOK
<1>2. runJob' \in [Run -> JobRec] /\ batchJob' \in [Run -> JobRec]
  BY <1>1, FetchedType DEF JobFails
<1>3. PlacesOK'
  BY PlaceType DEF JobFails, TypeOK, PlacesOK
<1> QED BY <1>2, <1>3

(* The tables and the queue, typed. *)
TablesOK == /\ camp      \in [Campaign -> CampaignRec]
            /\ runStatus \in [Run -> RunStatus]
            /\ size      \in [Run -> Nat]
            /\ tally     \in [Run -> [Settled -> Nat]]
            /\ recip     \in [Run -> [Contact -> RecipientState]]
            /\ attempts  \in [Run -> [Contact -> Nat]]
            /\ messages  \in [Run -> [Contact -> Nat]]
            /\ runJob    \in [Run -> JobRec]
            /\ batchJob  \in [Run -> JobRec]
            /\ faults    \in 0..MaxFaults

LEMMA TypeSplit == TypeOK <=> TablesOK /\ PlacesOK
BY DEF TypeOK, TablesOK, PlacesOK

LEMMA TypeSplitNext == TypeOK' <=> TablesOK' /\ PlacesOK'
BY DEF TypeOK, TablesOK, PlacesOK

LEMMA SettleType ==
  ASSUME TablesOK, NEW r \in Run, NEW k \in Contact, NEW outcome \in Settled, Settle(r, k, outcome)
  PROVE  tally' \in [Run -> [Settled -> Nat]] /\ recip' \in [Run -> [Contact -> RecipientState]]
BY DEF Settle, TablesOK, RecipientState, Settled

LEMMA RunWorkerType == TypeOK /\ (\E w \in Worker : RunWorker(w)) => TypeOK'
<1> SUFFICES ASSUME TypeOK, NEW w \in Worker, RunWorker(w) PROVE TablesOK' /\ PlacesOK'
  BY TypeSplitNext
<1>a. /\ TablesOK /\ PlacesOK /\ w \in Proc /\ wk[w] \in WorkerRec
      /\ wk[w].pc /= "idle" => wk[w].at \in Run /\ wk[w].at[1] \in Campaign
  BY TypeSplit DEF Proc, TypeOK, Run
<1>b. Rest(w) => PlacesOK'
  BY <1>a, PlaceType
<1>c. \A pc \in RunPc : wk[w].pc /= "idle" /\ Goto(w, pc) => PlacesOK'
  BY <1>a, PlaceType
<1>1. ASSUME NEW r \in Run, TakeRun(w, r) PROVE TablesOK' /\ PlacesOK'
  <2>1. runJob' \in [Run -> JobRec]
    BY <1>1, <1>a, FetchedType DEF TakeRun, TablesOK
  <2> DEFINE rec == [wk[w] EXCEPT !.pc = "starting", !.at = r]
  <2>2. rec \in WorkerRec /\ rec.at = r
    BY <1>a DEF WorkerRec, RunPc
  <2>3. wk' = [wk EXCEPT ![w] = rec]
    BY <1>1, <1>a DEF TakeRun, PlacesOK
  <2>4. PlacesOK'
    <3> HIDE DEF rec
    <3> QED BY <2>2, <2>3, <1>a, PlaceSet
  <2> QED BY <1>1, <1>a, <2>1, <2>4 DEF TakeRun, TablesOK
<1>2. CASE StartRunStops(w)
  BY <1>2, <1>a, <1>b DEF StartRunStops, TablesOK
<1>3. CASE StartRunResumes(w)
  BY <1>3, <1>a, <1>c DEF StartRunResumes, TablesOK, RunPc
<1>4. CASE StartRunWaits(w)
  BY <1>4, <1>a, <1>b, SendType DEF EnqueueRun, EnqueueBatch, StartRunWaits, TablesOK
<1>5. CASE StartRunAdmits(w)
  BY <1>5, <1>a, <1>c DEF StartRunAdmits, TablesOK, RunPc
<1>6. CASE StartRunOpens(w)
  <2> DEFINE r == wk[w].at
  <2>1. PICK next \in BOOLEAN :
          /\ camp' = [camp EXCEPT ![r[1]].status = "running", ![r[1]].next = camp[r[1]].recurring /\ next]
          /\ runJob' = IF camp[r[1]].recurring /\ next
                       THEN Send(runJob, {q \in RunsOf(r[1]) : q[2] = r[2] + 1}) ELSE runJob
    BY <1>6 DEF StartRunOpens, NextRunAt, EnqueueRun
  <2>2. camp' \in [Campaign -> CampaignRec]
    <3>1. r[1] \in Campaign /\ camp \in [Campaign -> CampaignRec]
      BY <1>6, <1>a DEF StartRunOpens, TablesOK
    <3> HIDE DEF r
    <3> QED BY <2>1, <3>1 DEF CampaignRec, CampaignStatus
  <2>3. runJob' \in [Run -> JobRec]
    BY <2>1, <1>a, SendType DEF TablesOK
  <2>4. runStatus' \in [Run -> RunStatus]
    BY <1>6, <1>a DEF StartRunOpens, TablesOK, RunStatus
  <2>5. PlacesOK'
    BY <1>6, <1>c DEF StartRunOpens, RunPc
  <2> QED BY <1>6, <1>a, <2>2, <2>3, <2>4, <2>5 DEF StartRunOpens, TablesOK
<1>7. CASE ResolveAudience(w)
  <2>1. PICK ids \in SUBSET Contact : wk' = [wk EXCEPT ![w].pc = "inserting", ![w].page = ids]
    BY <1>7 DEF ResolveAudience
  <2> DEFINE rec == [wk[w] EXCEPT !.pc = "inserting", !.page = ids]
  <2>2. rec \in WorkerRec /\ rec.at \in Run
    BY <1>7, <1>a DEF ResolveAudience, WorkerRec, RunPc
  <2>3. wk' = [wk EXCEPT ![w] = rec]
    BY <2>1, <1>a DEF PlacesOK
  <2>4. PlacesOK'
    <3> HIDE DEF rec
    <3> QED BY <2>2, <2>3, <1>a, PlaceSet
  <2> QED BY <1>7, <1>a, <2>4 DEF ResolveAudience, TablesOK
<1>8. CASE InsertChunk(w)
  <2>1. PlacesOK'
    BY <1>8, <1>a DEF InsertChunk, PlacesOK, WorkerRec
  <2>2. recip' \in [Run -> [Contact -> RecipientState]]
    BY <1>8, <1>a DEF InsertChunk, TablesOK, RecipientState
  <2> QED BY <1>8, <1>a, <2>1, <2>2 DEF InsertChunk, TablesOK
<1>9. CASE ExpansionDone(w)
  <2>1. Cardinality(SnapshotOf(wk[w].at)) \in Nat
    BY ContactSets DEF SnapshotOf
  <2>2. runStatus' \in [Run -> RunStatus] /\ size' \in [Run -> Nat]
    BY <1>9, <1>a, <2>1 DEF ExpansionDone, TablesOK, RunStatus
  <2> QED BY <1>9, <1>a, <1>b, <2>2, SendType DEF EnqueueRun, EnqueueBatch, ExpansionDone, TablesOK
<1>10. CASE ExpansionOvertaken(w)
  BY <1>10, <1>a, <1>b DEF ExpansionOvertaken, TablesOK
<1>11. CASE FailRun(w)
  <2>1. runStatus' \in [Run -> RunStatus]
    BY <1>11, <1>a DEF FailRun, TablesOK, RunStatus
  <2>2. camp' \in [Campaign -> CampaignRec]
    BY <1>11, <1>a DEF FailRun, TablesOK, CampaignRec, CampaignStatus
  <2> QED BY <1>11, <1>a, <1>b, <2>1, <2>2 DEF FailRun, TablesOK
<1> QED BY <1>1, <1>2, <1>3, <1>4, <1>5, <1>6, <1>7, <1>8, <1>9, <1>10, <1>11 DEF RunWorker

LEMMA BatchWorkerType == TypeOK /\ (\E w \in Worker : BatchWorker(w)) => TypeOK'
<1> SUFFICES ASSUME TypeOK, NEW w \in Worker, BatchWorker(w) PROVE TablesOK' /\ PlacesOK'
  BY TypeSplitNext
<1>a. /\ TablesOK /\ PlacesOK /\ w \in Proc /\ wk[w] \in WorkerRec
      /\ wk[w].pc /= "idle" => wk[w].at \in Run
      /\ HeadOf(wk[w].page) \subseteq Contact
  BY TypeSplit DEF Proc, TypeOK, HeadOf, WorkerRec
<1>b. Rest(w) => PlacesOK'
  BY <1>a, PlaceType
<1>c. \A pc \in BatchPc : wk[w].pc /= "idle" /\ Goto(w, pc) => PlacesOK'
  BY <1>a, PlaceType
<1>d. \A k \in Contact, counted \in BOOLEAN : wk[w].pc /= "idle" /\ Advance(w, k, counted) => PlacesOK'
  BY <1>a, PlaceType
<1>1. ASSUME NEW r \in Run, TakeBatch(w, r) PROVE TablesOK' /\ PlacesOK'
  <2>1. batchJob' \in [Run -> JobRec]
    BY <1>1, <1>a, FetchedType DEF TakeBatch, TablesOK
  <2> DEFINE rec == [wk[w] EXCEPT !.pc = "reading", !.at = r]
  <2>2. rec \in WorkerRec /\ rec.at = r
    BY <1>a DEF WorkerRec, BatchPc
  <2>3. wk' = [wk EXCEPT ![w] = rec]
    BY <1>1, <1>a DEF TakeBatch, PlacesOK
  <2>4. PlacesOK'
    <3> HIDE DEF rec
    <3> QED BY <2>2, <2>3, <1>a, PlaceSet
  <2> QED BY <1>1, <1>a, <2>1, <2>4 DEF TakeBatch, TablesOK
<1>2. CASE BatchStops(w)
  BY <1>2, <1>a, <1>b DEF BatchStops, TablesOK
<1>3. CASE BatchBegins(w)
  BY <1>3, <1>a, <1>c DEF BatchBegins, TablesOK, BatchPc
<1>4. CASE FillPage(w)
  <2> DEFINE page == FirstOf({k \in ReadyOf(wk[w].at) : k > wk[w].cursor}, ReadyPage)
             rec  == [wk[w] EXCEPT !.pc = "deciding", !.page = page]
  <2>1. page \in SUBSET Contact /\ "deciding" \in BatchPc
    BY DEF FirstOf, ReadyOf, BatchPc
  <2>2. wk' = LoopEnds(w) \/ wk' = [wk EXCEPT ![w] = rec]
    BY <1>4, <1>a DEF FillPage, PlacesOK
  <2> HIDE DEF page
  <2>3. rec \in WorkerRec /\ rec.at \in Run
    BY <1>4, <1>a, <2>1 DEF FillPage, WorkerRec
  <2>4. PlacesOK'
    <3>1. wk[w].pc /= "idle"
      BY <1>4 DEF FillPage
    <3> HIDE DEF rec
    <3> QED BY <2>2, <2>3, <3>1, <1>a, PlaceSet, PlaceType
  <2> QED BY <1>4, <1>a, <2>4 DEF FillPage, TablesOK
<1>5. CASE DecideTaken(w)
  BY <1>5, <1>a, <1>d DEF DecideTaken, TablesOK
<1>6. CASE DecideSettles(w)
  <2>1. PICK k \in HeadOf(wk[w].page), outcome \in Settled :
          /\ Settle(wk[w].at, k, outcome)
          /\ messages' = IF outcome = "queued" THEN [messages EXCEPT ![wk[w].at][k] = @ + 1] ELSE messages
          /\ Advance(w, k, TRUE)
    BY <1>6 DEF DecideSettles
  <2>2. k \in Contact /\ wk[w].at \in Run
    BY <1>6, <1>a DEF DecideSettles
  <2>3. PlacesOK'
    BY <1>6, <1>d, <2>1, <2>2 DEF DecideSettles
  <2>4. messages' \in [Run -> [Contact -> Nat]]
    BY <2>1, <2>2, <1>a DEF TablesOK
  <2>5. tally' \in [Run -> [Settled -> Nat]] /\ recip' \in [Run -> [Contact -> RecipientState]]
    BY <2>1, <2>2, <1>a, SettleType
  <2> QED BY <1>6, <1>a, <2>3, <2>4, <2>5 DEF DecideSettles, TablesOK
<1>7. CASE DecideDefers(w)
  <2>1. PICK k \in Contact : /\ recip' = [recip EXCEPT ![wk[w].at][k] = "deferred"]
                             /\ Advance(w, k, FALSE)
    BY <1>7, <1>a DEF DecideDefers
  <2>2. PlacesOK'
    BY <1>7, <1>d, <2>1 DEF DecideDefers
  <2>3. recip' \in [Run -> [Contact -> RecipientState]]
    BY <2>1, <1>a DEF TablesOK, RecipientState
  <2> QED BY <1>7, <1>a, <2>2, <2>3 DEF DecideDefers, TablesOK
<1>8. CASE DecideThrows(w)
  BY <1>8, <1>a, <1>c DEF DecideThrows, TablesOK, BatchPc
<1>9. CASE CountAttempt(w)
  <2> DEFINE r == wk[w].at
  <2>1. PICK k \in HeadOf(wk[w].page) :
          /\ attempts' = IF recip[r][k] \in Pending THEN [attempts EXCEPT ![r][k] = @ + 1] ELSE attempts
          /\ \/ /\ Settle(r, k, "skipped")
                /\ Advance(w, k, TRUE)
                /\ UNCHANGED <<runJob, batchJob>>
             \/ JobFails(w) /\ UNCHANGED <<recip, tally>>
    BY <1>9 DEF CountAttempt
  <2>2. k \in Contact /\ r \in Run /\ wk[w].pc /= "idle"
    BY <1>9, <1>a DEF CountAttempt
  <2>3. attempts' \in [Run -> [Contact -> Nat]]
    BY <2>1, <2>2, <1>a DEF TablesOK
  <2>4. CASE Settle(r, k, "skipped") /\ Advance(w, k, TRUE) /\ UNCHANGED <<runJob, batchJob>>
    <3>1. PlacesOK'
      BY <1>d, <2>2, <2>4
    <3>2. tally' \in [Run -> [Settled -> Nat]] /\ recip' \in [Run -> [Contact -> RecipientState]]
      BY <2>2, <2>4, <1>a, SettleType DEF Settled
    <3> QED BY <1>9, <1>a, <2>3, <2>4, <3>1, <3>2 DEF CountAttempt, TablesOK
  <2>5. CASE JobFails(w) /\ UNCHANGED <<recip, tally>>
    <3>1. PlacesOK' /\ runJob' \in [Run -> JobRec] /\ batchJob' \in [Run -> JobRec]
      BY <2>2, <2>5, <1>a, FailsType
    <3> QED BY <1>9, <1>a, <2>3, <2>5, <3>1 DEF CountAttempt, TablesOK
  <2> QED BY <2>1, <2>4, <2>5
<1>10. CASE BatchRequeues(w)
  BY <1>10, <1>a, <1>b, SendType DEF EnqueueRun, EnqueueBatch, BatchRequeues, TablesOK
<1>11. CASE BatchHalts(w)
  BY <1>11, <1>a, <1>b DEF BatchHalts, TablesOK
<1> QED BY <1>1, <1>2, <1>3, <1>4, <1>5, <1>6, <1>7, <1>8, <1>9, <1>10, <1>11 DEF BatchWorker

LEMMA OtherType ==
  ASSUME TypeOK, \/ \E s \in Sweeper : Sweep(s)
                 \/ \E p \in Proc : Finish(p)
                 \/ \E r \in Run, k \in Contact : WindowOpens(r, k)
                 \/ Fault
  PROVE  TypeOK'
<1> SUFFICES TablesOK' /\ PlacesOK'
  BY TypeSplitNext
<1>a. TablesOK /\ PlacesOK
  BY TypeSplit
<1>b. \A p \in Proc : wk[p] \in WorkerRec /\ (wk[p].pc /= "idle" => wk[p].at \in Run)
  BY DEF TypeOK
<1>c. \A p \in Proc : Rest(p) => PlacesOK'
  BY <1>a, PlaceType
<1>1. ASSUME NEW s \in Sweeper, NEW r \in Run, SweepFinds(s, r) PROVE TablesOK' /\ PlacesOK'
  <2>1. PICK pc \in SweepPc : wk' = [wk EXCEPT ![s].pc = pc, ![s].at = r]
    BY <1>1 DEF SweepFinds
  <2> DEFINE rec == [wk[s] EXCEPT !.pc = pc, !.at = r]
  <2>2. s \in Proc /\ rec \in WorkerRec /\ rec.at = r
    BY <1>b DEF WorkerRec, Proc
  <2>3. wk' = [wk EXCEPT ![s] = rec]
    BY <2>1, <2>2, <1>a DEF PlacesOK
  <2>4. PlacesOK'
    <3> HIDE DEF rec
    <3> QED BY <2>2, <2>3, <1>a, PlaceSet
  <2> QED BY <1>1, <1>a, <2>4 DEF SweepFinds, TablesOK
<1>2. ASSUME NEW s \in Sweeper, SweepResumesExpansion(s) PROVE TablesOK' /\ PlacesOK'
  BY <1>2, <1>a, <1>c, SendType DEF EnqueueRun, EnqueueBatch, SweepResumesExpansion, TablesOK, Proc
<1>3. ASSUME NEW s \in Sweeper, SweepEnqueuesBatch(s) PROVE TablesOK' /\ PlacesOK'
  BY <1>3, <1>a, <1>c, SendType DEF EnqueueRun, EnqueueBatch, SweepEnqueuesBatch, TablesOK, Proc
<1>4. ASSUME NEW p \in Proc, FinishMarks(p) PROVE TablesOK' /\ PlacesOK'
  <2>1. PICK busy \in BOOLEAN : wk' = [wk EXCEPT ![p].pc = "closing", ![p].busy = busy]
    BY <1>4 DEF FinishMarks
  <2> DEFINE rec == [wk[p] EXCEPT !.pc = "closing", !.busy = busy]
  <2>2. rec \in WorkerRec /\ rec.at \in Run
    BY <1>4, <1>b DEF FinishMarks, WorkerRec, BatchPc
  <2>3. wk' = [wk EXCEPT ![p] = rec]
    BY <2>1, <1>a DEF PlacesOK
  <2>4. PlacesOK'
    <3> HIDE DEF rec
    <3> QED BY <2>2, <2>3, <1>a, PlaceSet
  <2> QED BY <1>4, <1>a, <2>4 DEF FinishMarks, TablesOK
<1>5. ASSUME NEW p \in Proc, FinishSkips(p) PROVE TablesOK' /\ PlacesOK'
  BY <1>5, <1>a, <1>c DEF FinishSkips, TablesOK
<1>6. ASSUME NEW p \in Proc, FinishCommits(p) PROVE TablesOK' /\ PlacesOK'
  <2>1. runStatus' \in [Run -> RunStatus]
    BY <1>6, <1>a DEF FinishCommits, TablesOK, RunStatus
  <2>2. camp' \in [Campaign -> CampaignRec]
    <3>1. camp' = camp \/ \E status \in CampaignStatus :
                             camp' = [camp EXCEPT ![wk[p].at[1]].status = status]
      BY <1>6 DEF FinishCommits, CampaignStatus
    <3>2. CASE camp' = camp
      BY <3>2, <1>a DEF TablesOK
    <3>3. ASSUME NEW status \in CampaignStatus, camp' = [camp EXCEPT ![wk[p].at[1]].status = status]
          PROVE  camp' \in [Campaign -> CampaignRec]
      BY <3>3, <1>a, StatusSet DEF TablesOK
    <3> QED BY <3>1, <3>2, <3>3
  <2> QED BY <1>6, <1>a, <1>c, <2>1, <2>2 DEF FinishCommits, TablesOK
<1>7. ASSUME NEW r \in Run, NEW k \in Contact, WindowOpens(r, k) PROVE TablesOK' /\ PlacesOK'
  BY <1>7, <1>a DEF WindowOpens, TablesOK, PlacesOK, RecipientState
<1>8. ASSUME NEW p \in Proc, Crash(p) PROVE TablesOK' /\ PlacesOK'
  <2>1. PlacesOK' /\ runJob' \in [Run -> JobRec] /\ batchJob' \in [Run -> JobRec]
    BY <1>8, FailsType DEF Crash
  <2>2. faults' \in 0..MaxFaults
    BY <1>8, <1>a, CountsAssumption DEF Crash, TablesOK
  <2> QED BY <1>8, <1>a, <2>1, <2>2 DEF Crash, TablesOK
<1>9. ASSUME NEW w \in Worker, JobExpires(w) PROVE TablesOK' /\ PlacesOK'
  <2>1. wk[w].at \in Run
    BY <1>9, <1>b DEF JobExpires, Proc, RunPc, BatchPc
  <2>2. /\ [runJob EXCEPT ![wk[w].at].retrying = @ + 1] \in [Run -> JobRec]
        /\ [batchJob EXCEPT ![wk[w].at].retrying = @ + 1] \in [Run -> JobRec]
    BY <2>1, <1>a, RetrySet DEF TablesOK
  <2>3. runJob' \in [Run -> JobRec] /\ batchJob' \in [Run -> JobRec]
    <3>1. CASE wk[w].pc \in RunPc
      BY <3>1, <1>9, <1>a, <2>1, <2>2 DEF JobExpires, TablesOK
    <3>2. CASE wk[w].pc \notin RunPc
      BY <3>2, <1>9, <1>a, <2>1, <2>2 DEF JobExpires, TablesOK
    <3> QED BY <3>1, <3>2
  <2>4. faults' \in 0..MaxFaults
    BY <1>9, <1>a, CountsAssumption DEF JobExpires, TablesOK
  <2> QED BY <1>9, <1>a, <2>3, <2>4 DEF JobExpires, TablesOK, PlacesOK
<1>10. ASSUME NEW w \in Worker, ExpansionThrows(w) PROVE TablesOK' /\ PlacesOK'
  <2> DEFINE rec == [wk[w] EXCEPT !.pc = "failing", !.page = {}]
  <2>1. w \in Proc /\ rec \in WorkerRec /\ rec.at \in Run
    BY <1>10, <1>b DEF ExpansionThrows, WorkerRec, RunPc, Proc
  <2>2. wk' = [wk EXCEPT ![w] = rec]
    BY <1>10, <1>a, <2>1 DEF ExpansionThrows, PlacesOK
  <2>3. PlacesOK'
    <3> HIDE DEF rec
    <3> QED BY <2>1, <2>2, <1>a, PlaceSet
  <2>4. faults' \in 0..MaxFaults
    BY <1>10, <1>a, CountsAssumption DEF ExpansionThrows, TablesOK
  <2> QED BY <1>10, <1>a, <2>3, <2>4 DEF ExpansionThrows, TablesOK
<1>11. ASSUME NEW s \in Sweeper, SweepLooks(s) PROVE TablesOK' /\ PlacesOK'
  <2> DEFINE rec == [wk[s] EXCEPT !.pc = "looked", !.page = SnapshotOf(wk[s].at)]
  <2>1. s \in Proc /\ rec \in WorkerRec /\ rec.at \in Run
    BY <1>11, <1>b DEF SweepLooks, SnapshotOf, WorkerRec, SweepPc, Proc
  <2>2. wk' = [wk EXCEPT ![s] = rec]
    BY <1>11, <1>a, <2>1 DEF SweepLooks, PlacesOK
  <2>3. PlacesOK'
    <3> HIDE DEF rec
    <3> QED BY <2>1, <2>2, <1>a, PlaceSet
  <2> QED BY <1>11, <1>a, <2>3 DEF SweepLooks, TablesOK
<1> QED BY <1>1, <1>2, <1>3, <1>4, <1>5, <1>6, <1>7, <1>8, <1>9, <1>10, <1>11 DEF Sweep, Finish, Fault

(* Every state the engine reaches has well-typed tables, jobs and job      *)
(* executions, and an execution under way is at a run of a campaign.       *)
THEOREM TypeCorrect == Spec => []TypeOK
<1>1. Init => TypeOK
  BY TypeInit
<1>2. TypeOK /\ [Next]_vars => TypeOK'
  <2> SUFFICES ASSUME TypeOK, [Next]_vars PROVE TypeOK'
    OBVIOUS
  <2>1. CASE Next
    BY <2>1, ApiType, RunWorkerType, BatchWorkerType, OtherType DEF Next
  <2>2. CASE UNCHANGED vars
    BY <2>2 DEF vars, TypeOK
  <2> QED BY <2>1, <2>2
<1> QED BY <1>1, <1>2, PTL DEF Spec

---------------------------------------------------------------------------
(* Safety. Everything rests on what the row locks keep true while a run    *)
(* is being opened or finished (RowLocks), which is inductive together    *)
(* with TypeOK.                                                            *)

LEMMA RunParts == \A r \in Run : r[1] \in Campaign /\ r[2] \in RunNo
BY DEF Run

(* A step of process p, seen by the others: what they hold is not touched. *)
LEMMA LocksFrame ==
  ASSUME TypeOK, RowLocks, NEW p \in Proc,
         \A q \in Proc \ {p} : wk'[q] = wk[q],
         wk'[p].pc \notin {"admitted", "closing"},
         wk'[p].pc \in {"resolving", "inserting"} => runStatus'[wk'[p].at] /= "none",
         \A q \in Proc \ {p} : wk[q].pc = "admitted" =>
            runStatus'[wk[q].at] = "none" /\ camp'[wk[q].at[1]].status \in {"scheduled", "running"},
         \A q \in Proc \ {p} : wk[q].pc = "closing" =>
            runStatus'[wk[q].at] = "sending" /\ (q \in Worker => \A k \in Contact : recip'[wk[q].at][k] \notin Pending),
         \A r \in Run : runStatus[r] /= "none" => runStatus'[r] /= "none"
  PROVE  RowLocks'
<1>1. \A q \in Proc : wk[q].pc \in {"resolving", "inserting"} => wk[q].at \in Run
  BY DEF TypeOK
<1>2. ASSUME NEW q \in Proc
      PROVE  /\ wk'[q].pc = "admitted" => /\ runStatus'[wk'[q].at] = "none"
                                          /\ camp'[wk'[q].at[1]].status \in {"scheduled", "running"}
             /\ wk'[q].pc = "closing" => MayClose(q)'
             /\ wk'[q].pc \in {"resolving", "inserting"} => runStatus'[wk'[q].at] /= "none"
  <2>1. CASE q = p
    BY <2>1
  <2>2. CASE q /= p
    <3>1. wk'[q] = wk[q]
      BY <2>2
    <3>2. wk'[q].pc = "closing" => MayClose(q)'
      BY <2>2, <3>1 DEF MayClose
    <3>3. wk'[q].pc = "admitted" => /\ runStatus'[wk'[q].at] = "none"
                                    /\ camp'[wk'[q].at[1]].status \in {"scheduled", "running"}
      BY <2>2, <3>1
    <3>4. wk'[q].pc \in {"resolving", "inserting"} => runStatus'[wk'[q].at] /= "none"
      BY <1>1, <3>1 DEF RowLocks
    <3> QED BY <3>2, <3>3, <3>4
  <2> QED BY <2>1, <2>2
<1>3. ASSUME NEW q \in Proc, NEW s \in Proc, wk'[q].pc = wk'[s].pc, q /= s
      PROVE  /\ wk'[q].pc = "admitted" => wk'[q].at[1] /= wk'[s].at[1]
             /\ wk'[q].pc = "closing"  => wk'[q].at /= wk'[s].at
  BY <1>3 DEF RowLocks
<1> QED BY <1>2, <1>3 DEF RowLocks, StatusOf, MayClose

(* A step that moves no process.                                           *)
LEMMA LocksKept ==
  ASSUME TypeOK, RowLocks, wk' = wk,
         \A q \in Proc : wk[q].pc = "admitted" =>
            runStatus'[wk[q].at] = "none" /\ camp'[wk[q].at[1]].status \in {"scheduled", "running"},
         \A q \in Proc : wk[q].pc = "closing" =>
            runStatus'[wk[q].at] = "sending" /\ (q \in Worker => \A k \in Contact : recip'[wk[q].at][k] \notin Pending),
         \A r \in Run : runStatus[r] /= "none" => runStatus'[r] /= "none"
  PROVE  RowLocks'
<1>1. \A q \in Proc : wk[q].pc \in {"resolving", "inserting"} => wk[q].at \in Run
  BY DEF TypeOK
<1>2. \A q \in Proc : wk'[q].pc = "closing" => MayClose(q)'
  BY DEF MayClose
<1>3. \A q \in Proc : wk'[q].pc = "admitted" => /\ runStatus'[wk'[q].at] = "none"
                                                /\ camp'[wk'[q].at[1]].status \in {"scheduled", "running"}
  OBVIOUS
<1>4. \A q \in Proc : wk'[q].pc \in {"resolving", "inserting"} => runStatus'[wk'[q].at] /= "none"
  BY <1>1 DEF RowLocks
<1>5. \A q, s \in Proc : wk'[q].pc = wk'[s].pc /\ q /= s =>
        /\ wk'[q].pc = "admitted" => wk'[q].at[1] /= wk'[s].at[1]
        /\ wk'[q].pc = "closing"  => wk'[q].at /= wk'[s].at
  BY DEF RowLocks
<1> QED BY <1>2, <1>3, <1>4, <1>5 DEF RowLocks, StatusOf, MayClose

LEMMA Moves ==
  ASSUME TypeOK, NEW p \in Proc
  PROVE  /\ Rest(p) => wk'[p].pc = "idle" /\ \A q \in Proc \ {p} : wk'[q] = wk[q]
         /\ \A pc : Goto(p, pc) => /\ wk'[p].pc = pc /\ wk'[p].at = wk[p].at
                                   /\ \A q \in Proc \ {p} : wk'[q] = wk[q]
         /\ wk' = LoopEnds(p) => wk'[p].pc = "tailing" /\ \A q \in Proc \ {p} : wk'[q] = wk[q]
         /\ \A k, counted : Advance(p, k, counted) =>
              /\ wk'[p].pc \in {"tailing", "filling", "deciding"}
              /\ \A q \in Proc \ {p} : wk'[q] = wk[q]
         /\ JobFails(p) => wk'[p].pc = "idle" /\ \A q \in Proc \ {p} : wk'[q] = wk[q]
<1>1. wk \in [Proc -> WorkerRec]
  BY DEF TypeOK
<1>2. ASSUME Rest(p) PROVE wk'[p].pc = "idle" /\ \A q \in Proc \ {p} : wk'[q] = wk[q]
  BY <1>1, <1>2 DEF Rest, IdleWorker
<1>3. ASSUME NEW pc, Goto(p, pc)
      PROVE  /\ wk'[p].pc = pc /\ wk'[p].at = wk[p].at
             /\ \A q \in Proc \ {p} : wk'[q] = wk[q]
  BY <1>1, <1>3 DEF Goto, WorkerRec
<1>4. ASSUME wk' = LoopEnds(p) PROVE wk'[p].pc = "tailing" /\ \A q \in Proc \ {p} : wk'[q] = wk[q]
  BY <1>1, <1>4 DEF LoopEnds, WorkerRec
<1>5. ASSUME NEW k, NEW counted, Advance(p, k, counted)
      PROVE  /\ wk'[p].pc \in {"tailing", "filling", "deciding"}
             /\ \A q \in Proc \ {p} : wk'[q] = wk[q]
  <2> DEFINE done == wk[p].processed + (IF counted THEN 1 ELSE 0)
             rest == wk[p].page \ {k}
             pc   == IF rest = {} THEN "filling" ELSE "deciding"
             rec  == [wk[p] EXCEPT !.cursor = k, !.processed = done, !.page = rest, !.pc = pc]
  <2>1. wk' = LoopEnds(p) \/ wk' = [wk EXCEPT ![p] = rec]
    BY <1>1, <1>5 DEF Advance
  <2>2. pc \in {"tailing", "filling", "deciding"}
    OBVIOUS
  <2>3. rec.pc = pc
    <3> HIDE DEF pc, done, rest
    <3> QED BY <1>1 DEF WorkerRec
  <2> HIDE DEF rec, pc
  <2> QED BY <1>1, <1>4, <2>1, <2>2, <2>3
<1> QED BY <1>2, <1>3, <1>4, <1>5 DEF JobFails

(* A step that touches no campaign, run status or recipient and leaves its *)
(* process with nothing held.                                              *)
LEMMA PlainStep ==
  ASSUME TypeOK, RowLocks, NEW p \in Proc, UNCHANGED <<camp, runStatus, recip>>,
         \A q \in Proc \ {p} : wk'[q] = wk[q],
         wk'[p].pc \notin {"admitted", "closing", "resolving", "inserting"}
  PROVE  RowLocks'
<1>1. \A q \in Proc \ {p} : wk[q].pc = "admitted" =>
        runStatus'[wk[q].at] = "none" /\ camp'[wk[q].at[1]].status \in {"scheduled", "running"}
  BY DEF RowLocks, StatusOf
<1>2. \A q \in Proc \ {p} : wk[q].pc = "closing" =>
        runStatus'[wk[q].at] = "sending" /\ (q \in Worker => \A k \in Contact : recip'[wk[q].at][k] \notin Pending)
  BY DEF RowLocks, MayClose
<1> QED BY <1>1, <1>2, LocksFrame

LEMMA ApiLocks ==
  ASSUME TypeOK, RowLocks, NEW c \in Campaign, Api(c)
  PROVE  RowLocks'
<1>1. wk' = wk
  BY DEF Api, CreateCampaign, DuplicateCampaign, NewDraft, PatchDraft, PatchPaused, ScheduleCampaign, UnscheduleCampaign,
         PauseCampaign, ResumeActive, ResumeBetween, CancelCampaign
<1>2. ~CampaignLocked(c) \/ camp[c].status = "absent"
  BY DEF Api, CreateCampaign, DuplicateCampaign, NewDraft, PatchDraft, PatchPaused, ScheduleCampaign, UnscheduleCampaign,
         PauseCampaign, ResumeActive, ResumeBetween, CancelCampaign
<1>3. \A d \in Campaign \ {c} : camp'[d] = camp[d]
  <2>1. camp \in [Campaign -> CampaignRec]
    BY DEF TypeOK
  <2>2. \/ CreateCampaign(c) \/ DuplicateCampaign(c)     \/ PatchDraft(c)    \/ PatchPaused(c)   \/ ScheduleCampaign(c)
        \/ UnscheduleCampaign(c) \/ PauseCampaign(c) \/ ResumeActive(c)  \/ ResumeBetween(c)
        \/ CancelCampaign(c)
    BY DEF Api
  <2> QED BY <2>1, <2>2 DEF CreateCampaign, DuplicateCampaign, NewDraft, PatchDraft, PatchPaused, ScheduleCampaign, UnscheduleCampaign,
         PauseCampaign, ResumeActive, ResumeBetween, CancelCampaign
<1>4. \A q \in Proc : wk[q].pc = "admitted" => wk[q].at \in Run /\ wk[q].at[1] \in Campaign \ {c}
  <2>1. ASSUME NEW q \in Proc, wk[q].pc = "admitted" PROVE wk[q].at \in Run /\ wk[q].at[1] \in Campaign \ {c}
    <3>1. wk[q].at \in Run /\ wk[q].at[1] \in Campaign
      BY <2>1, RunParts DEF TypeOK
    <3>2. camp[wk[q].at[1]].status \in {"scheduled", "running"}
      BY <2>1 DEF RowLocks, StatusOf
    <3> QED BY <2>1, <3>1, <3>2, <1>2 DEF CampaignLocked
  <2> QED BY <2>1
<1>5. CASE UNCHANGED <<runStatus, recip>>
  <2>1. \A q \in Proc : wk[q].pc = "admitted" =>
          runStatus'[wk[q].at] = "none" /\ camp'[wk[q].at[1]].status \in {"scheduled", "running"}
    BY <1>3, <1>4, <1>5 DEF RowLocks, StatusOf
  <2>2. \A q \in Proc : wk[q].pc = "closing" =>
          runStatus'[wk[q].at] = "sending" /\ (q \in Worker => \A k \in Contact : recip'[wk[q].at][k] \notin Pending)
    BY <1>5 DEF RowLocks, MayClose
  <2> QED BY <1>1, <1>5, <2>1, <2>2, LocksKept
<1>6. CASE CancelCampaign(c)
  <2>1. /\ runStatus' = [r \in Run |-> IF r \in ActiveRuns(c) THEN "cancelled" ELSE runStatus[r]]
        /\ recip' = [r \in Run |-> [k \in Contact |->
                       IF r \in ActiveRuns(c) /\ k \in PendingOf(r) THEN "skipped" ELSE recip[r][k]]]
        /\ \A r \in ActiveRuns(c) : ~RunLocked(r)
    BY <1>6 DEF CancelCampaign
  <2>2. \A r \in ActiveRuns(c) : runStatus[r] \in ActiveRun
    BY DEF ActiveRuns
  <2>3. ASSUME NEW q \in Proc, wk[q].pc = "admitted"
        PROVE  runStatus'[wk[q].at] = "none" /\ camp'[wk[q].at[1]].status \in {"scheduled", "running"}
    <3>1. runStatus[wk[q].at] = "none" /\ camp[wk[q].at[1]].status \in {"scheduled", "running"}
      BY <2>3 DEF RowLocks, StatusOf
    <3> QED BY <2>1, <2>2, <2>3, <3>1, <1>3, <1>4 DEF ActiveRun
  <2>4. ASSUME NEW q \in Proc, wk[q].pc = "closing"
        PROVE  runStatus'[wk[q].at] = "sending" /\ (q \in Worker => \A k \in Contact : recip'[wk[q].at][k] \notin Pending)
    <3>1. wk[q].at \in Run /\ wk[q].at \notin ActiveRuns(c)
      BY <2>1, <2>4 DEF RunLocked, TypeOK
    <3> QED BY <2>1, <2>4, <3>1 DEF RowLocks, MayClose
  <2>5. \A r \in Run : runStatus[r] /= "none" => runStatus'[r] /= "none"
    BY <2>1
  <2> QED BY <1>1, <2>3, <2>4, <2>5, LocksKept
<1>7. UNCHANGED <<runStatus, recip>> \/ CancelCampaign(c)
  BY DEF Api, CreateCampaign, DuplicateCampaign, NewDraft, PatchDraft, PatchPaused, ScheduleCampaign, UnscheduleCampaign,
         PauseCampaign, ResumeActive, ResumeBetween
<1> QED BY <1>5, <1>6, <1>7

(* The facts about the other processes that every step of p may cite.      *)
LEMMA OthersHold ==
  ASSUME TypeOK, RowLocks, NEW q \in Proc
  PROVE  /\ wk[q].pc = "admitted" => /\ wk[q].at \in Run /\ wk[q].at[1] \in Campaign
                                     /\ runStatus[wk[q].at] = "none"
                                     /\ camp[wk[q].at[1]].status \in {"scheduled", "running"}
         /\ wk[q].pc = "closing" => /\ wk[q].at \in Run /\ runStatus[wk[q].at] = "sending"
                                    /\ q \in Worker => \A k \in Contact : recip[wk[q].at][k] \notin Pending
BY RunParts DEF RowLocks, StatusOf, MayClose, TypeOK

(* A job's steps before its last move nobody else and finish no run.       *)
LEMMA WorkerHands ==
  ASSUME TypeOK, NEW w \in Worker, RunWorker(w) \/ BatchWorker(w)
  PROVE  /\ wk[w].pc /= "closing" /\ wk'[w].pc /= "closing"
         /\ \A q \in Proc \ {w} : wk'[q] = wk[q]
<1>0. w \in Proc /\ wk \in [Proc -> WorkerRec]
  BY DEF TypeOK, Proc
<1>1. CASE \E r \in Run : TakeRun(w, r) \/ TakeBatch(w, r)
  BY <1>0, <1>1 DEF TakeRun, TakeBatch, WorkerRec
<1>2. CASE StartRunStops(w) \/ StartRunWaits(w) \/ ExpansionDone(w) \/ ExpansionOvertaken(w) \/ FailRun(w)
  BY <1>0, <1>2, Moves DEF StartRunStops, StartRunWaits, ExpansionDone, ExpansionOvertaken, FailRun
<1>3. CASE BatchStops(w) \/ BatchRequeues(w) \/ BatchHalts(w)
  BY <1>0, <1>3, Moves DEF BatchStops, BatchRequeues, BatchHalts
<1>4. CASE StartRunResumes(w) \/ StartRunAdmits(w) \/ StartRunOpens(w) \/ BatchBegins(w) \/ DecideThrows(w)
  BY <1>0, <1>4, Moves DEF StartRunResumes, StartRunAdmits, StartRunOpens, BatchBegins, DecideThrows
<1>5. CASE ResolveAudience(w) \/ InsertChunk(w)
  BY <1>0, <1>5 DEF ResolveAudience, InsertChunk, WorkerRec
<1>6. CASE FillPage(w)
  <2>1. CASE wk' = LoopEnds(w)
    BY <1>0, <1>6, <2>1, Moves DEF FillPage
  <2>2. CASE wk' /= LoopEnds(w)
    BY <1>0, <1>6, <2>2 DEF FillPage, WorkerRec
  <2> QED BY <2>1, <2>2
<1>7. CASE DecideTaken(w) \/ DecideSettles(w) \/ DecideDefers(w)
  <2>1. wk[w].pc = "deciding" /\ \E k, counted : Advance(w, k, counted)
    BY <1>7 DEF DecideTaken, DecideSettles, DecideDefers
  <2> QED BY <1>0, <2>1, Moves
<1>8. CASE CountAttempt(w)
  <2>1. wk[w].pc = "counting" /\ ((\E k : Advance(w, k, TRUE)) \/ JobFails(w))
    BY <1>8 DEF CountAttempt
  <2> QED BY <1>0, <2>1, Moves
<1> QED BY <1>1, <1>2, <1>3, <1>4, <1>5, <1>6, <1>7, <1>8 DEF RunWorker, BatchWorker

LEMMA RunWorkerLocks ==
  ASSUME TypeOK, RowLocks, NEW w \in Worker, RunWorker(w)
  PROVE  RowLocks'
<1>a. /\ w \in Proc /\ wk \in [Proc -> WorkerRec] /\ camp \in [Campaign -> CampaignRec]
      /\ runStatus \in [Run -> RunStatus] /\ recip \in [Run -> [Contact -> RecipientState]]
      /\ wk[w].pc /= "idle" => wk[w].at \in Run /\ wk[w].at[1] \in Campaign
  BY RunParts DEF TypeOK, Proc
<1>b. Rest(w) => wk'[w].pc = "idle" /\ \A q \in Proc \ {w} : wk'[q] = wk[q]
  BY <1>a, Moves
<1>c. \A pc : Goto(w, pc) => /\ wk'[w].pc = pc /\ wk'[w].at = wk[w].at
                             /\ \A q \in Proc \ {w} : wk'[q] = wk[q]
  BY <1>a, Moves
<1>1. ASSUME NEW r \in Run, TakeRun(w, r) PROVE RowLocks'
  <2>1. wk'[w].pc = "starting" /\ \A q \in Proc \ {w} : wk'[q] = wk[q]
    BY <1>1, <1>a DEF TakeRun, WorkerRec
  <2> QED BY <1>1, <1>a, <2>1, PlainStep DEF TakeRun
<1>2. CASE StartRunStops(w) \/ StartRunWaits(w) \/ ExpansionOvertaken(w)
  BY <1>2, <1>a, <1>b, PlainStep DEF StartRunStops, StartRunWaits, ExpansionOvertaken
<1>3. CASE StartRunResumes(w)
  <2>1. /\ wk'[w].pc = "resolving" /\ wk'[w].at = wk[w].at /\ runStatus'[wk[w].at] = "expanding"
        /\ \A q \in Proc \ {w} : wk'[q] = wk[q]
        /\ UNCHANGED <<camp, runStatus, recip>>
    BY <1>3, <1>c DEF StartRunResumes
  <2> QED BY <1>a, <2>1, LocksFrame, OthersHold
<1>4. CASE StartRunAdmits(w)
  <2> DEFINE r == wk[w].at
  <2>1. /\ wk'[w].pc = "admitted" /\ wk'[w].at = r /\ r \in Run
        /\ \A q \in Proc \ {w} : wk'[q] = wk[q]
        /\ UNCHANGED <<camp, runStatus, recip>>
    BY <1>4, <1>a, <1>c DEF StartRunAdmits
  <2>2. runStatus[r] = "none" /\ camp[r[1]].status \in {"scheduled", "running"} /\ ~CampaignLocked(r[1])
    BY <1>4 DEF StartRunAdmits, StatusOf
  <2>3. \A q \in Proc : wk[q].pc = "admitted" => wk[q].at[1] /= r[1]
    BY <2>2 DEF CampaignLocked
  <2>4. \A q \in Proc : wk'[q].pc = "admitted" =>
          runStatus'[wk'[q].at] = "none" /\ camp'[wk'[q].at[1]].status \in {"scheduled", "running"}
    BY <2>1, <2>2, OthersHold
  <2>5. \A q \in Proc : wk'[q].pc = "closing" => MayClose(q)' /\ wk'[q].at = wk[q].at
    BY <2>1, OthersHold DEF MayClose
  <2>6. \A q \in Proc : wk'[q].pc \in {"resolving", "inserting"} => runStatus'[wk'[q].at] /= "none"
    BY <2>1 DEF RowLocks
  <2>7. \A p, q \in Proc : wk'[p].pc = wk'[q].pc /\ p /= q =>
          /\ wk'[p].pc = "admitted" => wk'[p].at[1] /= wk'[q].at[1]
          /\ wk'[p].pc = "closing"  => wk'[p].at /= wk'[q].at
    <3> HIDE DEF r
    <3> QED BY <2>1, <2>3 DEF RowLocks
  <2> QED BY <2>4, <2>5, <2>6, <2>7 DEF RowLocks, StatusOf, MayClose
<1>5. CASE StartRunOpens(w)
  <2> DEFINE r == wk[w].at
  <2>1. /\ wk[w].pc = "admitted" /\ wk'[w].pc = "resolving" /\ wk'[w].at = r /\ r \in Run
        /\ \A q \in Proc \ {w} : wk'[q] = wk[q]
        /\ runStatus' = [runStatus EXCEPT ![r] = "expanding"]
        /\ recip' = recip
    BY <1>5, <1>a, <1>c DEF StartRunOpens
  <2>2. \A d \in Campaign \ {r[1]} : camp'[d] = camp[d]
    BY <1>5, <1>a DEF StartRunOpens
  <2>3. ASSUME NEW q \in Proc \ {w}, wk[q].pc = "admitted"
        PROVE  runStatus'[wk[q].at] = "none" /\ camp'[wk[q].at[1]].status \in {"scheduled", "running"}
    <3>1. wk[q].at[1] /= r[1]
      BY <1>a, <2>1, <2>3 DEF RowLocks
    <3> QED BY <1>a, <2>1, <2>2, <2>3, <3>1, OthersHold
  <2>4. ASSUME NEW q \in Proc \ {w}, wk[q].pc = "closing"
        PROVE  runStatus'[wk[q].at] = "sending" /\ (q \in Worker => \A k \in Contact : recip'[wk[q].at][k] \notin Pending)
    <3>1. runStatus[r] = "none"
      BY <1>a, <2>1, OthersHold
    <3> QED BY <1>a, <2>1, <2>4, <3>1, OthersHold
  <2>5. runStatus'[wk'[w].at] /= "none" /\ \A q \in Run : runStatus[q] /= "none" => runStatus'[q] /= "none"
    BY <1>a, <2>1
  <2> QED BY <1>a, <2>1, <2>3, <2>4, <2>5, LocksFrame
<1>6. CASE ResolveAudience(w)
  <2>1. /\ wk[w].pc = "resolving" /\ wk'[w].pc = "inserting" /\ wk'[w].at = wk[w].at
        /\ \A q \in Proc \ {w} : wk'[q] = wk[q]
        /\ UNCHANGED <<camp, runStatus, recip>>
    BY <1>6, <1>a DEF ResolveAudience, WorkerRec
  <2>2. runStatus'[wk'[w].at] /= "none"
    BY <2>1, <1>a DEF RowLocks
  <2> QED BY <1>a, <2>1, <2>2, LocksFrame, OthersHold
<1>7. CASE InsertChunk(w)
  <2> DEFINE r == wk[w].at
  <2>1. /\ wk[w].pc = "inserting" /\ wk'[w].pc = "inserting" /\ wk'[w].at = r /\ r \in Run
        /\ \A q \in Proc \ {w} : wk'[q] = wk[q]
        /\ UNCHANGED <<camp, runStatus>> /\ ~RunLocked(r)
        /\ \A q \in Run \ {r} : recip'[q] = recip[q]
    BY <1>7, <1>a DEF InsertChunk, WorkerRec
  <2>2. runStatus'[wk'[w].at] /= "none"
    BY <2>1, <1>a DEF RowLocks
  <2>3. \A q \in Proc : wk[q].pc = "closing" => wk[q].at \in Run \ {r}
    BY <2>1, OthersHold DEF RunLocked
  <2>4. \A q \in Proc \ {w} : wk[q].pc = "closing" =>
          runStatus'[wk[q].at] = "sending" /\ (q \in Worker => \A k \in Contact : recip'[wk[q].at][k] \notin Pending)
    BY <2>1, <2>3, OthersHold
  <2>5. \A q \in Proc \ {w} : wk[q].pc = "admitted" =>
          runStatus'[wk[q].at] = "none" /\ camp'[wk[q].at[1]].status \in {"scheduled", "running"}
    BY <2>1, OthersHold
  <2> QED BY <1>a, <2>1, <2>2, <2>4, <2>5, LocksFrame
<1>8. CASE ExpansionDone(w)
  <2> DEFINE r == wk[w].at
  <2>1. /\ wk'[w].pc = "idle" /\ r \in Run
        /\ \A q \in Proc \ {w} : wk'[q] = wk[q]
        /\ UNCHANGED <<camp, recip>> /\ ~RunLocked(r) /\ runStatus[r] = "expanding"
        /\ runStatus' = [runStatus EXCEPT ![r] = "sending"]
    BY <1>8, <1>a, <1>b DEF ExpansionDone
  <2>2. \A q \in Proc \ {w} : wk[q].pc = "closing" =>
          runStatus'[wk[q].at] = "sending" /\ (q \in Worker => \A k \in Contact : recip'[wk[q].at][k] \notin Pending)
    BY <1>a, <2>1, OthersHold
  <2>3. \A q \in Proc \ {w} : wk[q].pc = "admitted" =>
          runStatus'[wk[q].at] = "none" /\ camp'[wk[q].at[1]].status \in {"scheduled", "running"}
    BY <1>a, <2>1, OthersHold
  <2>4. \A q \in Run : runStatus[q] /= "none" => runStatus'[q] /= "none"
    BY <1>a, <2>1
  <2> QED BY <1>a, <2>1, <2>2, <2>3, <2>4, LocksFrame
<1>9. CASE FailRun(w)
  <2> DEFINE r == wk[w].at
  <2>1. /\ wk'[w].pc = "idle" /\ r \in Run /\ r[1] \in Campaign
        /\ \A q \in Proc \ {w} : wk'[q] = wk[q]
        /\ recip' = recip /\ ~RunLocked(r) /\ ~CampaignLocked(r[1])
        /\ \A d \in Campaign \ {r[1]} : camp'[d] = camp[d]
        /\ \A q \in Run \ {r} : runStatus'[q] = runStatus[q]
        /\ runStatus'[r] = runStatus[r] \/ (runStatus[r] \in ActiveRun /\ runStatus'[r] = "failed")
    BY <1>9, <1>a, <1>b DEF FailRun
  <2>2. \A q \in Proc \ {w} : wk[q].pc = "closing" =>
          runStatus'[wk[q].at] = "sending" /\ (q \in Worker => \A k \in Contact : recip'[wk[q].at][k] \notin Pending)
    BY <2>1, OthersHold DEF RunLocked
  <2>3. \A q \in Proc \ {w} : wk[q].pc = "admitted" =>
          runStatus'[wk[q].at] = "none" /\ camp'[wk[q].at[1]].status \in {"scheduled", "running"}
    BY <2>1, OthersHold DEF CampaignLocked
  <2>4. \A q \in Run : runStatus[q] /= "none" => runStatus'[q] /= "none"
    BY <2>1
  <2> QED BY <1>a, <2>1, <2>2, <2>3, <2>4, LocksFrame
<1> QED BY <1>1, <1>2, <1>3, <1>4, <1>5, <1>6, <1>7, <1>8, <1>9 DEF RunWorker

(* A batch settles, defers and counts only recipients of a run no batch is *)
(* finishing: those it changes are pending, and such a run has none.       *)
LEMMA BatchWorkerLocks ==
  ASSUME TypeOK, RowLocks, NEW w \in Worker, BatchWorker(w)
  PROVE  RowLocks'
<1>a. /\ w \in Proc /\ wk \in [Proc -> WorkerRec]
      /\ recip \in [Run -> [Contact -> RecipientState]]
      /\ wk[w].pc /= "idle" => wk[w].at \in Run
  BY DEF TypeOK, Proc
<1>b. /\ Rest(w) => wk'[w].pc = "idle" /\ \A q \in Proc \ {w} : wk'[q] = wk[q]
      /\ \A pc : Goto(w, pc) => wk'[w].pc = pc /\ \A q \in Proc \ {w} : wk'[q] = wk[q]
      /\ \A k, counted : Advance(w, k, counted) => /\ wk'[w].pc \in {"tailing", "filling", "deciding"}
                                                  /\ \A q \in Proc \ {w} : wk'[q] = wk[q]
      /\ JobFails(w) => wk'[w].pc = "idle" /\ \A q \in Proc \ {w} : wk'[q] = wk[q]
  BY <1>a, Moves
<1>1. ASSUME NEW r \in Run, TakeBatch(w, r) PROVE RowLocks'
  <2>1. wk'[w].pc = "reading" /\ \A q \in Proc \ {w} : wk'[q] = wk[q]
    BY <1>1, <1>a DEF TakeBatch, WorkerRec
  <2> QED BY <1>1, <1>a, <2>1, PlainStep DEF TakeBatch
<1>2. CASE BatchStops(w) \/ BatchRequeues(w) \/ BatchHalts(w)
  BY <1>2, <1>a, <1>b, PlainStep DEF BatchStops, BatchRequeues, BatchHalts
<1>3. CASE BatchBegins(w) \/ DecideThrows(w)
  <2>1. wk'[w].pc \in {"filling", "counting"} /\ \A q \in Proc \ {w} : wk'[q] = wk[q]
    BY <1>3, <1>b DEF BatchBegins, DecideThrows
  <2> QED BY <1>3, <1>a, <2>1, PlainStep DEF BatchBegins, DecideThrows
<1>4. CASE FillPage(w)
  <2>1. wk'[w].pc \in {"tailing", "deciding"} /\ \A q \in Proc \ {w} : wk'[q] = wk[q]
    <3>1. CASE wk' = LoopEnds(w)
      BY <1>a, <3>1, Moves
    <3>2. CASE wk' /= LoopEnds(w)
      BY <1>4, <1>a, <3>2 DEF FillPage, WorkerRec
    <3> QED BY <3>1, <3>2
  <2> QED BY <1>4, <1>a, <2>1, PlainStep DEF FillPage
<1>5. CASE DecideTaken(w)
  <2>1. PICK k \in HeadOf(wk[w].page) : Advance(w, k, FALSE)
    BY <1>5 DEF DecideTaken
  <2> QED BY <1>5, <1>a, <1>b, <2>1, PlainStep DEF DecideTaken
<1>6. ASSUME UNCHANGED <<camp, runStatus>>, wk[w].pc /= "idle",
             wk'[w].pc \notin {"admitted", "closing", "resolving", "inserting"},
             \A q \in Proc \ {w} : wk'[q] = wk[q],
             NEW k, NEW outcome, recip[wk[w].at][k] \in Pending, k \in Contact,
             recip' = [recip EXCEPT ![wk[w].at][k] = outcome]
      PROVE  RowLocks'
  <2>1. ASSUME NEW q \in Proc \ {w}, wk[q].pc = "closing"
        PROVE  runStatus'[wk[q].at] = "sending" /\ (q \in Worker => \A j \in Contact : recip'[wk[q].at][j] \notin Pending)
    <3>1. wk[q].at \in Run /\ runStatus[wk[q].at] = "sending"
      BY <2>1, OthersHold
    <3>2. ASSUME q \in Worker, NEW j \in Contact PROVE recip'[wk[q].at][j] \notin Pending
      <4>1. \A i \in Contact : recip[wk[q].at][i] \notin Pending
        BY <2>1, <3>2, OthersHold
      <4>2. wk[q].at /= wk[w].at
        BY <1>6, <4>1
      <4>3. recip'[wk[q].at] = recip[wk[q].at]
        BY <1>6, <1>a, <3>1, <4>2
      <4> QED BY <4>1, <4>3
    <3> QED BY <1>6, <3>1, <3>2
  <2>2. \A q \in Proc \ {w} : wk[q].pc = "admitted" =>
          runStatus'[wk[q].at] = "none" /\ camp'[wk[q].at[1]].status \in {"scheduled", "running"}
    BY <1>6, OthersHold
  <2> QED BY <1>6, <1>a, <2>1, <2>2, LocksFrame
<1>7. CASE DecideSettles(w)
  <2>1. PICK k \in HeadOf(wk[w].page), outcome \in Settled :
          Ready(wk[w].at, k) /\ Settle(wk[w].at, k, outcome) /\ Advance(w, k, TRUE)
    BY <1>7 DEF DecideSettles
  <2>2. k \in Contact
    BY <1>a, <2>1 DEF HeadOf, WorkerRec
  <2>3. wk'[w].pc \in {"tailing", "filling", "deciding"} /\ \A q \in Proc \ {w} : wk'[q] = wk[q]
    BY <1>b, <2>1
  <2>4. recip[wk[w].at][k] \in Pending /\ recip' = [recip EXCEPT ![wk[w].at][k] = outcome]
    BY <2>1 DEF Ready, Settle, Pending
  <2>5. UNCHANGED <<camp, runStatus>> /\ wk[w].pc = "deciding"
    BY <1>7 DEF DecideSettles
  <2> QED BY <1>6, <2>2, <2>3, <2>4, <2>5
<1>8. CASE DecideDefers(w)
  <2>1. PICK k \in HeadOf(wk[w].page) :
          /\ Ready(wk[w].at, k) /\ recip' = [recip EXCEPT ![wk[w].at][k] = "deferred"]
          /\ Advance(w, k, FALSE)
    BY <1>8 DEF DecideDefers
  <2>2. k \in Contact
    BY <1>a, <2>1 DEF HeadOf, WorkerRec
  <2>3. wk'[w].pc \in {"tailing", "filling", "deciding"} /\ \A q \in Proc \ {w} : wk'[q] = wk[q]
    BY <1>b, <2>1
  <2> QED BY <1>6, <1>8, <2>1, <2>2, <2>3 DEF DecideDefers, Ready, Pending
<1>9. CASE CountAttempt(w)
  <2>1. PICK k \in HeadOf(wk[w].page) :
          \/ /\ recip[wk[w].at][k] \in Pending
             /\ Settle(wk[w].at, k, "skipped") /\ Advance(w, k, TRUE)
          \/ JobFails(w) /\ UNCHANGED recip
    BY <1>9 DEF CountAttempt
  <2>2. k \in Contact
    BY <1>a, <2>1 DEF HeadOf, WorkerRec
  <2>3. CASE JobFails(w) /\ UNCHANGED recip
    BY <1>9, <1>a, <1>b, <2>3, PlainStep DEF CountAttempt
  <2>4. CASE /\ recip[wk[w].at][k] \in Pending
             /\ Settle(wk[w].at, k, "skipped") /\ Advance(w, k, TRUE)
    <3>1. wk'[w].pc \in {"tailing", "filling", "deciding"} /\ \A q \in Proc \ {w} : wk'[q] = wk[q]
      BY <1>b, <2>4
    <3> QED BY <1>6, <1>9, <2>2, <2>4, <3>1 DEF CountAttempt, Settle
  <2> QED BY <2>1, <2>3, <2>4
<1> QED BY <1>1, <1>2, <1>3, <1>4, <1>5, <1>7, <1>8, <1>9 DEF BatchWorker

LEMMA FinishLocks ==
  ASSUME TypeOK, RowLocks, NEW p \in Proc, Finish(p)
  PROVE  RowLocks'
<1>a. /\ wk \in [Proc -> WorkerRec] /\ camp \in [Campaign -> CampaignRec]
      /\ runStatus \in [Run -> RunStatus]
      /\ wk[p].pc /= "idle" => wk[p].at \in Run /\ wk[p].at[1] \in Campaign
  BY RunParts DEF TypeOK
<1>b. Rest(p) => wk'[p].pc = "idle" /\ \A q \in Proc \ {p} : wk'[q] = wk[q]
  BY Moves
<1>1. CASE FinishMarks(p)
  <2> DEFINE r == wk[p].at
  <2>1. /\ wk'[p].pc = "closing" /\ wk'[p].at = r /\ r \in Run
        /\ \A q \in Proc \ {p} : wk'[q] = wk[q]
        /\ UNCHANGED <<camp, runStatus, recip>>
    BY <1>1, <1>a DEF FinishMarks, WorkerRec
  <2>2. /\ runStatus[r] = "sending" /\ ~RunLocked(r)
        /\ p \in Worker => \A k \in Contact : recip[r][k] \notin Pending
    BY <1>1, ProcAssumption DEF FinishMarks, PendingOf
  <2>3. \A q \in Proc : wk[q].pc = "closing" => wk[q].at /= r
    BY <2>2 DEF RunLocked
  <2>4. \A q \in Proc : wk'[q].pc = "admitted" =>
          runStatus'[wk'[q].at] = "none" /\ camp'[wk'[q].at[1]].status \in {"scheduled", "running"}
    BY <2>1, OthersHold
  <2>5. \A q \in Proc : wk'[q].pc = "closing" => MayClose(q)' /\ wk'[q].at = wk[q].at
    BY <2>1, <2>2, OthersHold DEF MayClose
  <2>6. \A q \in Proc : wk'[q].pc \in {"resolving", "inserting"} => runStatus'[wk'[q].at] /= "none"
    BY <2>1 DEF RowLocks
  <2>7. \A s, q \in Proc : wk'[s].pc = wk'[q].pc /\ s /= q =>
          /\ wk'[s].pc = "admitted" => wk'[s].at[1] /= wk'[q].at[1]
          /\ wk'[s].pc = "closing"  => wk'[s].at /= wk'[q].at
    <3> HIDE DEF r
    <3> QED BY <2>1, <2>3 DEF RowLocks
  <2> QED BY <2>4, <2>5, <2>6, <2>7 DEF RowLocks, StatusOf, MayClose
<1>2. CASE FinishSkips(p)
  BY <1>2, <1>b, PlainStep DEF FinishSkips
<1>3. CASE FinishCommits(p)
  <2> DEFINE r == wk[p].at
  <2>1. /\ wk[p].pc = "closing" /\ r \in Run /\ r[1] \in Campaign
        /\ wk'[p].pc = "idle" /\ \A q \in Proc \ {p} : wk'[q] = wk[q]
        /\ runStatus' = [runStatus EXCEPT ![r] = "done"]
        /\ recip' = recip
    BY <1>3, <1>a, <1>b DEF FinishCommits
  <2>2. /\ \A d \in Campaign \ {r[1]} : camp'[d] = camp[d]
        /\ camp' = camp \/ ~CampaignLocked(r[1])
    BY <1>3, <1>a DEF FinishCommits
  <2>3. ASSUME NEW q \in Proc \ {p}, wk[q].pc = "admitted"
        PROVE  runStatus'[wk[q].at] = "none" /\ camp'[wk[q].at[1]].status \in {"scheduled", "running"}
    <3>1. runStatus[r] = "sending"
      BY <2>1, OthersHold
    <3>2. runStatus'[wk[q].at] = "none"
      BY <1>a, <2>1, <2>3, <3>1, OthersHold
    <3>3. camp'[wk[q].at[1]] = camp[wk[q].at[1]]
      BY <2>2, <2>3, OthersHold DEF CampaignLocked
    <3> QED BY <2>3, <3>2, <3>3, OthersHold
  <2>4. ASSUME NEW q \in Proc \ {p}, wk[q].pc = "closing"
        PROVE  runStatus'[wk[q].at] = "sending" /\ (q \in Worker => \A k \in Contact : recip'[wk[q].at][k] \notin Pending)
    <3>1. wk[q].at /= r
      BY <2>1, <2>4 DEF RowLocks
    <3> QED BY <1>a, <2>1, <2>4, <3>1, OthersHold
  <2>5. \A q \in Run : runStatus[q] /= "none" => runStatus'[q] /= "none"
    BY <1>a, <2>1
  <2> QED BY <2>1, <2>3, <2>4, <2>5, LocksFrame
<1> QED BY <1>1, <1>2, <1>3 DEF Finish

LEMMA SweepLocks ==
  ASSUME TypeOK, RowLocks, NEW s \in Sweeper, Sweep(s)
  PROVE  RowLocks'
<1>a. s \in Proc /\ wk \in [Proc -> WorkerRec]
  BY DEF TypeOK, Proc
<1>b. Rest(s) => wk'[s].pc = "idle" /\ \A q \in Proc \ {s} : wk'[q] = wk[q]
  BY <1>a, Moves
<1>1. ASSUME NEW r \in Run, SweepFinds(s, r) PROVE RowLocks'
  <2>1. PICK pc \in SweepPc : wk' = [wk EXCEPT ![s].pc = pc, ![s].at = r]
    BY <1>1 DEF SweepFinds
  <2>2. wk'[s].pc = pc /\ \A q \in Proc \ {s} : wk'[q] = wk[q]
    BY <1>a, <2>1 DEF WorkerRec
  <2>3. pc \notin {"admitted", "closing", "resolving", "inserting"}
    BY DEF SweepPc
  <2> QED BY <1>1, <1>a, <2>2, <2>3, PlainStep DEF SweepFinds
<1>2. CASE SweepResumesExpansion(s) \/ SweepEnqueuesBatch(s)
  BY <1>2, <1>a, <1>b, PlainStep DEF SweepResumesExpansion, SweepEnqueuesBatch
<1>3. CASE SweepLooks(s)
  <2>1. wk'[s].pc = "looked" /\ \A q \in Proc \ {s} : wk'[q] = wk[q]
    BY <1>a, <1>3 DEF SweepLooks, WorkerRec
  <2> QED BY <1>3, <1>a, <2>1, PlainStep DEF SweepLooks
<1> QED BY <1>1, <1>2, <1>3 DEF Sweep

LEMMA FaultLocks ==
  ASSUME TypeOK, RowLocks, Fault
  PROVE  RowLocks'
<1>a. Worker \subseteq Proc /\ wk \in [Proc -> WorkerRec]
  BY DEF TypeOK, Proc
<1>1. ASSUME NEW p \in Proc, Crash(p) PROVE RowLocks'
  <2>1. wk'[p].pc = "idle" /\ \A q \in Proc \ {p} : wk'[q] = wk[q]
    BY <1>1, Moves DEF Crash
  <2> QED BY <1>1, <2>1, PlainStep DEF Crash
<1>2. ASSUME NEW w \in Worker, JobExpires(w) PROVE RowLocks'
  <2>1. UNCHANGED <<camp, runStatus, recip, wk>>
    BY <1>2 DEF JobExpires
  <2> QED BY <2>1, OthersHold, LocksKept
<1>3. ASSUME NEW w \in Worker, ExpansionThrows(w) PROVE RowLocks'
  <2>1. wk'[w].pc = "failing" /\ \A q \in Proc \ {w} : wk'[q] = wk[q]
    BY <1>3, <1>a DEF ExpansionThrows, WorkerRec
  <2> QED BY <1>3, <1>a, <2>1, PlainStep DEF ExpansionThrows
<1> QED BY <1>1, <1>2, <1>3 DEF Fault

LEMMA WindowLocks ==
  ASSUME TypeOK, RowLocks, NEW r \in Run, NEW k \in Contact, WindowOpens(r, k)
  PROVE  RowLocks'
<1>1. /\ UNCHANGED <<camp, runStatus, wk>> /\ recip[r][k] \in Pending
      /\ recip' = [recip EXCEPT ![r][k] = "ready"]
      /\ recip \in [Run -> [Contact -> RecipientState]]
  BY DEF WindowOpens, Pending, TypeOK
<1>2. ASSUME NEW q \in Proc, wk[q].pc = "closing"
      PROVE  runStatus'[wk[q].at] = "sending" /\ (q \in Worker => \A j \in Contact : recip'[wk[q].at][j] \notin Pending)
  <2>1. ASSUME q \in Worker, NEW j \in Contact PROVE recip'[wk[q].at][j] \notin Pending
    <3>1. wk[q].at \in Run /\ wk[q].at /= r
      BY <1>1, <1>2, <2>1, OthersHold
    <3>2. recip'[wk[q].at] = recip[wk[q].at]
      BY <1>1, <3>1
    <3> QED BY <1>2, <2>1, <3>2, OthersHold
  <2> QED BY <1>1, <1>2, <2>1, OthersHold
<1> QED BY <1>1, <1>2, OthersHold, LocksKept

LEMMA NextLocks ==
  ASSUME TypeOK, RowLocks, [Next]_vars
  PROVE  RowLocks'
<1>1. CASE Next
  BY <1>1, ApiLocks, RunWorkerLocks, BatchWorkerLocks, SweepLocks, FinishLocks, WindowLocks, FaultLocks DEF Next
<1>2. CASE UNCHANGED vars
  BY <1>2, OthersHold, LocksKept DEF vars
<1> QED BY <1>1, <1>2

LEMMA RowLocksInv == Spec => []RowLocks
<1>1. Init => RowLocks
  BY DEF Init, RowLocks, IdleWorker
<1>2. TypeOK /\ RowLocks /\ [Next]_vars => RowLocks'
  BY NextLocks
<1> QED BY <1>1, <1>2, TypeCorrect, PTL DEF Spec

---------------------------------------------------------------------------
(* How the status of a run and of a campaign may move                      *)

RunMove(r) ==
  \/ runStatus'[r] = runStatus[r]
  \/ runStatus[r] = "none" /\ runStatus'[r] = "expanding" /\ camp'[r[1]].status = "running"
  \/ runStatus[r] \in ActiveRun /\ runStatus'[r] \in {"sending", "cancelled", "failed"}
  \/ /\ runStatus[r] = "sending" /\ runStatus'[r] = "done" /\ recip' = recip
     /\ \E p \in Proc : wk[p].pc = "closing" /\ wk[p].at = r

CampaignMove(c) ==
  \/ camp'[c].status = camp[c].status
  \/ /\ camp[c].status \notin FinalCampaign
     /\ camp'[c].status = "cancelled" => ActiveRuns(c)' = {}

LEMMA ApiMoves ==
  ASSUME TypeOK, NEW a \in Campaign, Api(a)
  PROVE  /\ \A r \in Run : RunMove(r)
         /\ \A c \in Campaign : CampaignMove(c)
<1>a. camp \in [Campaign -> CampaignRec] /\ runStatus \in [Run -> RunStatus]
  BY DEF TypeOK
<1>1. CASE CancelCampaign(a)
  <2>1. runStatus' = [r \in Run |-> IF r \in ActiveRuns(a) THEN "cancelled" ELSE runStatus[r]]
    BY <1>1 DEF CancelCampaign
  <2>2. \A r \in Run : RunMove(r)
    BY <2>1 DEF RunMove, ActiveRuns
  <2>3. ActiveRuns(a)' = {}
    BY <2>1 DEF ActiveRuns, ActiveRun, RunsOf, Run
  <2>4. /\ camp[a].status \notin FinalCampaign
        /\ \A c \in Campaign \ {a} : camp'[c] = camp[c]
    BY <1>1, <1>a DEF CancelCampaign
  <2> QED BY <2>2, <2>3, <2>4 DEF CampaignMove
<1>2. CASE ~CancelCampaign(a)
  <2>1. \/ CreateCampaign(a) \/ DuplicateCampaign(a)     \/ PatchDraft(a)    \/ PatchPaused(a)   \/ ScheduleCampaign(a)
        \/ UnscheduleCampaign(a) \/ PauseCampaign(a) \/ ResumeActive(a)  \/ ResumeBetween(a)
    BY <1>2 DEF Api
  <2>2. UNCHANGED runStatus
    BY <2>1 DEF CreateCampaign, DuplicateCampaign, NewDraft, PatchDraft, PatchPaused, ScheduleCampaign, UnscheduleCampaign,
       PauseCampaign, ResumeActive, ResumeBetween
  <2>3. camp[a].status \notin FinalCampaign
    BY <2>1 DEF CreateCampaign, DuplicateCampaign, NewDraft, PatchDraft, PatchPaused, ScheduleCampaign, UnscheduleCampaign,
       PauseCampaign, ResumeActive, ResumeBetween, FinalCampaign
  <2>4. \A c \in Campaign \ {a} : camp'[c] = camp[c]
    BY <1>a, <2>1 DEF CreateCampaign, DuplicateCampaign, NewDraft, PatchDraft, PatchPaused, ScheduleCampaign, UnscheduleCampaign,
       PauseCampaign, ResumeActive, ResumeBetween
  <2>5. camp'[a].status /= "cancelled"
    <3>1. CASE PatchDraft(a)
      BY <1>a, <3>1 DEF PatchDraft, CampaignRec
    <3>2. CASE PatchPaused(a)
      <4>1. PICK recurring \in BOOLEAN, next \in BOOLEAN :
              camp' = [camp EXCEPT ![a].recurring = recurring, ![a].next = next]
        BY <3>2 DEF PatchPaused, NextRunAt
      <4> QED BY <1>a, <3>2, <4>1 DEF PatchPaused, CampaignRec
    <3>3. CASE CreateCampaign(a) \/ DuplicateCampaign(a)
      BY <1>a, <3>3 DEF CreateCampaign, DuplicateCampaign, NewDraft, CampaignRec
    <3>5. CASE ScheduleCampaign(a)
      BY <1>a, <3>5 DEF ScheduleCampaign, CampaignRec
    <3>6. CASE UnscheduleCampaign(a)
      BY <1>a, <3>6 DEF UnscheduleCampaign, CampaignRec
    <3>7. CASE PauseCampaign(a)
      BY <1>a, <3>7 DEF PauseCampaign, CampaignRec
    <3>4. CASE ResumeActive(a) \/ ResumeBetween(a)
      BY <1>a, <3>4 DEF ResumeActive, ResumeBetween, CampaignRec
    <3> QED BY <2>1, <3>1, <3>2, <3>3, <3>4, <3>5, <3>6, <3>7
  <2> QED BY <2>2, <2>3, <2>4, <2>5 DEF RunMove, CampaignMove
<1> QED BY <1>1, <1>2

LEMMA RunWorkerMoves ==
  ASSUME TypeOK, RowLocks, NEW w \in Worker, RunWorker(w)
  PROVE  /\ \A r \in Run : RunMove(r)
         /\ \A c \in Campaign : CampaignMove(c)
<1>a. /\ w \in Proc /\ camp \in [Campaign -> CampaignRec] /\ runStatus \in [Run -> RunStatus]
      /\ wk[w].pc /= "idle" => wk[w].at \in Run /\ wk[w].at[1] \in Campaign
  BY RunParts DEF TypeOK, Proc
<1>1. CASE StartRunOpens(w)
  <2> DEFINE r == wk[w].at
  <2>1. /\ runStatus' = [runStatus EXCEPT ![r] = "expanding"] /\ runStatus[r] = "none"
        /\ r \in Run /\ r[1] \in Campaign /\ camp[r[1]].status \in {"scheduled", "running"}
    BY <1>1, <1>a DEF StartRunOpens, RowLocks, StatusOf
  <2>2. PICK next : camp' = [camp EXCEPT ![r[1]].status = "running", ![r[1]].next = camp[r[1]].recurring /\ next]
    BY <1>1 DEF StartRunOpens
  <2>3. camp'[r[1]].status = "running" /\ \A c \in Campaign \ {r[1]} : camp'[c] = camp[c]
    BY <1>a, <2>1, <2>2 DEF CampaignRec
  <2> HIDE DEF r
  <2>4. \A q \in Run : RunMove(q)
    BY <1>a, <2>1, <2>3 DEF RunMove
  <2>5. \A c \in Campaign : CampaignMove(c)
    BY <2>1, <2>3 DEF CampaignMove, FinalCampaign
  <2> QED BY <2>4, <2>5
<1>2. CASE ExpansionDone(w)
  BY <1>2, <1>a DEF ExpansionDone, RunMove, CampaignMove, ActiveRun
<1>3. CASE FailRun(w)
  <2> DEFINE r == wk[w].at
  <2>1. /\ r \in Run /\ r[1] \in Campaign
        /\ runStatus' = IF runStatus[r] \in ActiveRun THEN [runStatus EXCEPT ![r] = "failed"] ELSE runStatus
        /\ camp' = IF camp[r[1]].status \notin {"cancelled", "done"}
                   THEN [camp EXCEPT ![r[1]].status = "failed", ![r[1]].next = FALSE] ELSE camp
    BY <1>3, <1>a DEF FailRun
  <2> HIDE DEF r
  <2>2. /\ camp'[r[1]].status = "failed" \/ camp' = camp
        /\ camp[r[1]].status \in {"cancelled", "done"} => camp' = camp
        /\ \A c \in Campaign \ {r[1]} : camp'[c] = camp[c]
    BY <1>a, <2>1 DEF CampaignRec
  <2>3. \A q \in Run : RunMove(q)
    BY <1>a, <2>1 DEF RunMove
  <2>4. \A c \in Campaign : CampaignMove(c)
    BY <2>1, <2>2 DEF CampaignMove, FinalCampaign
  <2> QED BY <2>3, <2>4
<1>4. CASE ~(StartRunOpens(w) \/ ExpansionDone(w) \/ FailRun(w))
  <2>1. UNCHANGED <<camp, runStatus>>
    BY <1>4 DEF RunWorker, TakeRun, StartRunStops, StartRunResumes, StartRunWaits, StartRunAdmits,
       ResolveAudience, InsertChunk, ExpansionOvertaken
  <2> QED BY <2>1 DEF RunMove, CampaignMove
<1> QED BY <1>1, <1>2, <1>3, <1>4

LEMMA FinishMoves ==
  ASSUME TypeOK, RowLocks, NEW p \in Proc, Finish(p)
  PROVE  /\ \A r \in Run : RunMove(r)
         /\ \A c \in Campaign : CampaignMove(c)
<1>a. /\ camp \in [Campaign -> CampaignRec] /\ runStatus \in [Run -> RunStatus]
      /\ wk[p].pc /= "idle" => wk[p].at \in Run /\ wk[p].at[1] \in Campaign
  BY RunParts DEF TypeOK
<1>1. CASE FinishCommits(p)
  <2>1. PICK r \in Run : r = wk[p].at
    BY <1>1, <1>a DEF FinishCommits
  <2>2. /\ runStatus' = [runStatus EXCEPT ![r] = "done"] /\ recip' = recip /\ r[1] \in Campaign
        /\ runStatus[r] = "sending" /\ wk[p].pc = "closing"
    BY <1>1, <1>a, <2>1, OthersHold DEF FinishCommits
  <2>3. \/ camp' = camp
        \/ /\ camp[r[1]].status = "running"
           /\ camp' = [camp EXCEPT ![r[1]].status = IF camp[r[1]].next THEN "scheduled" ELSE "done"]
    BY <1>1, <2>1 DEF FinishCommits
  <2>4. \A q \in Run : RunMove(q)
    BY <1>a, <2>1, <2>2 DEF RunMove
  <2>5. ASSUME NEW c \in Campaign PROVE CampaignMove(c)
    <3>1. CASE camp' = camp \/ c /= r[1]
      BY <1>a, <2>3, <3>1 DEF CampaignMove
    <3>2. CASE camp' /= camp /\ c = r[1]
      <4>1. camp[c].status = "running" /\ camp'[c].status \in {"scheduled", "done"}
        BY <1>a, <2>2, <2>3, <3>2 DEF CampaignRec
      <4> QED BY <4>1 DEF CampaignMove, FinalCampaign
    <3> QED BY <3>1, <3>2
  <2> QED BY <2>4, <2>5
<1>2. CASE ~FinishCommits(p)
  <2>1. UNCHANGED <<camp, runStatus>>
    BY <1>2 DEF Finish, FinishMarks, FinishSkips
  <2> QED BY <2>1 DEF RunMove, CampaignMove
<1> QED BY <1>1, <1>2

LEMMA StatusMoves ==
  ASSUME TypeOK, RowLocks, [Next]_vars
  PROVE  /\ \A r \in Run : RunMove(r)
         /\ \A c \in Campaign : CampaignMove(c)
<1>1. CASE UNCHANGED <<camp, runStatus>>
  BY <1>1 DEF RunMove, CampaignMove
<1>2. ASSUME NEW w \in Worker, BatchWorker(w) PROVE UNCHANGED <<camp, runStatus>>
  BY <1>2 DEF BatchWorker, TakeBatch, BatchStops, BatchBegins, FillPage, DecideTaken, DecideSettles,
     DecideDefers, DecideThrows, CountAttempt, BatchRequeues, BatchHalts
<1>3. ASSUME NEW s \in Sweeper, Sweep(s) PROVE UNCHANGED <<camp, runStatus>>
  BY <1>3 DEF Sweep, SweepFinds, SweepResumesExpansion, SweepEnqueuesBatch, SweepLooks
<1>4. ASSUME NEW r \in Run, NEW k \in Contact, WindowOpens(r, k) PROVE UNCHANGED <<camp, runStatus>>
  BY <1>4 DEF WindowOpens
<1>5. CASE Fault
  BY <1>1, <1>5 DEF Fault, Crash, JobExpires, ExpansionThrows
<1> QED BY <1>1, <1>2, <1>3, <1>4, <1>5, ApiMoves, RunWorkerMoves, FinishMoves DEF Next, vars

(* A finished, cancelled or failed run or campaign stays so, though the    *)
(* workers act on a status they read earlier.                              *)
THEOREM EndFinal == Spec => EndIsFinal
<1>1. TypeOK /\ RowLocks /\ [Next]_vars =>
        [/\ \A r \in Run : runStatus[r] \in FinalRun => runStatus'[r] = runStatus[r]
         /\ \A c \in Campaign : camp[c].status \in FinalCampaign => camp'[c].status = camp[c].status]_vars
  BY StatusMoves DEF RunMove, CampaignMove, FinalRun, ActiveRun
<1> QED BY <1>1, TypeCorrect, RowLocksInv, PTL DEF Spec, EndIsFinal

(* A cancelled campaign has no run at work, not even one that was being    *)
(* opened while the cancel came.                                           *)
THEOREM CancelQuiet == Spec => []CancelledIsQuiet
<1>1. Init => CancelledIsQuiet
  BY DEF Init, CancelledIsQuiet, ActiveRuns, RunsOf, Run, ActiveRun
<1>2. TypeOK /\ RowLocks /\ CancelledIsQuiet /\ [Next]_vars => CancelledIsQuiet'
  <2> SUFFICES ASSUME TypeOK, RowLocks, CancelledIsQuiet, [Next]_vars,
                      NEW c \in Campaign, camp'[c].status = "cancelled"
               PROVE  ActiveRuns(c)' = {}
    BY DEF CancelledIsQuiet
  <2>1. CASE camp[c].status = "cancelled"
    <3>1. ASSUME NEW r \in RunsOf(c) PROVE runStatus'[r] \notin ActiveRun
      <4>1. r \in Run /\ r[1] = c
        BY DEF RunsOf, Run
      <4>2. runStatus[r] \notin ActiveRun
        BY <2>1 DEF CancelledIsQuiet, ActiveRuns
      <4>3. RunMove(r)
        BY <4>1, StatusMoves
      <4> QED BY <4>1, <4>2, <4>3 DEF RunMove, ActiveRun
    <3> QED BY <3>1 DEF ActiveRuns, RunsOf
  <2>2. CASE camp[c].status /= "cancelled"
    BY <2>2, StatusMoves DEF CampaignMove
  <2> QED BY <2>1, <2>2
<1> QED BY <1>1, <1>2, TypeCorrect, RowLocksInv, PTL DEF Spec

---------------------------------------------------------------------------
(* What becomes of a recipient. Of the engine's steps only four kinds      *)
(* touch a recipient (RecipientStep); that a message is accepted exactly   *)
(* once, that the counts match and that an outcome is final are proved     *)
(* from those four.                                                        *)

(* The four kinds of step. *)
Widening(r, S) ==
  /\ recip' = [recip EXCEPT ![r] = [k \in Contact |->
                 IF k \in S /\ @[k] = "none" THEN "ready" ELSE @[k]]]
  /\ UNCHANGED <<tally, messages>>

Deciding(r, k, outcome) ==
  /\ recip[r][k] \in Pending
  /\ recip' = [recip EXCEPT ![r][k] = outcome]
  /\ tally' = [tally EXCEPT ![r][outcome] = @ + 1]
  /\ messages' = IF outcome = "queued" THEN [messages EXCEPT ![r][k] = @ + 1] ELSE messages

Shifting(r, k, state) ==
  /\ recip[r][k] \in Pending /\ state \in Pending
  /\ recip' = [recip EXCEPT ![r][k] = state]
  /\ UNCHANGED <<tally, messages>>

Cancelling(c) ==
  /\ recip' = [r \in Run |-> [k \in Contact |->
                 IF r \in ActiveRuns(c) /\ k \in PendingOf(r) THEN "skipped" ELSE recip[r][k]]]
  /\ tally' = [r \in Run |-> [o \in Settled |->
                 IF r \in ActiveRuns(c) /\ o = "skipped"
                 THEN tally[r][o] + Cardinality(PendingOf(r)) ELSE tally[r][o]]]
  /\ UNCHANGED messages

BatchStep ==
  \/ UNCHANGED <<recip, tally, messages>>
  \/ \E r \in Run, k \in Contact, outcome \in Settled : Deciding(r, k, outcome)
  \/ \E r \in Run, k \in Contact, state \in Pending : Shifting(r, k, state)

RecipientStep ==
  \/ BatchStep
  \/ \E r \in Run : \E S \in SUBSET Contact : Widening(r, S)
  \/ \E c \in Campaign : Cancelling(c)

LEMMA RunWorkerSteps ==
  ASSUME TypeOK, NEW w \in Worker, RunWorker(w)
  PROVE  RecipientStep
<1>a. w \in Proc /\ wk[w] \in WorkerRec /\ (wk[w].pc /= "idle" => wk[w].at \in Run)
  BY DEF TypeOK, Proc
<1>1. CASE InsertChunk(w)
  <2> DEFINE chunk == FirstOf(wk[w].page, ExpansionChunk)
  <2>1. wk[w].at \in Run /\ Widening(wk[w].at, chunk)
    BY <1>1, <1>a DEF InsertChunk, Widening
  <2>2. chunk \in SUBSET Contact
    BY <1>a DEF FirstOf, WorkerRec
  <2> QED BY <2>1, <2>2 DEF RecipientStep, BatchStep
<1>2. CASE ~InsertChunk(w)
  <2>1. UNCHANGED <<recip, tally, messages>>
    BY <1>2 DEF RunWorker, TakeRun, StartRunStops, StartRunResumes, StartRunWaits, StartRunAdmits,
       StartRunOpens, ResolveAudience, ExpansionDone, ExpansionOvertaken, FailRun
  <2> QED BY <2>1 DEF RecipientStep, BatchStep
<1> QED BY <1>1, <1>2

LEMMA BatchWorkerSteps ==
  ASSUME TypeOK, NEW w \in Worker, BatchWorker(w)
  PROVE  BatchStep
<1>a. w \in Proc /\ wk[w] \in WorkerRec /\ (wk[w].pc /= "idle" => wk[w].at \in Run)
  BY DEF TypeOK, Proc
<1>b. \A k \in HeadOf(wk[w].page) : k \in Contact
  BY <1>a DEF HeadOf, WorkerRec
<1>1. CASE DecideSettles(w)
  <2>1. PICK k \in HeadOf(wk[w].page), outcome \in Settled :
          /\ Ready(wk[w].at, k) /\ Settle(wk[w].at, k, outcome)
          /\ messages' = IF outcome = "queued" THEN [messages EXCEPT ![wk[w].at][k] = @ + 1] ELSE messages
    BY <1>1 DEF DecideSettles
  <2>2. Deciding(wk[w].at, k, outcome)
    BY <2>1 DEF Deciding, Ready, Settle, Pending
  <2>3. wk[w].at \in Run
    BY <1>1, <1>a DEF DecideSettles
  <2> QED BY <1>b, <2>2, <2>3 DEF BatchStep
<1>2. CASE DecideDefers(w)
  <2>1. PICK k \in HeadOf(wk[w].page) :
          Ready(wk[w].at, k) /\ recip' = [recip EXCEPT ![wk[w].at][k] = "deferred"]
    BY <1>2 DEF DecideDefers
  <2>2. Shifting(wk[w].at, k, "deferred") /\ wk[w].at \in Run /\ "deferred" \in Pending
    BY <1>2, <1>a, <2>1 DEF DecideDefers, Shifting, Ready, Pending
  <2> QED BY <1>b, <2>2 DEF BatchStep
<1>3. CASE CountAttempt(w)
  <2>1. PICK k \in HeadOf(wk[w].page) :
          \/ recip[wk[w].at][k] \in Pending /\ Settle(wk[w].at, k, "skipped")
          \/ UNCHANGED <<recip, tally>>
    BY <1>3 DEF CountAttempt
  <2>2. UNCHANGED messages /\ wk[w].at \in Run /\ "skipped" \in Settled
    BY <1>3, <1>a DEF CountAttempt, Settled
  <2>3. CASE recip[wk[w].at][k] \in Pending /\ Settle(wk[w].at, k, "skipped")
    <3>1. Deciding(wk[w].at, k, "skipped")
      BY <2>2, <2>3 DEF Deciding, Settle
    <3> QED BY <1>b, <2>2, <3>1 DEF BatchStep
  <2>4. CASE UNCHANGED <<recip, tally>>
    BY <2>2, <2>4 DEF BatchStep
  <2> QED BY <2>1, <2>3, <2>4
<1>4. CASE ~(DecideSettles(w) \/ DecideDefers(w) \/ CountAttempt(w))
  <2>1. UNCHANGED <<recip, tally, messages>>
    BY <1>4 DEF BatchWorker, TakeBatch, BatchStops, BatchBegins, FillPage, DecideTaken, DecideThrows,
       BatchRequeues, BatchHalts
  <2> QED BY <2>1 DEF BatchStep
<1> QED BY <1>1, <1>2, <1>3, <1>4

LEMMA RecipientSteps ==
  ASSUME TypeOK, [Next]_vars
  PROVE  RecipientStep
<1>1. ASSUME NEW c \in Campaign, Api(c) PROVE RecipientStep
  <2>1. CASE CancelCampaign(c)
    BY <2>1 DEF CancelCampaign, Cancelling, RecipientStep, BatchStep
  <2>2. CASE ~CancelCampaign(c)
    <3>1. UNCHANGED <<recip, tally, messages>>
      BY <1>1, <2>2 DEF Api, CreateCampaign, DuplicateCampaign, NewDraft, PatchDraft, PatchPaused, ScheduleCampaign, UnscheduleCampaign,
         PauseCampaign, ResumeActive, ResumeBetween
    <3> QED BY <3>1 DEF RecipientStep, BatchStep
  <2> QED BY <2>1, <2>2
<1>2. ASSUME NEW s \in Sweeper, Sweep(s) PROVE RecipientStep
  BY <1>2 DEF Sweep, SweepFinds, SweepResumesExpansion, SweepEnqueuesBatch, SweepLooks, RecipientStep, BatchStep
<1>3. ASSUME NEW p \in Proc, Finish(p) PROVE RecipientStep
  BY <1>3 DEF Finish, FinishMarks, FinishSkips, FinishCommits, RecipientStep, BatchStep
<1>4. ASSUME NEW r \in Run, NEW k \in Contact, WindowOpens(r, k) PROVE RecipientStep
  <2>1. Shifting(r, k, "ready") /\ "ready" \in Pending
    BY <1>4 DEF WindowOpens, Shifting, Pending
  <2> QED BY <2>1 DEF RecipientStep, BatchStep
<1>5. CASE Fault
  BY <1>5 DEF Fault, Crash, JobExpires, ExpansionThrows, RecipientStep, BatchStep
<1>6. CASE UNCHANGED vars
  BY <1>6 DEF vars, RecipientStep, BatchStep
<1> QED BY <1>1, <1>2, <1>3, <1>4, <1>5, <1>6, RunWorkerSteps, BatchWorkerSteps DEF Next, RecipientStep

LEMMA OutcomeKept ==
  ASSUME TypeOK, RecipientStep, NEW r \in Run, NEW k \in Contact, recip[r][k] \in Settled
  PROVE  recip'[r][k] = recip[r][k]
<1>a. recip \in [Run -> [Contact -> RecipientState]]
  BY DEF TypeOK
<1>b. recip[r][k] /= "none" /\ recip[r][k] \notin Pending
  BY DEF Settled, Pending
<1>1. ASSUME NEW q \in Run, NEW S \in SUBSET Contact, Widening(q, S)
      PROVE  recip'[r][k] = recip[r][k]
  BY <1>1, <1>a, <1>b DEF Widening
<1>2. ASSUME NEW q \in Run, NEW j \in Contact, NEW state,
             recip[q][j] \in Pending, recip' = [recip EXCEPT ![q][j] = state]
      PROVE  recip'[r][k] = recip[r][k]
  BY <1>2, <1>a, <1>b
<1>3. ASSUME NEW c \in Campaign, Cancelling(c)
      PROVE  recip'[r][k] = recip[r][k]
  BY <1>3, <1>b DEF Cancelling, PendingOf
<1> QED BY <1>1, <1>2, <1>3 DEF RecipientStep, BatchStep, Deciding, Shifting

(* Whom the sweep saw decided when it looked at a run stays decided, and   *)
(* the run is never back before its hand-over.                             *)
LEMMA SweepSeesKept ==
  ASSUME TypeOK, SweepSees, [Next]_vars, \A r \in Run : RunMove(r), RecipientStep,
         NEW s \in Sweeper, wk'[s].pc \in {"looked", "closing"}, wk'[s] = wk[s]
  PROVE  /\ runStatus'[wk'[s].at] \notin {"none", "expanding"}
         /\ \A k \in wk'[s].page : recip'[wk'[s].at][k] \in Settled
<1>1. wk[s].at \in Run /\ wk[s].page \subseteq Contact
  BY DEF TypeOK, Proc, WorkerRec
<1>2. /\ runStatus[wk[s].at] \notin {"none", "expanding"}
      /\ \A k \in wk[s].page : recip[wk[s].at][k] \in Settled
  BY DEF SweepSees
<1>3. runStatus'[wk[s].at] \notin {"none", "expanding"}
  BY <1>1, <1>2 DEF RunMove
<1>4. \A k \in wk[s].page : recip'[wk[s].at][k] \in Settled
  BY <1>1, <1>2, OutcomeKept
<1> QED BY <1>3, <1>4

(* A recipient's outcome never changes once settled: a batch that read it  *)
(* as ready, a repeated expansion, an error counted late and a cancel all  *)
(* leave it alone, however many there are.                                 *)
THEOREM OutcomeFinal == Spec => OutcomeIsFinal
<1>1. TypeOK /\ [Next]_vars =>
        [\A r \in Run, k \in Contact : recip[r][k] \in Settled => recip'[r][k] = recip[r][k]]_vars
  BY RecipientSteps, OutcomeKept
<1> QED BY <1>1, TypeCorrect, PTL DEF Spec, OutcomeIsFinal

LEMMA SweepSeesNext ==
  ASSUME TypeOK, RowLocks, SweepSees, [Next]_vars
  PROVE  SweepSees'
<1>a. /\ wk \in [Proc -> WorkerRec] /\ \A s \in Sweeper : s \in Proc /\ s \notin Worker
      /\ \A w \in Worker : w \in Proc
  BY ProcAssumption DEF TypeOK, Proc
<1>b. (\A r \in Run : RunMove(r)) /\ RecipientStep
  BY StatusMoves, RecipientSteps
<1>c. ASSUME NEW p \in Proc, \A q \in Proc \ {p} : wk'[q] = wk[q],
             p \in Sweeper => wk'[p].pc \notin {"looked", "closing"}
      PROVE  SweepSees'
  <2>1. ASSUME NEW s \in Sweeper, wk'[s].pc \in {"looked", "closing"}
        PROVE  /\ runStatus'[wk'[s].at] \notin {"none", "expanding"}
               /\ \A k \in wk'[s].page : recip'[wk'[s].at][k] \in Settled
    <3>1. wk'[s] = wk[s]
      BY <1>a, <1>c, <2>1
    <3> QED BY <1>b, <2>1, <3>1, SweepSeesKept
  <2> QED BY <2>1 DEF SweepSees
<1>d. ASSUME wk' = wk PROVE SweepSees'
  <2>1. ASSUME NEW s \in Sweeper, wk'[s].pc \in {"looked", "closing"}
        PROVE  /\ runStatus'[wk'[s].at] \notin {"none", "expanding"}
               /\ \A k \in wk'[s].page : recip'[wk'[s].at][k] \in Settled
    BY <1>b, <1>d, <2>1, SweepSeesKept
  <2> QED BY <2>1 DEF SweepSees
<1>e. ASSUME NEW s \in Sweeper, UNCHANGED <<runStatus, recip>>, \A q \in Proc \ {s} : wk'[q] = wk[q],
             runStatus[wk'[s].at] \notin {"none", "expanding"},
             \A k \in wk'[s].page : recip[wk'[s].at][k] \in Settled
      PROVE  SweepSees'
  <2>1. ASSUME NEW q \in Sweeper, wk'[q].pc \in {"looked", "closing"}
        PROVE  /\ runStatus'[wk'[q].at] \notin {"none", "expanding"}
               /\ \A k \in wk'[q].page : recip'[wk'[q].at][k] \in Settled
    <3>1. CASE q = s
      BY <1>e, <3>1
    <3>2. CASE q /= s
      <4>1. wk'[q] = wk[q]
        BY <1>a, <1>e, <3>2
      <4> QED BY <1>b, <2>1, <4>1, SweepSeesKept
    <3> QED BY <3>1, <3>2
  <2> QED BY <2>1 DEF SweepSees
<1>1. ASSUME NEW c \in Campaign, Api(c) PROVE SweepSees'
  BY <1>1, <1>d DEF Api, CreateCampaign, DuplicateCampaign, NewDraft, PatchDraft, PatchPaused, ScheduleCampaign,
     UnscheduleCampaign, PauseCampaign, ResumeActive, ResumeBetween, CancelCampaign
<1>2. ASSUME NEW w \in Worker, RunWorker(w) \/ BatchWorker(w) PROVE SweepSees'
  <2>1. w \in Proc /\ w \notin Sweeper /\ \A q \in Proc \ {w} : wk'[q] = wk[q]
    BY <1>a, <1>2, WorkerHands
  <2> QED BY <1>c, <2>1
<1>3. ASSUME NEW s \in Sweeper, Sweep(s) PROVE SweepSees'
  <2>1. CASE \E r \in Run : SweepFinds(s, r)
    <3>1. wk'[s].pc \notin {"looked", "closing"} /\ \A q \in Proc \ {s} : wk'[q] = wk[q]
      BY <1>a, <2>1 DEF SweepFinds, SweepPc, WorkerRec
    <3> QED BY <1>a, <1>c, <3>1
  <2>2. CASE SweepResumesExpansion(s) \/ SweepEnqueuesBatch(s)
    <3>1. wk'[s].pc \notin {"looked", "closing"} /\ \A q \in Proc \ {s} : wk'[q] = wk[q]
      BY <1>a, <2>2, Moves DEF SweepResumesExpansion, SweepEnqueuesBatch
    <3> QED BY <1>a, <1>c, <3>1
  <2>3. CASE SweepLooks(s)
    <3>1. /\ wk'[s].at = wk[s].at /\ wk'[s].page = SnapshotOf(wk[s].at) /\ wk[s].at \in Run
          /\ \A q \in Proc \ {s} : wk'[q] = wk[q]
          /\ UNCHANGED <<runStatus, recip>> /\ runStatus[wk[s].at] = "sending"
      BY <1>a, <2>3 DEF SweepLooks, MayFinish, WorkerRec, TypeOK
    <3>2. \A k \in SnapshotOf(wk[s].at) : recip[wk[s].at][k] \in Settled
      BY <2>3, <3>1 DEF SweepLooks, MayFinish, SnapshotOf, TypeOK, RecipientState, Pending, Settled
    <3> QED BY <1>e, <3>1, <3>2
  <2> QED BY <1>3, <2>1, <2>2, <2>3 DEF Sweep
<1>4. ASSUME NEW p \in Proc, Finish(p) PROVE SweepSees'
  <2>1. CASE FinishMarks(p)
    <3>1. /\ wk'[p].at = wk[p].at /\ wk'[p].page = wk[p].page
          /\ \A q \in Proc \ {p} : wk'[q] = wk[q]
          /\ UNCHANGED <<runStatus, recip>>
          /\ p \notin Sweeper \/ wk[p].pc = "looked"
      BY <1>a, <2>1 DEF FinishMarks, WorkerRec
    <3>2. CASE p \notin Sweeper
      BY <1>c, <3>1, <3>2
    <3>3. CASE p \in Sweeper
      BY <1>e, <3>1, <3>3 DEF SweepSees
    <3> QED BY <3>2, <3>3
  <2>2. CASE FinishSkips(p) \/ FinishCommits(p)
    BY <1>c, <2>2, Moves DEF FinishSkips, FinishCommits
  <2> QED BY <1>4, <2>1, <2>2 DEF Finish
<1>5. ASSUME NEW r \in Run, NEW k \in Contact, WindowOpens(r, k) PROVE SweepSees'
  BY <1>5, <1>d DEF WindowOpens
<1>6. CASE Fault
  <2>1. ASSUME NEW p \in Proc, Crash(p) PROVE SweepSees'
    BY <1>c, <2>1, Moves DEF Crash
  <2>2. ASSUME NEW w \in Worker, JobExpires(w) PROVE SweepSees'
    BY <1>d, <2>2 DEF JobExpires
  <2>3. ASSUME NEW w \in Worker, ExpansionThrows(w) PROVE SweepSees'
    <3>1. w \in Proc /\ w \notin Sweeper /\ \A q \in Proc \ {w} : wk'[q] = wk[q]
      BY <1>a, <2>3 DEF ExpansionThrows
    <3> QED BY <1>c, <3>1
  <2> QED BY <1>6, <2>1, <2>2, <2>3 DEF Fault
<1>7. CASE UNCHANGED vars
  BY <1>7, <1>d DEF vars
<1> QED BY <1>1, <1>2, <1>3, <1>4, <1>5, <1>6, <1>7 DEF Next

LEMMA SweepSeesInv == Spec => []SweepSees
<1>1. Init => SweepSees
  BY DEF Init, SweepSees, IdleWorker, Proc
<1>2. TypeOK /\ RowLocks /\ SweepSees /\ [Next]_vars => SweepSees'
  BY SweepSeesNext
<1> QED BY <1>1, <1>2, TypeCorrect, RowLocksInv, PTL DEF Spec

(* While a run is being opened or finished, what its transaction read      *)
(* under a row lock stays true to its commit (startRun, and finishRun from *)
(* a batch), and whom the sweep saw decided when it looked, without a      *)
(* lock, still is (finishRun from sweepRuns): for every number of workers  *)
(* and sweeps and whatever faults occur.                                   *)
THEOREM LocksSafe == Spec => []LocksHold
BY RowLocksInv, SweepSeesInv, PTL DEF LocksHold

(* A run a batch marks done has nobody in it pending, and one the sweep    *)
(* marks done only somebody written down since the sweep looked.           *)
THEOREM DoneDecided == Spec => DoneMeansDecided
<1>1. TypeOK /\ RowLocks /\ SweepSees /\ [Next]_vars =>
        [\A r \in Run : runStatus[r] /= "done" /\ runStatus'[r] = "done" =>
           \E p \in Proc : /\ wk[p].pc = "closing" /\ wk[p].at = r
                           /\ PendingOf(r)' \subseteq Unseen(p)]_vars
  <2>1. ASSUME TypeOK, RowLocks, SweepSees, [Next]_vars,
               NEW r \in Run, runStatus[r] /= "done", runStatus'[r] = "done"
        PROVE  \E p \in Proc : /\ wk[p].pc = "closing" /\ wk[p].at = r
                               /\ PendingOf(r)' \subseteq Unseen(p)
    <3>1. RunMove(r)
      BY <2>1, StatusMoves
    <3>2. PICK p \in Proc : recip' = recip /\ wk[p].pc = "closing" /\ wk[p].at = r
      BY <2>1, <3>1 DEF RunMove
    <3>3. PendingOf(r)' = PendingOf(r)
      BY <3>2 DEF PendingOf
    <3>4. CASE p \in Worker
      BY <2>1, <3>2, <3>3, <3>4, OthersHold DEF PendingOf, Unseen
    <3>5. CASE p \notin Worker
      <4>1. p \in Sweeper
        BY <3>5 DEF Proc
      <4>2. \A k \in wk[p].page : recip[r][k] \in Settled
        BY <2>1, <3>2, <4>1 DEF SweepSees
      <4>3. PendingOf(r) \subseteq Contact \ wk[p].page
        BY <4>2 DEF PendingOf, Pending, Settled
      <4> QED BY <3>2, <3>3, <3>5, <4>3 DEF Unseen
    <3> QED BY <3>4, <3>5
  <2> QED BY <2>1
<1> QED BY <1>1, TypeCorrect, RowLocksInv, SweepSeesInv, PTL DEF Spec, DoneMeansDecided

LEMMA SentOnceKept ==
  ASSUME TypeOK, SentOnce, RecipientStep
  PROVE  SentOnce'
<1>a. /\ recip \in [Run -> [Contact -> RecipientState]] /\ messages \in [Run -> [Contact -> Nat]]
      /\ \A r \in Run, k \in Contact : messages[r][k] = (IF recip[r][k] = "queued" THEN 1 ELSE 0)
  BY DEF TypeOK, SentOnce
<1>1. ASSUME NEW r \in Run, NEW S \in SUBSET Contact, Widening(r, S) PROVE SentOnce'
  BY <1>1, <1>a DEF Widening, SentOnce
<1>2. ASSUME NEW r \in Run, NEW k \in Contact, NEW outcome \in Settled, Deciding(r, k, outcome) PROVE SentOnce'
  <2>1. recip[r][k] /= "queued" /\ messages[r][k] = 0
    BY <1>2, <1>a DEF Deciding, Pending
  <2>2. CASE outcome = "queued"
    BY <1>2, <1>a, <2>1, <2>2 DEF Deciding, SentOnce
  <2>3. CASE outcome /= "queued"
    BY <1>2, <1>a, <2>1, <2>3 DEF Deciding, SentOnce
  <2> QED BY <2>2, <2>3
<1>3. ASSUME NEW r \in Run, NEW k \in Contact, NEW state \in Pending, Shifting(r, k, state) PROVE SentOnce'
  BY <1>3, <1>a DEF Shifting, Pending, SentOnce
<1>4. ASSUME NEW c \in Campaign, Cancelling(c) PROVE SentOnce'
  BY <1>4, <1>a DEF Cancelling, PendingOf, Pending, SentOnce
<1>5. CASE UNCHANGED <<recip, tally, messages>>
  BY <1>5 DEF SentOnce
<1> QED BY <1>1, <1>2, <1>3, <1>4, <1>5 DEF RecipientStep, BatchStep

(* A recipient has one message exactly when it is queued, for any number   *)
(* of overlapping, dying and repeated batches.                             *)
THEOREM SentOnceSafe == Spec => []SentOnce
<1>1. Init => SentOnce
  BY DEF Init, SentOnce
<1>2. TypeOK /\ SentOnce /\ [Next]_vars => SentOnce'
  BY RecipientSteps, SentOnceKept
<1> QED BY <1>1, <1>2, TypeCorrect, PTL DEF Spec

(* The recipients of r in state o.                                         *)
Those(r, o) == {k \in Contact : recip[r][k] = o}

LEMMA TallyDecides ==
  ASSUME TypeOK, TallyMatches, NEW r \in Run, NEW k \in Contact, NEW outcome \in Settled,
         Deciding(r, k, outcome)
  PROVE  TallyMatches'
<1>a. /\ recip \in [Run -> [Contact -> RecipientState]] /\ tally \in [Run -> [Settled -> Nat]]
      /\ \A q \in Run, o \in Settled : tally[q][o] = Cardinality(Those(q, o))
  BY DEF TypeOK, TallyMatches, Those
<1>b. recip' = [recip EXCEPT ![r][k] = outcome] /\ tally' = [tally EXCEPT ![r][outcome] = @ + 1]
  BY DEF Deciding
<1>1. ASSUME NEW q \in Run, NEW o \in Settled
      PROVE  tally'[q][o] = Cardinality(Those(q, o)')
  <2>1. CASE q = r /\ o = outcome
    <3>1. Those(r, outcome)' = Those(r, outcome) \cup {k}
      BY <1>a, <1>b DEF Those
    <3>2. k \notin Those(r, outcome)
      BY DEF Those, Deciding, Pending, Settled
    <3>3. Those(r, outcome) \in SUBSET Contact
      BY DEF Those
    <3>4. Cardinality(Those(r, outcome) \cup {k}) = Cardinality(Those(r, outcome)) + 1
      BY <3>2, <3>3, ContactSets, FS_AddElement
    <3>5. tally'[r][outcome] = tally[r][outcome] + 1
      BY <1>a, <1>b
    <3> QED BY <1>a, <2>1, <3>1, <3>4, <3>5
  <2>2. CASE ~(q = r /\ o = outcome)
    <3>1. Those(q, o)' = Those(q, o)
      <4>1. \A j \in Contact : recip'[q][j] = IF q = r /\ j = k THEN outcome ELSE recip[q][j]
        BY <1>a, <1>b
      <4>2. recip[r][k] /= o
        BY DEF Deciding, Pending, Settled
      <4> QED BY <2>2, <4>1, <4>2 DEF Those
    <3>2. tally'[q][o] = tally[q][o]
      BY <1>a, <1>b, <2>2
    <3> QED BY <1>a, <3>1, <3>2
  <2> QED BY <2>1, <2>2
<1> QED BY <1>1 DEF TallyMatches, Those

LEMMA TallyCancels ==
  ASSUME TypeOK, TallyMatches, NEW c \in Campaign, Cancelling(c)
  PROVE  TallyMatches'
<1>a. \A q \in Run, o \in Settled : tally[q][o] \in Nat /\ tally[q][o] = Cardinality(Those(q, o))
  BY DEF TypeOK, TallyMatches, Those
<1>b. /\ \A q \in Run, j \in Contact : recip'[q][j] =
           IF q \in ActiveRuns(c) /\ j \in PendingOf(q) THEN "skipped" ELSE recip[q][j]
      /\ \A q \in Run, o \in Settled : tally'[q][o] =
           IF q \in ActiveRuns(c) /\ o = "skipped" THEN tally[q][o] + Cardinality(PendingOf(q)) ELSE tally[q][o]
  BY DEF Cancelling
<1>1. ASSUME NEW q \in Run, NEW o \in Settled
      PROVE  tally'[q][o] = Cardinality(Those(q, o)')
  <2>1. CASE q \in ActiveRuns(c) /\ o = "skipped"
    <3>1. Those(q, o)' = Those(q, o) \cup PendingOf(q)
      BY <1>b, <2>1 DEF Those, PendingOf
    <3>2. Those(q, o) \cap PendingOf(q) = {}
      BY <2>1 DEF Those, PendingOf, Pending
    <3>3. Those(q, o) \in SUBSET Contact /\ PendingOf(q) \in SUBSET Contact
      BY DEF Those, PendingOf
    <3>4. /\ IsFiniteSet(Those(q, o)) /\ Cardinality(Those(q, o)) \in Nat
          /\ IsFiniteSet(PendingOf(q)) /\ Cardinality(PendingOf(q)) \in Nat
      BY <3>3, ContactSets
    <3>5. Cardinality(Those(q, o) \cap PendingOf(q)) = 0
      BY <3>2, FS_EmptySet
    <3>6. Cardinality(Those(q, o) \cup PendingOf(q)) = Cardinality(Those(q, o)) + Cardinality(PendingOf(q))
      <4> DEFINE A == Those(q, o)
                 B == PendingOf(q)
      <4>1. IsFiniteSet(A) /\ IsFiniteSet(B)
        BY <3>4
      <4> HIDE DEF A, B
      <4>2. Cardinality(A \cup B) = Cardinality(A) + Cardinality(B) - Cardinality(A \cap B)
        BY <4>1, FS_Union
      <4> QED BY <3>4, <3>5, <4>2 DEF A, B
    <3>7. tally'[q][o] = tally[q][o] + Cardinality(PendingOf(q))
      BY <1>b, <2>1
    <3> QED BY <1>a, <3>1, <3>6, <3>7
  <2>2. CASE ~(q \in ActiveRuns(c) /\ o = "skipped")
    <3>1. Those(q, o)' = Those(q, o)
      BY <1>b, <2>2 DEF Those, PendingOf, Pending, Settled
    <3> QED BY <1>a, <1>b, <2>2, <3>1
  <2> QED BY <2>1, <2>2
<1> QED BY <1>1 DEF TallyMatches, Those

LEMMA TallyKept ==
  ASSUME TypeOK, TallyMatches, RecipientStep
  PROVE  TallyMatches'
<1>a. /\ recip \in [Run -> [Contact -> RecipientState]]
      /\ \A q \in Run, o \in Settled : tally[q][o] = Cardinality(Those(q, o))
  BY DEF TypeOK, TallyMatches, Those
<1>b. ASSUME UNCHANGED tally, \A q \in Run, o \in Settled : Those(q, o)' = Those(q, o)
      PROVE  TallyMatches'
  <2>1. \A q \in Run, o \in Settled : tally'[q][o] = Cardinality(Those(q, o)')
    BY <1>a, <1>b
  <2> QED BY <2>1 DEF TallyMatches, Those
<1>1. ASSUME NEW r \in Run, NEW S \in SUBSET Contact, Widening(r, S) PROVE TallyMatches'
  <2>1. \A q \in Run, o \in Settled : Those(q, o)' = Those(q, o)
    BY <1>1, <1>a DEF Widening, Those, Settled
  <2> QED BY <1>1, <1>b, <2>1 DEF Widening
<1>2. ASSUME NEW r \in Run, NEW k \in Contact, NEW state \in Pending, Shifting(r, k, state) PROVE TallyMatches'
  <2>1. \A q \in Run, j \in Contact : recip'[q][j] = IF q = r /\ j = k THEN state ELSE recip[q][j]
    BY <1>2, <1>a DEF Shifting
  <2>2. \A o \in Settled : o /= state /\ recip[r][k] /= o
    BY <1>2 DEF Shifting, Pending, Settled
  <2>3. \A q \in Run, o \in Settled : Those(q, o)' = Those(q, o)
    BY <2>1, <2>2 DEF Those
  <2> QED BY <1>2, <1>b, <2>3 DEF Shifting
<1>3. CASE UNCHANGED <<recip, tally, messages>>
  BY <1>3 DEF TallyMatches
<1> QED BY <1>1, <1>2, <1>3, TallyDecides, TallyCancels DEF RecipientStep, BatchStep

(* A run's counts are the numbers of its recipients in each settled state, *)
(* whatever settled them.                                                  *)
THEOREM TallySafe == Spec => []TallyMatches
<1>1. Init => TallyMatches
  <2>1. ASSUME Init, NEW r \in Run, NEW o \in Settled PROVE Cardinality({k \in Contact : recip[r][k] = o}) = 0
    <3>1. {k \in Contact : recip[r][k] = o} = {}
      BY <2>1 DEF Init, Settled
    <3> QED BY <3>1, FS_EmptySet
  <2> QED BY <2>1 DEF Init, TallyMatches
<1>2. TypeOK /\ TallyMatches /\ [Next]_vars => TallyMatches'
  BY RecipientSteps, TallyKept
<1> QED BY <1>1, <1>2, TypeCorrect, PTL DEF Spec

---------------------------------------------------------------------------
(* The engine implements RunOutcomes.  Few steps are seen from there: the  *)
(* others leave every phase and every outcome as it was.                   *)

phases   == [r \in Run |-> Phase(r)]
outcomes == [r \in Run |-> [k \in Contact |-> IF recip[r][k] \in Pending THEN "pending" ELSE recip[r][k]]]

AbstractStep == Outcomes!Next \/ UNCHANGED Outcomes!vars

LEMMA Stutters ==
  ASSUME UNCHANGED messages, \A r \in Run : Phase(r)' = Phase(r),
         \A r \in Run, k \in Contact :
           recip'[r][k] = recip[r][k] \/ (recip[r][k] \in Pending /\ recip'[r][k] \in Pending)
  PROVE  AbstractStep
<1>1. phases' = phases /\ outcomes' = outcomes
  BY DEF phases, outcomes
<1> QED BY <1>1 DEF AbstractStep, Outcomes!vars, phases, outcomes

(* Who is finishing which run, as the steps of one process p change it.    *)
Ends(p) == wk[p].pc = "closing" \/ (p \in Sweeper /\ wk[p].pc = "looked")

LEMMA FinishingIs ==
  ASSUME NEW r
  PROVE  /\ Finishing(r)  <=> \E p \in Proc : Ends(p)  /\ wk[p].at = r
         /\ Finishing(r)' <=> \E p \in Proc : Ends(p)' /\ wk'[p].at = r
BY DEF Finishing, RunLocked, Ends, Proc

LEMMA FinishingMoves ==
  ASSUME NEW p \in Proc, \A q \in Proc \ {p} : wk'[q] = wk[q], NEW r
  PROVE  /\ ~Ends(p)' /\ (~Ends(p) \/ r /= wk[p].at) => (Finishing(r)' <=> Finishing(r))
         /\ Ends(p)' /\ wk'[p].at = wk[p].at => (Finishing(r)' <=> Finishing(r) \/ r = wk[p].at)
<1>1. \A q \in Proc \ {p} : (Ends(q)' <=> Ends(q)) /\ wk'[q].at = wk[q].at
  BY DEF Ends
<1> QED BY <1>1, FinishingIs

LEMMA PhaseSame ==
  ASSUME NEW r \in Run, runStatus'[r] = runStatus[r], Finishing(r)' <=> Finishing(r)
  PROVE  Phase(r)' = Phase(r)
BY DEF Phase

(* A step that moves no process.                                           *)
LEMMA StillStep ==
  ASSUME UNCHANGED <<runStatus, wk>>
  PROVE  \A r \in Run : Phase(r)' = Phase(r)
<1>1. \A r \in Run : Finishing(r)' <=> Finishing(r)
  BY FinishingIs DEF Ends
<1> QED BY <1>1, PhaseSame

(* A step of a process that does not finish a run, before or after.        *)
LEMMA HandStepPhase ==
  ASSUME UNCHANGED runStatus, NEW p \in Proc, \A q \in Proc \ {p} : wk'[q] = wk[q], ~Ends(p), ~Ends(p)'
  PROVE  \A r \in Run : Phase(r)' = Phase(r)
<1>1. \A r \in Run : Finishing(r)' <=> Finishing(r)
  BY FinishingMoves
<1> QED BY <1>1, PhaseSame

(* p takes up finishing its run, goes on with it, or drops it.             *)
LEMMA QuietStep ==
  ASSUME TypeOK, UNCHANGED <<runStatus, recip, messages>>,
         NEW p \in Proc, \A q \in Proc \ {p} : wk'[q] = wk[q],
         Ends(p)  => wk[p].at \in Run,
         Ends(p)' => /\ wk[p].at \in Run /\ wk'[p].at = wk[p].at
                     /\ Ends(p) \/ \A k \in Contact : recip[wk[p].at][k] \notin Pending
  PROVE  AbstractStep
<1>a. recip \in [Run -> [Contact -> RecipientState]] /\ runStatus \in [Run -> RunStatus]
  BY DEF TypeOK
<1>b. outcomes' = outcomes
  BY DEF outcomes
<1>1. CASE ~Ends(p) /\ ~Ends(p)'
  BY <1>1, HandStepPhase, Stutters
<1>2. CASE Ends(p) \/ Ends(p)'
  <2>0. PICK r \in Run : r = wk[p].at
    BY <1>2
  <2>1. \A q \in Run \ {r} : Phase(q)' = Phase(q)
    <3>1. \A q \in Run \ {r} : Finishing(q)' <=> Finishing(q)
      BY <2>0, FinishingMoves
    <3> QED BY <3>1, PhaseSame
  <2>2. CASE Phase(r)' = Phase(r)
    BY <2>1, <2>2, Stutters
  <2>3. CASE Phase(r)' /= Phase(r)
    <3>1. runStatus[r] = "sending" /\ ~(Finishing(r)' <=> Finishing(r))
      <4>1. ~(Finishing(r)' <=> Finishing(r))
        BY <2>3, PhaseSame
      <4> QED BY <2>3, <4>1 DEF Phase
    <3>2. CASE Ends(p)'
      <4>1. ~Finishing(r) /\ Finishing(r)' /\ ~Ends(p)
        BY <2>0, <3>1, <3>2, FinishingMoves, FinishingIs
      <4>2. phases[r] = "open" /\ phases' = [phases EXCEPT ![r] = "closing"]
        BY <2>1, <3>1, <4>1 DEF phases, Phase
      <4>3. \A k \in Contact : outcomes[r][k] /= "pending"
        BY <1>a, <2>0, <3>2, <4>1 DEF outcomes, RecipientState
      <4>4. Outcomes!Close(r)
        BY <1>b, <4>2, <4>3 DEF Outcomes!Close, phases, outcomes
      <4> QED BY <4>4 DEF AbstractStep, Outcomes!Next
    <3>3. CASE ~Ends(p)'
      <4>1. Finishing(r) /\ ~Finishing(r)'
        <5>1. Ends(p)
          BY <1>2, <3>3
        <5> QED BY <2>0, <3>1, <5>1, FinishingIs
      <4>2. phases[r] = "closing" /\ phases' = [phases EXCEPT ![r] = "open"]
        BY <2>1, <3>1, <4>1 DEF phases, Phase
      <4>3. Outcomes!Reopen(r)
        BY <1>b, <4>2 DEF Outcomes!Reopen, phases, outcomes
      <4> QED BY <4>3 DEF AbstractStep, Outcomes!Next
    <3> QED BY <3>2, <3>3
  <2> QED BY <2>2, <2>3
<1> QED BY <1>1, <1>2

LEMMA DecidingStep ==
  ASSUME TypeOK, SentOnce, \A q \in Run : Phase(q)' = Phase(q),
         NEW r \in Run, NEW k \in Contact, NEW outcome \in Settled, Deciding(r, k, outcome)
  PROVE  AbstractStep
<1>a. recip \in [Run -> [Contact -> RecipientState]] /\ messages \in [Run -> [Contact -> Nat]]
  BY DEF TypeOK
<1>1. phases' = phases
  BY DEF phases
<1>2. outcomes' = [outcomes EXCEPT ![r][k] = outcome]
  <2>1. recip' = [recip EXCEPT ![r][k] = outcome] /\ outcome \notin Pending
    BY DEF Deciding, Settled, Pending
  <2> QED BY <1>a, <2>1 DEF outcomes
<1>3. outcomes[r][k] = "pending"
  BY DEF outcomes, Deciding
<1>4. messages' = IF outcome = "queued" THEN [messages EXCEPT ![r][k] = 1] ELSE messages
  <2>1. messages[r][k] = 0
    BY DEF SentOnce, Deciding, Pending
  <2> QED BY <1>a, <2>1 DEF Deciding
<1>5. Outcomes!Decide(r, k, outcome)
  BY <1>1, <1>2, <1>3, <1>4 DEF Outcomes!Decide, phases, outcomes
<1> QED BY <1>5 DEF AbstractStep, Outcomes!Next, Settled

LEMMA WideningStep ==
  ASSUME TypeOK, \A q \in Run : Phase(q)' = Phase(q), NEW r \in Run, NEW S \in SUBSET Contact,
         runStatus[r] /= "none", Widening(r, S)
  PROVE  AbstractStep
<1>0. PICK added \in SUBSET Contact : added = {k \in S : recip[r][k] = "none"}
  OBVIOUS
<1>a. recip \in [Run -> [Contact -> RecipientState]]
  BY DEF TypeOK
<1>1. phases' = phases /\ phases[r] /= "none"
  <2>1. Phase(r) /= "none"
    BY DEF Phase
  <2> QED BY <2>1 DEF phases
<1>2. outcomes' = [outcomes EXCEPT ![r] = [k \in Contact |-> IF k \in added THEN "pending" ELSE @[k]]]
  <2>1. \A q \in Run, k \in Contact : recip'[q][k] =
          IF q = r /\ k \in S /\ recip[q][k] = "none" THEN "ready" ELSE recip[q][k]
    BY <1>a DEF Widening
  <2>2. \A q \in Run, k \in Contact : outcomes'[q][k] =
          IF q = r /\ k \in added THEN "pending" ELSE outcomes[q][k]
    BY <1>0, <2>1 DEF outcomes, Pending
  <2>3. /\ outcomes = [q \in Run |-> [k \in Contact |-> outcomes[q][k]]]
        /\ outcomes' = [q \in Run |-> [k \in Contact |-> outcomes'[q][k]]]
    BY DEF outcomes
  <2> QED BY <2>2, <2>3
<1>3. \A k \in added : outcomes[r][k] = "none"
  BY <1>0 DEF outcomes, Pending
<1>4. Outcomes!Snapshot(r, added)
  BY <1>1, <1>2, <1>3 DEF Outcomes!Snapshot, phases, outcomes, Widening
<1> QED BY <1>4 DEF AbstractStep, Outcomes!Next

LEMMA CancellingStep ==
  ASSUME TypeOK, NEW c \in Campaign, CancelCampaign(c)
  PROVE  AbstractStep
<1>0. PICK runs \in SUBSET Run : runs = ActiveRuns(c)
  BY DEF ActiveRuns, RunsOf, Run
<1>1. \A r \in runs : phases[r] \in {"open", "closing"}
  BY <1>0 DEF ActiveRuns, RunsOf, Run, phases, Phase, ActiveRun
<1>2. phases' = [r \in Run |-> IF r \in runs THEN "stopped" ELSE phases[r]]
  <2>1. \A r \in Run : Finishing(r)' <=> Finishing(r)
    BY FinishingIs DEF CancelCampaign, Ends
  <2>2. \A r \in Run : runStatus'[r] = IF r \in runs THEN "cancelled" ELSE runStatus[r]
    BY <1>0 DEF CancelCampaign
  <2>3. \A r \in Run \ runs : Phase(r)' = Phase(r)
    BY <2>1, <2>2, PhaseSame
  <2>4. \A r \in runs : Phase(r)' = "stopped"
    BY <2>2 DEF Phase
  <2> QED BY <2>3, <2>4 DEF phases
<1>3. outcomes' = [r \in Run |-> [k \in Contact |->
                     IF r \in runs /\ outcomes[r][k] = "pending" THEN "skipped" ELSE outcomes[r][k]]]
  <2>1. \A r \in Run, k \in Contact :
          /\ recip'[r][k] = IF r \in runs /\ recip[r][k] \in Pending THEN "skipped" ELSE recip[r][k]
          /\ outcomes[r][k] = IF recip[r][k] \in Pending THEN "pending" ELSE recip[r][k]
          /\ recip[r][k] /= "pending"
    <3>1. recip' = [r \in Run |-> [k \in Contact |->
                     IF r \in ActiveRuns(c) /\ k \in PendingOf(r) THEN "skipped" ELSE recip[r][k]]]
      BY DEF CancelCampaign
    <3>2. \A r \in Run, k \in Contact : recip[r][k] /= "pending"
      BY DEF TypeOK, RecipientState
    <3>3. \A r \in Run, k \in Contact : k \in PendingOf(r) <=> recip[r][k] \in Pending
      BY DEF PendingOf
    <3>4. \A r \in Run, k \in Contact :
            outcomes[r][k] = IF recip[r][k] \in Pending THEN "pending" ELSE recip[r][k]
      BY DEF outcomes
    <3> QED BY <1>0, <3>1, <3>2, <3>3, <3>4
  <2>2. \A r \in Run, k \in Contact : (IF recip'[r][k] \in Pending THEN "pending" ELSE recip'[r][k])
          = IF r \in runs /\ outcomes[r][k] = "pending" THEN "skipped" ELSE outcomes[r][k]
    BY <2>1 DEF Pending
  <2> QED BY <2>2 DEF outcomes
<1>4. Outcomes!Cancel(runs)
  BY <1>1, <1>2, <1>3 DEF Outcomes!Cancel, Outcomes!Active, phases, outcomes, CancelCampaign
<1> QED BY <1>4 DEF AbstractStep, Outcomes!Next

LEMMA StatusStep ==
  ASSUME TypeOK, UNCHANGED <<recip, messages>>, NEW r \in Run,
         \A q \in Run \ {r} : Finishing(q)' <=> Finishing(q),
         \/ runStatus[r] = "none" /\ runStatus' = [runStatus EXCEPT ![r] = "expanding"]
         \/ runStatus[r] \in ActiveRun /\ runStatus' = [runStatus EXCEPT ![r] = "failed"]
         \/ runStatus[r] = "sending" /\ Finishing(r) /\ runStatus' = [runStatus EXCEPT ![r] = "done"]
  PROVE  AbstractStep
<1>a. runStatus \in [Run -> RunStatus] /\ recip \in [Run -> [Contact -> RecipientState]]
  BY DEF TypeOK
<1>b. outcomes' = outcomes
  BY DEF outcomes
<1>c. \A q \in Run \ {r} : Phase(q)' = Phase(q)
  <2>1. \A q \in Run \ {r} : runStatus'[q] = runStatus[q]
    BY <1>a
  <2> QED BY <2>1, PhaseSame
<1>1. CASE runStatus[r] = "none" /\ runStatus' = [runStatus EXCEPT ![r] = "expanding"]
  <2>1. Phase(r) = "none" /\ Phase(r)' = "open"
    BY <1>a, <1>1 DEF Phase
  <2>2. Outcomes!Open(r)
    BY <1>b, <1>c, <2>1 DEF Outcomes!Open, phases, outcomes
  <2> QED BY <2>2 DEF AbstractStep, Outcomes!Next
<1>2. CASE runStatus[r] \in ActiveRun /\ runStatus' = [runStatus EXCEPT ![r] = "failed"]
  <2>1. Phase(r) \in {"open", "closing"} /\ Phase(r)' = "stopped"
    BY <1>a, <1>2 DEF Phase, ActiveRun
  <2>2. Outcomes!Fail(r)
    BY <1>b, <1>c, <2>1 DEF Outcomes!Fail, Outcomes!Active, phases, outcomes
  <2> QED BY <2>2 DEF AbstractStep, Outcomes!Next
<1>3. CASE runStatus[r] = "sending" /\ Finishing(r) /\ runStatus' = [runStatus EXCEPT ![r] = "done"]
  <2>1. Phase(r) = "closing" /\ Phase(r)' = "complete"
    BY <1>a, <1>3 DEF Phase
  <2>2. Outcomes!Complete(r)
    BY <1>b, <1>c, <2>1 DEF Outcomes!Complete, phases, outcomes
  <2> QED BY <2>2 DEF AbstractStep, Outcomes!Next
<1> QED BY <1>1, <1>2, <1>3

LEMMA NextImplements ==
  ASSUME TypeOK, RowLocks, SweepSees, SentOnce, [Next]_vars
  PROVE  AbstractStep
<1>a. /\ recip \in [Run -> [Contact -> RecipientState]] /\ runStatus \in [Run -> RunStatus]
      /\ wk \in [Proc -> WorkerRec]
      /\ \A p \in Proc : wk[p].pc /= "idle" => wk[p].at \in Run
      /\ Worker \subseteq Proc /\ Sweeper \subseteq Proc /\ Worker \cap Sweeper = {}
  BY ProcAssumption DEF TypeOK, Proc
<1>b. \A p \in Proc : Ends(p) => wk[p].at \in Run
  BY <1>a DEF Ends
<1>c. ASSUME UNCHANGED <<runStatus, recip, messages>>, NEW p \in Proc,
             \A q \in Proc \ {p} : wk'[q] = wk[q], ~Ends(p)'
      PROVE  AbstractStep
  BY <1>b, <1>c, QuietStep
<1>d. ASSUME NEW w \in Worker, RunWorker(w) \/ BatchWorker(w)
      PROVE  /\ w \in Proc /\ ~Ends(w) /\ ~Ends(w)' /\ \A q \in Proc \ {w} : wk'[q] = wk[q]
             /\ \A r \in Run : Finishing(r)' <=> Finishing(r)
  <2>1. w \in Proc /\ ~Ends(w) /\ ~Ends(w)' /\ \A q \in Proc \ {w} : wk'[q] = wk[q]
    BY <1>a, <1>d, WorkerHands DEF Ends
  <2> QED BY <2>1, FinishingMoves
<1>1. ASSUME NEW c \in Campaign, Api(c) PROVE AbstractStep
  <2>1. CASE ~CancelCampaign(c)
    <3>1. UNCHANGED <<runStatus, recip, messages, wk>>
      BY <1>1, <2>1 DEF Api, CreateCampaign, DuplicateCampaign, NewDraft, PatchDraft, PatchPaused, ScheduleCampaign, UnscheduleCampaign,
         PauseCampaign, ResumeActive, ResumeBetween
    <3> QED BY <3>1, StillStep, Stutters
  <2> QED BY <2>1, CancellingStep
<1>2. ASSUME NEW w \in Worker, RunWorker(w) PROVE AbstractStep
  <2>1. CASE StartRunOpens(w)
    <3>1. /\ wk[w].at \in Run /\ runStatus[wk[w].at] = "none"
          /\ runStatus' = [runStatus EXCEPT ![wk[w].at] = "expanding"] /\ UNCHANGED <<recip, messages>>
      BY <1>a, <2>1 DEF StartRunOpens, RowLocks
    <3> QED BY <1>2, <1>d, <3>1, StatusStep
  <2>2. CASE InsertChunk(w)
    <3> DEFINE chunk == FirstOf(wk[w].page, ExpansionChunk)
    <3>1. /\ wk[w].at \in Run /\ runStatus[wk[w].at] /= "none" /\ UNCHANGED runStatus
          /\ Widening(wk[w].at, chunk)
      BY <1>a, <2>2 DEF InsertChunk, Widening, RowLocks
    <3>2. chunk \in SUBSET Contact
      BY <1>a DEF FirstOf, WorkerRec
    <3>3. \A r \in Run : Phase(r)' = Phase(r)
      BY <1>2, <1>d, <3>1, PhaseSame
    <3> HIDE DEF chunk
    <3> QED BY <3>1, <3>2, <3>3, WideningStep
  <2>3. CASE ExpansionDone(w)
    <3>0. PICK r \in Run : r = wk[w].at
      BY <1>a, <2>3 DEF ExpansionDone
    <3>1. /\ runStatus[r] = "expanding" /\ runStatus' = [runStatus EXCEPT ![r] = "sending"]
          /\ UNCHANGED <<recip, messages>>
      BY <2>3, <3>0 DEF ExpansionDone
    <3>2. ~Finishing(r)
      BY <3>1, OthersHold DEF Finishing, RunLocked, SweepSees
    <3>3. Phase(r)' = "open" /\ Phase(r) = "open"
      BY <1>2, <1>a, <1>d, <3>1, <3>2 DEF Phase
    <3>4. \A q \in Run \ {r} : Phase(q)' = Phase(q)
      <4>1. \A q \in Run \ {r} : runStatus'[q] = runStatus[q]
        BY <1>a, <3>1
      <4> QED BY <1>2, <1>d, <4>1, PhaseSame
    <3> QED BY <3>1, <3>3, <3>4, Stutters
  <2>4. CASE FailRun(w)
    <3>1. /\ wk[w].at \in Run /\ UNCHANGED <<recip, messages>>
          /\ \/ runStatus' = runStatus
             \/ /\ runStatus[wk[w].at] \in ActiveRun
                /\ runStatus' = [runStatus EXCEPT ![wk[w].at] = "failed"]
      BY <1>a, <2>4 DEF FailRun
    <3> QED BY <1>2, <1>c, <1>d, <3>1, StatusStep
  <2>5. CASE ~(StartRunOpens(w) \/ InsertChunk(w) \/ ExpansionDone(w) \/ FailRun(w))
    <3>1. UNCHANGED <<runStatus, recip, messages>>
      BY <1>2, <2>5 DEF RunWorker, TakeRun, StartRunStops, StartRunResumes, StartRunWaits, StartRunAdmits,
         ResolveAudience, ExpansionOvertaken
    <3> QED BY <1>2, <1>c, <1>d, <3>1
  <2> QED BY <2>1, <2>2, <2>3, <2>4, <2>5
<1>3. ASSUME NEW w \in Worker, BatchWorker(w) PROVE AbstractStep
  <2>1. UNCHANGED runStatus
    BY <1>3 DEF BatchWorker, TakeBatch, BatchStops, BatchBegins, FillPage, DecideTaken, DecideSettles,
       DecideDefers, DecideThrows, CountAttempt, BatchRequeues, BatchHalts
  <2>a. \A r \in Run : Phase(r)' = Phase(r)
    BY <1>3, <1>d, <2>1, PhaseSame
  <2>2. CASE \E r \in Run, k \in Contact, outcome \in Settled : Deciding(r, k, outcome)
    BY <2>a, <2>2, DecidingStep
  <2>3. CASE \E r \in Run, k \in Contact, state \in Pending : Shifting(r, k, state)
    <3>1. PICK r \in Run, k \in Contact, state \in Pending : Shifting(r, k, state)
      BY <2>3
    <3>2. \A q \in Run, j \in Contact : recip'[q][j] = IF q = r /\ j = k THEN state ELSE recip[q][j]
      BY <1>a, <3>1 DEF Shifting
    <3>3. recip[r][k] \in Pending /\ UNCHANGED messages
      BY <3>1 DEF Shifting
    <3> QED BY <2>a, <3>2, <3>3, Stutters
  <2>4. CASE UNCHANGED <<recip, tally, messages>>
    BY <2>a, <2>4, Stutters
  <2> QED BY <1>3, <2>2, <2>3, <2>4, BatchWorkerSteps DEF BatchStep
<1>4. ASSUME NEW p \in Proc, Finish(p) PROVE AbstractStep
  <2>1. CASE FinishCommits(p)
    <3>0. PICK r \in Run : r = wk[p].at
      BY <1>a, <2>1 DEF FinishCommits
    <3>1. /\ runStatus[r] = "sending" /\ UNCHANGED <<recip, messages>>
          /\ runStatus' = [runStatus EXCEPT ![r] = "done"]
          /\ wk[p].pc = "closing" /\ wk'[p].pc = "idle" /\ \A q \in Proc \ {p} : wk'[q] = wk[q]
      BY <2>1, <3>0, OthersHold, Moves DEF FinishCommits
    <3>2. Finishing(r)
      BY <3>0, <3>1 DEF Finishing, RunLocked
    <3>3. \A q \in Run \ {r} : Finishing(q)' <=> Finishing(q)
      BY <3>0, <3>1, FinishingMoves DEF Ends
    <3> QED BY <3>1, <3>2, <3>3, StatusStep
  <2>2. CASE FinishMarks(p)
    <3>1. /\ UNCHANGED <<runStatus, recip, messages>> /\ \A q \in Proc \ {p} : wk'[q] = wk[q]
          /\ wk[p].at \in Run /\ wk'[p].at = wk[p].at
      BY <1>a, <2>2 DEF FinishMarks, WorkerRec
    <3>2. Ends(p) \/ \A k \in Contact : recip[wk[p].at][k] \notin Pending
      BY <2>2 DEF FinishMarks, Ends, PendingOf
    <3> QED BY <3>1, <3>2, QuietStep
  <2>3. CASE FinishSkips(p)
    <3>1. UNCHANGED <<runStatus, recip, messages>> /\ ~Ends(p)' /\ \A q \in Proc \ {p} : wk'[q] = wk[q]
      BY <2>3, Moves DEF FinishSkips, Ends
    <3> QED BY <1>c, <3>1
  <2> QED BY <1>4, <2>1, <2>2, <2>3 DEF Finish
<1>5. ASSUME NEW r \in Run, NEW k \in Contact, WindowOpens(r, k) PROVE AbstractStep
  <2>1. \A q \in Run, j \in Contact : recip'[q][j] = IF q = r /\ j = k THEN "ready" ELSE recip[q][j]
    BY <1>a, <1>5 DEF WindowOpens
  <2>2. \A q \in Run : Phase(q)' = Phase(q)
    BY <1>5, StillStep DEF WindowOpens
  <2> QED BY <1>5, <2>1, <2>2, Stutters DEF WindowOpens, Pending
<1>6. ASSUME NEW s \in Sweeper, Sweep(s) PROVE AbstractStep
  <2>0. s \in Proc
    BY <1>a
  <2>1. CASE SweepLooks(s)
    <3>1. /\ UNCHANGED <<runStatus, recip, messages>> /\ \A q \in Proc \ {s} : wk'[q] = wk[q]
          /\ wk[s].at \in Run /\ wk'[s].at = wk[s].at
          /\ \A k \in Contact : recip[wk[s].at][k] \notin Pending
      BY <1>a, <2>1 DEF SweepLooks, MayFinish, WorkerRec
    <3> QED BY <2>0, <1>b, <3>1, QuietStep
  <2>2. CASE \E r \in Run : SweepFinds(s, r)
    <3>1. UNCHANGED <<runStatus, recip, messages>> /\ ~Ends(s)' /\ \A q \in Proc \ {s} : wk'[q] = wk[q]
      BY <1>a, <2>0, <2>2 DEF SweepFinds, SweepPc, WorkerRec, Ends
    <3> QED BY <1>c, <2>0, <3>1
  <2>3. CASE SweepResumesExpansion(s) \/ SweepEnqueuesBatch(s)
    <3>1. UNCHANGED <<runStatus, recip, messages>> /\ ~Ends(s)' /\ \A q \in Proc \ {s} : wk'[q] = wk[q]
      BY <2>0, <2>3, Moves DEF SweepResumesExpansion, SweepEnqueuesBatch, Ends
    <3> QED BY <1>c, <2>0, <3>1
  <2> QED BY <1>6, <2>1, <2>2, <2>3 DEF Sweep
<1>7. CASE Fault
  <2>1. ASSUME NEW p \in Proc, Crash(p) PROVE AbstractStep
    <3>1. UNCHANGED <<runStatus, recip, messages>> /\ ~Ends(p)' /\ \A q \in Proc \ {p} : wk'[q] = wk[q]
      BY <2>1, Moves DEF Crash, Ends
    <3> QED BY <1>c, <3>1
  <2>2. ASSUME NEW w \in Worker, JobExpires(w) PROVE AbstractStep
    BY <2>2, StillStep, Stutters DEF JobExpires
  <2>3. ASSUME NEW w \in Worker, ExpansionThrows(w) PROVE AbstractStep
    <3>1. w \in Proc /\ w \notin Sweeper
      BY <1>a
    <3>2. UNCHANGED <<runStatus, recip, messages>> /\ ~Ends(w)' /\ \A q \in Proc \ {w} : wk'[q] = wk[q]
      BY <1>a, <2>3, <3>1 DEF ExpansionThrows, WorkerRec, Ends
    <3> QED BY <1>c, <3>1, <3>2
  <2> QED BY <1>7, <2>1, <2>2, <2>3 DEF Fault
<1>8. CASE UNCHANGED vars
  BY <1>8, StillStep, Stutters DEF vars
<1> QED BY <1>1, <1>2, <1>3, <1>4, <1>5, <1>6, <1>7, <1>8 DEF Next

(* Seen from outside the engine is RunOutcomes, for every number of        *)
(* campaigns, contacts, workers and faults: recipients are written down,   *)
(* decided once with the message that belongs to it, and a run completes   *)
(* only after somebody saw it with nobody pending.                         *)
THEOREM Implements == Spec => ImplementsOutcomes
<1>1. Init => Outcomes!Init
  <2> SUFFICES ASSUME Init PROVE Outcomes!Init
    OBVIOUS
  <2>1. \A r \in Run : Phase(r) = "none"
    BY DEF Init, Phase, ActiveRun
  <2>2. \A r \in Run, k \in Contact : (IF recip[r][k] \in Pending THEN "pending" ELSE recip[r][k]) = "none"
    BY DEF Init, Pending
  <2>3. messages = [r \in Run |-> [k \in Contact |-> 0]]
    BY DEF Init
  <2> QED BY <2>1, <2>2, <2>3 DEF Outcomes!Init
<1>2. TypeOK /\ RowLocks /\ SweepSees /\ SentOnce /\ [Next]_vars => [Outcomes!Next]_Outcomes!vars
  BY NextImplements DEF AbstractStep
<1> QED BY <1>1, <1>2, TypeCorrect, RowLocksInv, SweepSeesInv, SentOnceSafe, PTL DEF Spec, ImplementsOutcomes, Outcomes!Spec

---------------------------------------------------------------------------
(* The order in which runs open.                                           *)

(* A run may be opened: it is its campaign's first, or the one before is. *)
MayOpen(r) == r[2] = 1 \/ runStatus[<<r[1], r[2] - 1>>] /= "none"
HasJob(r)  == runJob[r].waiting \/ runJob[r].retrying > 0
Fresh      == {"absent", "draft"}

(* The inductive invariant.  A run is opened, has a job or is worked at    *)
(* only when the run before it is open; a campaign never scheduled has     *)
(* neither a run nor a waiting job; and a next run is announced only while *)
(* the last one maxRuns allows is not open.                                *)
Gapless   == \A r \in Run : runStatus[r] /= "none" => MayOpen(r)
JobsNear  == \A r \in Run : HasJob(r) => MayOpen(r)
HandsNear == \A p \in Proc : /\ wk[p].pc \in RunPc => MayOpen(wk[p].at)
                             /\ wk[p].pc = "reexpanding" => runStatus[wk[p].at] /= "none"
Unopened  == \A r \in Run : StatusOf(r) \in Fresh => runStatus[r] = "none" /\ ~runJob[r].waiting
NextFree  == \A c \in Campaign : camp[c].next => runStatus[<<c, MaxRuns>>] = "none"

InOrder == Gapless /\ JobsNear /\ HandsNear /\ Unopened /\ NextFree

(* A run is its campaign and its number. *)
LEMMA RunsAre == /\ 1 \in RunNo /\ MaxRuns \in RunNo /\ RunNo \subseteq Nat
                 /\ \A r \in Run : r = <<r[1], r[2]>> /\ r[1] \in Campaign /\ r[2] \in RunNo
                 /\ \A c \in Campaign, n \in RunNo : <<c, n>> \in Run /\ <<c, n>>[1] = c /\ <<c, n>>[2] = n
BY CountsAssumption DEF Run, RunNo

(* Without a gap, the opened numbers are the first LastRunNo(c).           *)
LEMMA OpenedIs ==
  ASSUME Gapless, NEW c \in Campaign
  PROVE  LastRunNo(c) \in 0..MaxRuns /\ Opened(c) = 1..LastRunNo(c)
<1>0. MaxRuns \in Nat \ {0}
  BY CountsAssumption
<1>. DEFINE O == Opened(c)
            T == {n \in 1..(MaxRuns + 1) : n \notin O}
<1>1. O \subseteq 1..MaxRuns /\ \A n \in O : n = 1 \/ n - 1 \in O
  <2>1. ASSUME NEW n \in O PROVE n \in 1..MaxRuns /\ (n = 1 \/ n - 1 \in O)
    <3>1. n \in RunNo /\ runStatus[<<c, n>>] /= "none"
      BY DEF Opened
    <3>2. MayOpen(<<c, n>>)
      BY <3>1, RunsAre DEF Gapless
    <3>3. n = 1 \/ runStatus[<<c, n - 1>>] /= "none"
      BY <3>2 DEF MayOpen
    <3>4. n # 1 => n - 1 \in RunNo
      BY <1>0, <3>1 DEF RunNo
    <3>. QED BY <3>1, <3>3, <3>4 DEF Opened, RunNo
  <2>. QED BY <2>1
<1>. HIDE DEF O
<1>2. T \subseteq Nat /\ MaxRuns + 1 \in T
  BY <1>0, <1>1
<1>3. PICK x \in T : \A y \in T : x <= y
  <2>. HIDE DEF T
  <2>. QED BY <1>2, Least
<1>4. x \in 1..(MaxRuns + 1) /\ x \notin O
  OBVIOUS
<1>5. 1..(x - 1) \subseteq O
  <2>1. ASSUME NEW n \in 1..(x - 1) PROVE n \in O
    <3>1. n \in 1..(MaxRuns + 1) /\ n < x
      BY <1>0, <1>4
    <3>2. n \notin T
      BY <1>3, <3>1
    <3>. QED BY <3>1, <3>2
  <2>. QED BY <2>1
<1>6. ASSUME NEW n \in O, n > x PROVE FALSE
  <2>. DEFINE L == {m \in O : m > x}
  <2>0. n \in L
    BY <1>6
  <2>a. L \subseteq O
    OBVIOUS
  <2>1. L \subseteq Nat /\ L # {}
    <3>. HIDE DEF L
    <3>. QED BY <1>1, <2>0, <2>a
  <2>2. PICK m \in L : \A y \in L : m <= y
    <3>. HIDE DEF L
    <3>. QED BY <2>1, Least
  <2>3. m \in O /\ m > x /\ m \in Nat
    BY <1>1, <2>2
  <2>4. m - 1 \in O
    BY <1>1, <1>4, <2>3
  <2>5. m - 1 > x
    BY <1>4, <2>3, <2>4
  <2>6. m - 1 \in L
    BY <2>4, <2>5
  <2>. HIDE DEF L
  <2>. QED BY <2>2, <2>3, <2>6
<1>7. O = 1..(x - 1)
  <2>1. ASSUME NEW n \in O PROVE n \in 1..(x - 1)
    BY <1>1, <1>4, <1>6
  <2>. QED BY <1>5, <2>1
<1>8. x - 1 \in 0..MaxRuns /\ Cardinality(1..(x - 1)) = x - 1
  <2>1. x - 1 \in Nat
    BY <1>4
  <2>2. Cardinality(1..(x - 1)) = x - 1
    BY <2>1, FS_Interval
  <2>. QED BY <1>0, <1>4, <2>2
<1>. QED BY <1>7, <1>8 DEF LastRunNo, O

(* What may be opened still may when more is.                              *)
LEMMA MoreOpen ==
  ASSUME \A r \in Run : runStatus[r] /= "none" => runStatus'[r] /= "none"
  PROVE  \A r \in Run : MayOpen(r) => MayOpen(r)'
<1>1. ASSUME NEW r \in Run, r[2] # 1 PROVE <<r[1], r[2] - 1>> \in Run
  <2>1. r[1] \in Campaign /\ r[2] - 1 \in RunNo
    BY <1>1, RunsAre, CountsAssumption DEF RunNo
  <2>. QED BY <2>1, RunsAre
<1>. QED BY <1>1 DEF MayOpen

(* A step that opens no run and announces none.                            *)
LEMMA OrderStep ==
  ASSUME TypeOK, InOrder,
         \A r \in Run : runStatus'[r] = "none" <=> runStatus[r] = "none",
         \A c \in Campaign : camp'[c].next => camp[c].next,
         \A c \in Campaign : camp'[c].status \in Fresh => camp[c].status \in Fresh,
         \A p \in Proc : wk'[p].pc \in RunPc \cup {"reexpanding"} => wk'[p].at \in Run,
         \A p \in Proc : wk'[p].pc \in RunPc => MayOpen(wk'[p].at),
         \A p \in Proc : wk'[p].pc = "reexpanding" => runStatus[wk'[p].at] /= "none",
         \A r \in Run : HasJob(r)' => HasJob(r) \/ MayOpen(r),
         \A r \in Run : runJob'[r].waiting => runJob[r].waiting \/ StatusOf(r) \notin Fresh
  PROVE  InOrder'
<1>1. \A r \in Run : MayOpen(r) => MayOpen(r)'
  BY MoreOpen
<1>2. Gapless'
  BY <1>1 DEF InOrder, Gapless
<1>3. JobsNear'
  BY <1>1 DEF InOrder, JobsNear
<1>4. HandsNear'
  BY <1>1 DEF HandsNear, MayOpen
<1>5. Unopened'
  <2>1. ASSUME NEW r \in Run, camp'[r[1]].status \in Fresh PROVE runStatus'[r] = "none" /\ ~runJob'[r].waiting
    <3>1. r[1] \in Campaign
      BY RunsAre
    <3>. QED BY <2>1, <3>1 DEF InOrder, Unopened, StatusOf
  <2>. QED BY <2>1 DEF Unopened, StatusOf
<1>6. NextFree'
  BY RunsAre DEF InOrder, NextFree
<1>. QED BY <1>2, <1>3, <1>4, <1>5, <1>6 DEF InOrder

(* Where the processes are after a step of p. *)
LEMMA HandStep ==
  ASSUME TypeOK, InOrder, NEW p \in Proc, \A q \in Proc \ {p} : wk'[q] = wk[q],
         wk'[p].pc \in RunPc => wk'[p].at \in Run /\ MayOpen(wk'[p].at),
         wk'[p].pc = "reexpanding" => wk'[p].at \in Run /\ runStatus[wk'[p].at] /= "none"
  PROVE  /\ \A q \in Proc : wk'[q].pc \in RunPc \cup {"reexpanding"} => wk'[q].at \in Run
         /\ \A q \in Proc : wk'[q].pc \in RunPc => MayOpen(wk'[q].at)
         /\ \A q \in Proc : wk'[q].pc = "reexpanding" => runStatus[wk'[q].at] /= "none"
<1>1. \A q \in Proc : wk[q].pc \in RunPc \cup {"reexpanding"} => wk[q].at \in Run
  BY DEF TypeOK, RunPc
<1>2. \A q \in Proc : /\ wk[q].pc \in RunPc => MayOpen(wk[q].at)
                      /\ wk[q].pc = "reexpanding" => runStatus[wk[q].at] /= "none"
  BY DEF InOrder, HandsNear
<1>. QED BY <1>1, <1>2

(* A step of p that touches no campaign, status or run job. *)
LEMMA PlainOrder ==
  ASSUME TypeOK, InOrder, UNCHANGED <<camp, runStatus, runJob>>, NEW p \in Proc, \A q \in Proc \ {p} : wk'[q] = wk[q],
         wk'[p].pc \in RunPc => wk'[p].at \in Run /\ MayOpen(wk'[p].at),
         wk'[p].pc = "reexpanding" => wk'[p].at \in Run /\ runStatus[wk'[p].at] /= "none"
  PROVE  InOrder'
<1>1. /\ \A q \in Proc : wk'[q].pc \in RunPc \cup {"reexpanding"} => wk'[q].at \in Run
      /\ \A q \in Proc : wk'[q].pc \in RunPc => MayOpen(wk'[q].at)
      /\ \A q \in Proc : wk'[q].pc = "reexpanding" => runStatus[wk'[q].at] /= "none"
  BY HandStep
<1>2. \A r \in Run : HasJob(r)' => HasJob(r)
  BY DEF HasJob
<1>3. \A r \in Run : runJob'[r].waiting => runJob[r].waiting
  OBVIOUS
<1>. QED BY <1>1, <1>2, <1>3, OrderStep

(* What enqueuing and withdrawing do to one run's job.                     *)
LEMMA Enqueued ==
  ASSUME TypeOK, NEW rs, NEW r \in Run
  PROVE  /\ EnqueueRun(rs)[r].waiting <=> runJob[r].waiting \/ r \in rs
         /\ EnqueueRun(rs)[r].retrying = runJob[r].retrying
         /\ CancelWaiting(runJob, rs)[r].waiting => runJob[r].waiting
         /\ CancelWaiting(runJob, rs)[r].waiting => r \notin rs
         /\ CancelWaiting(runJob, rs)[r].retrying > 0 => runJob[r].retrying > 0
         /\ r \notin rs => CancelWaiting(runJob, rs)[r] = runJob[r]
BY DEF EnqueueRun, Send, CancelWaiting, TypeOK, JobRec

(* A job is taken only from a run that has one, and none is added.         *)
LEMMA TakenJob ==
  ASSUME TypeOK, NEW r \in Run, NEW j \in Fetched(runJob[r])
  PROVE  /\ HasJob(r)
         /\ j.waiting => runJob[r].waiting
         /\ j.retrying > 0 => runJob[r].retrying > 0
<1>1. runJob[r] \in JobRec
  BY DEF TypeOK
<1>. QED BY <1>1 DEF Fetched, HasJob, JobRec

(* The steps of campaign.run.                                              *)
LEMMA RunWorkerOrder ==
  ASSUME TypeOK, RowLocks, InOrder, NEW w \in Worker, RunWorker(w)
  PROVE  InOrder'
<1>0. /\ w \in Proc /\ wk \in [Proc -> WorkerRec] /\ runJob \in [Run -> JobRec]
      /\ camp \in [Campaign -> CampaignRec] /\ runStatus \in [Run -> RunStatus]
      /\ wk[w].pc /= "idle" => wk[w].at \in Run /\ wk[w].at[1] \in Campaign
      /\ wk[w].pc \in RunPc => MayOpen(wk[w].at)
  BY RunParts DEF TypeOK, Proc, InOrder, HandsNear
<1>1. ASSUME NEW r \in Run, TakeRun(w, r) PROVE InOrder'
  <2>1. PICK j \in Fetched(runJob[r]) : runJob' = [runJob EXCEPT ![r] = j]
    BY <1>1 DEF TakeRun
  <2>2. /\ HasJob(r)
        /\ j.waiting => runJob[r].waiting
        /\ j.retrying > 0 => runJob[r].retrying > 0
    BY TakenJob
  <2>3. MayOpen(r)
    BY <2>2 DEF InOrder, JobsNear
  <2>4. /\ wk'[w].pc = "starting" /\ wk'[w].at = r /\ \A q \in Proc \ {w} : wk'[q] = wk[q]
        /\ UNCHANGED <<camp, runStatus>>
    BY <1>0, <1>1 DEF TakeRun, WorkerRec
  <2>5. /\ \A q \in Proc : wk'[q].pc \in RunPc \cup {"reexpanding"} => wk'[q].at \in Run
        /\ \A q \in Proc : wk'[q].pc \in RunPc => MayOpen(wk'[q].at)
        /\ \A q \in Proc : wk'[q].pc = "reexpanding" => runStatus[wk'[q].at] /= "none"
    BY <1>0, <2>3, <2>4, HandStep
  <2>6. \A q \in Run : HasJob(q)' => HasJob(q)
    BY <1>0, <2>1, <2>2 DEF HasJob
  <2>7. \A q \in Run : runJob'[q].waiting => runJob[q].waiting
    BY <1>0, <2>1, <2>2
  <2>. QED BY <2>4, <2>5, <2>6, <2>7, OrderStep
<1>2. CASE StartRunStops(w) \/ ExpansionOvertaken(w)
  BY <1>0, <1>2, Moves, PlainOrder DEF StartRunStops, ExpansionOvertaken, RunPc
<1>3. CASE StartRunResumes(w) \/ StartRunAdmits(w)
  <2>1. wk[w].pc = "starting" /\ wk'[w].at = wk[w].at /\ wk'[w].pc \in {"resolving", "admitted"}
        /\ UNCHANGED <<camp, runStatus, runJob>> /\ \A q \in Proc \ {w} : wk'[q] = wk[q]
    BY <1>0, <1>3, Moves DEF StartRunResumes, StartRunAdmits
  <2>. QED BY <1>0, <2>1, PlainOrder DEF RunPc
<1>4. CASE ResolveAudience(w) \/ InsertChunk(w)
  <2>1. wk[w].pc \in RunPc /\ wk'[w].at = wk[w].at /\ wk'[w].pc = "inserting"
        /\ UNCHANGED <<camp, runStatus, runJob>> /\ \A q \in Proc \ {w} : wk'[q] = wk[q]
    BY <1>0, <1>4 DEF ResolveAudience, InsertChunk, WorkerRec, RunPc
  <2>. QED BY <1>0, <2>1, PlainOrder DEF RunPc
<1>5. CASE StartRunWaits(w)
  <2>. DEFINE r == wk[w].at
  <2>1. /\ r \in Run /\ MayOpen(r) /\ StatusOf(r) = "scheduled" /\ runJob' = EnqueueRun({r})
        /\ UNCHANGED <<camp, runStatus>> /\ wk'[w].pc = "idle" /\ \A q \in Proc \ {w} : wk'[q] = wk[q]
    BY <1>0, <1>5, Moves DEF StartRunWaits, RunPc
  <2>. HIDE DEF r
  <2>2. /\ \A q \in Proc : wk'[q].pc \in RunPc \cup {"reexpanding"} => wk'[q].at \in Run
        /\ \A q \in Proc : wk'[q].pc \in RunPc => MayOpen(wk'[q].at)
        /\ \A q \in Proc : wk'[q].pc = "reexpanding" => runStatus[wk'[q].at] /= "none"
    BY <1>0, <2>1, HandStep DEF RunPc
  <2>3. \A q \in Run : HasJob(q)' => HasJob(q) \/ MayOpen(q)
    BY <2>1, Enqueued DEF HasJob
  <2>4. \A q \in Run : runJob'[q].waiting => runJob[q].waiting \/ StatusOf(q) \notin Fresh
    BY <2>1, Enqueued DEF Fresh
  <2>. QED BY <2>1, <2>2, <2>3, <2>4, OrderStep
<1>6. CASE ExpansionDone(w)
  <2>1. /\ UNCHANGED <<camp, runJob>> /\ runStatus[wk[w].at] = "expanding"
        /\ runStatus' = [runStatus EXCEPT ![wk[w].at] = "sending"]
        /\ wk'[w].pc = "idle" /\ \A q \in Proc \ {w} : wk'[q] = wk[q]
    BY <1>0, <1>6, Moves DEF ExpansionDone
  <2>2. /\ \A q \in Proc : wk'[q].pc \in RunPc \cup {"reexpanding"} => wk'[q].at \in Run
        /\ \A q \in Proc : wk'[q].pc \in RunPc => MayOpen(wk'[q].at)
        /\ \A q \in Proc : wk'[q].pc = "reexpanding" => runStatus[wk'[q].at] /= "none"
    BY <1>0, <2>1, HandStep DEF RunPc
  <2>3. \A q \in Run : HasJob(q)' => HasJob(q)
    BY <2>1 DEF HasJob
  <2>4. \A q \in Run : runJob'[q].waiting => runJob[q].waiting
    BY <2>1
  <2>5. \A q \in Run : runStatus'[q] = "none" <=> runStatus[q] = "none"
    BY <1>0, <2>1
  <2>. QED BY <2>1, <2>2, <2>3, <2>4, <2>5, OrderStep
<1>7. CASE FailRun(w)
  <2>. DEFINE r == wk[w].at
              c == r[1]
  <2>1. /\ UNCHANGED runJob /\ r \in Run /\ c \in Campaign
        /\ runStatus' = IF runStatus[r] \in ActiveRun THEN [runStatus EXCEPT ![r] = "failed"] ELSE runStatus
        /\ camp' = IF camp[c].status \notin {"cancelled", "done"}
                   THEN [camp EXCEPT ![c].status = "failed", ![c].next = FALSE] ELSE camp
        /\ wk'[w].pc = "idle" /\ \A q \in Proc \ {w} : wk'[q] = wk[q]
    BY <1>0, <1>7, Moves DEF FailRun
  <2>. HIDE DEF r, c
  <2>2. /\ \A q \in Proc : wk'[q].pc \in RunPc \cup {"reexpanding"} => wk'[q].at \in Run
        /\ \A q \in Proc : wk'[q].pc \in RunPc => MayOpen(wk'[q].at)
        /\ \A q \in Proc : wk'[q].pc = "reexpanding" => runStatus[wk'[q].at] /= "none"
    BY <1>0, <2>1, HandStep DEF RunPc
  <2>3. \A q \in Run : HasJob(q)' => HasJob(q)
    BY <2>1 DEF HasJob
  <2>4. \A q \in Run : runJob'[q].waiting => runJob[q].waiting
    BY <2>1
  <2>5. \A q \in Run : runStatus'[q] = "none" <=> runStatus[q] = "none"
    BY <1>0, <2>1 DEF ActiveRun
  <2>6. \A d \in Campaign : (camp'[d].next => camp[d].next) /\ (camp'[d].status \in Fresh => camp[d].status \in Fresh)
    BY <1>0, <2>1 DEF Fresh, CampaignRec
  <2>. QED BY <2>2, <2>3, <2>4, <2>5, <2>6, OrderStep
<1>8. CASE StartRunOpens(w)
  <2>. DEFINE r == wk[w].at
              c == r[1]
              n == r[2]
  <2>1. /\ r \in Run /\ c \in Campaign /\ n \in RunNo /\ r = <<c, n>> /\ MayOpen(r)
        /\ runStatus[r] = "none" /\ runStatus' = [runStatus EXCEPT ![r] = "expanding"]
        /\ StatusOf(r) \in {"scheduled", "running"}
    BY <1>0, <1>8, RunsAre DEF StartRunOpens, RunPc, RowLocks
  <2>2. PICK next \in NextRunAt(camp[c].recurring, n) :
          /\ camp' = [camp EXCEPT ![c].status = "running", ![c].next = camp[c].recurring /\ next]
          /\ runJob' = IF camp[c].recurring /\ next
                       THEN EnqueueRun({q \in RunsOf(c) : q[2] = n + 1})
                       ELSE runJob
    BY <1>8 DEF StartRunOpens
  <2>3. wk'[w].pc = "resolving" /\ wk'[w].at = r /\ \A q \in Proc \ {w} : wk'[q] = wk[q]
    BY <1>0, <1>8, Moves DEF StartRunOpens
  <2>4. /\ camp'[c].status = "running" /\ camp'[c].next = (camp[c].recurring /\ next)
        /\ \A d \in Campaign \ {c} : camp'[d] = camp[d]
    <3>. HIDE DEF c, n
    <3>1. camp[c] \in CampaignRec
      BY <1>0, <2>1
    <3>2. camp' = [camp EXCEPT ![c] = [camp[c] EXCEPT !.status = "running", !.next = camp[c].recurring /\ next]]
      BY <1>0, <2>1, <2>2
    <3>. QED BY <1>0, <2>1, <3>1, <3>2 DEF CampaignRec
  <2>5. camp[c].recurring /\ next => n < MaxRuns
    BY <2>2 DEF NextRunAt
  <2>. HIDE DEF r, c, n
  <2>6. \A q \in Run : runStatus[q] /= "none" => runStatus'[q] /= "none"
    BY <1>0, <2>1
  <2>7. \A q \in Run : MayOpen(q) => MayOpen(q)'
    BY <2>6, MoreOpen
  <2>8. Gapless'
    BY <1>0, <2>1, <2>7 DEF InOrder, Gapless
  <2>9. \A q \in Run : q \in RunsOf(c) /\ q[2] = n + 1 => MayOpen(q)'
    <3>1. ASSUME NEW q \in Run, q \in RunsOf(c), q[2] = n + 1 PROVE MayOpen(q)'
      <4>1. q[1] = c
        BY <3>1 DEF RunsOf
      <4>2. <<q[1], q[2] - 1>> = r
        BY <2>1, <3>1, <4>1, RunsAre
      <4>3. runStatus'[r] /= "none"
        BY <1>0, <2>1
      <4>. QED BY <4>2, <4>3 DEF MayOpen
    <3>. QED BY <3>1
  <2>10. JobsNear'
    <3>1. \A q \in Run : HasJob(q)' => HasJob(q) \/ (q \in RunsOf(c) /\ q[2] = n + 1)
      BY <2>2, Enqueued DEF HasJob
    <3>. QED BY <2>7, <2>9, <3>1 DEF InOrder, JobsNear
  <2>11. HandsNear'
    <3>1. /\ \A q \in Proc : wk'[q].pc \in RunPc \cup {"reexpanding"} => wk'[q].at \in Run
          /\ \A q \in Proc : wk'[q].pc \in RunPc => MayOpen(wk'[q].at)
          /\ \A q \in Proc : wk'[q].pc = "reexpanding" => runStatus[wk'[q].at] /= "none"
      BY <1>0, <2>1, <2>3, HandStep
    <3>. QED BY <2>6, <2>7, <3>1 DEF HandsNear, MayOpen
  <2>12. Unopened'
    <3>1. ASSUME NEW q \in Run, camp'[q[1]].status \in Fresh PROVE runStatus'[q] = "none" /\ ~runJob'[q].waiting
      <4>1. q[1] /= c /\ q[1] \in Campaign
        BY <2>4, <3>1, RunsAre DEF Fresh
      <4>2. q /= r /\ q \notin RunsOf(c)
        BY <2>1, <4>1 DEF RunsOf
      <4>3. runJob'[q].waiting => runJob[q].waiting
        BY <2>2, <4>2, Enqueued
      <4>. QED BY <1>0, <2>1, <2>4, <3>1, <4>1, <4>2, <4>3 DEF InOrder, Unopened, StatusOf
    <3>. QED BY <3>1 DEF Unopened, StatusOf
  <2>13. NextFree'
    <3>1. ASSUME NEW d \in Campaign, camp'[d].next PROVE runStatus'[<<d, MaxRuns>>] = "none"
      <4>1. CASE d /= c
        BY <1>0, <2>1, <2>4, <3>1, <4>1, RunsAre DEF InOrder, NextFree
      <4>2. CASE d = c
        <5>1. n < MaxRuns
          BY <2>4, <2>5, <3>1, <4>2
        <5>2. LastRunNo(c) \in 0..MaxRuns /\ Opened(c) = 1..LastRunNo(c)
          BY <2>1, OpenedIs DEF InOrder
        <5>3. n \notin Opened(c)
          BY <2>1 DEF Opened
        <5>4. MaxRuns \notin Opened(c)
          BY <2>1, <5>1, <5>2, <5>3, CountsAssumption DEF RunNo
        <5>5. runStatus[<<c, MaxRuns>>] = "none"
          BY <5>4, RunsAre DEF Opened
        <5>. QED BY <1>0, <2>1, <4>2, <5>1, <5>5, RunsAre
      <4>. QED BY <4>1, <4>2
    <3>. QED BY <3>1 DEF NextFree
  <2>. QED BY <2>8, <2>10, <2>11, <2>12, <2>13 DEF InOrder
<1>. QED BY <1>1, <1>2, <1>3, <1>4, <1>5, <1>6, <1>7, <1>8 DEF RunWorker

(* The steps of campaign.batch touch no campaign, run or run job.          *)
LEMMA BatchWorkerOrder ==
  ASSUME TypeOK, InOrder, NEW w \in Worker, BatchWorker(w)
  PROVE  InOrder'
<1>0. w \in Proc /\ w \notin Sweeper /\ wk \in [Proc -> WorkerRec]
  BY ProcAssumption DEF TypeOK, Proc
<1>1. /\ UNCHANGED <<camp, runStatus, runJob>>
      /\ wk'[w].pc \notin RunPc \cup {"reexpanding"} /\ \A q \in Proc \ {w} : wk'[q] = wk[q]
  <2>1. CASE \E r \in Run : TakeBatch(w, r)
    BY <1>0, <2>1 DEF TakeBatch, WorkerRec, RunPc
  <2>2. CASE BatchStops(w) \/ BatchRequeues(w) \/ BatchHalts(w)
    BY <1>0, <2>2, Moves DEF BatchStops, BatchRequeues, BatchHalts, RunPc
  <2>3. CASE BatchBegins(w) \/ DecideThrows(w)
    BY <1>0, <2>3, Moves DEF BatchBegins, DecideThrows, RunPc
  <2>4. CASE FillPage(w)
    <3>1. CASE wk' = LoopEnds(w)
      BY <1>0, <2>4, <3>1, Moves DEF FillPage, RunPc
    <3>2. CASE wk' /= LoopEnds(w)
      BY <1>0, <2>4, <3>2 DEF FillPage, WorkerRec, RunPc
    <3>. QED BY <3>1, <3>2
  <2>5. CASE DecideTaken(w) \/ DecideSettles(w) \/ DecideDefers(w)
    <3>1. \E k, counted : Advance(w, k, counted)
      BY <2>5 DEF DecideTaken, DecideSettles, DecideDefers
    <3>2. UNCHANGED <<camp, runStatus, runJob>>
      BY <2>5 DEF DecideTaken, DecideSettles, DecideDefers
    <3>. QED BY <1>0, <3>1, <3>2, Moves DEF RunPc
  <2>6. CASE CountAttempt(w)
    <3>1. wk[w].pc = "counting" /\ UNCHANGED <<camp, runStatus>>
          /\ ((\E k : Advance(w, k, TRUE) /\ UNCHANGED runJob) \/ JobFails(w))
      BY <2>6 DEF CountAttempt
    <3>2. JobFails(w) => UNCHANGED runJob
      BY <1>0, <3>1 DEF JobFails, RunPc
    <3>. QED BY <1>0, <3>1, <3>2, Moves DEF RunPc
  <2>. QED BY <2>1, <2>2, <2>3, <2>4, <2>5, <2>6 DEF BatchWorker
<1>. QED BY <1>0, <1>1, PlainOrder

(* finishRun.                                                              *)
LEMMA FinishOrder ==
  ASSUME TypeOK, RowLocks, InOrder, NEW p \in Proc, Finish(p)
  PROVE  InOrder'
<1>0. /\ wk \in [Proc -> WorkerRec] /\ camp \in [Campaign -> CampaignRec] /\ runStatus \in [Run -> RunStatus]
      /\ wk[p].pc /= "idle" => wk[p].at \in Run /\ wk[p].at[1] \in Campaign
  BY RunParts DEF TypeOK
<1>1. CASE FinishMarks(p)
  <2>1. UNCHANGED <<camp, runStatus, runJob>> /\ wk'[p].pc = "closing" /\ \A q \in Proc \ {p} : wk'[q] = wk[q]
    BY <1>0, <1>1 DEF FinishMarks, WorkerRec
  <2>. QED BY <2>1, PlainOrder DEF RunPc
<1>2. CASE FinishSkips(p)
  BY <1>2, Moves, PlainOrder DEF FinishSkips, RunPc
<1>3. CASE FinishCommits(p)
  <2>. DEFINE r == wk[p].at
              c == r[1]
  <2>1. /\ UNCHANGED runJob /\ r \in Run /\ c \in Campaign /\ runStatus[r] = "sending"
        /\ runStatus' = [runStatus EXCEPT ![r] = "done"]
        /\ wk'[p].pc = "idle" /\ \A q \in Proc \ {p} : wk'[q] = wk[q]
    BY <1>0, <1>3, Moves, OthersHold DEF FinishCommits
  <2>2. \/ camp' = camp
        \/ camp' = [camp EXCEPT ![c].status = IF camp[c].next THEN "scheduled" ELSE "done"]
    BY <1>3 DEF FinishCommits
  <2>. HIDE DEF r, c
  <2>3. /\ \A q \in Proc : wk'[q].pc \in RunPc \cup {"reexpanding"} => wk'[q].at \in Run
        /\ \A q \in Proc : wk'[q].pc \in RunPc => MayOpen(wk'[q].at)
        /\ \A q \in Proc : wk'[q].pc = "reexpanding" => runStatus[wk'[q].at] /= "none"
    BY <2>1, HandStep DEF RunPc
  <2>4. \A q \in Run : HasJob(q)' => HasJob(q)
    BY <2>1 DEF HasJob
  <2>5. \A q \in Run : runJob'[q].waiting => runJob[q].waiting
    BY <2>1
  <2>6. \A q \in Run : runStatus'[q] = "none" <=> runStatus[q] = "none"
    BY <1>0, <2>1
  <2>7. \A d \in Campaign : (camp'[d].next => camp[d].next) /\ (camp'[d].status \in Fresh => camp[d].status \in Fresh)
    BY <1>0, <2>1, <2>2 DEF Fresh, CampaignRec
  <2>. QED BY <2>3, <2>4, <2>5, <2>6, <2>7, OrderStep
<1>. QED BY <1>1, <1>2, <1>3 DEF Finish

(* The sweep.                                                              *)
LEMMA SweepOrder ==
  ASSUME TypeOK, InOrder, NEW s \in Sweeper, Sweep(s)
  PROVE  InOrder'
<1>0. /\ s \in Proc /\ wk \in [Proc -> WorkerRec]
      /\ wk[s].pc /= "idle" => wk[s].at \in Run /\ wk[s].at[1] \in Campaign
  BY RunParts DEF TypeOK, Proc
<1>1. ASSUME NEW r \in Run, SweepFinds(s, r) PROVE InOrder'
  <2>1. PICK pc \in SweepPc : /\ pc = "reexpanding" => runStatus[r] = "expanding"
                              /\ wk' = [wk EXCEPT ![s].pc = pc, ![s].at = r]
    BY <1>1 DEF SweepFinds, SweepPc
  <2>2. UNCHANGED <<camp, runStatus, runJob>>
    BY <1>1 DEF SweepFinds
  <2>3. wk'[s].pc = pc /\ wk'[s].at = r /\ \A q \in Proc \ {s} : wk'[q] = wk[q]
    BY <1>0, <2>1 DEF WorkerRec
  <2>. QED BY <1>0, <2>1, <2>2, <2>3, PlainOrder DEF RunPc, SweepPc
<1>2. CASE SweepEnqueuesBatch(s)
  BY <1>0, <1>2, Moves, PlainOrder DEF SweepEnqueuesBatch, RunPc
<1>3. CASE SweepResumesExpansion(s)
  <2>. DEFINE r == wk[s].at
  <2>1. /\ r \in Run /\ runStatus[r] /= "none" /\ runJob' = EnqueueRun({r})
        /\ UNCHANGED <<camp, runStatus>> /\ wk'[s].pc = "idle" /\ \A q \in Proc \ {s} : wk'[q] = wk[q]
    BY <1>0, <1>3, Moves DEF SweepResumesExpansion, InOrder, HandsNear
  <2>. HIDE DEF r
  <2>2. /\ \A q \in Proc : wk'[q].pc \in RunPc \cup {"reexpanding"} => wk'[q].at \in Run
        /\ \A q \in Proc : wk'[q].pc \in RunPc => MayOpen(wk'[q].at)
        /\ \A q \in Proc : wk'[q].pc = "reexpanding" => runStatus[wk'[q].at] /= "none"
    BY <1>0, <2>1, HandStep DEF RunPc
  <2>3. \A q \in Run : HasJob(q)' => HasJob(q) \/ MayOpen(q)
    BY <2>1, Enqueued DEF HasJob, InOrder, Gapless
  <2>4. \A q \in Run : runJob'[q].waiting => runJob[q].waiting \/ StatusOf(q) \notin Fresh
    BY <2>1, Enqueued DEF InOrder, Unopened
  <2>. QED BY <2>1, <2>2, <2>3, <2>4, OrderStep
<1>4. CASE SweepLooks(s)
  <2>1. wk'[s].pc = "looked" /\ \A q \in Proc \ {s} : wk'[q] = wk[q]
    BY <1>0, <1>4 DEF SweepLooks, WorkerRec
  <2>. QED BY <1>0, <1>4, <2>1, PlainOrder DEF SweepLooks, RunPc
<1>. QED BY <1>1, <1>2, <1>3, <1>4 DEF Sweep

(* A crash or an expired job puts back a job its holder had, at most.      *)
LEMMA FaultOrder ==
  ASSUME TypeOK, InOrder, Fault
  PROVE  InOrder'
<1>0. /\ wk \in [Proc -> WorkerRec] /\ runJob \in [Run -> JobRec]
      /\ \A p \in Proc : wk[p].pc /= "idle" => wk[p].at \in Run
      /\ \A p \in Proc : wk[p].pc \in RunPc => MayOpen(wk[p].at)
      /\ \A w \in Worker : w \in Proc
  BY DEF TypeOK, Proc, InOrder, HandsNear
<1>1. ASSUME NEW p \in Proc, Crash(p) PROVE InOrder'
  <2>1. UNCHANGED <<camp, runStatus>> /\ wk'[p].pc = "idle" /\ \A q \in Proc \ {p} : wk'[q] = wk[q]
    BY <1>1, Moves DEF Crash
  <2>2. \/ UNCHANGED runJob
        \/ wk[p].pc \in RunPc /\ \E j \in Returned(runJob[wk[p].at]) : runJob' = [runJob EXCEPT ![wk[p].at] = j]
    BY <1>1 DEF Crash, JobFails
  <2>3. /\ \A q \in Proc : wk'[q].pc \in RunPc \cup {"reexpanding"} => wk'[q].at \in Run
        /\ \A q \in Proc : wk'[q].pc \in RunPc => MayOpen(wk'[q].at)
        /\ \A q \in Proc : wk'[q].pc = "reexpanding" => runStatus[wk'[q].at] /= "none"
    BY <2>1, HandStep DEF RunPc
  <2>4. CASE UNCHANGED runJob
    <3>1. \A q \in Run : (HasJob(q)' => HasJob(q)) /\ (runJob'[q].waiting => runJob[q].waiting)
      BY <2>4 DEF HasJob
    <3>. QED BY <2>1, <2>3, <3>1, OrderStep
  <2>5. ASSUME NEW r \in Run, r = wk[p].at, wk[p].pc \in RunPc, NEW j \in Returned(runJob[r]), runJob' = [runJob EXCEPT ![r] = j]
        PROVE  InOrder'
    <3>1. MayOpen(r)
      BY <1>0, <2>5
    <3>2. j.waiting = runJob[r].waiting
      <4>1. runJob[r] \in JobRec
        BY <1>0
      <4>. QED BY <4>1 DEF Returned, JobRec
    <3>3. \A q \in Run : HasJob(q)' => HasJob(q) \/ MayOpen(q)
      BY <1>0, <2>5, <3>1 DEF HasJob
    <3>4. \A q \in Run : runJob'[q].waiting => runJob[q].waiting
      BY <1>0, <2>5, <3>2
    <3>. QED BY <2>1, <2>3, <3>3, <3>4, OrderStep
  <2>. QED BY <1>0, <2>2, <2>4, <2>5 DEF RunPc
<1>2. ASSUME NEW w \in Worker, JobExpires(w) PROVE InOrder'
  <2>1. UNCHANGED <<camp, runStatus, wk>>
    BY <1>2 DEF JobExpires
  <2>2. \/ UNCHANGED runJob
        \/ wk[w].pc \in RunPc /\ runJob' = [runJob EXCEPT ![wk[w].at].retrying = @ + 1]
    BY <1>2 DEF JobExpires
  <2>3. /\ \A q \in Proc : wk'[q].pc \in RunPc \cup {"reexpanding"} => wk'[q].at \in Run
        /\ \A q \in Proc : wk'[q].pc \in RunPc => MayOpen(wk'[q].at)
        /\ \A q \in Proc : wk'[q].pc = "reexpanding" => runStatus[wk'[q].at] /= "none"
    BY <1>0, <2>1 DEF InOrder, HandsNear, RunPc
  <2>4. \A q \in Run : HasJob(q)' => HasJob(q) \/ MayOpen(q)
    <3>1. CASE UNCHANGED runJob
      BY <3>1 DEF HasJob
    <3>2. ASSUME NEW r \in Run, MayOpen(r), runJob' = [runJob EXCEPT ![r].retrying = @ + 1]
          PROVE  \A q \in Run : HasJob(q)' => HasJob(q) \/ MayOpen(q)
      BY <1>0, <3>2 DEF HasJob
    <3>. QED BY <1>0, <2>2, <3>1, <3>2 DEF RunPc
  <2>5. \A q \in Run : runJob'[q].waiting => runJob[q].waiting
    <3>1. ASSUME NEW r \in Run, runJob' = [runJob EXCEPT ![r].retrying = @ + 1]
          PROVE  \A q \in Run : runJob'[q].waiting => runJob[q].waiting
      BY <1>0, <3>1 DEF JobRec
    <3>. QED BY <1>0, <2>2, <3>1 DEF RunPc
  <2>. QED BY <2>1, <2>3, <2>4, <2>5, OrderStep
<1>3. ASSUME NEW w \in Worker, ExpansionThrows(w) PROVE InOrder'
  <2>1. /\ UNCHANGED <<camp, runStatus, runJob>> /\ wk'[w].pc = "failing" /\ wk'[w].at = wk[w].at
        /\ wk[w].pc \in RunPc /\ \A q \in Proc \ {w} : wk'[q] = wk[q]
    BY <1>0, <1>3 DEF ExpansionThrows, WorkerRec, RunPc
  <2>. QED BY <1>0, <2>1, PlainOrder DEF RunPc
<1>. QED BY <1>1, <1>2, <1>3 DEF Fault

(* No process moves.                                                       *)
LEMMA HandsStay ==
  ASSUME TypeOK, InOrder, wk' = wk
  PROVE  /\ \A q \in Proc : wk'[q].pc \in RunPc \cup {"reexpanding"} => wk'[q].at \in Run
         /\ \A q \in Proc : wk'[q].pc \in RunPc => MayOpen(wk'[q].at)
         /\ \A q \in Proc : wk'[q].pc = "reexpanding" => runStatus[wk'[q].at] /= "none"
BY DEF TypeOK, InOrder, HandsNear, RunPc

(* Nothing InOrder reads changes.                                          *)
LEMMA StillOrder ==
  ASSUME TypeOK, InOrder, UNCHANGED <<camp, runStatus, runJob, wk>>
  PROVE  InOrder'
<1>1. \A q \in Run : (HasJob(q)' => HasJob(q)) /\ (runJob'[q].waiting => runJob[q].waiting)
  BY DEF HasJob
<1>. QED BY <1>1, HandsStay, OrderStep

(* An API operation: no process moves. *)
LEMMA ApiStep ==
  ASSUME TypeOK, InOrder, wk' = wk,
         \A r \in Run : runStatus'[r] = "none" <=> runStatus[r] = "none",
         \A c \in Campaign : camp'[c].next => camp[c].next \/ runStatus[<<c, MaxRuns>>] = "none",
         \A r \in Run : camp'[r[1]].status \in Fresh => runStatus[r] = "none" /\ ~runJob'[r].waiting,
         \A r \in Run : HasJob(r)' => HasJob(r) \/ MayOpen(r)
  PROVE  InOrder'
<1>1. \A r \in Run : MayOpen(r) => MayOpen(r)'
  BY MoreOpen
<1>2. Gapless'
  BY <1>1 DEF InOrder, Gapless
<1>3. JobsNear'
  BY <1>1 DEF InOrder, JobsNear
<1>4. HandsNear'
  BY <1>1, HandsStay DEF HandsNear, MayOpen
<1>5. Unopened'
  BY DEF Unopened, StatusOf
<1>6. NextFree'
  BY RunsAre DEF InOrder, NextFree
<1>. QED BY <1>2, <1>3, <1>4, <1>5, <1>6 DEF InOrder

(* Where NextRunAt says yes there is room under maxRuns.                   *)
LEMMA NextRoom ==
  ASSUME NEW recurring \in BOOLEAN, NEW n \in Nat, TRUE \in NextRunAt(recurring, n)
  PROVE  n < MaxRuns
<1>0. MaxRuns \in Nat \ {0}
  BY CountsAssumption
<1>1. CASE recurring
  <2>1. NextRunAt(recurring, n) = {b \in BOOLEAN : b => n < MaxRuns}
    BY <1>1 DEF NextRunAt
  <2>. QED BY <2>1
<1>2. CASE ~recurring
  <2>1. NextRunAt(recurring, n) = {n = 0}
    BY <1>2 DEF NextRunAt
  <2>2. (n = 0) = TRUE
    BY <2>1
  <2>. QED BY <1>0, <2>2
<1>. QED BY <1>1, <1>2

(* What NextRunAt says yes to, maxRuns has room for. *)
LEMMA NextRunFree ==
  ASSUME InOrder, NEW c \in Campaign, NEW recurring \in BOOLEAN, TRUE \in NextRunAt(recurring, LastRunNo(c))
  PROVE  runStatus[<<c, MaxRuns>>] = "none"
<1>1. LastRunNo(c) \in 0..MaxRuns /\ Opened(c) = 1..LastRunNo(c)
  BY OpenedIs DEF InOrder
<1>2. LastRunNo(c) < MaxRuns
  <2>1. LastRunNo(c) \in Nat
    BY <1>1, CountsAssumption
  <2>. QED BY <2>1, NextRoom
<1>3. MaxRuns \notin Opened(c)
  BY <1>1, <1>2, CountsAssumption
<1>. QED BY <1>3, RunsAre DEF Opened

(* The run that comes after those opened may be opened. *)
LEMMA NextMayOpen ==
  ASSUME InOrder, NEW c \in Campaign, NEW r \in RunsOf(c), r[2] = LastRunNo(c) + 1
  PROVE  MayOpen(r)
<1>1. LastRunNo(c) \in 0..MaxRuns /\ Opened(c) = 1..LastRunNo(c)
  BY OpenedIs DEF InOrder
<1>2. r[1] = c /\ r[2] - 1 = LastRunNo(c)
  BY <1>1 DEF RunsOf
<1>3. CASE LastRunNo(c) = 0
  BY <1>2, <1>3 DEF MayOpen
<1>4. CASE LastRunNo(c) /= 0
  <2>1. LastRunNo(c) \in Opened(c)
    BY <1>1, <1>4
  <2>. QED BY <1>2, <2>1 DEF Opened, MayOpen
<1>. QED BY <1>3, <1>4

(* Before the first run, the first run's is the only job there can be.     *)
LEMMA NothingOpened ==
  ASSUME InOrder, NEW c \in Campaign, LastRunNo(c) = 0
  PROVE  \A r \in Run : r[1] = c => runStatus[r] = "none" /\ (HasJob(r) => r = <<c, 1>>)
<1>1. Opened(c) = {}
  BY OpenedIs DEF InOrder
<1>2. ASSUME NEW r \in Run, r[1] = c PROVE runStatus[r] = "none" /\ (HasJob(r) => r = <<c, 1>>)
  <2>1. r = <<c, r[2]>> /\ r[2] \in RunNo
    BY <1>2, RunsAre
  <2>2. \A n \in RunNo : runStatus[<<c, n>>] = "none"
    BY <1>1 DEF Opened
  <2>3. ASSUME MayOpen(r) PROVE r[2] = 1
    <3>1. r[2] /= 1 => r[2] - 1 \in RunNo
      BY <2>1, CountsAssumption DEF RunNo
    <3>. QED BY <1>2, <2>2, <2>3, <3>1 DEF MayOpen
  <2>. QED BY <1>2, <2>1, <2>2, <2>3 DEF InOrder, JobsNear
<1>. QED BY <1>2

(* The API operations.                                                     *)
LEMMA ApiOrder ==
  ASSUME TypeOK, InOrder, NEW c \in Campaign, Api(c)
  PROVE  InOrder'
<1>0. /\ camp \in [Campaign -> CampaignRec] /\ camp[c] \in CampaignRec /\ runStatus \in [Run -> RunStatus]
      /\ \A r \in Run : r[1] \in Campaign /\ r[2] \in RunNo
      /\ \A r \in Run : r[1] = c => r \in RunsOf(c)
      /\ \A r \in Run : camp[r[1]].status \in Fresh => runStatus[r] = "none" /\ ~runJob[r].waiting
  BY RunsAre DEF TypeOK, InOrder, Unopened, StatusOf, RunsOf
<1>1. wk' = wk
  BY DEF Api, CreateCampaign, DuplicateCampaign, NewDraft, PatchDraft, PatchPaused, ScheduleCampaign,
         UnscheduleCampaign, PauseCampaign, ResumeActive, ResumeBetween, CancelCampaign
<1>2. ASSUME UNCHANGED runJob, \A r \in Run : runStatus'[r] = "none" <=> runStatus[r] = "none",
             \A d \in Campaign : camp'[d].next => camp[d].next,
             \A d \in Campaign : camp'[d].status \in Fresh => camp[d].status \in Fresh
      PROVE  InOrder'
  <2>1. \A r \in Run : HasJob(r)' => HasJob(r)
    BY <1>2 DEF HasJob
  <2>2. \A r \in Run : camp'[r[1]].status \in Fresh => runStatus[r] = "none" /\ ~runJob'[r].waiting
    BY <1>0, <1>2
  <2>. QED BY <1>1, <1>2, <2>1, <2>2, ApiStep
<1>3. CASE CreateCampaign(c) \/ DuplicateCampaign(c)
  <2>1. PICK b : NewDraft(c, b)
    BY <1>3 DEF CreateCampaign, DuplicateCampaign
  <2>. QED BY <1>0, <1>2, <2>1 DEF NewDraft, Fresh
<1>4. CASE PatchDraft(c)
  <2>1. PICK b \in BOOLEAN : camp' = [camp EXCEPT ![c].recurring = b]
    BY <1>4 DEF PatchDraft
  <2>2. \A d \in Campaign : camp'[d].next = camp[d].next /\ camp'[d].status = camp[d].status
    BY <1>0, <2>1 DEF CampaignRec
  <2>. QED BY <1>2, <1>4, <2>2 DEF PatchDraft
<1>5. CASE PauseCampaign(c)
  <2>1. camp' = [camp EXCEPT ![c].status = "paused"]
    BY <1>5 DEF PauseCampaign
  <2>2. \A d \in Campaign : camp'[d].next = camp[d].next /\ (camp'[d].status \in Fresh => camp[d].status \in Fresh)
    BY <1>0, <2>1 DEF CampaignRec, Fresh
  <2>. QED BY <1>2, <1>5, <2>2 DEF PauseCampaign
<1>6. CASE CancelCampaign(c)
  <2>1. camp' = [camp EXCEPT ![c].status = "cancelled", ![c].next = FALSE]
    BY <1>6 DEF CancelCampaign
  <2>2. \A d \in Campaign : (camp'[d].next => camp[d].next) /\ (camp'[d].status \in Fresh => camp[d].status \in Fresh)
    BY <1>0, <2>1 DEF CampaignRec, Fresh
  <2>3. UNCHANGED runJob /\ \A r \in Run : runStatus'[r] = "none" <=> runStatus[r] = "none"
    BY <1>6 DEF CancelCampaign, ActiveRuns, ActiveRun
  <2>. QED BY <1>2, <2>2, <2>3
<1>7. CASE ResumeActive(c)
  <2>. DEFINE rs == {r \in RunsOf(c) : runStatus[r] = "expanding"}
  <2>1. camp' = [camp EXCEPT ![c].status = "running"] /\ runJob' = EnqueueRun(rs) /\ UNCHANGED runStatus
        /\ camp[c].status = "paused"
    BY <1>7 DEF ResumeActive
  <2>2. \A d \in Campaign : /\ camp'[d].next => camp[d].next
                            /\ camp'[d].status \in Fresh => camp[d].status \in Fresh /\ d /= c
    BY <1>0, <2>1 DEF CampaignRec, Fresh
  <2>3. \A r \in rs : MayOpen(r) /\ r[1] = c
    BY <1>0 DEF InOrder, Gapless, RunsOf, Run
  <2>. HIDE DEF rs
  <2>4. \A r \in Run : HasJob(r)' => HasJob(r) \/ MayOpen(r)
    BY <2>1, <2>3, Enqueued DEF HasJob
  <2>5. \A r \in Run : camp'[r[1]].status \in Fresh => runStatus[r] = "none" /\ ~runJob'[r].waiting
    BY <1>0, <2>1, <2>2, <2>3, Enqueued
  <2>. QED BY <1>1, <2>1, <2>2, <2>4, <2>5, ApiStep
<1>8. CASE ResumeBetween(c)
  <2>. DEFINE rs == {r \in RunsOf(c) : r[2] = LastRunNo(c) + 1}
  <2>1. PICK s \in {"scheduled", "done"} : camp' = [camp EXCEPT ![c].status = s]
    BY <1>8 DEF ResumeBetween
  <2>2. UNCHANGED runStatus /\ (runJob' = EnqueueRun(rs) \/ UNCHANGED runJob)
    BY <1>8 DEF ResumeBetween
  <2>3. \A d \in Campaign : /\ camp'[d].next => camp[d].next
                            /\ camp'[d].status \in Fresh => camp[d].status \in Fresh /\ d /= c
    BY <1>0, <2>1 DEF CampaignRec, Fresh
  <2>4. \A r \in rs : MayOpen(r) /\ r[1] = c
    BY NextMayOpen DEF RunsOf
  <2>. HIDE DEF rs
  <2>5. \A r \in Run : HasJob(r)' => HasJob(r) \/ MayOpen(r)
    BY <2>2, <2>4, Enqueued DEF HasJob
  <2>6. \A r \in Run : camp'[r[1]].status \in Fresh => runStatus[r] = "none" /\ ~runJob'[r].waiting
    BY <1>0, <2>2, <2>3, <2>4, Enqueued
  <2>. QED BY <1>1, <2>2, <2>3, <2>5, <2>6, ApiStep
<1>9. CASE PatchPaused(c)
  <2>. DEFINE rs == {r \in RunsOf(c) : r[2] = LastRunNo(c) + 1}
  <2>1. PICK b \in BOOLEAN : \E next \in NextRunAt(b, LastRunNo(c)) :
               camp' = [camp EXCEPT ![c].recurring = b, ![c].next = next]
    BY <1>9 DEF PatchPaused
  <2>2. PICK next \in NextRunAt(b, LastRunNo(c)) : camp' = [camp EXCEPT ![c].recurring = b, ![c].next = next]
    BY <2>1
  <2>3. UNCHANGED runStatus /\ runJob' = CancelWaiting(runJob, rs)
    BY <1>9 DEF PatchPaused
  <2>4. \A d \in Campaign : /\ camp'[d].status = camp[d].status
                            /\ d /= c => camp'[d].next = camp[d].next
                            /\ d = c => camp'[d].next = next
    BY <1>0, <2>2 DEF CampaignRec
  <2>. HIDE DEF rs
  <2>5. next \in BOOLEAN
    BY DEF NextRunAt
  <2>6. next => runStatus[<<c, MaxRuns>>] = "none"
    BY <2>5, NextRunFree
  <2>7. \A r \in Run : HasJob(r)' => HasJob(r)
    BY <2>3, Enqueued DEF HasJob
  <2>8. \A r \in Run : camp'[r[1]].status \in Fresh => runStatus[r] = "none" /\ ~runJob'[r].waiting
    BY <1>0, <2>3, <2>4, Enqueued
  <2>9. \A d \in Campaign : camp'[d].next => camp[d].next \/ runStatus[<<d, MaxRuns>>] = "none"
    BY <2>4, <2>6
  <2>. QED BY <1>1, <2>3, <2>7, <2>8, <2>9, ApiStep
<1>10. CASE ScheduleCampaign(c)
  <2>1. /\ camp[c].status = "draft" /\ camp' = [camp EXCEPT ![c].status = "scheduled", ![c].next = TRUE]
        /\ runJob' = EnqueueRun({<<c, 1>>}) /\ UNCHANGED runStatus
    BY <1>10 DEF ScheduleCampaign
  <2>2. \A d \in Campaign : /\ camp'[d].next => camp[d].next \/ d = c
                            /\ camp'[d].status \in Fresh => camp[d].status \in Fresh /\ d /= c
    BY <1>0, <2>1 DEF CampaignRec, Fresh
  <2>3. runStatus[<<c, MaxRuns>>] = "none"
    BY <1>0, <2>1, RunsAre DEF Fresh
  <2>4. \A r \in {<<c, 1>>} : MayOpen(r) /\ r[1] = c
    BY DEF MayOpen
  <2>5. \A r \in Run : HasJob(r)' => HasJob(r) \/ MayOpen(r)
    BY <2>1, <2>4, Enqueued DEF HasJob
  <2>6. \A r \in Run : camp'[r[1]].status \in Fresh => runStatus[r] = "none" /\ ~runJob'[r].waiting
    BY <1>0, <2>1, <2>2, <2>4, Enqueued
  <2>. QED BY <1>1, <2>1, <2>2, <2>3, <2>5, <2>6, ApiStep
<1>11. CASE UnscheduleCampaign(c)
  <2>1. /\ LastRunNo(c) = 0 /\ camp' = [camp EXCEPT ![c].status = "draft", ![c].next = FALSE]
        /\ runJob' = CancelWaiting(runJob, {<<c, 1>>}) /\ UNCHANGED runStatus
    BY <1>11 DEF UnscheduleCampaign
  <2>2. \A d \in Campaign : /\ camp'[d].next => camp[d].next
                            /\ d /= c => camp'[d].status = camp[d].status
    BY <1>0, <2>1 DEF CampaignRec
  <2>3. \A r \in Run : r[1] = c => runStatus[r] = "none" /\ (HasJob(r) => r = <<c, 1>>)
    BY <2>1, NothingOpened
  <2>4. \A r \in Run : HasJob(r)' => HasJob(r)
    BY <2>1, Enqueued DEF HasJob
  <2>5. \A r \in Run : camp'[r[1]].status \in Fresh => runStatus[r] = "none" /\ ~runJob'[r].waiting
    <3>1. ASSUME NEW r \in Run, r[1] /= c, camp'[r[1]].status \in Fresh PROVE runStatus[r] = "none" /\ ~runJob'[r].waiting
      BY <1>0, <2>1, <2>2, <3>1, Enqueued
    <3>2. ASSUME NEW r \in Run, r[1] = c PROVE runStatus[r] = "none" /\ ~runJob'[r].waiting
      BY <2>1, <2>3, <3>2, Enqueued DEF HasJob
    <3>. QED BY <3>1, <3>2
  <2>. QED BY <1>1, <2>1, <2>2, <2>4, <2>5, ApiStep
<1>. QED BY <1>3, <1>4, <1>5, <1>6, <1>7, <1>8, <1>9, <1>10, <1>11 DEF Api

(* Every step keeps the order.                                             *)
LEMMA NextOrder == TypeOK /\ RowLocks /\ InOrder /\ [Next]_vars => InOrder'
<1> SUFFICES ASSUME TypeOK, RowLocks, InOrder, [Next]_vars PROVE InOrder'
  OBVIOUS
<1>1. CASE UNCHANGED vars
  BY <1>1, StillOrder DEF vars
<1>2. ASSUME NEW r \in Run, NEW k \in Contact, WindowOpens(r, k) PROVE InOrder'
  BY <1>2, StillOrder DEF WindowOpens
<1>. QED BY <1>1, <1>2, ApiOrder, RunWorkerOrder, BatchWorkerOrder, SweepOrder, FinishOrder, FaultOrder DEF Next, Proc

(* It holds at the start.                                                  *)
LEMMA InitOrder == Init => InOrder
<1> SUFFICES ASSUME Init PROVE InOrder
  OBVIOUS
<1>. QED BY RunsAre DEF Init, IdleWorker, RunPc, InOrder, Gapless, JobsNear, HandsNear, Unopened, NextFree, HasJob

(* The inductive invariant, as a theorem of the specification.             *)
THEOREM OrderInv == Spec => []InOrder
BY InitOrder, NextOrder, TypeCorrect, RowLocksInv, PTL DEF Spec

(* Runs open in order without a gap, and none is announced past maxRuns,   *)
(* whatever schedules, resumes, expansions, sweeps and crashes there are *)
(* (startRun, resumeCampaign, sweepRuns).                                  *)
THEOREM OrderSafe == Spec => []RunsInOrder
<1>1. InOrder => RunsInOrder
  <2>1. ASSUME InOrder, NEW c \in Campaign, camp[c].next PROVE LastRunNo(c) < MaxRuns
    <3>1. LastRunNo(c) \in 0..MaxRuns /\ Opened(c) = 1..LastRunNo(c)
      BY <2>1, OpenedIs DEF InOrder
    <3>2. MaxRuns \notin Opened(c)
      BY <2>1 DEF InOrder, NextFree, Opened
    <3>. QED BY <3>1, <3>2, CountsAssumption
  <2>. QED BY <2>1, OpenedIs DEF InOrder, RunsInOrder
<1>. QED BY <1>1, OrderInv, PTL

(* A draft has no run and no waiting job, even one that was scheduled and  *)
(* unscheduled before (unscheduleCampaign).                                *)
THEOREM DraftCleanSafe == Spec => []DraftIsClean
<1>1. InOrder => DraftIsClean
  BY DEF InOrder, Unopened, DraftIsClean, StatusOf, Fresh, RunsOf, Run
<1>. QED BY <1>1, OrderInv, PTL

---------------------------------------------------------------------------
(* The job of a campaign's first run.                                      *)

(* A run's job is in an execution's hands; in those or in the queue.       *)
InHand(w, r) == wk[w].at = r /\ wk[w].pc \in RunPc
Served(r)    == HasJob(r) \/ \E w \in Worker : InHand(w, r)
Awaits(c)    == camp[c].status = "scheduled" /\ runStatus[<<c, 1>>] = "none"
FirstInv     == faults = 0 => \A c \in Campaign : Awaits(c) => Served(<<c, 1>>)

(* A step of p does not lose the job.                                      *)
LEMMA ServedStays ==
  ASSUME NEW r, Served(r), NEW p \in Proc, \A q \in Proc \ {p} : wk'[q] = wk[q],
         HasJob(r) => HasJob(r)' \/ (p \in Worker /\ wk'[p].at = r /\ wk'[p].pc \in RunPc),
         p \in Worker /\ InHand(p, r) => HasJob(r)' \/ (wk'[p].at = r /\ wk'[p].pc \in RunPc)
  PROVE  Served(r)'
<1>1. CASE HasJob(r)
  BY <1>1 DEF Served, InHand
<1>2. ASSUME NEW w \in Worker, InHand(w, r) PROVE Served(r)'
  BY <1>2 DEF Served, InHand, Proc
<1>. QED BY <1>1, <1>2 DEF Served

(* A step that moves no process and takes no job.                          *)
LEMMA ServedJobs ==
  ASSUME NEW r, Served(r), wk' = wk, HasJob(r) => HasJob(r)'
  PROVE  Served(r)'
BY DEF Served, InHand

(* A campaign has run exactly when its first run is open.                  *)
LEMMA FirstOpened ==
  ASSUME InOrder, NEW c \in Campaign
  PROVE  LastRunNo(c) = 0 <=> runStatus[<<c, 1>>] = "none"
<1>1. LastRunNo(c) \in 0..MaxRuns /\ Opened(c) = 1..LastRunNo(c)
  BY OpenedIs DEF InOrder
<1>2. 1 \in Opened(c) <=> runStatus[<<c, 1>>] /= "none"
  BY RunsAre DEF Opened
<1>3. 1 \in 1..LastRunNo(c) <=> LastRunNo(c) /= 0
  BY <1>1, CountsAssumption
<1>. QED BY <1>1, <1>2, <1>3

(* The API operations keep the first run's job.                            *)
LEMMA ApiFirst ==
  ASSUME TypeOK, InOrder, FirstInv, faults = 0, NEW d \in Campaign, Api(d)
  PROVE  FirstInv'
<1>0. /\ camp \in [Campaign -> CampaignRec] /\ \A c \in Campaign : camp[c] \in CampaignRec
      /\ \A c \in Campaign : Awaits(c) => Served(<<c, 1>>)
      /\ \A c \in Campaign : <<c, 1>> \in Run
  BY RunsAre DEF TypeOK, FirstInv
<1>1. wk' = wk
  BY DEF Api, CreateCampaign, DuplicateCampaign, NewDraft, PatchDraft, PatchPaused, ScheduleCampaign,
         UnscheduleCampaign, PauseCampaign, ResumeActive, ResumeBetween, CancelCampaign
<1>2. SUFFICES ASSUME NEW c \in Campaign, camp'[c].status = "scheduled", runStatus'[<<c, 1>>] = "none"
               PROVE  Served(<<c, 1>>)'
  BY DEF FirstInv, Awaits
<1>3. ASSUME camp'[d].status /= "scheduled", \A e \in Campaign \ {d} : camp'[e] = camp[e],
             \A q \in Run : runStatus'[q] = "none" => runStatus[q] = "none",
             \A q \in Run : q[1] /= d => runJob'[q] = runJob[q]
      PROVE  Served(<<c, 1>>)'
  <2>1. Served(<<c, 1>>) /\ runJob'[<<c, 1>>] = runJob[<<c, 1>>]
    BY <1>0, <1>2, <1>3 DEF Awaits
  <2>. QED BY <1>1, <2>1, ServedJobs DEF HasJob
<1>4. ASSUME \A q \in Run : HasJob(q) => HasJob(q)', \A q \in Run : runStatus'[q] = "none" => runStatus[q] = "none",
             \A e \in Campaign : camp'[e].status = camp[e].status \/ camp'[e].status /= "scheduled"
      PROVE  Served(<<c, 1>>)'
  <2>1. Served(<<c, 1>>)
    BY <1>0, <1>2, <1>4 DEF Awaits
  <2>. QED BY <1>0, <1>1, <1>4, <2>1, ServedJobs
<1>5. CASE CreateCampaign(d) \/ DuplicateCampaign(d)
  <2>1. PICK b : NewDraft(d, b)
    BY <1>5 DEF CreateCampaign, DuplicateCampaign
  <2>. QED BY <1>0, <1>3, <2>1 DEF NewDraft
<1>6. CASE PatchDraft(d)
  <2>1. PICK b \in BOOLEAN : camp' = [camp EXCEPT ![d].recurring = b]
    BY <1>6 DEF PatchDraft
  <2>. QED BY <1>0, <1>4, <1>6, <2>1 DEF PatchDraft, CampaignRec, HasJob
<1>7. CASE PauseCampaign(d) \/ CancelCampaign(d)
  <2>1. PICK s \in {"paused", "cancelled"}, n \in BOOLEAN : camp' = [camp EXCEPT ![d].status = s, ![d].next = n]
    <3>1. CASE PauseCampaign(d)
      <4>1. camp' = [camp EXCEPT ![d].status = "paused", ![d].next = camp[d].next]
        BY <1>0, <3>1 DEF PauseCampaign, CampaignRec
      <4>. QED BY <1>0, <4>1 DEF CampaignRec
    <3>2. CASE CancelCampaign(d)
      BY <3>2 DEF CancelCampaign
    <3>. QED BY <1>7, <3>1, <3>2
  <2>2. UNCHANGED runJob /\ \A q \in Run : runStatus'[q] = "none" => runStatus[q] = "none"
    BY <1>7 DEF PauseCampaign, CancelCampaign
  <2>3. camp'[d].status = s /\ \A e \in Campaign \ {d} : camp'[e] = camp[e]
    BY <1>0, <2>1 DEF CampaignRec
  <2>. QED BY <1>3, <2>2, <2>3
<1>8. CASE PatchPaused(d) \/ UnscheduleCampaign(d)
  <2>1. PICK n \in RunNo \cup {MaxRuns + 1} : runJob' = CancelWaiting(runJob, {q \in RunsOf(d) : q[2] = n})
    <3>1. CASE PatchPaused(d)
      <4>1. LastRunNo(d) + 1 \in RunNo \cup {MaxRuns + 1}
        BY OpenedIs, CountsAssumption DEF InOrder, RunNo
      <4>. QED BY <3>1, <4>1 DEF PatchPaused
    <3>2. CASE UnscheduleCampaign(d)
      <4>1. {<<d, 1>>} = {q \in RunsOf(d) : q[2] = 1}
        BY RunsAre DEF RunsOf
      <4>. QED BY <3>2, <4>1, RunsAre DEF UnscheduleCampaign
    <3>. QED BY <1>8, <3>1, <3>2
  <2>2. \A q \in Run : q[1] /= d => runJob'[q] = runJob[q]
    BY <2>1, Enqueued DEF RunsOf
  <2>3. /\ camp'[d].status \in {"paused", "draft"} /\ \A e \in Campaign \ {d} : camp'[e] = camp[e]
        /\ UNCHANGED runStatus
    <3>1. CASE PatchPaused(d)
      BY <1>0, <3>1 DEF PatchPaused, CampaignRec
    <3>2. CASE UnscheduleCampaign(d)
      BY <1>0, <3>2 DEF UnscheduleCampaign, CampaignRec
    <3>. QED BY <1>8, <3>1, <3>2
  <2>. QED BY <1>3, <2>2, <2>3
<1>9. CASE ScheduleCampaign(d)
  <2>1. /\ camp' = [camp EXCEPT ![d].status = "scheduled", ![d].next = TRUE]
        /\ runJob' = EnqueueRun({<<d, 1>>}) /\ UNCHANGED runStatus
    BY <1>9 DEF ScheduleCampaign
  <2>2. CASE c = d
    <3>1. HasJob(<<c, 1>>)'
      BY <1>0, <2>1, <2>2, Enqueued DEF HasJob
    <3>. QED BY <3>1 DEF Served
  <2>3. CASE c /= d
    <3>1. Served(<<c, 1>>)
      BY <1>0, <1>2, <2>1, <2>3 DEF Awaits
    <3>2. HasJob(<<c, 1>>) => HasJob(<<c, 1>>)'
      BY <1>0, <2>1, Enqueued DEF HasJob
    <3>. QED BY <1>1, <3>1, <3>2, ServedJobs
  <2>. QED BY <2>2, <2>3
<1>10. CASE ResumeActive(d)
  <2>1. PICK rs : runJob' = EnqueueRun(rs)
    BY <1>10 DEF ResumeActive
  <2>2. \A q \in Run : HasJob(q) => HasJob(q)'
    BY <2>1, Enqueued DEF HasJob
  <2>. QED BY <1>0, <1>4, <1>10, <2>2 DEF ResumeActive, CampaignRec
<1>11. CASE ResumeBetween(d)
  <2>. DEFINE rs == {r \in RunsOf(d) : r[2] = LastRunNo(d) + 1}
  <2>0. UNCHANGED runStatus
    BY <1>11 DEF ResumeBetween
  <2>1. CASE runJob' = EnqueueRun(rs) /\ camp' = [camp EXCEPT ![d].status = "scheduled"]
    <3>1. CASE c = d
      <4>1. LastRunNo(d) = 0
        BY <1>2, <2>0, <3>1, FirstOpened
      <4>2. <<c, 1>> \in rs
        BY <3>1, <4>1, RunsAre DEF RunsOf
      <4>. HIDE DEF rs
      <4>3. HasJob(<<c, 1>>)'
        BY <1>0, <2>1, <4>2, Enqueued DEF HasJob
      <4>. QED BY <4>3 DEF Served
    <3>2. CASE c /= d
      <4>. HIDE DEF rs
      <4>1. Served(<<c, 1>>)
        BY <1>0, <1>2, <2>0, <2>1, <3>2 DEF Awaits
      <4>2. HasJob(<<c, 1>>) => HasJob(<<c, 1>>)'
        BY <1>0, <2>1, Enqueued DEF HasJob
      <4>. QED BY <1>1, <4>1, <4>2, ServedJobs
    <3>. QED BY <3>1, <3>2
  <2>2. CASE UNCHANGED runJob /\ camp' = [camp EXCEPT ![d].status = "done"]
    <3>1. camp'[d].status = "done" /\ \A e \in Campaign \ {d} : camp'[e] = camp[e]
      BY <1>0, <2>2 DEF CampaignRec
    <3>. QED BY <1>3, <2>0, <2>2, <3>1
  <2>. QED BY <1>11, <2>1, <2>2 DEF ResumeBetween
<1>. QED BY <1>5, <1>6, <1>7, <1>8, <1>9, <1>10, <1>11 DEF Api

(* A step of p after which no more campaigns wait for their first run. *)
LEMMA HandFirst ==
  ASSUME FirstInv, faults = 0, NEW p \in Proc, \A q \in Proc \ {p} : wk'[q] = wk[q],
         \A c \in Campaign : camp'[c].status = "scheduled" /\ runStatus'[<<c, 1>>] = "none" => Awaits(c),
         \A r \in Run : HasJob(r) => HasJob(r)' \/ (p \in Worker /\ wk'[p].at = r /\ wk'[p].pc \in RunPc),
         \A c \in Campaign : p \in Worker /\ InHand(p, <<c, 1>>)
           => \/ HasJob(<<c, 1>>)' 
              \/ wk'[p].at = <<c, 1>> /\ wk'[p].pc \in RunPc
              \/ camp'[c].status /= "scheduled" \/ runStatus'[<<c, 1>>] /= "none"
  PROVE  FirstInv'
<1>1. SUFFICES ASSUME NEW c \in Campaign, camp'[c].status = "scheduled", runStatus'[<<c, 1>>] = "none"
               PROVE  Served(<<c, 1>>)'
  BY DEF FirstInv, Awaits
<1>2. Served(<<c, 1>>) /\ <<c, 1>> \in Run
  BY <1>1, RunsAre DEF FirstInv
<1>. QED BY <1>1, <1>2, ServedStays

(* The steps of campaign.run.                                              *)
LEMMA RunWorkerFirst ==
  ASSUME TypeOK, RowLocks, InOrder, FirstInv, faults = 0, NEW w \in Worker, RunWorker(w)
  PROVE  FirstInv'
<1>0. /\ w \in Proc /\ wk \in [Proc -> WorkerRec] /\ runJob \in [Run -> JobRec]
      /\ camp \in [Campaign -> CampaignRec] /\ runStatus \in [Run -> RunStatus]
      /\ \A r \in Run : r[1] \in Campaign
      /\ \A c \in Campaign : <<c, 1>> \in Run /\ <<c, 1>>[1] = c
      /\ wk[w].pc /= "idle" => wk[w].at \in Run
  BY RunsAre DEF TypeOK, Proc
<1>1. ASSUME NEW r \in Run, TakeRun(w, r) PROVE FirstInv'
  <2>1. PICK j \in Fetched(runJob[r]) : runJob' = [runJob EXCEPT ![r] = j]
    BY <1>1 DEF TakeRun
  <2>2. /\ wk'[w].pc = "starting" /\ wk'[w].at = r /\ \A q \in Proc \ {w} : wk'[q] = wk[q]
        /\ UNCHANGED <<camp, runStatus>> /\ wk[w].pc = "idle"
    BY <1>0, <1>1 DEF TakeRun, WorkerRec
  <2>3. \A q \in Run : HasJob(q) => HasJob(q)' \/ q = r
    BY <2>1 DEF HasJob
  <2>. QED BY <1>0, <2>2, <2>3, HandFirst DEF Awaits, InHand, RunPc
<1>2. CASE StartRunStops(w)
  <2>1. /\ wk[w].pc = "starting" /\ wk'[w].pc = "idle" /\ \A q \in Proc \ {w} : wk'[q] = wk[q]
        /\ UNCHANGED <<camp, runStatus, runJob>>
    BY <1>0, <1>2, Moves DEF StartRunStops
  <2>2. \A c \in Campaign : wk[w].at = <<c, 1>> => camp[c].status /= "scheduled" \/ runStatus[<<c, 1>>] /= "none"
    BY <1>0, <1>2 DEF StartRunStops, StatusOf
  <2>. QED BY <1>0, <2>1, <2>2, HandFirst DEF Awaits, InHand, HasJob
<1>3. CASE StartRunResumes(w) \/ StartRunAdmits(w) \/ ResolveAudience(w) \/ InsertChunk(w)
  <2>1. wk'[w].at = wk[w].at /\ wk'[w].pc \in RunPc /\ \A q \in Proc \ {w} : wk'[q] = wk[q]
    <3>1. CASE StartRunResumes(w) \/ StartRunAdmits(w)
      BY <1>0, <3>1, Moves DEF StartRunResumes, StartRunAdmits, RunPc
    <3>2. CASE ResolveAudience(w) \/ InsertChunk(w)
      BY <1>0, <3>2 DEF ResolveAudience, InsertChunk, WorkerRec, RunPc
    <3>. QED BY <1>3, <3>1, <3>2
  <2>2. UNCHANGED <<camp, runStatus, runJob>>
    BY <1>3 DEF StartRunResumes, StartRunAdmits, ResolveAudience, InsertChunk
  <2>. QED BY <1>0, <2>1, <2>2, HandFirst DEF Awaits, InHand, HasJob
<1>4. CASE StartRunWaits(w)
  <2>1. PICK r \in Run : r = wk[w].at
    BY <1>0, <1>4 DEF StartRunWaits
  <2>2. /\ runJob' = EnqueueRun({r})
        /\ UNCHANGED <<camp, runStatus>> /\ wk'[w].pc = "idle" /\ \A q \in Proc \ {w} : wk'[q] = wk[q]
    BY <1>0, <1>4, <2>1, Moves DEF StartRunWaits
  <2>3. /\ \A q \in Run : HasJob(q) => HasJob(q)'
        /\ HasJob(r)'
    BY <2>2, Enqueued DEF HasJob
  <2>4. \A c \in Campaign : InHand(w, <<c, 1>>) => r = <<c, 1>>
    BY <2>1 DEF InHand
  <2>. QED BY <1>0, <2>2, <2>3, <2>4, HandFirst DEF Awaits
<1>5. CASE StartRunOpens(w)
  <2>. DEFINE r == wk[w].at
              c == r[1]
  <2>1. /\ r \in Run /\ c \in Campaign /\ runStatus' = [runStatus EXCEPT ![r] = "expanding"]
        /\ wk'[w].pc = "resolving" /\ wk'[w].at = r /\ \A q \in Proc \ {w} : wk'[q] = wk[q]
    BY <1>0, <1>5, Moves DEF StartRunOpens
  <2>2. PICK n \in BOOLEAN : camp' = [camp EXCEPT ![c].status = "running", ![c].next = n]
    BY <1>0, <1>5, <2>1 DEF StartRunOpens, CampaignRec, NextRunAt
  <2>3. runJob' = runJob \/ \E rs : runJob' = EnqueueRun(rs)
    BY <1>5 DEF StartRunOpens
  <2>. HIDE DEF r, c
  <2>4. \A q \in Run : HasJob(q) => HasJob(q)'
    BY <2>3, Enqueued DEF HasJob
  <2>5. \A d \in Campaign : camp'[d].status = "scheduled" /\ runStatus'[<<d, 1>>] = "none" => Awaits(d)
    BY <1>0, <2>1, <2>2 DEF Awaits, CampaignRec
  <2>. QED BY <1>0, <2>1, <2>4, <2>5, HandFirst DEF InHand, r, RunPc
<1>6. CASE ExpansionDone(w) \/ ExpansionOvertaken(w)
  <2>1. /\ UNCHANGED <<camp, runJob>> /\ wk[w].at \in Run /\ runStatus[wk[w].at] /= "none"
        /\ wk'[w].pc = "idle" /\ \A q \in Proc \ {w} : wk'[q] = wk[q]
    BY <1>0, <1>6, Moves DEF ExpansionDone, ExpansionOvertaken, RowLocks
  <2>2. runStatus' = runStatus \/ runStatus' = [runStatus EXCEPT ![wk[w].at] = "sending"]
    BY <1>6 DEF ExpansionDone, ExpansionOvertaken
  <2>3. \A q \in Run : runStatus'[q] = "none" <=> runStatus[q] = "none"
    BY <1>0, <2>1, <2>2
  <2>. QED BY <1>0, <2>1, <2>3, HandFirst DEF Awaits, InHand, HasJob
<1>7. CASE FailRun(w)
  <2>. DEFINE r == wk[w].at
              c == r[1]
  <2>1. /\ UNCHANGED runJob /\ r \in Run /\ c \in Campaign
        /\ runStatus' = IF runStatus[r] \in ActiveRun THEN [runStatus EXCEPT ![r] = "failed"] ELSE runStatus
        /\ camp' = IF camp[c].status \notin {"cancelled", "done"}
                   THEN [camp EXCEPT ![c].status = "failed", ![c].next = FALSE] ELSE camp
        /\ wk'[w].pc = "idle" /\ \A q \in Proc \ {w} : wk'[q] = wk[q]
    BY <1>0, <1>7, Moves DEF FailRun
  <2>2. \A d \in Campaign : InHand(w, <<d, 1>>) => d = c
    BY <1>0 DEF InHand
  <2>. HIDE DEF r, c
  <2>3. \A d \in Campaign : (camp'[d].status = "scheduled" => camp[d].status = "scheduled") /\ camp'[c].status /= "scheduled"
    BY <1>0, <2>1 DEF CampaignRec
  <2>4. \A q \in Run : runStatus'[q] = "none" => runStatus[q] = "none"
    BY <1>0, <2>1
  <2>. QED BY <1>0, <2>1, <2>2, <2>3, <2>4, HandFirst DEF Awaits, HasJob
<1>. QED BY <1>1, <1>2, <1>3, <1>4, <1>5, <1>6, <1>7 DEF RunWorker

(* A step of an execution that works at no run's opening, and enqueues at most. *)
LEMMA OtherFirst ==
  ASSUME FirstInv, faults = 0, NEW p \in Proc, \A q \in Proc \ {p} : wk'[q] = wk[q],
         p \in Worker => wk[p].pc \notin RunPc,
         \A c \in Campaign : camp'[c].status = "scheduled" /\ runStatus'[<<c, 1>>] = "none" => Awaits(c),
         \A r \in Run : HasJob(r) => HasJob(r)'
  PROVE  FirstInv'
BY HandFirst DEF InHand

(* The steps of campaign.batch.                                            *)
LEMMA BatchWorkerFirst ==
  ASSUME TypeOK, FirstInv, faults = 0, NEW w \in Worker, BatchWorker(w)
  PROVE  FirstInv'
<1>0. w \in Proc /\ wk \in [Proc -> WorkerRec]
  BY DEF TypeOK, Proc
<1>1. /\ UNCHANGED <<camp, runStatus, runJob>> /\ wk[w].pc \notin RunPc
      /\ \A q \in Proc \ {w} : wk'[q] = wk[q]
  <2>1. CASE \E r \in Run : TakeBatch(w, r)
    BY <1>0, <2>1 DEF TakeBatch, WorkerRec, RunPc
  <2>2. CASE BatchStops(w) \/ BatchRequeues(w) \/ BatchHalts(w)
    BY <1>0, <2>2, Moves DEF BatchStops, BatchRequeues, BatchHalts, RunPc
  <2>3. CASE BatchBegins(w) \/ DecideThrows(w)
    BY <1>0, <2>3, Moves DEF BatchBegins, DecideThrows, RunPc
  <2>4. CASE FillPage(w)
    <3>1. CASE wk' = LoopEnds(w)
      BY <1>0, <2>4, <3>1, Moves DEF FillPage, RunPc
    <3>2. CASE wk' /= LoopEnds(w)
      BY <1>0, <2>4, <3>2 DEF FillPage, WorkerRec, RunPc
    <3>. QED BY <3>1, <3>2
  <2>5. CASE DecideTaken(w) \/ DecideSettles(w) \/ DecideDefers(w)
    <3>1. \E k, counted : Advance(w, k, counted)
      BY <2>5 DEF DecideTaken, DecideSettles, DecideDefers
    <3>2. UNCHANGED <<camp, runStatus, runJob>> /\ wk[w].pc = "deciding"
      BY <2>5 DEF DecideTaken, DecideSettles, DecideDefers
    <3>. QED BY <1>0, <3>1, <3>2, Moves DEF RunPc
  <2>6. CASE CountAttempt(w)
    <3>1. wk[w].pc = "counting" /\ UNCHANGED <<camp, runStatus>>
          /\ ((\E k : Advance(w, k, TRUE) /\ UNCHANGED runJob) \/ JobFails(w))
      BY <2>6 DEF CountAttempt
    <3>2. JobFails(w) => UNCHANGED runJob
      BY <1>0, <3>1 DEF JobFails, RunPc
    <3>. QED BY <1>0, <3>1, <3>2, Moves DEF RunPc
  <2>. QED BY <2>1, <2>2, <2>3, <2>4, <2>5, <2>6 DEF BatchWorker
<1>. QED BY <1>0, <1>1, OtherFirst DEF Awaits, HasJob

(* finishRun: a campaign it reschedules has run.                           *)
LEMMA FinishFirst ==
  ASSUME TypeOK, RowLocks, InOrder, FirstInv, faults = 0, NEW p \in Proc, Finish(p)
  PROVE  FirstInv'
<1>0. /\ wk \in [Proc -> WorkerRec] /\ camp \in [Campaign -> CampaignRec] /\ runStatus \in [Run -> RunStatus]
      /\ wk[p].pc /= "idle" => wk[p].at \in Run /\ wk[p].at[1] \in Campaign
  BY RunParts DEF TypeOK
<1>1. CASE FinishMarks(p)
  <2>1. UNCHANGED <<camp, runStatus, runJob>> /\ wk[p].pc \notin RunPc /\ \A q \in Proc \ {p} : wk'[q] = wk[q]
    BY <1>0, <1>1 DEF FinishMarks, WorkerRec, RunPc
  <2>. QED BY <2>1, OtherFirst DEF Awaits, HasJob
<1>2. CASE FinishSkips(p)
  <2>1. UNCHANGED <<camp, runStatus, runJob>> /\ wk[p].pc \notin RunPc /\ \A q \in Proc \ {p} : wk'[q] = wk[q]
    BY <1>0, <1>2, Moves DEF FinishSkips, RunPc
  <2>. QED BY <2>1, OtherFirst DEF Awaits, HasJob
<1>3. CASE FinishCommits(p)
  <2>. DEFINE r == wk[p].at
              c == r[1]
  <2>1. /\ UNCHANGED runJob /\ r \in Run /\ c \in Campaign /\ runStatus[r] = "sending" /\ wk[p].pc = "closing"
        /\ runStatus' = [runStatus EXCEPT ![r] = "done"] /\ \A q \in Proc \ {p} : wk'[q] = wk[q]
    BY <1>0, <1>3, Moves, OthersHold DEF FinishCommits
  <2>2. \/ camp' = camp
        \/ camp' = [camp EXCEPT ![c].status = IF camp[c].next THEN "scheduled" ELSE "done"]
    BY <1>3 DEF FinishCommits
  <2>3. runStatus[<<c, 1>>] /= "none"
    <3>1. LastRunNo(c) \in 0..MaxRuns /\ Opened(c) = 1..LastRunNo(c)
      BY <2>1, OpenedIs DEF InOrder
    <3>2. r[2] \in Opened(c)
      BY <2>1, RunsAre DEF Opened
    <3>3. LastRunNo(c) /= 0
      BY <3>1, <3>2, CountsAssumption
    <3>. QED BY <2>1, <3>3, FirstOpened
  <2>. HIDE DEF r, c
  <2>4. \A q \in Run : runStatus'[q] = "none" <=> runStatus[q] = "none"
    BY <1>0, <2>1
  <2>5. \A d \in Campaign \ {c} : camp'[d] = camp[d]
    BY <1>0, <2>1, <2>2
  <2>6. \A d \in Campaign : camp'[d].status = "scheduled" /\ runStatus'[<<d, 1>>] = "none" => Awaits(d)
    BY <2>3, <2>4, <2>5, RunsAre DEF Awaits
  <2>. QED BY <2>1, <2>6, OtherFirst DEF HasJob, RunPc
<1>. QED BY <1>1, <1>2, <1>3 DEF Finish

(* The sweep only adds jobs.                                               *)
LEMMA SweepFirst ==
  ASSUME TypeOK, FirstInv, faults = 0, NEW s \in Sweeper, Sweep(s)
  PROVE  FirstInv'
<1>0. s \in Proc /\ s \notin Worker /\ wk \in [Proc -> WorkerRec]
  BY ProcAssumption DEF TypeOK, Proc
<1>1. /\ UNCHANGED <<camp, runStatus>> /\ \A q \in Proc \ {s} : wk'[q] = wk[q]
      /\ runJob' = runJob \/ \E rs : runJob' = EnqueueRun(rs)
  <2>1. ASSUME NEW r \in Run, SweepFinds(s, r)
        PROVE  UNCHANGED <<camp, runStatus, runJob>> /\ \A q \in Proc \ {s} : wk'[q] = wk[q]
    BY <1>0, <2>1 DEF SweepFinds
  <2>2. CASE SweepEnqueuesBatch(s) \/ SweepResumesExpansion(s)
    BY <1>0, <2>2, Moves DEF SweepEnqueuesBatch, SweepResumesExpansion
  <2>3. CASE SweepLooks(s)
    BY <1>0, <2>3 DEF SweepLooks
  <2>. QED BY <2>1, <2>2, <2>3 DEF Sweep
<1>2. \A r \in Run : HasJob(r) => HasJob(r)'
  BY <1>1, Enqueued DEF HasJob
<1>. QED BY <1>0, <1>1, <1>2, OtherFirst DEF Awaits

(* Every step that is not a fault.                                         *)
LEMMA NextFirst == TypeOK /\ RowLocks /\ InOrder /\ FirstInv /\ [Next]_vars => FirstInv'
<1> SUFFICES ASSUME TypeOK, RowLocks, InOrder, FirstInv, [Next]_vars, faults' = 0 PROVE FirstInv'
  BY DEF FirstInv
<1>1. CASE UNCHANGED vars
  BY <1>1 DEF vars, FirstInv, Awaits, Served, HasJob, InHand
<1>2. ASSUME NEW r \in Run, NEW k \in Contact, WindowOpens(r, k) PROVE FirstInv'
  BY <1>2 DEF WindowOpens, FirstInv, Awaits, Served, HasJob, InHand
<1>3. ~Fault
  <2>1. Fault => faults' = faults + 1
    BY DEF Fault, Crash, JobExpires, ExpansionThrows
  <2>2. faults \in Nat
    BY CountsAssumption DEF TypeOK
  <2>. QED BY <2>1, <2>2
<1>4. CASE \E c \in Campaign : Api(c)
  <2>1. faults = 0
    BY <1>4 DEF Api, CreateCampaign, DuplicateCampaign, NewDraft, PatchDraft, PatchPaused, ScheduleCampaign,
           UnscheduleCampaign, PauseCampaign, ResumeActive, ResumeBetween, CancelCampaign
  <2>. QED BY <1>4, <2>1, ApiFirst
<1>5. ASSUME NEW w \in Worker, RunWorker(w) PROVE FirstInv'
  <2>1. faults = 0
    BY <1>5 DEF RunWorker, TakeRun, StartRunStops, StartRunResumes, StartRunWaits, StartRunAdmits, StartRunOpens,
           ResolveAudience, InsertChunk, ExpansionDone, ExpansionOvertaken, FailRun
  <2>. QED BY <1>5, <2>1, RunWorkerFirst
<1>6. ASSUME NEW w \in Worker, BatchWorker(w) PROVE FirstInv'
  <2>1. faults = 0
    BY <1>6 DEF BatchWorker, TakeBatch, BatchStops, BatchBegins, FillPage, DecideTaken, DecideSettles, DecideDefers,
           DecideThrows, CountAttempt, BatchRequeues, BatchHalts
  <2>. QED BY <1>6, <2>1, BatchWorkerFirst
<1>7. ASSUME NEW s \in Sweeper, Sweep(s) PROVE FirstInv'
  <2>1. faults = 0
    BY <1>7 DEF Sweep, SweepFinds, SweepResumesExpansion, SweepEnqueuesBatch, SweepLooks
  <2>. QED BY <1>7, <2>1, SweepFirst
<1>8. ASSUME NEW p \in Proc, Finish(p) PROVE FirstInv'
  <2>1. faults = 0
    BY <1>8 DEF Finish, FinishMarks, FinishSkips, FinishCommits
  <2>. QED BY <1>8, <2>1, FinishFirst
<1>. QED BY <1>1, <1>2, <1>3, <1>4, <1>5, <1>6, <1>7, <1>8 DEF Next

(* A scheduled campaign's first run keeps its job, waiting or in hand,     *)
(* while it waits for room and over a pause, as long as no process has     *)
(* crashed: a crash may drop a job whose retries are used up (startRun).   *)
THEOREM FirstJobSafe == Spec => [](faults = 0 => FirstRunHasJob)
<1>1. Init => FirstInv
  <2>1. ASSUME Init, NEW c \in Campaign PROVE ~Awaits(c)
    BY <2>1 DEF Init, Awaits
  <2>. QED BY <2>1 DEF FirstInv
<1>2. InOrder /\ FirstInv => (faults = 0 => FirstRunHasJob)
  <2>1. ASSUME InOrder, FirstInv, faults = 0, NEW c \in Campaign, camp[c].status = "scheduled", LastRunNo(c) = 0
        PROVE  Served(<<c, 1>>)
    BY <2>1, FirstOpened DEF FirstInv, Awaits
  <2>2. \A c \in Campaign : <<c, 1>> \in RunsOf(c) /\ <<c, 1>>[2] = 1
    BY RunsAre DEF RunsOf
  <2>. QED BY <2>1, <2>2 DEF FirstRunHasJob, Served, HasJob, InHand
<1>. QED BY <1>1, <1>2, NextFirst, TypeCorrect, RowLocksInv, OrderInv, PTL DEF Spec
=============================================================================
