------------------------------ MODULE Webhooks ------------------------------
(***************************************************************************)
(* Outgoing webhooks (modules/webhooks/index.ts), the events they are      *)
(* about (spine/events/index.ts) and the two queues between them,          *)
(* webhook.fanout and webhook.deliver (jobs/index.ts).                     *)
(*                                                                         *)
(* Grain of atomicity.  A step is one statement or transaction of a        *)
(* handler.  deliver reads the row, posts with nothing locked and then     *)
(* writes what it made of the answer, so two executions for one delivery   *)
(* may overlap; pg-boss settles a job in a step after its handler's last.  *)
(* A job is executed by one worker at a time, so the execution's place is  *)
(* kept with the job.                                                      *)
(*                                                                         *)
(* A delivery is the pair of its event and its endpoint, which is unique   *)
(* in the table.  Times are left out: a job booked for later may run at    *)
(* any time, and the delays matter by their number only.                   *)
(*                                                                         *)
(* An operator called Mutant_... is not part of the model: it is a bug put *)
(* in the place of the definition after it, to see a property catch it.    *)
(***************************************************************************)
EXTENDS Naturals, FiniteSets

CONSTANTS
  Event, Endpoint,
  Hears,        \* <<event, endpoint>>: same tenant or platform endpoint, and the type is asked for
  NDelays,      \* length of RETRY_SCHEDULE_SECONDS
  JobRetries,   \* pg-boss's retryLimit of a job queued without one
  MaxJobs,      \* bound: webhook.deliver jobs a delivery has at a time
  MaxCuts       \* bound: crashes, lost answers, endpoints deleted, deliveries replayed

Delivery == Event \X Endpoint
Job      == Delivery \X (1..MaxJobs)

ASSUME WebhooksAssumption ==
  /\ Hears \subseteq Delivery
  /\ {NDelays, JobRetries, MaxJobs, MaxCuts} \subseteq Nat

VARIABLES
  endpoint,   \* webhook_endpoints
  row,        \* webhook_deliveries
  fanJob,     \* the webhook.fanout job of each event and what its execution has left to do
  job,        \* the webhook.deliver jobs and where the execution of each is
  owned,      \* deliveries replay found, and has not yet put back
  tale,       \* what the receiver saw of a delivery for as long as nothing cut in
  cuts

vars == <<endpoint, row, fanJob, job, owned, tale, cuts>>

NoRow    == [status |-> "none", attempt |-> 0]
NoJob    == [state |-> "none", left |-> 0, attempt |-> 0, ok |-> FALSE]
NewTale  == [quiet |-> TRUE, posts |-> 0, taken |-> 0]
CutTale  == [quiet |-> FALSE, posts |-> 0, taken |-> 0]

Init ==
  /\ endpoint = [e \in Endpoint |-> "none"]
  /\ row      = [d \in Delivery |-> NoRow]
  /\ fanJob   = [v \in Event |-> [state |-> "none", left |-> JobRetries, todo |-> {}, heard |-> {}]]
  /\ job      = [j \in Job |-> NoJob]
  /\ owned    = {}
  /\ tale     = [d \in Delivery |-> NewTale]
  /\ cuts     = 0

---------------------------------------------------------------------------
(* The queue: enqueue, and what pg-boss does with a handler that threw *)

Running == {"read", "answered", "settled"}
JobsOf(d, states) == {i \in 1..MaxJobs : job[<<d, i>>].state \in states}

(* Job i of d is the first there is no use of. *)
Unused(d, i) ==
  /\ job[<<d, i>>].state = "none"
  /\ \A k \in 1..(i - 1) : job[<<d, k>>].state # "none"

NewJob == [NoJob EXCEPT !.state = "waiting", !.left = JobRetries]

Enqueued(d) ==
  \E i \in 1..MaxJobs : Unused(d, i) /\ job' = [job EXCEPT ![<<d, i>>] = NewJob]

Retried(x) == [x EXCEPT !.state = IF x.left > 0 THEN "waiting" ELSE "failed",
                        !.left  = IF x.left > 0 THEN x.left - 1 ELSE 0]

---------------------------------------------------------------------------
(* POST and DELETE /v1/webhooks, and emit *)

CreateEndpoint(e) ==
  /\ endpoint[e] = "none"
  /\ endpoint' = [endpoint EXCEPT ![e] = "active"]
  /\ UNCHANGED <<row, fanJob, job, owned, tale, cuts>>

(* Deleting an endpoint takes its deliveries with it; their jobs stay. *)
DeleteEndpoint(e) ==
  /\ cuts < MaxCuts
  /\ endpoint[e] = "active"
  /\ endpoint' = [endpoint EXCEPT ![e] = "deleted"]
  /\ row' = [d \in Delivery |-> IF d[2] = e THEN NoRow ELSE row[d]]
  /\ cuts' = cuts + 1
  /\ UNCHANGED <<fanJob, job, owned, tale>>

Interested(v) == {e \in Endpoint : endpoint[e] = "active" /\ <<v, e>> \in Hears}

(* The event and its fan-out job commit with whatever the caller wrote.    *)
(* Who could have heard it then is kept for NobodyLeftOut.                 *)
Emit(v) ==
  /\ fanJob[v].state = "none"
  /\ fanJob' = [fanJob EXCEPT ![v].state = "waiting", ![v].heard = Interested(v)]
  /\ UNCHANGED <<endpoint, row, job, owned, tale, cuts>>

---------------------------------------------------------------------------
(* fanOut *)

FanOut(v) ==
  /\ fanJob[v].state = "waiting"
  /\ fanJob' = [fanJob EXCEPT ![v].state = "running", ![v].todo = Interested(v)]
  /\ UNCHANGED <<endpoint, row, job, owned, tale, cuts>>

(* One endpoint of the list: the delivery and its job in one transaction, *)
(* or neither when an earlier execution of this job has been there.       *)
Mutant_BooksAnyway(v, e) ==
  /\ fanJob[v].state = "running" /\ e \in fanJob[v].todo
  /\ endpoint[e] = "active"
  /\ row' = [row EXCEPT ![<<v, e>>] = IF @ = NoRow THEN [status |-> "pending", attempt |-> 0] ELSE @]
  /\ Enqueued(<<v, e>>)
  /\ fanJob' = [fanJob EXCEPT ![v].todo = @ \ {e}]
  /\ UNCHANGED <<endpoint, owned, tale, cuts>>

Mutant_StopsAtConflict(v, e) ==
  /\ fanJob[v].state = "running" /\ e \in fanJob[v].todo
  /\ endpoint[e] = "active"
  /\ \/ /\ row[<<v, e>>] = NoRow
        /\ row' = [row EXCEPT ![<<v, e>>] = [status |-> "pending", attempt |-> 0]]
        /\ Enqueued(<<v, e>>)
        /\ fanJob' = [fanJob EXCEPT ![v].todo = @ \ {e}]
     \/ row[<<v, e>>] # NoRow /\ fanJob' = [fanJob EXCEPT ![v].todo = {}] /\ UNCHANGED <<row, job>>
  /\ UNCHANGED <<endpoint, owned, tale, cuts>>

Book(v, e) ==
  /\ fanJob[v].state = "running" /\ e \in fanJob[v].todo
  /\ endpoint[e] = "active"
  /\ \/ /\ row[<<v, e>>] = NoRow
        /\ row' = [row EXCEPT ![<<v, e>>] = [status |-> "pending", attempt |-> 0]]
        /\ Enqueued(<<v, e>>)
     \/ row[<<v, e>>] # NoRow /\ UNCHANGED <<row, job>>
  /\ fanJob' = [fanJob EXCEPT ![v].todo = @ \ {e}]
  /\ UNCHANGED <<endpoint, owned, tale, cuts>>

(* The endpoint was deleted since the list was read: the insert violates *)
(* the foreign key and the job throws, to read a new list.               *)
FanOutThrows(v, e) ==
  /\ fanJob[v].state = "running" /\ e \in fanJob[v].todo
  /\ endpoint[e] = "deleted"
  /\ fanJob' = [fanJob EXCEPT ![v] = [Retried(@) EXCEPT !.todo = {}]]
  /\ UNCHANGED <<endpoint, row, job, owned, tale, cuts>>

FanOutEnds(v) ==
  /\ fanJob[v].state = "running" /\ fanJob[v].todo = {}
  /\ fanJob' = [fanJob EXCEPT ![v].state = "completed"]
  /\ UNCHANGED <<endpoint, row, job, owned, tale, cuts>>

---------------------------------------------------------------------------
(* deliver *)

At(j, state) == job[j].state = state

(* A delivery that is gone makes the handler throw; a delivered one ends it. *)
Deliver(j) ==
  LET r == row[j[1]] IN
  /\ At(j, "waiting")
  /\ job' = [job EXCEPT ![j] =
       IF r = NoRow THEN Retried(@)
       ELSE IF r.status = "delivered" THEN [@ EXCEPT !.state = "settled"]
       ELSE [@ EXCEPT !.state = "read", !.attempt = r.attempt + 1]]
  /\ UNCHANGED <<endpoint, row, fanJob, owned, tale, cuts>>

(* The receiver's tale after one more post. *)
Told(t, answer) ==
  IF answer = "lost" \/ ~t.quiet THEN CutTale
  ELSE [t EXCEPT !.posts = @ + 1, !.taken = IF answer = "ok" THEN @ + 1 ELSE @]

(* What the receiver makes of the post, and what comes back within ten    *)
(* seconds: yes, no, or nothing although it took the event.               *)
Post(j) ==
  LET d == j[1] IN
  /\ At(j, "read")
  /\ \E answer \in {"ok", "refused", "lost"} :
       /\ answer = "lost" => cuts < MaxCuts
       /\ cuts' = IF answer = "lost" THEN cuts + 1 ELSE cuts
       /\ job' = [job EXCEPT ![j].state = "answered", ![j].ok = answer = "ok"]
       /\ tale' = [tale EXCEPT ![d] = Told(@, answer)]
  /\ UNCHANGED <<endpoint, row, fanJob, owned>>

(* The updates are by id, whatever has become of the row meanwhile. *)
Marked(d, status, attempt) ==
  row' = [row EXCEPT ![d] = IF @ = NoRow THEN NoRow ELSE [status |-> status, attempt |-> attempt]]

Settled(j) == [job EXCEPT ![j].state = "settled", ![j].ok = FALSE, ![j].attempt = 0]

MarkDelivered(j) ==
  /\ At(j, "answered") /\ job[j].ok
  /\ Marked(j[1], "delivered", job[j].attempt)
  /\ job' = Settled(j)
  /\ UNCHANGED <<endpoint, fanJob, owned, tale, cuts>>

HasDelay(attempt) == attempt <= NDelays

GiveUp(j) ==
  /\ At(j, "answered") /\ ~job[j].ok /\ ~HasDelay(job[j].attempt)
  /\ Marked(j[1], "failed", job[j].attempt)
  /\ job' = Settled(j)
  /\ UNCHANGED <<endpoint, fanJob, owned, tale, cuts>>

(* Each attempt books the next one itself, in the transaction of its update. *)
Mutant_ForgetsNext(j) ==
  /\ At(j, "answered") /\ ~job[j].ok /\ HasDelay(job[j].attempt)
  /\ Marked(j[1], "pending", job[j].attempt)
  /\ job' = Settled(j)
  /\ UNCHANGED <<endpoint, fanJob, owned, tale, cuts>>

BookNext(j) ==
  /\ At(j, "answered") /\ ~job[j].ok /\ HasDelay(job[j].attempt)
  /\ Marked(j[1], "pending", job[j].attempt)
  /\ \E i \in 1..MaxJobs :
       Unused(j[1], i) /\ job' = [Settled(j) EXCEPT ![<<j[1], i>>] = NewJob]
  /\ UNCHANGED <<endpoint, fanJob, owned, tale, cuts>>

Complete(j) ==
  /\ At(j, "settled")
  /\ job' = [job EXCEPT ![j] = NoJob]
  /\ UNCHANGED <<endpoint, row, fanJob, owned, tale, cuts>>

---------------------------------------------------------------------------
(* By hand: replay, which looks for the delivery and its owner before the  *)
(* transaction that puts it back, and the operator's retry of a dead job   *)

ReplayFinds(d) ==
  /\ cuts < MaxCuts /\ d \notin owned
  /\ row[d] # NoRow
  /\ owned' = owned \cup {d}
  /\ cuts' = cuts + 1
  /\ UNCHANGED <<endpoint, row, fanJob, job, tale>>

Mutant_ReplayResetsOnly(d) ==
  /\ d \in owned
  /\ Marked(d, "pending", 0)
  /\ tale' = [tale EXCEPT ![d] = CutTale]
  /\ owned' = owned \ {d}
  /\ UNCHANGED <<endpoint, fanJob, job, cuts>>

Replay(d) ==
  /\ d \in owned
  /\ Marked(d, "pending", 0)
  /\ Enqueued(d)
  /\ tale' = [tale EXCEPT ![d] = CutTale]
  /\ owned' = owned \ {d}
  /\ UNCHANGED <<endpoint, fanJob, cuts>>

RetryJob(j) ==
  /\ At(j, "failed")
  /\ job' = [job EXCEPT ![j].state = "waiting"]
  /\ UNCHANGED <<endpoint, row, fanJob, owned, tale, cuts>>

---------------------------------------------------------------------------
(* A process dies under a job it was executing *)

CrashDeliver(j) ==
  /\ cuts < MaxCuts
  /\ job[j].state \in Running
  /\ job' = [job EXCEPT ![j] = [Retried(@) EXCEPT !.ok = FALSE, !.attempt = 0]]
  /\ tale' = [tale EXCEPT ![j[1]] = CutTale]
  /\ cuts' = cuts + 1
  /\ UNCHANGED <<endpoint, row, fanJob, owned>>

CrashFanOut(v) ==
  /\ cuts < MaxCuts
  /\ fanJob[v].state = "running"
  /\ fanJob' = [fanJob EXCEPT ![v] = [Retried(@) EXCEPT !.todo = {}]]
  /\ cuts' = cuts + 1
  /\ UNCHANGED <<endpoint, row, job, owned, tale>>

---------------------------------------------------------------------------
FanOutStep(v) == FanOut(v) \/ FanOutEnds(v) \/ \E e \in Endpoint : Book(v, e) \/ FanOutThrows(v, e)
DeliverStep(j) == Deliver(j) \/ Post(j) \/ MarkDelivered(j) \/ GiveUp(j) \/ BookNext(j) \/ Complete(j)

Next ==
  \/ \E e \in Endpoint : CreateEndpoint(e) \/ DeleteEndpoint(e)
  \/ \E v \in Event : Emit(v) \/ FanOutStep(v) \/ CrashFanOut(v)
  \/ \E d \in Delivery : ReplayFinds(d) \/ Replay(d)
  \/ \E j \in Job : DeliverStep(j) \/ RetryJob(j) \/ CrashDeliver(j)

Spec == Init /\ [][Next]_vars

(* The workers keep polling their queues; nobody has to create, emit,     *)
(* delete, replay or crash.                                               *)
FairSpec ==
  /\ Spec
  /\ \A v \in Event : WF_vars(FanOutStep(v))
  /\ \A d \in Delivery : WF_vars(\E i \in 1..MaxJobs : DeliverStep(<<d, i>>))

---------------------------------------------------------------------------
(* Properties *)

TypeOK ==
  /\ endpoint \in [Endpoint -> {"none", "active", "deleted"}]
  /\ row \in [Delivery -> [status : {"none", "pending", "delivered", "failed"}, attempt : Nat]]
  /\ fanJob \in [Event -> [state : {"none", "waiting", "running", "completed", "failed"},
                           left : Nat, todo : SUBSET Endpoint, heard : SUBSET Endpoint]]
  /\ job \in [Job -> [state : {"none", "waiting", "failed"} \cup Running,
                      left : Nat, attempt : Nat, ok : BOOLEAN]]
  /\ owned \subseteq Delivery
  /\ tale \in [Delivery -> [quiet : BOOLEAN, posts : Nat, taken : Nat]]
  /\ cuts \in Nat

(* A pending delivery is on its way: a job for it is waiting or running,   *)
(* or has died where the operator's list shows it.  Each attempt books the *)
(* next in the transaction of its own update, so neither a crash nor a     *)
(* replay beside it can leave the row pending with nobody to send it.      *)
PendingHasJob ==
  \A d \in Delivery : row[d].status = "pending" => JobsOf(d, Running \cup {"waiting", "failed"}) # {}

(* While no crash, lost answer or replay cut in, a delivery has one chain  *)
(* of attempts: one job at a time before the next is booked, as many posts *)
(* as the schedule allows and no more, one of them taken at most, and the  *)
(* row tells how many there were.  A fan-out executed twice books once.    *)
OneChain ==
  \A d \in Delivery : tale[d].quiet =>
    /\ Cardinality(JobsOf(d, {"waiting", "read", "answered"})) <= 1
    /\ tale[d].taken <= 1 /\ tale[d].posts <= NDelays + 1
    /\ row[d].status = "delivered" => tale[d].taken = 1
    /\ row[d].status = "failed" => tale[d].posts = NDelays + 1 /\ tale[d].taken = 0

(* An event that was committed reaches everyone: when its fan-out has      *)
(* completed, every endpoint that was there to hear the event when it was  *)
(* emitted, and still is, has a delivery, even if the fan-out died half-   *)
(* way through its list or found an endpoint of it deleted, and began      *)
(* again over what the earlier execution had booked.                       *)
NobodyLeftOut ==
  \A v \in Event : fanJob[v].state = "completed" =>
    \A e \in fanJob[v].heard : endpoint[e] = "active" => row[<<v, e>>] # NoRow

(* Under workers that keep polling, a pending delivery is delivered, given *)
(* up or deleted, or a job of it has died.                                 *)
DeliveryEnds ==
  \A d \in Delivery : row[d].status = "pending" ~> (row[d].status # "pending" \/ JobsOf(d, {"failed"}) # {})
=============================================================================
