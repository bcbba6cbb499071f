--------------------------- MODULE WebhooksProof ---------------------------
(***************************************************************************)
(* Proofs about Webhooks: types, a pending delivery's job, everyone's      *)
(* delivery of an event, and one chain of attempts where nothing cut in.   *)
(***************************************************************************)
EXTENDS Webhooks, TLAPS, FiniteSetTheorems

---------------------------------------------------------------------------
(* Types *)

LEMMA InitType == Init => TypeOK
BY WebhooksAssumption DEF Init, TypeOK, NoRow, NoJob, NewTale, Delivery, Job

LEMMA RetriedType ==
  ASSUME NEW x, x.left \in Nat
  PROVE  /\ Retried(x).left \in Nat
         /\ Retried(x).state \in {"waiting", "failed"}
BY DEF Retried

JobType == [state : {"none", "waiting", "failed"} \cup Running, left : Nat, attempt : Nat, ok : BOOLEAN]
FanType == [state : {"none", "waiting", "running", "completed", "failed"},
            left : Nat, todo : SUBSET Endpoint, heard : SUBSET Endpoint]

LEMMA RetriedJob == ASSUME NEW x \in JobType PROVE Retried(x) \in JobType
<1> DEFINE state == IF x.left > 0 THEN "waiting" ELSE "failed"
           left  == IF x.left > 0 THEN x.left - 1 ELSE 0
<1>1. left \in Nat /\ state \in {"waiting", "failed"}
  BY DEF JobType
<1>2. Retried(x) = [x EXCEPT !.state = state, !.left = left]
  BY DEF Retried
<1> QED
  <2> HIDE DEF state, left
  <2> QED BY <1>1, <1>2 DEF JobType

LEMMA RetriedFan == ASSUME NEW x \in FanType PROVE [Retried(x) EXCEPT !.todo = {}] \in FanType
<1> DEFINE state == IF x.left > 0 THEN "waiting" ELSE "failed"
           left  == IF x.left > 0 THEN x.left - 1 ELSE 0
<1>1. left \in Nat /\ state \in {"waiting", "failed"}
  BY DEF FanType
<1>2. Retried(x) = [x EXCEPT !.state = state, !.left = left]
  BY DEF Retried
<1> QED
  <2> HIDE DEF state, left
  <2> QED BY <1>1, <1>2 DEF FanType

LEMMA ReadJob == ASSUME NEW x \in JobType, NEW n \in Nat PROVE [x EXCEPT !.state = "read", !.attempt = n] \in JobType
BY DEF JobType, Running

LEMMA AnsweredJob == ASSUME NEW x \in JobType, NEW b \in BOOLEAN PROVE [x EXCEPT !.state = "answered", !.ok = b] \in JobType
BY DEF JobType, Running

LEMMA FanStep ==
  ASSUME TypeOK, NEW v \in Event, NEW f \in FanType, fanJob' = [fanJob EXCEPT ![v] = f]
  PROVE  fanJob' \in [Event -> FanType]
BY DEF TypeOK, FanType

LEMMA NewJobType == NewJob \in JobType
BY WebhooksAssumption DEF NewJob, NoJob, JobType, Running

(* A delivery's job is changed in one of few ways. *)
LEMMA EnqueuedType ==
  ASSUME TypeOK, NEW d \in Delivery, Enqueued(d)
  PROVE  job' \in [Job -> JobType]
<1>1. PICK i \in 1..MaxJobs : job' = [job EXCEPT ![<<d, i>>] = NewJob]
  BY DEF Enqueued
<1>2. <<d, i>> \in Job
  BY DEF Job
<1> QED
  BY <1>1, <1>2, NewJobType DEF TypeOK, JobType

LEMMA MarkedType ==
  ASSUME TypeOK, NEW d \in Delivery, NEW status \in {"pending", "delivered", "failed"},
         NEW attempt \in Nat, Marked(d, status, attempt)
  PROVE  row' \in [Delivery -> [status : {"none", "pending", "delivered", "failed"}, attempt : Nat]]
BY DEF TypeOK, Marked, NoRow

LEMMA SettledType ==
  ASSUME TypeOK, NEW j \in Job
  PROVE  Settled(j) \in [Job -> JobType]
<1>1. job \in [Job -> JobType]
  BY DEF TypeOK, JobType
<1>2. [job[j] EXCEPT !.state = "settled", !.ok = FALSE, !.attempt = 0] \in JobType
  BY <1>1 DEF JobType, Running
<1>3. Settled(j) = [job EXCEPT ![j] = [job[j] EXCEPT !.state = "settled", !.ok = FALSE, !.attempt = 0]]
  BY <1>1 DEF Settled
<1> QED BY <1>1, <1>2, <1>3

TaleType == [quiet : BOOLEAN, posts : Nat, taken : Nat]

LEMMA ToldType ==
  ASSUME NEW t \in TaleType, NEW answer
  PROVE  Told(t, answer) \in TaleType
<1>1. t.posts + 1 \in Nat /\ t.taken + 1 \in Nat /\ t.taken \in Nat
  BY DEF TaleType
<1> DEFINE n == IF answer = "ok" THEN t.taken + 1 ELSE t.taken
<1>2. n \in Nat
  BY <1>1
<1>3. [t EXCEPT !.posts = t.posts + 1, !.taken = n] \in TaleType
  <2> HIDE DEF n
  <2> QED BY <1>1, <1>2 DEF TaleType
<1> QED BY <1>3 DEF Told, TaleType, CutTale

LEMMA CutType == CutTale \in [quiet : BOOLEAN, posts : Nat, taken : Nat]
BY DEF CutTale

LEMMA FanMoves ==
  ASSUME NEW x \in FanType, NEW S \in SUBSET Endpoint
  PROVE  /\ [x EXCEPT !.state = "waiting", !.heard = S] \in FanType
         /\ [x EXCEPT !.state = "running", !.todo = S] \in FanType
         /\ [x EXCEPT !.state = "completed"] \in FanType
         /\ [x EXCEPT !.todo = S] \in FanType
BY DEF FanType

LEMMA NextType == TypeOK /\ [Next]_vars => TypeOK'
<1> SUFFICES ASSUME TypeOK, [Next]_vars PROVE TypeOK'
  OBVIOUS
<1> USE DEF JobType, FanType
<1>1. ASSUME NEW e \in Endpoint, CreateEndpoint(e) PROVE TypeOK'
  BY <1>1 DEF CreateEndpoint, TypeOK
<1>2. ASSUME NEW e \in Endpoint, DeleteEndpoint(e) PROVE TypeOK'
  BY <1>2 DEF DeleteEndpoint, TypeOK, NoRow
<1>3. ASSUME NEW v \in Event, Emit(v) PROVE TypeOK'
  <2>1. Interested(v) \in SUBSET Endpoint
    BY DEF Interested
  <2>2. fanJob' = [fanJob EXCEPT ![v] = [fanJob[v] EXCEPT !.state = "waiting", !.heard = Interested(v)]]
    BY <1>3 DEF Emit, TypeOK
  <2>3. [fanJob[v] EXCEPT !.state = "waiting", !.heard = Interested(v)] \in FanType
    <3>1. fanJob[v] \in FanType
      BY DEF TypeOK
    <3> HIDE DEF FanType
    <3> QED BY <2>1, <3>1, FanMoves
  <2>4. fanJob' \in [Event -> FanType]
    BY <2>2, <2>3, FanStep
  <2> QED BY <1>3, <2>4 DEF Emit, TypeOK
<1>4. ASSUME NEW v \in Event, FanOut(v) PROVE TypeOK'
  <2>1. Interested(v) \in SUBSET Endpoint
    BY DEF Interested
  <2>2. fanJob' = [fanJob EXCEPT ![v] = [fanJob[v] EXCEPT !.state = "running", !.todo = Interested(v)]]
    BY <1>4 DEF FanOut, TypeOK
  <2>3. [fanJob[v] EXCEPT !.state = "running", !.todo = Interested(v)] \in FanType
    <3>1. fanJob[v] \in FanType
      BY DEF TypeOK
    <3> HIDE DEF FanType
    <3> QED BY <2>1, <3>1, FanMoves
  <2>4. fanJob' \in [Event -> FanType]
    BY <2>2, <2>3, FanStep
  <2> QED BY <1>4, <2>4 DEF FanOut, TypeOK
<1>5. ASSUME NEW v \in Event, FanOutEnds(v) PROVE TypeOK'
  <2>1. fanJob' = [fanJob EXCEPT ![v] = [fanJob[v] EXCEPT !.state = "completed"]]
    BY <1>5 DEF FanOutEnds, TypeOK
  <2>2. [fanJob[v] EXCEPT !.state = "completed"] \in FanType
    <3>1. fanJob[v] \in FanType
      BY DEF TypeOK
    <3> HIDE DEF FanType
    <3> QED BY <3>1, FanMoves
  <2>3. fanJob' \in [Event -> FanType]
    BY <2>1, <2>2, FanStep
  <2> QED BY <1>5, <2>3 DEF FanOutEnds, TypeOK
<1>6. ASSUME NEW v \in Event, NEW e \in Endpoint, Book(v, e) PROVE TypeOK'
  <2>1. <<v, e>> \in Delivery
    BY DEF Delivery
  <2>2. job' \in [Job -> JobType]
    BY <1>6, <2>1, EnqueuedType DEF Book, TypeOK
  <2>3. row' \in [Delivery -> [status : {"none", "pending", "delivered", "failed"}, attempt : Nat]]
    <3>1. CASE row' = [row EXCEPT ![<<v, e>>] = [status |-> "pending", attempt |-> 0]]
      BY <3>1, <2>1 DEF TypeOK
    <3>2. CASE UNCHANGED row
      BY <3>2 DEF TypeOK
    <3> QED BY <1>6, <3>1, <3>2 DEF Book
  <2>4. fanJob' \in [Event -> FanType]
    <3> DEFINE rest == fanJob[v].todo \ {e}
    <3>1. fanJob[v] \in FanType /\ rest \in SUBSET Endpoint
      BY DEF TypeOK
    <3>2. fanJob' = [fanJob EXCEPT ![v] = [fanJob[v] EXCEPT !.todo = rest]]
      BY <1>6 DEF Book, TypeOK
    <3> HIDE DEF rest, FanType
    <3>3. [fanJob[v] EXCEPT !.todo = rest] \in FanType
      BY <3>1, FanMoves
    <3> QED BY <3>2, <3>3, FanStep
  <2> QED BY <1>6, <2>2, <2>3, <2>4 DEF Book, TypeOK
<1>7. ASSUME NEW v \in Event, NEW e \in Endpoint, FanOutThrows(v, e) PROVE TypeOK'
  <2>1. [Retried(fanJob[v]) EXCEPT !.todo = {}] \in FanType
    BY RetriedFan DEF TypeOK
  <2> QED BY <1>7, <2>1 DEF FanOutThrows, TypeOK
<1>8. ASSUME NEW j \in Job, Deliver(j) PROVE TypeOK'
  <2>1. j[1] \in Delivery /\ job[j] \in JobType
    BY DEF Job, TypeOK
  <2>2. Retried(job[j]) \in JobType
    BY <2>1, RetriedJob
  <2>3. [job[j] EXCEPT !.state = "settled"] \in JobType
    BY <2>1 DEF Running
  <2>4. [job[j] EXCEPT !.state = "read", !.attempt = row[j[1]].attempt + 1] \in JobType
    <3>1. row[j[1]].attempt \in Nat
      BY <2>1 DEF TypeOK
    <3>2. row[j[1]].attempt + 1 \in Nat
      BY <3>1
    <3> QED BY <2>1, <3>2, ReadJob
  <2>5. job' \in [Job -> JobType]
    BY <1>8, <2>2, <2>3, <2>4 DEF Deliver, TypeOK
  <2> QED BY <1>8, <2>5 DEF Deliver, TypeOK
<1>9. ASSUME NEW j \in Job, Post(j) PROVE TypeOK'
  <2>1. j[1] \in Delivery /\ job[j] \in JobType
    BY DEF Job, TypeOK
  <2>2. PICK answer \in {"ok", "refused", "lost"} :
          /\ cuts' = IF answer = "lost" THEN cuts + 1 ELSE cuts
          /\ job' = [job EXCEPT ![j].state = "answered", ![j].ok = answer = "ok"]
          /\ tale' = [tale EXCEPT ![j[1]] = Told(@, answer)]
    BY <1>9 DEF Post
  <2>3. job' \in [Job -> JobType]
    <3>1. job' = [job EXCEPT ![j] = [job[j] EXCEPT !.state = "answered", !.ok = (answer = "ok")]]
      BY <2>2 DEF TypeOK
    <3>2. [job[j] EXCEPT !.state = "answered", !.ok = (answer = "ok")] \in JobType
      BY <2>1, AnsweredJob
    <3> QED BY <3>1, <3>2 DEF TypeOK
  <2>4. tale' \in [Delivery -> [quiet : BOOLEAN, posts : Nat, taken : Nat]]
    <3>1. Told(tale[j[1]], answer) \in TaleType
      BY <2>1, ToldType DEF TypeOK, TaleType
    <3> QED BY <2>2, <3>1 DEF TypeOK, TaleType
  <2>5. cuts' \in Nat
    BY <2>2 DEF TypeOK
  <2> QED BY <1>9, <2>3, <2>4, <2>5 DEF Post, TypeOK
<1>10. ASSUME NEW j \in Job, MarkDelivered(j) \/ GiveUp(j) \/ BookNext(j) PROVE TypeOK'
  <2>1. j[1] \in Delivery /\ job[j].attempt \in Nat
    BY DEF Job, TypeOK
  <2>2. row' \in [Delivery -> [status : {"none", "pending", "delivered", "failed"}, attempt : Nat]]
    BY <1>10, <2>1, MarkedType DEF MarkDelivered, GiveUp, BookNext
  <2>3. job' \in [Job -> JobType]
    <3>1. CASE MarkDelivered(j) \/ GiveUp(j)
      BY <3>1, SettledType DEF MarkDelivered, GiveUp
    <3>2. CASE BookNext(j)
      <4>1. PICK i \in 1..MaxJobs : job' = [Settled(j) EXCEPT ![<<j[1], i>>] = NewJob]
        BY <3>2 DEF BookNext
      <4> QED BY <4>1, SettledType, NewJobType
    <3> QED BY <1>10, <3>1, <3>2
  <2> QED BY <1>10, <2>2, <2>3 DEF MarkDelivered, GiveUp, BookNext, TypeOK
<1>11. ASSUME NEW j \in Job, Complete(j) PROVE TypeOK'
  BY <1>11 DEF Complete, TypeOK, NoJob
<1>12. ASSUME NEW d \in Delivery, ReplayFinds(d) PROVE TypeOK'
  BY <1>12 DEF ReplayFinds, TypeOK
<1>13. ASSUME NEW d \in Delivery, Replay(d) PROVE TypeOK'
  <2>1. job' \in [Job -> JobType]
    BY <1>13, EnqueuedType DEF Replay
  <2>2. row' \in [Delivery -> [status : {"none", "pending", "delivered", "failed"}, attempt : Nat]]
    BY <1>13, MarkedType DEF Replay
  <2> QED BY <1>13, <2>1, <2>2, CutType DEF Replay, TypeOK
<1>14. ASSUME NEW j \in Job, RetryJob(j) PROVE TypeOK'
  BY <1>14 DEF RetryJob, TypeOK
<1>15. ASSUME NEW j \in Job, CrashDeliver(j) PROVE TypeOK'
  <2>1. j[1] \in Delivery /\ job[j] \in JobType
    BY DEF Job, TypeOK
  <2>2. [Retried(job[j]) EXCEPT !.ok = FALSE, !.attempt = 0] \in JobType
    BY <2>1, RetriedJob
  <2>3. job' \in [Job -> JobType]
    BY <1>15, <2>2 DEF CrashDeliver, TypeOK
  <2> QED BY <1>15, <2>1, <2>3, CutType DEF CrashDeliver, TypeOK
<1>16. ASSUME NEW v \in Event, CrashFanOut(v) PROVE TypeOK'
  <2>1. [Retried(fanJob[v]) EXCEPT !.todo = {}] \in FanType
    BY RetriedFan DEF TypeOK
  <2>2. fanJob' \in [Event -> FanType]
    <3> DEFINE f == [Retried(fanJob[v]) EXCEPT !.todo = {}]
    <3>1. fanJob' = [fanJob EXCEPT ![v] = f]
      BY <1>16 DEF CrashFanOut, TypeOK
    <3>2. f \in FanType
      BY <2>1
    <3> HIDE DEF f
    <3> QED BY <3>1, <3>2, FanStep
  <2>3. UNCHANGED <<endpoint, row, job, owned, tale>> /\ cuts' = cuts + 1
    BY <1>16 DEF CrashFanOut
  <2> QED BY <2>2, <2>3 DEF TypeOK
<1>17. CASE UNCHANGED vars
  BY <1>17 DEF vars, TypeOK
<1> QED
  BY <1>1, <1>2, <1>3, <1>4, <1>5, <1>6, <1>7, <1>8, <1>9, <1>10, <1>11, <1>12, <1>13, <1>14,
     <1>15, <1>16, <1>17 DEF Next, FanOutStep, DeliverStep

(* The tables, the jobs and the receivers' tales keep their types.         *)
THEOREM TypeCorrect == Spec => []TypeOK
<1>1. Init => TypeOK
  BY InitType
<1>2. TypeOK /\ [Next]_vars => TypeOK'
  BY NextType
<1> QED BY <1>1, <1>2, PTL DEF Spec

---------------------------------------------------------------------------
(* How the actions change the rows *)

LEMMA MarkedRow ==
  ASSUME TypeOK, NEW b \in Delivery, NEW status \in {"pending", "delivered", "failed"}, NEW attempt,
         Marked(b, status, attempt), NEW d \in Delivery
  PROVE  /\ d # b => row'[d] = row[d]
         /\ d = b /\ row[d] = NoRow => row'[d] = NoRow
         /\ d = b /\ row[d] # NoRow => row'[d] = [status |-> status, attempt |-> attempt]
         /\ row'[d] = NoRow <=> row[d] = NoRow
BY DEF TypeOK, Marked, NoRow

LEMMA JobParts ==
  ASSUME NEW j \in Job
  PROVE  j[1] \in Delivery /\ j[2] \in 1..MaxJobs /\ j = <<j[1], j[2]>>
BY DEF Job

(* A step that changes one job, or sets one and books another, told by     *)
(* what it does to the job of each number.                                 *)
LEMMA OneJobChanges ==
  ASSUME TypeOK, NEW j \in Job, NEW x, job' = [job EXCEPT ![j] = x],
         NEW d \in Delivery, NEW i \in 1..MaxJobs
  PROVE  /\ job'[<<d, i>>] = IF d = j[1] /\ i = j[2] THEN x ELSE job[<<d, i>>]
         /\ job'[j] = x
<1>1. <<d, i>> \in Job /\ (<<d, i>> = j <=> d = j[1] /\ i = j[2])
  BY JobParts DEF Job
<1> QED BY <1>1 DEF TypeOK

LEMMA EnqueuedJobs ==
  ASSUME TypeOK, NEW b \in Delivery, Enqueued(b)
  PROVE  \E n \in 1..MaxJobs :
           /\ job[<<b, n>>].state = "none"
           /\ \A d \in Delivery, i \in 1..MaxJobs :
                job'[<<d, i>>] = IF d = b /\ i = n THEN NewJob ELSE job[<<d, i>>]
<1>1. PICK n \in 1..MaxJobs : Unused(b, n) /\ job' = [job EXCEPT ![<<b, n>>] = NewJob]
  BY DEF Enqueued
<1>2. <<b, n>> \in Job /\ <<b, n>>[1] = b /\ <<b, n>>[2] = n
  BY DEF Job
<1>3. ASSUME NEW d \in Delivery, NEW i \in 1..MaxJobs
      PROVE  job'[<<d, i>>] = IF d = b /\ i = n THEN NewJob ELSE job[<<d, i>>]
  <2>1. <<d, i>> \in Job /\ (<<d, i>> = <<b, n>> <=> d = b /\ i = n)
    BY DEF Job
  <2> QED BY <1>1, <2>1 DEF TypeOK
<1> QED BY <1>1, <1>3 DEF Unused

LEMMA NextJobs ==
  ASSUME TypeOK, NEW j \in Job, BookNext(j)
  PROVE  \E n \in 1..MaxJobs :
           /\ job[<<j[1], n>>].state = "none" /\ n # j[2]
           /\ \A d \in Delivery, i \in 1..MaxJobs :
                job'[<<d, i>>] = IF d = j[1] /\ i = n THEN NewJob
                                 ELSE IF d = j[1] /\ i = j[2] THEN Settled(j)[j] ELSE job[<<d, i>>]
<1>1. PICK n \in 1..MaxJobs : Unused(j[1], n) /\ job' = [Settled(j) EXCEPT ![<<j[1], n>>] = NewJob]
  BY DEF BookNext
<1>2. j[1] \in Delivery /\ j[2] \in 1..MaxJobs /\ j = <<j[1], j[2]>> /\ <<j[1], n>> \in Job
  BY JobParts DEF Job
<1>3. n # j[2]
  BY <1>1, <1>2 DEF BookNext, Unused, At
<1>4. ASSUME NEW d \in Delivery, NEW i \in 1..MaxJobs
      PROVE  job'[<<d, i>>] = IF d = j[1] /\ i = n THEN NewJob
                              ELSE IF d = j[1] /\ i = j[2] THEN Settled(j)[j] ELSE job[<<d, i>>]
  <2>1. <<d, i>> \in Job /\ (<<d, i>> = j <=> d = j[1] /\ i = j[2])
    BY <1>2 DEF Job
  <2>2. <<d, i>> = <<j[1], n>> <=> d = j[1] /\ i = n
    OBVIOUS
  <2>3. <<d, i>> # j => Settled(j)[<<d, i>>] = job[<<d, i>>]
    BY <2>1 DEF Settled, TypeOK
  <2>4. Settled(j) \in [Job -> JobType]
    BY SettledType
  <2> QED BY <1>1, <1>2, <2>1, <2>2, <2>3, <2>4
<1> QED BY <1>1, <1>3, <1>4 DEF Unused

LEMMA SettledJob ==
  ASSUME TypeOK, NEW j \in Job
  PROVE  /\ Settled(j) = [job EXCEPT ![j] = [job[j] EXCEPT !.state = "settled", !.ok = FALSE, !.attempt = 0]]
         /\ Settled(j)[j].state = "settled"
BY DEF Settled, TypeOK

---------------------------------------------------------------------------
(* A pending delivery is carried by a job that has not settled it          *)

Alive == {"waiting", "read", "answered", "failed"}

Carried(d) == \E i \in 1..MaxJobs : job[<<d, i>>].state \in Alive

PendingCarried == \A d \in Delivery : row[d].status = "pending" => Carried(d)

LEMMA StaysCarried ==
  ASSUME TypeOK, NEW j \in Job, NEW x, job' = [job EXCEPT ![j] = x],
         job[j].state \in Alive => x.state \in Alive,
         NEW d \in Delivery, Carried(d)
  PROVE  Carried(d)'
<1>1. PICK i \in 1..MaxJobs : job[<<d, i>>].state \in Alive
  BY DEF Carried
<1>2. <<d, i>> \in Job
  BY DEF Job
<1>3. CASE <<d, i>> = j
  BY <1>1, <1>2, <1>3 DEF Carried, TypeOK
<1>4. CASE <<d, i>> # j
  BY <1>1, <1>2, <1>4 DEF Carried, TypeOK
<1> QED BY <1>3, <1>4

LEMMA BookedIsCarried ==
  ASSUME TypeOK, NEW b \in Delivery, Enqueued(b), NEW d \in Delivery, d = b \/ Carried(d)
  PROVE  Carried(d)'
<1>1. PICK n \in 1..MaxJobs :
        /\ job[<<b, n>>].state = "none"
        /\ \A c \in Delivery, i \in 1..MaxJobs :
             job'[<<c, i>>] = IF c = b /\ i = n THEN NewJob ELSE job[<<c, i>>]
  BY EnqueuedJobs
<1>2. NewJob.state \in Alive
  BY DEF NewJob, NoJob, Alive
<1>3. CASE d = b
  BY <1>1, <1>2, <1>3 DEF Carried
<1>4. CASE d # b
  BY <1>1, <1>4 DEF Carried
<1> QED BY <1>3, <1>4

LEMMA PendingStep == TypeOK /\ PendingCarried /\ [Next]_vars => PendingCarried'
<1> SUFFICES ASSUME TypeOK, PendingCarried, [Next]_vars, NEW d \in Delivery, row'[d].status = "pending"
             PROVE  Carried(d)'
  BY DEF PendingCarried
<1>a. row[d].status = "pending" => Carried(d)
  BY DEF PendingCarried
<1>b. NoRow.status = "none"
  BY DEF NoRow
<1>1. ASSUME NEW e \in Endpoint, CreateEndpoint(e) \/ DeleteEndpoint(e) PROVE Carried(d)'
  <2>1. row'[d] \in {row[d], NoRow} /\ job' = job
    BY <1>1 DEF CreateEndpoint, DeleteEndpoint
  <2> QED BY <2>1, <1>a, <1>b DEF Carried
<1>2. ASSUME NEW v \in Event, Emit(v) \/ FanOut(v) \/ FanOutEnds(v) \/ CrashFanOut(v) PROVE Carried(d)'
  <2>1. row' = row /\ job' = job
    BY <1>2 DEF Emit, FanOut, FanOutEnds, CrashFanOut
  <2> QED BY <2>1, <1>a DEF Carried
<1>3. ASSUME NEW v \in Event, NEW e \in Endpoint, Book(v, e) PROVE Carried(d)'
  <2>1. <<v, e>> \in Delivery
    BY DEF Delivery
  <2>2. CASE row' = [row EXCEPT ![<<v, e>>] = [status |-> "pending", attempt |-> 0]] /\ Enqueued(<<v, e>>)
    <3>1. d # <<v, e>> => row'[d] = row[d]
      BY <2>1, <2>2 DEF TypeOK
    <3> QED BY <2>1, <2>2, <3>1, <1>a, BookedIsCarried
  <2>3. CASE UNCHANGED <<row, job>>
    BY <2>3, <1>a DEF Carried
  <2> QED BY <1>3, <2>2, <2>3 DEF Book
<1>4. ASSUME NEW v \in Event, NEW e \in Endpoint, FanOutThrows(v, e) PROVE Carried(d)'
  BY <1>4, <1>a DEF FanOutThrows, Carried
<1>5. ASSUME NEW j \in Job, Deliver(j) PROVE Carried(d)'
  <2> DEFINE r == row[j[1]]
             x == IF r = NoRow THEN Retried(job[j])
                  ELSE IF r.status = "delivered" THEN [job[j] EXCEPT !.state = "settled"]
                  ELSE [job[j] EXCEPT !.state = "read", !.attempt = r.attempt + 1]
  <2>1. job' = [job EXCEPT ![j] = x] /\ row' = row
    BY <1>5 DEF Deliver, TypeOK
  <2>2. PICK i \in 1..MaxJobs : job[<<d, i>>].state \in Alive
    BY <2>1, <1>a DEF Carried
  <2>3. CASE d = j[1]
    <3>1. r # NoRow /\ r.status # "delivered"
      BY <2>1, <2>3, <1>b
    <3>2. job[j] \in JobType
      BY DEF TypeOK, JobType
    <3>3. x.state \in Alive
      BY <3>1, <3>2 DEF Alive, JobType
    <3> HIDE DEF x
    <3> QED BY <2>1, <1>a, <3>3, StaysCarried
  <2>4. CASE d # j[1]
    <3> HIDE DEF x
    <3> QED BY <2>1, <2>2, <2>4, OneJobChanges DEF Carried
  <2> QED BY <2>3, <2>4
<1>6. ASSUME NEW j \in Job, Post(j) PROVE Carried(d)'
  <2>1. PICK b \in BOOLEAN : job' = [job EXCEPT ![j].state = "answered", ![j].ok = b]
    <3>1. PICK answer \in {"ok", "refused", "lost"} :
            job' = [job EXCEPT ![j].state = "answered", ![j].ok = answer = "ok"]
      BY <1>6 DEF Post
    <3> QED BY <3>1
  <2> DEFINE x == [job[j] EXCEPT !.state = "answered", !.ok = b]
  <2>2. job' = [job EXCEPT ![j] = x] /\ row' = row
    BY <1>6, <2>1 DEF Post, TypeOK
  <2>3. job[j] \in JobType
    BY DEF TypeOK, JobType
  <2>4. x.state \in Alive
    BY <2>3 DEF Alive, JobType
  <2> HIDE DEF x
  <2> QED BY <2>2, <2>4, <1>a, StaysCarried
<1>7. ASSUME NEW j \in Job, MarkDelivered(j) \/ GiveUp(j) PROVE Carried(d)'
  <2>1. j[1] \in Delivery
    BY JobParts
  <2>2. PICK status \in {"delivered", "failed"} : Marked(j[1], status, job[j].attempt)
    BY <1>7 DEF MarkDelivered, GiveUp
  <2>3. d # j[1] /\ row'[d] = row[d]
    <3>1. /\ d # j[1] => row'[d] = row[d]
          /\ d = j[1] /\ row[d] = NoRow => row'[d] = NoRow
          /\ d = j[1] /\ row[d] # NoRow => row'[d] = [status |-> status, attempt |-> job[j].attempt]
      BY <2>1, <2>2, MarkedRow
    <3> QED BY <3>1, <1>b
  <2>4. job' = [job EXCEPT ![j] = [job[j] EXCEPT !.state = "settled", !.ok = FALSE, !.attempt = 0]]
    BY <1>7, SettledJob DEF MarkDelivered, GiveUp
  <2> DEFINE x == [job[j] EXCEPT !.state = "settled", !.ok = FALSE, !.attempt = 0]
  <2>5. PICK i \in 1..MaxJobs : job[<<d, i>>].state \in Alive
    BY <2>3, <1>a DEF Carried
  <2>6. job' = [job EXCEPT ![j] = x]
    BY <2>4
  <2> HIDE DEF x
  <2> QED BY <2>3, <2>5, <2>6, OneJobChanges DEF Carried
<1>8. ASSUME NEW j \in Job, BookNext(j) PROVE Carried(d)'
  <2>1. PICK n \in 1..MaxJobs :
          /\ job[<<j[1], n>>].state = "none" /\ n # j[2]
          /\ \A c \in Delivery, i \in 1..MaxJobs :
               job'[<<c, i>>] = IF c = j[1] /\ i = n THEN NewJob
                                ELSE IF c = j[1] /\ i = j[2] THEN Settled(j)[j] ELSE job[<<c, i>>]
    BY <1>8, NextJobs
  <2>2. NewJob.state \in Alive
    BY DEF NewJob, NoJob, Alive
  <2>3. CASE d = j[1]
    <3>1. job'[<<d, n>>] = NewJob
      BY <2>1, <2>3
    <3> QED BY <2>2, <3>1 DEF Carried
  <2>4. CASE d # j[1]
    <3>1. Marked(j[1], "pending", job[j].attempt) /\ j[1] \in Delivery
      BY <1>8, JobParts DEF BookNext
    <3>2. row'[d] = row[d]
      BY <2>4, <3>1 DEF Marked, TypeOK
    <3> QED BY <2>1, <2>4, <3>2, <1>a DEF Carried
  <2> QED BY <2>3, <2>4
<1>9. ASSUME NEW j \in Job, Complete(j) PROVE Carried(d)'
  <2>1. job' = [job EXCEPT ![j] = NoJob] /\ row' = row /\ job[j].state \notin Alive
    BY <1>9 DEF Complete, At, Alive
  <2>2. job[j].state \in Alive => NoJob.state \in Alive
    BY <2>1
  <2>3. Carried(d)
    BY <2>1, <1>a
  <2> HIDE DEF NoJob
  <2> QED BY <2>1, <2>2, <2>3, StaysCarried
<1>10. ASSUME NEW b \in Delivery, ReplayFinds(b) PROVE Carried(d)'
  BY <1>10, <1>a DEF ReplayFinds, Carried
<1>11. ASSUME NEW b \in Delivery, Replay(b) PROVE Carried(d)'
  <2>0. Marked(b, "pending", 0)
    BY <1>11 DEF Replay
  <2>1. d # b => row'[d] = row[d]
    BY <2>0 DEF Marked, TypeOK
  <2> QED BY <1>11, <2>1, <1>a, BookedIsCarried DEF Replay
<1>12. ASSUME NEW j \in Job, RetryJob(j) PROVE Carried(d)'
  <2> DEFINE x == [job[j] EXCEPT !.state = "waiting"]
  <2>1. job' = [job EXCEPT ![j] = x] /\ row' = row
    BY <1>12 DEF RetryJob, TypeOK
  <2>2. job[j] \in JobType
    BY DEF TypeOK, JobType
  <2>3. x.state \in Alive
    BY <2>2 DEF Alive, JobType
  <2> HIDE DEF x
  <2> QED BY <2>1, <2>3, <1>a, StaysCarried
<1>13. ASSUME NEW j \in Job, CrashDeliver(j) PROVE Carried(d)'
  <2> DEFINE x == [Retried(job[j]) EXCEPT !.ok = FALSE, !.attempt = 0]
  <2>1. job' = [job EXCEPT ![j] = x] /\ row' = row
    BY <1>13 DEF CrashDeliver, TypeOK
  <2>2. job[j] \in JobType /\ Retried(job[j]) \in JobType
    BY RetriedJob DEF TypeOK, JobType
  <2>3. x.state \in Alive
    BY <2>2 DEF Alive, JobType, Retried
  <2> HIDE DEF x
  <2> QED BY <2>1, <2>3, <1>a, StaysCarried
<1>14. CASE UNCHANGED vars
  BY <1>14, <1>a DEF vars, Carried
<1> QED
  BY <1>1, <1>2, <1>3, <1>4, <1>5, <1>6, <1>7, <1>8, <1>9, <1>10, <1>11, <1>12, <1>13, <1>14
     DEF Next, FanOutStep, DeliverStep

(* A pending delivery is on its way, whatever crashes, is replayed, or is  *)
(* retried beside it: a job of it waits, runs or has visibly died.         *)
THEOREM PendingSafe == Spec => []PendingHasJob
<1>1. Init => PendingCarried
  BY DEF Init, PendingCarried, NoRow
<1>2. PendingCarried => PendingHasJob
  BY DEF PendingCarried, Carried, Alive, PendingHasJob, JobsOf, Running
<1> QED BY <1>1, <1>2, PendingStep, TypeCorrect, PTL DEF Spec

---------------------------------------------------------------------------
(* Who could hear an event when it was emitted is on the list of its       *)
(* fan-out, or booked, or deleted since                                    *)

Reached(v) ==
  /\ \A e \in fanJob[v].heard : <<v, e>> \in Hears /\ endpoint[e] # "none"
  /\ \A e \in fanJob[v].heard : endpoint[e] = "active" =>
       /\ fanJob[v].state = "running" => e \in fanJob[v].todo \/ row[<<v, e>>] # NoRow
       /\ fanJob[v].state = "completed" => row[<<v, e>>] # NoRow
  /\ fanJob[v].state = "none" => fanJob[v].heard = {}

(* A step that takes no booked row from an active endpoint, and leaves the *)
(* fan-outs and the endpoints alone or deletes one.                        *)
LEMMA StillReached ==
  ASSUME TypeOK, NEW v \in Event, Reached(v),
         fanJob'[v] = fanJob[v],
         \A e \in Endpoint : endpoint[e] # "none" => endpoint'[e] # "none",
         \A e \in Endpoint : endpoint'[e] = "active" /\ endpoint[e] # "none" => endpoint[e] = "active",
         \A e \in Endpoint : endpoint'[e] = "active" /\ row[<<v, e>>] # NoRow => row'[<<v, e>>] # NoRow
  PROVE  Reached(v)'
<1>1. fanJob[v].heard \subseteq Endpoint
  BY DEF TypeOK
<1> QED BY <1>1 DEF Reached

LEMMA ReachedStep ==
  ASSUME TypeOK, [Next]_vars, NEW v \in Event, Reached(v)
  PROVE  Reached(v)'
<1>a. \A e \in Endpoint : <<v, e>> \in Delivery
  BY DEF Delivery
<1>b. fanJob[v].heard \subseteq Endpoint /\ fanJob[v].todo \subseteq Endpoint
  BY DEF TypeOK
<1>c. ASSUME fanJob' = fanJob, endpoint' = endpoint,
             \A e \in Endpoint : row[<<v, e>>] # NoRow => row'[<<v, e>>] # NoRow
      PROVE  Reached(v)'
  BY <1>c, StillReached
<1>1. ASSUME NEW e \in Endpoint, CreateEndpoint(e) PROVE Reached(v)'
  <2>1. endpoint[e] = "none" /\ endpoint' = [endpoint EXCEPT ![e] = "active"] /\ row' = row /\ fanJob' = fanJob
    BY <1>1 DEF CreateEndpoint
  <2> QED BY <2>1, StillReached DEF TypeOK
<1>2. ASSUME NEW e \in Endpoint, DeleteEndpoint(e) PROVE Reached(v)'
  <2>1. /\ endpoint[e] = "active" /\ endpoint' = [endpoint EXCEPT ![e] = "deleted"] /\ fanJob' = fanJob
        /\ row' = [d \in Delivery |-> IF d[2] = e THEN NoRow ELSE row[d]]
    BY <1>2 DEF DeleteEndpoint
  <2>2. \A x \in Endpoint : x # e => row'[<<v, x>>] = row[<<v, x>>]
    BY <2>1, <1>a
  <2>3. endpoint'[e] = "deleted" /\ \A x \in Endpoint : x # e => endpoint'[x] = endpoint[x]
    BY <2>1 DEF TypeOK
  <2> QED BY <2>1, <2>2, <2>3, StillReached
<1>3. ASSUME NEW w \in Event, Emit(w) PROVE Reached(v)'
  <2>1. CASE w # v
    <3>1. fanJob'[v] = fanJob[v]
      BY <1>3, <2>1 DEF Emit, TypeOK
    <3> QED BY <1>3, <3>1, StillReached DEF Emit
  <2>2. CASE w = v
    <3>1. fanJob'[v].state = "waiting" /\ fanJob'[v].heard = Interested(v)
      BY <1>3, <2>2 DEF Emit, TypeOK
    <3>2. endpoint' = endpoint
      BY <1>3 DEF Emit
    <3> QED BY <3>1, <3>2 DEF Reached, Interested
  <2> QED BY <2>1, <2>2
<1>4. ASSUME NEW w \in Event, FanOut(w) PROVE Reached(v)'
  <2>1. CASE w # v
    <3>1. fanJob'[v] = fanJob[v]
      BY <1>4, <2>1 DEF FanOut, TypeOK
    <3> QED BY <1>4, <3>1, StillReached DEF FanOut
  <2>2. CASE w = v
    <3>1. fanJob'[v].state = "running" /\ fanJob'[v].todo = Interested(v) /\ fanJob'[v].heard = fanJob[v].heard
      BY <1>4, <2>2 DEF FanOut, TypeOK
    <3>2. endpoint' = endpoint /\ row' = row
      BY <1>4 DEF FanOut
    <3> QED BY <3>1, <3>2, <1>b DEF Reached, Interested
  <2> QED BY <2>1, <2>2
<1>5. ASSUME NEW w \in Event, FanOutEnds(w) PROVE Reached(v)'
  <2>1. CASE w # v
    <3>1. fanJob'[v] = fanJob[v]
      BY <1>5, <2>1 DEF FanOutEnds, TypeOK
    <3> QED BY <1>5, <3>1, StillReached DEF FanOutEnds
  <2>2. CASE w = v
    <3>1. fanJob'[v].state = "completed" /\ fanJob'[v].heard = fanJob[v].heard
      BY <1>5, <2>2 DEF FanOutEnds, TypeOK
    <3>2. endpoint' = endpoint /\ row' = row /\ fanJob[v].state = "running" /\ fanJob[v].todo = {}
      BY <1>5, <2>2 DEF FanOutEnds
    <3> QED BY <3>1, <3>2 DEF Reached
  <2> QED BY <2>1, <2>2
<1>6. ASSUME NEW w \in Event, NEW e \in Endpoint, Book(w, e) PROVE Reached(v)'
  <2>1. \A x \in Endpoint : row[<<v, x>>] # NoRow => row'[<<v, x>>] # NoRow
    <3>1. CASE row' = [row EXCEPT ![<<w, e>>] = [status |-> "pending", attempt |-> 0]]
      BY <3>1, <1>a DEF TypeOK, NoRow
    <3>2. CASE UNCHANGED row
      BY <3>2
    <3> QED BY <1>6, <3>1, <3>2 DEF Book
  <2>2. endpoint' = endpoint /\ fanJob' = [fanJob EXCEPT ![w].todo = @ \ {e}]
    BY <1>6 DEF Book
  <2>3. CASE w # v
    <3>1. fanJob'[v] = fanJob[v]
      BY <2>2, <2>3 DEF TypeOK
    <3> QED BY <2>1, <2>2, <3>1, StillReached
  <2>4. CASE w = v
    <3>1. /\ fanJob'[v].state = "running" /\ fanJob'[v].heard = fanJob[v].heard
          /\ fanJob'[v].todo = fanJob[v].todo \ {e} /\ fanJob[v].state = "running"
      BY <1>6, <2>2, <2>4 DEF Book, TypeOK
    <3>2. row'[<<v, e>>] # NoRow
      <4>1. CASE row' = [row EXCEPT ![<<w, e>>] = [status |-> "pending", attempt |-> 0]]
        BY <4>1, <2>4, <1>a DEF TypeOK, NoRow
      <4>2. CASE row[<<w, e>>] # NoRow
        BY <4>2, <2>1, <2>4
      <4> QED BY <1>6, <4>1, <4>2 DEF Book
    <3> QED BY <2>1, <2>2, <3>1, <3>2, <1>b DEF Reached
  <2> QED BY <2>3, <2>4
<1>7. ASSUME NEW w \in Event, (\E e \in Endpoint : FanOutThrows(w, e)) \/ CrashFanOut(w) PROVE Reached(v)'
  <2>1. endpoint' = endpoint /\ row' = row /\ fanJob' = [fanJob EXCEPT ![w] = [Retried(@) EXCEPT !.todo = {}]]
    BY <1>7 DEF FanOutThrows, CrashFanOut
  <2>2. CASE w # v
    <3>1. fanJob'[v] = fanJob[v]
      BY <2>1, <2>2 DEF TypeOK
    <3> QED BY <2>1, <3>1, StillReached
  <2>3. CASE w = v
    <3> DEFINE f == [Retried(fanJob[v]) EXCEPT !.todo = {}]
    <3>1. fanJob'[v] = f
      BY <2>1, <2>3 DEF TypeOK
    <3>2. fanJob[v] \in FanType
      BY DEF TypeOK, FanType
    <3>3. f.state \in {"waiting", "failed"} /\ f.heard = fanJob[v].heard
      BY <3>2 DEF Retried, FanType
    <3> HIDE DEF f
    <3> QED BY <2>1, <3>1, <3>3 DEF Reached
  <2> QED BY <2>2, <2>3
<1>8. ASSUME NEW j \in Job, DeliverStep(j) \/ RetryJob(j) \/ CrashDeliver(j) PROVE Reached(v)'
  <2>1. fanJob' = fanJob /\ endpoint' = endpoint
    BY <1>8 DEF DeliverStep, Deliver, Post, MarkDelivered, GiveUp, BookNext, Complete, RetryJob, CrashDeliver
  <2>2. \/ row' = row
        \/ \E status \in {"pending", "delivered", "failed"} : Marked(j[1], status, job[j].attempt)
    BY <1>8 DEF DeliverStep, Deliver, Post, MarkDelivered, GiveUp, BookNext, Complete, RetryJob, CrashDeliver
  <2>3. ASSUME NEW e \in Endpoint, row[<<v, e>>] # NoRow PROVE row'[<<v, e>>] # NoRow
    <3>1. CASE row' = row
      BY <2>3, <3>1
    <3>2. ASSUME NEW status \in {"pending", "delivered", "failed"}, Marked(j[1], status, job[j].attempt)
          PROVE  row'[<<v, e>>] # NoRow
      BY <2>3, <3>2, <1>a DEF Marked, TypeOK, NoRow
    <3> QED BY <2>2, <3>1, <3>2
  <2> QED BY <2>1, <2>3, <1>c
<1>9. ASSUME NEW d \in Delivery, ReplayFinds(d) \/ Replay(d) PROVE Reached(v)'
  <2>1. fanJob' = fanJob /\ endpoint' = endpoint /\ (row' = row \/ Marked(d, "pending", 0))
    BY <1>9 DEF ReplayFinds, Replay
  <2>2. ASSUME NEW e \in Endpoint, row[<<v, e>>] # NoRow PROVE row'[<<v, e>>] # NoRow
    <3>1. CASE row' = row
      BY <2>2, <3>1
    <3>2. CASE Marked(d, "pending", 0)
      BY <2>2, <3>2, <1>a DEF Marked, TypeOK, NoRow
    <3> QED BY <2>1, <3>1, <3>2
  <2> QED BY <2>1, <2>2, <1>c
<1>10. CASE UNCHANGED vars
  BY <1>10, <1>c DEF vars
<1> QED
  BY <1>1, <1>2, <1>3, <1>4, <1>5, <1>6, <1>7, <1>8, <1>9, <1>10 DEF Next, FanOutStep

(* Whoever could hear an event when it was emitted, and is still there     *)
(* when its fan-out has completed, has a delivery, however often the       *)
(* fan-out was thrown away half-way.                                       *)
THEOREM NobodyLeft == Spec => []NobodyLeftOut
<1> DEFINE Inv == \A v \in Event : Reached(v)
<1>1. Init => Inv
  BY DEF Init, Reached
<1>2. TypeOK /\ Inv /\ [Next]_vars => Inv'
  BY ReachedStep
<1>3. Inv => NobodyLeftOut
  BY DEF Reached, NobodyLeftOut
<1> QED BY <1>1, <1>2, <1>3, TypeCorrect, PTL DEF Spec

---------------------------------------------------------------------------
(* One chain of attempts, while nothing cuts in.  Told of one delivery, by *)
(* the state of each of its jobs, its row, and the receiver's tale.        *)

Unsettled == {"waiting", "read", "answered", "failed"}

Fresh(d) == row[d] = NoRow /\ endpoint[d[2]] # "deleted"

Single(d) ==
  \A i, k \in 1..MaxJobs :
    job[<<d, i>>].state \in Unsettled /\ job[<<d, k>>].state \in Unsettled => i = k

Agrees(d, i) ==
  LET x == job[<<d, i>>] t == tale[d] IN
  /\ x.state = "waiting" =>
       \/ row[d] = NoRow
       \/ row[d].status = "pending" /\ t.posts = row[d].attempt /\ t.taken = 0
  /\ x.state = "read" =>
       /\ row[d].status \in {"none", "pending"}
       /\ x.attempt = t.posts + 1 /\ x.attempt <= NDelays + 1 /\ t.taken = 0
  /\ x.state = "answered" =>
       /\ row[d].status \in {"none", "pending"}
       /\ x.attempt = t.posts /\ x.attempt <= NDelays + 1
       /\ t.taken = IF x.ok THEN 1 ELSE 0
  /\ x.state = "failed" => row[d] = NoRow

Tells(d) ==
  /\ tale[d].taken <= 1 /\ tale[d].posts <= NDelays + 1
  /\ row[d].status = "pending" => row[d].attempt <= NDelays
  /\ row[d].status = "delivered" => tale[d].taken = 1
  /\ row[d].status = "failed" => tale[d].posts = NDelays + 1 /\ tale[d].taken = 0

Chained(d) ==
  /\ row[d].status = "none" => row[d] = NoRow
  /\ d \in owned => ~Fresh(d)
  /\ Fresh(d) => /\ \A i \in 1..MaxJobs : job[<<d, i>>].state = "none"
                 /\ tale[d].quiet => tale[d].posts = 0 /\ tale[d].taken = 0
  /\ tale[d].quiet => Single(d) /\ Tells(d) /\ \A i \in 1..MaxJobs : Agrees(d, i)

LEMMA InitChained == Init => \A d \in Delivery : Chained(d)
BY WebhooksAssumption
   DEF Init, Chained, Fresh, Single, Agrees, Tells, NoRow, NoJob, NewTale, Unsettled, Job

LEMMA Unaffected ==
  ASSUME NEW d \in Delivery, Chained(d),
         row'[d] = row[d], tale'[d] = tale[d], endpoint' = endpoint, d \in owned' => d \in owned,
         \A i \in 1..MaxJobs : job'[<<d, i>>] = job[<<d, i>>]
  PROVE  Chained(d)'
<1>1. Fresh(d)' <=> Fresh(d)
  BY DEF Fresh
<1>2. Single(d) => Single(d)'
  BY DEF Single
<1>3. Tells(d) => Tells(d)'
  BY DEF Tells
<1>4. ASSUME NEW i \in 1..MaxJobs, Agrees(d, i) PROVE Agrees(d, i)'
  BY <1>4 DEF Agrees
<1> QED BY <1>1, <1>2, <1>3, <1>4 DEF Chained

(* A delivery that is not fresh never becomes so.                          *)
LEMMA NeverFresh ==
  ASSUME TypeOK, [Next]_vars, NEW d \in Delivery, ~Fresh(d)
  PROVE  ~Fresh(d)'
<1>1. d[2] \in Endpoint
  BY DEF Delivery
<1>2. CASE \E e \in Endpoint : CreateEndpoint(e) \/ DeleteEndpoint(e)
  <2>1. PICK e \in Endpoint : CreateEndpoint(e) \/ DeleteEndpoint(e)
    BY <1>2
  <2>2. CASE CreateEndpoint(e)
    <3>1. row' = row /\ endpoint[e] = "none" /\ endpoint' = [endpoint EXCEPT ![e] = "active"]
      BY <2>2 DEF CreateEndpoint
    <3> QED BY <1>1, <3>1 DEF Fresh, TypeOK
  <2>3. CASE DeleteEndpoint(e)
    <3>1. /\ row' = [b \in Delivery |-> IF b[2] = e THEN NoRow ELSE row[b]]
          /\ endpoint' = [endpoint EXCEPT ![e] = "deleted"]
      BY <2>3 DEF DeleteEndpoint
    <3> QED BY <1>1, <3>1 DEF Fresh, TypeOK
  <2> QED BY <2>1, <2>2, <2>3
<1>3. CASE endpoint' = endpoint /\ row' = row
  BY <1>3 DEF Fresh
<1>4. ASSUME NEW b \in Delivery, NEW status \in {"pending", "delivered", "failed"},
             endpoint' = endpoint, Marked(b, status, 0) \/ \E j \in Job : Marked(b, status, job[j].attempt)
      PROVE  ~Fresh(d)'
  <2>1. ASSUME NEW n, Marked(b, status, n), row[d] # NoRow PROVE row'[d] # NoRow
    BY <2>1, MarkedRow
  <2>2. row[d] # NoRow => row'[d] # NoRow
    BY <1>4, <2>1
  <2> QED BY <1>4, <2>2 DEF Fresh
<1>5. CASE \E v \in Event, e \in Endpoint : Book(v, e)
  <2>1. PICK v \in Event, e \in Endpoint : Book(v, e)
    BY <1>5
  <2>2. endpoint' = endpoint /\ (UNCHANGED row \/ row' = [row EXCEPT ![<<v, e>>] = [status |-> "pending", attempt |-> 0]])
    BY <2>1 DEF Book
  <2>3. row[d] # NoRow => row'[d] # NoRow
    <3>1. CASE UNCHANGED row
      BY <3>1
    <3>2. CASE row' = [row EXCEPT ![<<v, e>>] = [status |-> "pending", attempt |-> 0]]
      BY <3>2 DEF TypeOK, NoRow
    <3> QED BY <2>2, <3>1, <3>2
  <2> QED BY <2>2, <2>3 DEF Fresh
<1>6. ASSUME NEW j \in Job, MarkDelivered(j) \/ GiveUp(j) \/ BookNext(j) PROVE ~Fresh(d)'
  <2>1. /\ endpoint' = endpoint /\ j[1] \in Delivery
        /\ \E status \in {"pending", "delivered", "failed"} : Marked(j[1], status, job[j].attempt)
    BY <1>6, JobParts DEF MarkDelivered, GiveUp, BookNext
  <2> QED BY <2>1, <1>4
<1>7. ASSUME NEW b \in Delivery, Replay(b) PROVE ~Fresh(d)'
  <2>1. endpoint' = endpoint /\ Marked(b, "pending", 0)
    BY <1>7 DEF Replay
  <2> QED BY <2>1, <1>4
<1>8. ASSUME NEW v \in Event,
             Emit(v) \/ FanOut(v) \/ FanOutEnds(v) \/ CrashFanOut(v) \/ (\E e \in Endpoint : FanOutThrows(v, e))
      PROVE  endpoint' = endpoint /\ row' = row
  BY <1>8 DEF Emit, FanOut, FanOutEnds, CrashFanOut, FanOutThrows
<1>9. ASSUME NEW j \in Job, Deliver(j) \/ Post(j) \/ Complete(j) \/ RetryJob(j) \/ CrashDeliver(j)
      PROVE  endpoint' = endpoint /\ row' = row
  BY <1>9 DEF Deliver, Post, Complete, RetryJob, CrashDeliver
<1>10. ASSUME NEW b \in Delivery, ReplayFinds(b)
       PROVE  endpoint' = endpoint /\ row' = row
  BY <1>10 DEF ReplayFinds
<1>11. CASE UNCHANGED vars
  BY <1>11, <1>3 DEF vars
<1> QED
  BY <1>2, <1>3, <1>5, <1>6, <1>7, <1>8, <1>9, <1>10, <1>11 DEF Next, FanOutStep, DeliverStep

(* The one unsettled job of a delivery goes on.                            *)
LEMMA ChainGoesOn ==
  ASSUME NEW d \in Delivery, Chained(d), NEW k \in 1..MaxJobs,
         job[<<d, k>>].state \in Unsettled,
         \A i \in 1..MaxJobs : i # k => job'[<<d, i>>] = job[<<d, i>>],
         ~Fresh(d) => ~Fresh(d)',
         row'[d].status = "none" => row'[d] = NoRow,
         tale'[d].quiet => tale[d].quiet /\ Tells(d)' /\ Agrees(d, k)'
  PROVE  Chained(d)'
<1>1. ~Fresh(d)'
  <2>1. ~Fresh(d)
    BY DEF Chained, Unsettled
  <2> QED BY <2>1
<1>2. SUFFICES ASSUME tale'[d].quiet
               PROVE  Single(d)' /\ Tells(d)' /\ \A i \in 1..MaxJobs : Agrees(d, i)'
  BY <1>1 DEF Chained
<1>3. Single(d)
  BY <1>2 DEF Chained
<1>4. ASSUME NEW i \in 1..MaxJobs, i # k PROVE job'[<<d, i>>].state \notin Unsettled
  BY <1>3, <1>4 DEF Single
<1>5. Single(d)'
  BY <1>4 DEF Single
<1>6. ASSUME NEW i \in 1..MaxJobs PROVE Agrees(d, i)'
  <2>1. CASE i = k
    BY <1>2, <2>1
  <2>2. CASE i # k
    BY <1>4, <2>2 DEF Agrees, Unsettled
  <2> QED BY <2>1, <2>2
<1> QED BY <1>2, <1>5, <1>6

(* The next attempt takes over from the one that booked it.                *)
LEMMA ChainPassesOn ==
  ASSUME TypeOK, NEW j \in Job, BookNext(j), Chained(j[1]), ~Fresh(j[1])'
  PROVE  Chained(j[1])'
<1> DEFINE d == j[1]
           x == job[j]
<1>1. d \in Delivery /\ j[2] \in 1..MaxJobs /\ j = <<d, j[2]>>
  BY JobParts
<1>2. PICK n \in 1..MaxJobs :
        /\ job[<<d, n>>].state = "none" /\ n # j[2]
        /\ \A c \in Delivery, i \in 1..MaxJobs :
             job'[<<c, i>>] = IF c = d /\ i = n THEN NewJob
                              ELSE IF c = d /\ i = j[2] THEN Settled(j)[j] ELSE job[<<c, i>>]
  BY NextJobs
<1>3. /\ x.state = "answered" /\ ~x.ok /\ x.attempt <= NDelays
      /\ Marked(d, "pending", x.attempt) /\ tale' = tale /\ owned' = owned /\ endpoint' = endpoint
  BY DEF BookNext, At, HasDelay
<1>4. /\ row[d] = NoRow => row'[d] = NoRow
      /\ row[d] # NoRow => row'[d] = [status |-> "pending", attempt |-> x.attempt]
  BY <1>1, <1>3 DEF Marked, TypeOK
<1>5. row'[d].status = "none" => row'[d] = NoRow
  BY <1>4
<1> SUFFICES ASSUME tale[d].quiet
             PROVE  Single(d)' /\ Tells(d)' /\ \A i \in 1..MaxJobs : Agrees(d, i)'
  BY <1>3, <1>5 DEF Chained
<1>6. Single(d) /\ Tells(d) /\ Agrees(d, j[2])
  BY <1>1 DEF Chained
<1>7. x = job[<<d, j[2]>>] /\ x.state \in Unsettled
  BY <1>1, <1>3 DEF Unsettled
<1>8. tale[d].posts = x.attempt /\ tale[d].taken = 0
  BY <1>3, <1>6, <1>7 DEF Agrees
<1>9. /\ job'[<<d, n>>] = NewJob
      /\ job'[<<d, j[2]>>] = Settled(j)[j]
      /\ \A i \in 1..MaxJobs : i # n /\ i # j[2] => job'[<<d, i>>] = job[<<d, i>>]
  BY <1>1, <1>2
<1>10. Settled(j)[j].state = "settled" /\ NewJob.state = "waiting"
  BY SettledJob DEF NewJob, NoJob
<1>11. ASSUME NEW i \in 1..MaxJobs, i # n PROVE job'[<<d, i>>].state \notin Unsettled
  <2>1. CASE i = j[2]
    BY <1>9, <1>10, <2>1 DEF Unsettled
  <2>2. CASE i # j[2]
    <3>1. job'[<<d, i>>] = job[<<d, i>>]
      BY <1>9, <1>11, <2>2
    <3>2. job[<<d, i>>].state \notin Unsettled
      BY <1>1, <1>6, <1>7, <2>2 DEF Single
    <3> QED BY <3>1, <3>2
  <2> QED BY <2>1, <2>2
<1>12. Single(d)'
  BY <1>11 DEF Single
<1>13. Tells(d)'
  <2>1. tale' = tale
    BY <1>3
  <2> QED BY <1>3, <1>4, <1>6, <2>1 DEF Tells, NoRow
<1>14. ASSUME NEW i \in 1..MaxJobs PROVE Agrees(d, i)'
  <2>1. CASE i = n
    <3>1. job'[<<d, i>>] = NewJob /\ tale' = tale
      BY <1>3, <1>9, <2>1
    <3> HIDE DEF NewJob
    <3> QED BY <1>4, <1>8, <1>10, <3>1 DEF Agrees
  <2>2. CASE i # n
    BY <1>11, <2>2 DEF Agrees, Unsettled
  <2> QED BY <2>1, <2>2
<1> QED BY <1>12, <1>13, <1>14

LEMMA ChainedStep ==
  ASSUME TypeOK, [Next]_vars, NEW d \in Delivery, Chained(d)
  PROVE  Chained(d)'
<1>a. d[2] \in Endpoint /\ row[d].attempt \in Nat /\ tale[d].posts \in Nat /\ tale[d].taken \in Nat
  BY DEF TypeOK, Delivery
<1>b. ~Fresh(d) => ~Fresh(d)'
  BY NeverFresh
<1>c. \A i \in 1..MaxJobs : <<d, i>> \in Job /\ job[<<d, i>>] \in JobType
  BY DEF Job, TypeOK, JobType
<1>1. ASSUME NEW e \in Endpoint, CreateEndpoint(e) PROVE Chained(d)'
  <2>1. /\ endpoint[e] = "none" /\ endpoint' = [endpoint EXCEPT ![e] = "active"]
        /\ row' = row /\ job' = job /\ owned' = owned /\ tale' = tale
    BY <1>1 DEF CreateEndpoint
  <2>2. Fresh(d)' <=> Fresh(d)
    BY <1>a, <2>1 DEF Fresh, TypeOK
  <2>3. (Single(d) => Single(d)') /\ (Tells(d) => Tells(d)')
    BY <2>1 DEF Single, Tells
  <2>4. ASSUME NEW i \in 1..MaxJobs, Agrees(d, i) PROVE Agrees(d, i)'
    BY <2>1, <2>4 DEF Agrees
  <2> QED BY <2>1, <2>2, <2>3, <2>4 DEF Chained
<1>2. ASSUME NEW e \in Endpoint, DeleteEndpoint(e) PROVE Chained(d)'
  <2>1. /\ endpoint' = [endpoint EXCEPT ![e] = "deleted"]
        /\ row' = [b \in Delivery |-> IF b[2] = e THEN NoRow ELSE row[b]]
        /\ job' = job /\ owned' = owned /\ tale' = tale
    BY <1>2 DEF DeleteEndpoint
  <2>2. Single(d) => Single(d)'
    BY <2>1 DEF Single
  <2>3. CASE d[2] = e
    <3>1. row'[d] = NoRow /\ endpoint'[d[2]] = "deleted" /\ NoRow.status = "none"
      BY <1>a, <2>1, <2>3 DEF TypeOK, NoRow
    <3>2. ~Fresh(d)'
      BY <3>1 DEF Fresh
    <3>3. Tells(d) => Tells(d)'
      BY <2>1, <3>1 DEF Tells
    <3>4. ASSUME NEW i \in 1..MaxJobs, Agrees(d, i) PROVE Agrees(d, i)'
      BY <2>1, <3>1, <3>4 DEF Agrees
    <3> QED BY <2>1, <2>2, <3>1, <3>2, <3>3, <3>4 DEF Chained
  <2>4. CASE d[2] # e
    <3>1. row'[d] = row[d] /\ endpoint'[d[2]] = endpoint[d[2]]
      BY <1>a, <2>1, <2>4 DEF TypeOK
    <3>2. Fresh(d)' <=> Fresh(d)
      BY <3>1 DEF Fresh
    <3>3. Tells(d) => Tells(d)'
      BY <2>1, <3>1 DEF Tells
    <3>4. ASSUME NEW i \in 1..MaxJobs, Agrees(d, i) PROVE Agrees(d, i)'
      BY <2>1, <3>1, <3>4 DEF Agrees
    <3> QED BY <2>1, <2>2, <3>1, <3>2, <3>3, <3>4 DEF Chained
  <2> QED BY <2>3, <2>4
<1>3. ASSUME NEW v \in Event,
             Emit(v) \/ FanOut(v) \/ FanOutEnds(v) \/ CrashFanOut(v) \/ (\E e \in Endpoint : FanOutThrows(v, e))
      PROVE  Chained(d)'
  <2>1. endpoint' = endpoint /\ row' = row /\ job' = job /\ owned' = owned /\ tale' = tale
    BY <1>3 DEF Emit, FanOut, FanOutEnds, CrashFanOut, FanOutThrows
  <2> QED BY <2>1, Unaffected
<1>4. ASSUME NEW v \in Event, NEW e \in Endpoint, Book(v, e) PROVE Chained(d)'
  <2>1. <<v, e>> \in Delivery /\ <<v, e>>[2] = e
    BY DEF Delivery
  <2>2. endpoint' = endpoint /\ owned' = owned /\ tale' = tale /\ endpoint[e] = "active"
    BY <1>4 DEF Book
  <2>3. CASE UNCHANGED <<row, job>>
    BY <2>2, <2>3, Unaffected
  <2>4. CASE /\ row[<<v, e>>] = NoRow /\ Enqueued(<<v, e>>)
             /\ row' = [row EXCEPT ![<<v, e>>] = [status |-> "pending", attempt |-> 0]]
    <3>1. PICK n \in 1..MaxJobs :
            \A c \in Delivery, i \in 1..MaxJobs :
              job'[<<c, i>>] = IF c = <<v, e>> /\ i = n THEN NewJob ELSE job[<<c, i>>]
      BY <2>1, <2>4, EnqueuedJobs
    <3>2. CASE d # <<v, e>>
      <4>1. row'[d] = row[d]
        BY <2>4, <3>2 DEF TypeOK
      <4>2. \A i \in 1..MaxJobs : job'[<<d, i>>] = job[<<d, i>>]
        BY <3>1, <3>2
      <4> QED BY <2>2, <4>1, <4>2, Unaffected
    <3>3. CASE d = <<v, e>>
      <4>1. Fresh(d)
        BY <2>1, <2>2, <2>4, <3>3 DEF Fresh
      <4>2. \A i \in 1..MaxJobs : job[<<d, i>>].state = "none"
        BY <4>1 DEF Chained
      <4>3. job'[<<d, n>>] = NewJob /\ \A i \in 1..MaxJobs : i # n => job'[<<d, i>>] = job[<<d, i>>]
        BY <3>1, <3>3
      <4>4. row'[d] = [status |-> "pending", attempt |-> 0]
        BY <2>1, <2>4, <3>3 DEF TypeOK
      <4>5. row'[d] # NoRow /\ row'[d].status = "pending" /\ row'[d].attempt = 0 /\ NewJob.state = "waiting"
        BY <4>4 DEF NoRow, NewJob, NoJob
      <4>6. \A i \in 1..MaxJobs : i # n => job'[<<d, i>>].state \notin Unsettled
        BY <4>2, <4>3 DEF Unsettled
      <4>7. SUFFICES ASSUME tale[d].quiet
                     PROVE  Single(d)' /\ Tells(d)' /\ \A i \in 1..MaxJobs : Agrees(d, i)'
        BY <2>2, <4>5 DEF Chained, Fresh
      <4>8. tale'[d].posts = 0 /\ tale'[d].taken = 0
        BY <2>2, <4>1, <4>7 DEF Chained
      <4>9. Single(d)'
        BY <4>6 DEF Single
      <4>10. Tells(d)'
        BY <4>5, <4>8, WebhooksAssumption DEF Tells
      <4>11. ASSUME NEW i \in 1..MaxJobs PROVE Agrees(d, i)'
        <5>1. CASE i = n
          <6> HIDE DEF NewJob
          <6> QED BY <4>3, <4>5, <4>8, <5>1 DEF Agrees
        <5>2. CASE i # n
          BY <4>6, <5>2 DEF Agrees, Unsettled
        <5> QED BY <5>1, <5>2
      <4> QED BY <4>9, <4>10, <4>11
    <3> QED BY <3>2, <3>3
  <2> QED BY <1>4, <2>3, <2>4 DEF Book
<1>5. ASSUME NEW j \in Job, NEW x,
             job' = [job EXCEPT ![j] = x], endpoint' = endpoint, owned' = owned,
             \A c \in Delivery : c # j[1] => row'[c] = row[c] /\ tale'[c] = tale[c],
             d # j[1]
      PROVE  Chained(d)'
  <2>1. \A i \in 1..MaxJobs : job'[<<d, i>>] = job[<<d, i>>]
    BY <1>5, OneJobChanges
  <2> QED BY <1>5, <2>1, Unaffected
<1>6. ASSUME NEW j \in Job, NEW x, d = j[1],
             job' = [job EXCEPT ![j] = x]
      PROVE  /\ j[2] \in 1..MaxJobs /\ j = <<d, j[2]>>
             /\ job'[<<d, j[2]>>] = x
             /\ \A i \in 1..MaxJobs : i # j[2] => job'[<<d, i>>] = job[<<d, i>>]
  <2>1. j[2] \in 1..MaxJobs /\ j = <<d, j[2]>>
    BY <1>6, JobParts
  <2>2. ASSUME NEW i \in 1..MaxJobs
        PROVE  job'[<<d, i>>] = IF i = j[2] THEN x ELSE job[<<d, i>>]
    <3>1. job' = [job EXCEPT ![j] = x] /\ d = j[1]
      BY <1>6
    <3>2. <<d, i>> \in Job /\ (<<d, i>> = j <=> i = j[2])
      BY <2>1 DEF Job
    <3> QED BY <3>1, <3>2 DEF TypeOK
  <2>3. job'[<<d, j[2]>>] = x
    BY <2>1, <2>2
  <2>4. ASSUME NEW i \in 1..MaxJobs, i # j[2] PROVE job'[<<d, i>>] = job[<<d, i>>]
    BY <2>2, <2>4
  <2> QED BY <2>1, <2>3, <2>4
<1>7. ASSUME NEW j \in Job, Deliver(j) PROVE Chained(d)'
  <2> DEFINE r == row[j[1]]
             x == IF r = NoRow THEN Retried(job[j])
                  ELSE IF r.status = "delivered" THEN [job[j] EXCEPT !.state = "settled"]
                  ELSE [job[j] EXCEPT !.state = "read", !.attempt = r.attempt + 1]
  <2>1. /\ job' = [job EXCEPT ![j] = x] /\ job[j].state = "waiting"
        /\ row' = row /\ endpoint' = endpoint /\ owned' = owned /\ tale' = tale
    BY <1>7 DEF Deliver, At, TypeOK
  <2>2. CASE d # j[1]
    <3> HIDE DEF x
    <3> QED BY <1>5, <2>1, <2>2
  <2>3. CASE d = j[1]
    <3>1. /\ j[2] \in 1..MaxJobs /\ j = <<d, j[2]>> /\ job'[<<d, j[2]>>] = x
          /\ \A i \in 1..MaxJobs : i # j[2] => job'[<<d, i>>] = job[<<d, i>>]
      <4> HIDE DEF x
      <4> QED BY <1>6, <2>1, <2>3
    <3>2. job[j] \in JobType /\ job[<<d, j[2]>>].state \in Unsettled
      BY <1>c, <2>1, <3>1 DEF Unsettled
    <3>3. tale[d].quiet => Tells(d) /\ Agrees(d, j[2])
      BY <3>1 DEF Chained
    <3>4. ASSUME tale[d].quiet PROVE Agrees(d, j[2])'
      <4>1. CASE r = NoRow
        <5>1. x.state \in {"waiting", "failed"}
          BY <3>2, <4>1 DEF Retried, JobType
        <5> HIDE DEF x
        <5> QED BY <2>1, <2>3, <3>1, <4>1, <5>1 DEF Agrees
      <4>2. CASE r # NoRow
        <5>1. r.status = "pending" /\ tale[d].posts = r.attempt /\ tale[d].taken = 0 /\ r.attempt <= NDelays
          BY <2>1, <2>3, <3>1, <3>3, <3>4, <4>2 DEF Agrees, Tells
        <5>2. x.state = "read" /\ x.attempt = r.attempt + 1
          BY <3>2, <4>2, <5>1 DEF JobType
        <5> HIDE DEF x
        <5> QED BY <1>a, <2>1, <2>3, <3>1, <5>1, <5>2, WebhooksAssumption DEF Agrees
      <4> QED BY <4>1, <4>2
    <3>5. ASSUME tale[d].quiet PROVE Tells(d)'
      BY <2>1, <3>3, <3>5 DEF Tells
    <3>6. row'[d].status = "none" => row'[d] = NoRow
      BY <2>1 DEF Chained
    <3> HIDE DEF x
    <3> QED BY <1>b, <2>1, <3>1, <3>2, <3>4, <3>5, <3>6, ChainGoesOn
  <2> QED BY <2>2, <2>3
<1>8. ASSUME NEW j \in Job, Post(j) PROVE Chained(d)'
  <2>1. PICK answer \in {"ok", "refused", "lost"} :
          /\ job' = [job EXCEPT ![j].state = "answered", ![j].ok = answer = "ok"]
          /\ tale' = [tale EXCEPT ![j[1]] = Told(@, answer)]
    BY <1>8 DEF Post
  <2> DEFINE x == [job[j] EXCEPT !.state = "answered", !.ok = (answer = "ok")]
  <2>2. /\ job' = [job EXCEPT ![j] = x] /\ job[j].state = "read" /\ j[1] \in Delivery
        /\ row' = row /\ endpoint' = endpoint /\ owned' = owned
    BY <1>8, <2>1, JobParts DEF Post, At, TypeOK
  <2>3. \A c \in Delivery : tale'[c] = IF c = j[1] THEN Told(tale[c], answer) ELSE tale[c]
    BY <2>1, <2>2 DEF TypeOK
  <2>4. CASE d # j[1]
    <3> HIDE DEF x
    <3> QED BY <1>5, <2>2, <2>3, <2>4
  <2>5. CASE d = j[1]
    <3>1. /\ j[2] \in 1..MaxJobs /\ j = <<d, j[2]>> /\ job'[<<d, j[2]>>] = x
          /\ \A i \in 1..MaxJobs : i # j[2] => job'[<<d, i>>] = job[<<d, i>>]
      <4> HIDE DEF x
      <4> QED BY <1>6, <2>2, <2>5
    <3>2. job[j] \in JobType /\ job[<<d, j[2]>>].state \in Unsettled
      BY <1>c, <2>2, <3>1 DEF Unsettled
    <3>3. x.state = "answered" /\ x.ok = (answer = "ok") /\ x.attempt = job[j].attempt
      BY <3>2 DEF JobType
    <3>4. tale[d].quiet => Tells(d) /\ Agrees(d, j[2])
      BY <3>1 DEF Chained
    <3>5. ASSUME tale'[d].quiet PROVE tale[d].quiet /\ Tells(d)' /\ Agrees(d, j[2])'
      <4>1. tale'[d] = Told(tale[d], answer) /\ tale[d] \in TaleType
        BY <2>3, <2>5 DEF TypeOK, TaleType
      <4>2. tale[d].quiet /\ answer # "lost"
        BY <3>5, <4>1 DEF Told, CutTale
      <4>3. tale'[d].posts = tale[d].posts + 1 /\ tale'[d].taken = IF answer = "ok" THEN tale[d].taken + 1 ELSE tale[d].taken
        BY <4>1, <4>2 DEF Told, TaleType
      <4>4. /\ row[d].status \in {"none", "pending"} /\ tale[d].taken = 0
            /\ job[j].attempt = tale[d].posts + 1 /\ job[j].attempt <= NDelays + 1
        BY <2>2, <3>1, <3>4, <4>2 DEF Agrees
      <4>5. tale'[d].posts = job[j].attempt /\ tale'[d].taken = IF answer = "ok" THEN 1 ELSE 0
        BY <4>3, <4>4
      <4>6. Agrees(d, j[2])'
        <5> HIDE DEF x
        <5> QED BY <2>2, <3>1, <3>3, <4>4, <4>5 DEF Agrees
      <4>7. Tells(d)'
        BY <2>2, <3>4, <4>2, <4>4, <4>5 DEF Tells
      <4> QED BY <4>2, <4>6, <4>7
    <3>6. row'[d].status = "none" => row'[d] = NoRow
      BY <2>2 DEF Chained
    <3> HIDE DEF x
    <3> QED BY <1>b, <3>1, <3>2, <3>5, <3>6, ChainGoesOn
  <2> QED BY <2>4, <2>5
<1>9. ASSUME NEW j \in Job, MarkDelivered(j) \/ GiveUp(j) PROVE Chained(d)'
  <2> DEFINE x == [job[j] EXCEPT !.state = "settled", !.ok = FALSE, !.attempt = 0]
  <2>1. PICK status \in {"delivered", "failed"} :
          /\ Marked(j[1], status, job[j].attempt)
          /\ status = "delivered" => job[j].ok
          /\ status = "failed" => ~job[j].ok /\ ~(job[j].attempt <= NDelays)
    BY <1>9 DEF MarkDelivered, GiveUp, HasDelay
  <2>2. /\ job' = [job EXCEPT ![j] = x] /\ job[j].state = "answered" /\ j[1] \in Delivery
        /\ tale' = tale /\ endpoint' = endpoint /\ owned' = owned
    BY <1>9, SettledJob, JobParts DEF MarkDelivered, GiveUp, At
  <2>3. \A c \in Delivery : c # j[1] => row'[c] = row[c]
    BY <2>1, <2>2 DEF Marked, TypeOK
  <2>4. CASE d # j[1]
    <3> HIDE DEF x
    <3> QED BY <1>5, <2>2, <2>3, <2>4
  <2>5. CASE d = j[1]
    <3>1. /\ j[2] \in 1..MaxJobs /\ j = <<d, j[2]>> /\ job'[<<d, j[2]>>] = x
          /\ \A i \in 1..MaxJobs : i # j[2] => job'[<<d, i>>] = job[<<d, i>>]
      <4> HIDE DEF x
      <4> QED BY <1>6, <2>2, <2>5
    <3>2. job[j] \in JobType /\ job[<<d, j[2]>>].state \in Unsettled
      BY <1>c, <2>2, <3>1 DEF Unsettled
    <3>3. x.state = "settled"
      BY <3>2 DEF JobType
    <3>4. /\ row[d] = NoRow => row'[d] = NoRow
          /\ row[d] # NoRow => row'[d] = [status |-> status, attempt |-> job[j].attempt]
      BY <2>1, <2>2, <2>5 DEF Marked, TypeOK
    <3>5. row'[d].status = "none" => row'[d] = NoRow
      BY <3>4
    <3>6. ASSUME tale[d].quiet PROVE Tells(d)' /\ Agrees(d, j[2])'
      <4>1. Tells(d) /\ Agrees(d, j[2])
        BY <3>1, <3>6 DEF Chained
      <4>2. /\ tale[d].taken = (IF job[j].ok THEN 1 ELSE 0) /\ tale[d].posts = job[j].attempt
            /\ job[j].attempt <= NDelays + 1
        BY <2>2, <3>1, <4>1 DEF Agrees
      <4>3. Agrees(d, j[2])'
        <5> HIDE DEF x
        <5> QED BY <3>1, <3>3 DEF Agrees
      <4>4. job[j].attempt \in Nat /\ NDelays \in Nat
        BY <3>2, WebhooksAssumption DEF JobType
      <4>5. Tells(d)'
        <5>1. CASE row[d] = NoRow
          BY <2>2, <3>4, <4>1, <5>1 DEF Tells, NoRow
        <5>2. CASE row[d] # NoRow
          <6>1. row'[d].status = status /\ row'[d].attempt = job[j].attempt
            BY <3>4, <5>2
          <6>2. status = "failed" => tale[d].posts = NDelays + 1 /\ tale[d].taken = 0
            BY <2>1, <4>2, <4>4
          <6>3. status = "delivered" => tale[d].taken = 1
            BY <2>1, <4>2
          <6> QED BY <2>2, <4>1, <6>1, <6>2, <6>3 DEF Tells
        <5> QED BY <5>1, <5>2
      <4> QED BY <4>3, <4>5
    <3> HIDE DEF x
    <3> QED BY <1>b, <2>2, <3>1, <3>2, <3>5, <3>6, ChainGoesOn
  <2> QED BY <2>4, <2>5
<1>10. ASSUME NEW j \in Job, BookNext(j) PROVE Chained(d)'
  <2>1. CASE d = j[1]
    <3>1. job[j].state = "answered" /\ j[2] \in 1..MaxJobs /\ j = <<d, j[2]>>
      BY <1>10, <2>1, JobParts DEF BookNext, At
    <3>2. ~Fresh(d)
      BY <3>1 DEF Chained
    <3> QED BY <1>10, <1>b, <2>1, <3>2, ChainPassesOn
  <2>2. CASE d # j[1]
    <3>1. PICK n \in 1..MaxJobs :
            \A c \in Delivery, i \in 1..MaxJobs :
              job'[<<c, i>>] = IF c = j[1] /\ i = n THEN NewJob
                               ELSE IF c = j[1] /\ i = j[2] THEN Settled(j)[j] ELSE job[<<c, i>>]
      BY <1>10, NextJobs
    <3>2. \A i \in 1..MaxJobs : job'[<<d, i>>] = job[<<d, i>>]
      BY <2>2, <3>1
    <3>3. /\ Marked(j[1], "pending", job[j].attempt) /\ j[1] \in Delivery
          /\ tale' = tale /\ endpoint' = endpoint /\ owned' = owned
      BY <1>10, JobParts DEF BookNext
    <3>4. row'[d] = row[d]
      BY <2>2, <3>3 DEF Marked, TypeOK
    <3> QED BY <3>2, <3>3, <3>4, Unaffected
  <2> QED BY <2>1, <2>2
<1>11. ASSUME NEW j \in Job, NEW x, job' = [job EXCEPT ![j] = x], x.state \notin Unsettled,
              job[j].state # "none", row' = row, tale' = tale, endpoint' = endpoint, owned' = owned
       PROVE  Chained(d)'
  <2>1. CASE d # j[1]
    BY <1>5, <1>11, <2>1
  <2>2. CASE d = j[1]
    <3>1. /\ j[2] \in 1..MaxJobs /\ j = <<d, j[2]>> /\ job'[<<d, j[2]>>] = x
          /\ \A i \in 1..MaxJobs : i # j[2] => job'[<<d, i>>] = job[<<d, i>>]
      BY <1>6, <1>11, <2>2
    <3>2. ~Fresh(d)
      BY <1>11, <3>1 DEF Chained
    <3>3. \A i \in 1..MaxJobs : job'[<<d, i>>].state \in Unsettled => job'[<<d, i>>] = job[<<d, i>>]
      BY <1>11, <3>1
    <3>4. Single(d) => Single(d)'
      BY <3>3 DEF Single
    <3>5. Tells(d) => Tells(d)'
      BY <1>11 DEF Tells
    <3>6. ASSUME NEW i \in 1..MaxJobs, Agrees(d, i) PROVE Agrees(d, i)'
      <4>1. CASE job'[<<d, i>>].state \in Unsettled
        BY <1>11, <3>3, <3>6, <4>1 DEF Agrees
      <4>2. CASE job'[<<d, i>>].state \notin Unsettled
        BY <4>2 DEF Agrees, Unsettled
      <4> QED BY <4>1, <4>2
    <3> QED BY <1>11, <1>b, <3>2, <3>4, <3>5, <3>6 DEF Chained
  <2> QED BY <2>1, <2>2
<1>12. ASSUME NEW j \in Job, Complete(j) PROVE Chained(d)'
  <2>1. /\ job' = [job EXCEPT ![j] = NoJob] /\ job[j].state = "settled"
        /\ row' = row /\ tale' = tale /\ endpoint' = endpoint /\ owned' = owned
    BY <1>12 DEF Complete, At
  <2>2. NoJob.state \notin Unsettled
    BY DEF NoJob, Unsettled
  <2>3. job[j].state # "none"
    BY <2>1
  <2> HIDE DEF NoJob
  <2> QED BY <1>11, <2>1, <2>2, <2>3
<1>13. ASSUME NEW b \in Delivery, ReplayFinds(b) PROVE Chained(d)'
  <2>1. /\ row[b] # NoRow /\ owned' = owned \cup {b}
        /\ row' = row /\ job' = job /\ tale' = tale /\ endpoint' = endpoint
    BY <1>13 DEF ReplayFinds
  <2>2. CASE d # b
    BY <2>1, <2>2, Unaffected
  <2>3. CASE d = b
    <3>1. ~Fresh(d)
      BY <2>1, <2>3 DEF Fresh
    <3>2. (Single(d) => Single(d)') /\ (Tells(d) => Tells(d)')
      BY <2>1 DEF Single, Tells
    <3>3. ASSUME NEW i \in 1..MaxJobs, Agrees(d, i) PROVE Agrees(d, i)'
      BY <2>1, <3>3 DEF Agrees
    <3> QED BY <1>b, <2>1, <3>1, <3>2, <3>3 DEF Chained
  <2> QED BY <2>2, <2>3
<1>14. ASSUME ~Fresh(d), ~tale'[d].quiet, row'[d].status = "none" => row'[d] = NoRow
       PROVE  Chained(d)'
  BY <1>14, <1>b DEF Chained
<1>15. ASSUME NEW b \in Delivery, Replay(b) PROVE Chained(d)'
  <2>1. /\ b \in owned /\ owned' = owned \ {b} /\ endpoint' = endpoint /\ Marked(b, "pending", 0)
        /\ tale' = [tale EXCEPT ![b] = CutTale]
    BY <1>15 DEF Replay
  <2>2. PICK n \in 1..MaxJobs :
          \A c \in Delivery, i \in 1..MaxJobs :
            job'[<<c, i>>] = IF c = b /\ i = n THEN NewJob ELSE job[<<c, i>>]
    <3>1. Enqueued(b)
      BY <1>15 DEF Replay
    <3> QED BY <3>1, EnqueuedJobs
  <2>3. CASE d # b
    <3>1. row'[d] = row[d] /\ tale'[d] = tale[d]
      BY <2>1, <2>3 DEF Marked, TypeOK
    <3>2. \A i \in 1..MaxJobs : job'[<<d, i>>] = job[<<d, i>>]
      BY <2>2, <2>3
    <3> QED BY <2>1, <3>1, <3>2, Unaffected
  <2>4. CASE d = b
    <3>1. ~Fresh(d)
      BY <2>1, <2>4 DEF Chained
    <3>2. tale'[d] = CutTale /\ ~CutTale.quiet
      BY <2>1, <2>4 DEF TypeOK, CutTale
    <3>3. row'[d].status = "none" => row'[d] = NoRow
      BY <2>1, <2>4 DEF Marked, TypeOK
    <3> QED BY <1>14, <3>1, <3>2, <3>3
  <2> QED BY <2>3, <2>4
<1>16. ASSUME NEW j \in Job, RetryJob(j) PROVE Chained(d)'
  <2> DEFINE x == [job[j] EXCEPT !.state = "waiting"]
  <2>1. /\ job' = [job EXCEPT ![j] = x] /\ job[j].state = "failed"
        /\ row' = row /\ tale' = tale /\ endpoint' = endpoint /\ owned' = owned
    BY <1>16 DEF RetryJob, At, TypeOK
  <2>2. CASE d # j[1]
    <3> HIDE DEF x
    <3> QED BY <1>5, <2>1, <2>2
  <2>3. CASE d = j[1]
    <3>1. /\ j[2] \in 1..MaxJobs /\ j = <<d, j[2]>> /\ job'[<<d, j[2]>>] = x
          /\ \A i \in 1..MaxJobs : i # j[2] => job'[<<d, i>>] = job[<<d, i>>]
      <4> HIDE DEF x
      <4> QED BY <1>6, <2>1, <2>3
    <3>2. job[j] \in JobType /\ job[<<d, j[2]>>].state \in Unsettled
      BY <1>c, <2>1, <3>1 DEF Unsettled
    <3>3. x.state = "waiting"
      BY <3>2 DEF JobType
    <3>4. ASSUME tale[d].quiet PROVE Tells(d)' /\ Agrees(d, j[2])'
      <4>1. Tells(d) /\ Agrees(d, j[2])
        BY <3>1, <3>4 DEF Chained
      <4>2. row[d] = NoRow
        BY <2>1, <3>1, <4>1 DEF Agrees
      <4>3. Tells(d)'
        BY <2>1, <4>1 DEF Tells
      <4> HIDE DEF x
      <4> QED BY <2>1, <3>1, <3>3, <4>2, <4>3 DEF Agrees
    <3>5. row'[d].status = "none" => row'[d] = NoRow
      BY <2>1 DEF Chained
    <3> HIDE DEF x
    <3> QED BY <1>b, <2>1, <3>1, <3>2, <3>4, <3>5, ChainGoesOn
  <2> QED BY <2>2, <2>3
<1>17. ASSUME NEW j \in Job, CrashDeliver(j) PROVE Chained(d)'
  <2> DEFINE x == [Retried(job[j]) EXCEPT !.ok = FALSE, !.attempt = 0]
  <2>1. /\ job' = [job EXCEPT ![j] = x] /\ job[j].state # "none" /\ j[1] \in Delivery
        /\ row' = row /\ tale' = [tale EXCEPT ![j[1]] = CutTale] /\ endpoint' = endpoint /\ owned' = owned
    BY <1>17, JobParts DEF CrashDeliver, Running
  <2>2. \A c \in Delivery : c # j[1] => tale'[c] = tale[c]
    BY <2>1 DEF TypeOK
  <2>3. CASE d # j[1]
    <3> HIDE DEF x
    <3> QED BY <1>5, <2>1, <2>2, <2>3
  <2>4. CASE d = j[1]
    <3>1. j[2] \in 1..MaxJobs /\ j = <<d, j[2]>>
      BY <2>4, JobParts
    <3>2. ~Fresh(d)
      BY <2>1, <3>1 DEF Chained
    <3>3. tale'[d] = CutTale /\ ~CutTale.quiet
      BY <2>1, <2>4 DEF TypeOK, CutTale
    <3>4. row'[d].status = "none" => row'[d] = NoRow
      BY <2>1 DEF Chained
    <3> QED BY <1>14, <3>2, <3>3, <3>4
  <2> QED BY <2>3, <2>4
<1>18. CASE UNCHANGED vars
  BY <1>18, Unaffected DEF vars
<1> QED
  BY <1>1, <1>2, <1>3, <1>4, <1>7, <1>8, <1>9, <1>10, <1>12, <1>13, <1>15, <1>16, <1>17, <1>18
     DEF Next, FanOutStep, DeliverStep

LEMMA OneOfThem ==
  ASSUME NEW S, NEW n \in Nat, S \subseteq 1..n, \A i, k \in S : i = k
  PROVE  Cardinality(S) <= 1
<1>1. CASE S = {}
  BY <1>1, FS_EmptySet
<1>2. CASE S # {}
  <2>1. PICK i \in S : S = {i}
    BY <1>2
  <2> QED BY <2>1, FS_Singleton
<1> QED BY <1>1, <1>2

(* While nothing cuts in, a delivery has one job at a time, one post for   *)
(* each step of the schedule at most, one of them taken at most, and a row *)
(* that tells which: for any schedule and however often a fan-out is       *)
(* thrown away.                                                            *)
THEOREM OneChainSafe == Spec => []OneChain
<1> DEFINE Inv == \A d \in Delivery : Chained(d)
<1>1. Init => Inv
  BY InitChained
<1>2. TypeOK /\ Inv /\ [Next]_vars => Inv'
  BY ChainedStep
<1>3. Inv => OneChain
  <2> SUFFICES ASSUME Inv, NEW d \in Delivery, tale[d].quiet
               PROVE  /\ Cardinality(JobsOf(d, {"waiting", "read", "answered"})) <= 1
                      /\ Tells(d)
    BY DEF OneChain, Tells
  <2>1. Single(d) /\ Tells(d)
    BY DEF Chained
  <2>2. \A i, k \in JobsOf(d, {"waiting", "read", "answered"}) : i = k
    BY <2>1 DEF Single, JobsOf, Unsettled
  <2>3. JobsOf(d, {"waiting", "read", "answered"}) \subseteq 1..MaxJobs
    BY DEF JobsOf
  <2>4. MaxJobs \in Nat
    BY WebhooksAssumption
  <2> QED BY <2>1, <2>2, <2>3, <2>4, OneOfThem
<1> QED BY <1>1, <1>2, <1>3, TypeCorrect, PTL DEF Spec
=============================================================================
