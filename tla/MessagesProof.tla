--------------------------- MODULE MessagesProof ---------------------------
(***************************************************************************)
(* Proofs about Messages: types, the only door out, and, while no fault    *)
(* cut into a message's executions, that it has a job and moves forward;   *)
(* then, faults or none, the log of reports, the chain of channels an      *)
(* intent tries, and how often the provider takes it.                      *)
(***************************************************************************)
EXTENDS Messages, SumLemmas, SequenceTheorems

---------------------------------------------------------------------------
(* Types, and what a job or an execution that exists stands on *)

Types ==
  /\ TypeOK
  /\ accepted \in [Message -> Nat] /\ cut \in [Message -> Nat]
  /\ usable \subseteq Channel

(* Only a message that was queued has a job, only such a job executions;   *)
(* a job that waits has an attempt left, a fallback a channel to go to.    *)
Started ==
  /\ \A m \in Message :
       /\ job[m].state # "none" => messages[m].status \notin {"none", "blocked"}
       /\ job[m].state = "waiting" => job[m].fetches <= RetryLimit
  /\ \A w \in Worker :
       /\ wk[w].pc # "idle" => job[wk[w].at].state # "none"
       /\ wk[w].pc = "fallingback" => messages[wk[w].at].fallback # <<>>

(* What send leaves behind as message k. *)
Adds(k, row) ==
  /\ k \in Unused
  /\ messages' = [messages EXCEPT ![k] = row]
  /\ events' = Emit(events, k, row.status, 0) /\ row.providerId = 0
  /\ \/ row.status = "blocked" /\ row.fallback = <<>> /\ job' = [job EXCEPT ![k] = NoJob]
     \/ /\ row.status = "queued" /\ job' = [job EXCEPT ![k] = FirstJob]
        /\ row.channel \in Consented(row.purpose) /\ row.channel \notin Range(row.fallback)
        /\ row.parent # 0 \/ row.run => row.channel \notin closed

LEMMA EmptyList == <<>> \in ChannelLists
<1>1. 0 \in 0..Cardinality(Channel)
  BY ChannelAssumption, FS_CardinalityType
<1>2. <<>> \in [1..0 -> Channel] /\ \A i, j \in 1..0 : <<>>[i] = <<>>[j] => i = j
  OBVIOUS
<1> QED BY <1>1, <1>2 DEF ChannelLists

LEMMA IdleType == IdleWorker \in WorkerType /\ IdleWorker.pc = "idle"
BY BoundsAssumption DEF IdleWorker, WorkerType

LEMMA RowOf == NoRow \in RowType
BY EmptyList, BoundsAssumption DEF NoRow, RowType, Status

LEMMA InitTypes == Init => Types /\ Started
<1> SUFFICES ASSUME Init PROVE Types /\ Started
  OBVIOUS
<1>1. NoRow \in RowType
  BY RowOf
<1>2. NoJob \in JobType /\ IdleWorker \in WorkerType
  BY BoundsAssumption DEF NoJob, JobType, IdleWorker, WorkerType
<1>3. TypeOK
  BY <1>1, <1>2 DEF Init, TypeOK, IdleWorker
<1>4. Started
  BY <1>2 DEF Init, Started, NoJob, IdleWorker, Message
<1> QED BY <1>3, <1>4 DEF Init, Types

(* Lists without repetition. *)
LEMMA ListRest ==
  ASSUME NEW s \in ChannelLists, s # <<>>
  PROVE  /\ Head(s) \in Channel /\ Tail(s) \in ChannelLists
         /\ Head(s) \notin Range(Tail(s))
<1>1. PICK n \in 0..Cardinality(Channel) :
        s \in [1..n -> Channel] /\ \A i, j \in 1..n : s[i] = s[j] => i = j
  BY DEF ChannelLists
<1>2. Cardinality(Channel) \in Nat
  BY ChannelAssumption, FS_CardinalityType
<1>3. s \in Seq(Channel) /\ Len(s) = n /\ n \in Nat \ {0}
  BY <1>1, <1>2
<1>4. /\ Head(s) = s[1] /\ Tail(s) \in Seq(Channel) /\ Len(Tail(s)) = n - 1
      /\ \A i \in 1..(n - 1) : Tail(s)[i] = s[i + 1]
  BY <1>3
<1>5. Tail(s) \in [1..(n - 1) -> Channel] /\ \A i, j \in 1..(n - 1) : Tail(s)[i] = Tail(s)[j] => i = j
  <2>1. Tail(s) \in [1..(n - 1) -> Channel]
    BY <1>4, LenProperties
  <2>2. ASSUME NEW i \in 1..(n - 1), NEW j \in 1..(n - 1), Tail(s)[i] = Tail(s)[j] PROVE i = j
    <3>1. s[i + 1] = s[j + 1] /\ i + 1 \in 1..n /\ j + 1 \in 1..n
      BY <1>3, <1>4, <2>2
    <3> QED BY <1>1, <3>1
  <2> QED BY <2>1, <2>2
<1>6. n - 1 \in 0..Cardinality(Channel)
  BY <1>2, <1>3, <1>1
<1>7. Tail(s) \in ChannelLists
  <2> DEFINE Lists(l) == {t \in [1..l -> Channel] : \A i, j \in 1..l : t[i] = t[j] => i = j}
  <2>1. Tail(s) \in Lists(n - 1)
    BY <1>5
  <2>2. ChannelLists = UNION {Lists(l) : l \in 0..Cardinality(Channel)}
    BY DEF ChannelLists
  <2> HIDE DEF Lists
  <2> QED BY <1>6, <2>1, <2>2
<1>8. DOMAIN Tail(s) = 1..(n - 1)
  BY <1>5
<1>9. Head(s) \notin Range(Tail(s))
  BY <1>1, <1>3, <1>4, <1>8 DEF Range
<1> QED BY <1>1, <1>3, <1>4, <1>7, <1>9

LEMMA OrderOf ==
  ASSUME Types, NEW preferred \in Channel \cup {NoChannel}, NEW order \in Orders(preferred)
  PROVE  /\ order \in Seq(Channel)
         /\ \A i, j \in 1..Len(order) : order[i] = order[j] => i = j
         /\ preferred # NoChannel => order = <<preferred>>
<1>1. CASE preferred = NoChannel
  <2>1. PICK n \in 0..Cardinality(Channel) :
          order \in [1..n -> Channel] /\ \A i, j \in 1..n : order[i] = order[j] => i = j
    BY <1>1 DEF Orders, ChannelLists
  <2>2. Cardinality(Channel) \in Nat
    BY ChannelAssumption, FS_CardinalityType
  <2> QED BY <1>1, <2>1, <2>2
<1>2. CASE preferred # NoChannel
  <2>1. order = <<preferred>> /\ preferred \in Channel
    BY <1>2 DEF Orders
  <2> QED BY <1>2, <2>1
<1> QED BY <1>1, <1>2

LEMMA ListAfter ==
  ASSUME NEW order \in Seq(Channel), \A i, j \in 1..Len(order) : order[i] = order[j] => i = j,
         NEW i \in 1..Len(order), NEW S, NEW list \in Kept(SubSeq(order, i + 1, Len(order)), S)
  PROVE  list \in ChannelLists /\ order[i] \notin Range(list)
<1> DEFINE after == SubSeq(order, i + 1, Len(order))
<1>1. list \in ChannelLists /\ Range(list) = Range(after) \cap S
  BY DEF Kept
<1>2. \A j \in DOMAIN after : after[j] = order[i + j] /\ i + j \in 1..Len(order) /\ j \in Nat \ {0}
  OBVIOUS
<1>3. order[i] \notin Range(after)
  BY <1>2 DEF Range
<1> QED BY <1>1, <1>3

LEMMA SendAdds ==
  ASSUME Types, NEW k \in Unused, NEW preferred \in Channel \cup {NoChannel}, NEW shut,
         NEW base \in RowType, base.providerId = 0,
         base.parent # 0 \/ base.run => shut = closed,
         base.parent # 0 => preferred # NoChannel /\ preferred \notin Range(base.fallback),
         Send(k, preferred, shut, base)
  PROVE  \E row \in RowType :
           /\ Adds(k, row) /\ row.parent = base.parent
           /\ base.parent # 0 => row.channel = preferred /\ row.fallback \in {base.fallback, <<>>}
<1>1. CASE SendQueues(k, preferred, shut, base)
  <2>1. PICK order \in Orders(preferred) : \E i \in Chosen(order, base.purpose, shut) :
          \E list \in IF base.parent = 0
                      THEN Kept(SubSeq(order, i + 1, Len(order)), Consented(base.purpose))
                      ELSE {base.fallback} :
            Insert(k, QueuedOn(base, order[i], list), FirstJob)
    BY <1>1 DEF SendQueues
  <2>2. PICK i \in Chosen(order, base.purpose, shut) :
          \E list \in IF base.parent = 0
                      THEN Kept(SubSeq(order, i + 1, Len(order)), Consented(base.purpose))
                      ELSE {base.fallback} :
            Insert(k, QueuedOn(base, order[i], list), FirstJob)
    BY <2>1
  <2>3. PICK list \in IF base.parent = 0
                      THEN Kept(SubSeq(order, i + 1, Len(order)), Consented(base.purpose))
                      ELSE {base.fallback} :
            Insert(k, QueuedOn(base, order[i], list), FirstJob)
    BY <2>2
  <2> DEFINE row == QueuedOn(base, order[i], list)
  <2>4. /\ order \in Seq(Channel)
        /\ \A p, q \in 1..Len(order) : order[p] = order[q] => p = q
        /\ preferred # NoChannel => order = <<preferred>>
    BY OrderOf
  <2>5. /\ i \in 1..Len(order) /\ order[i] \in Channel
        /\ order[i] \in Consented(base.purpose) /\ order[i] \notin shut
    BY <2>4 DEF Chosen, CanSend
  <2>6. list \in ChannelLists /\ order[i] \notin Range(list)
    <3>1. CASE base.parent = 0
      BY <2>3, <2>4, <2>5, <3>1, ListAfter
    <3>2. CASE base.parent # 0
      <4>1. order = <<preferred>> /\ list = base.fallback /\ preferred \notin Range(base.fallback)
        BY <2>3, <2>4, <3>2
      <4>2. base.fallback \in ChannelLists
        BY DEF RowType
      <4> QED BY <2>5, <4>1, <4>2
    <3> QED BY <3>1, <3>2
  <2>7. row \in RowType
    BY <2>5, <2>6 DEF RowType, Status, QueuedOn
  <2>8. /\ row.status = "queued" /\ row.channel = order[i] /\ row.fallback = list
        /\ row.purpose = base.purpose /\ row.parent = base.parent /\ row.run = base.run
        /\ row.providerId = 0
    BY DEF RowType, QueuedOn
  <2>9. /\ messages' = [messages EXCEPT ![k] = row] /\ job' = [job EXCEPT ![k] = FirstJob]
        /\ events' = Emit(events, k, row.status, 0)
    BY <2>3 DEF Insert
  <2>a. base.parent # 0 => list = base.fallback
    BY <2>3
  <2> HIDE DEF row
  <2>10. Adds(k, row)
    BY <2>5, <2>6, <2>8, <2>9 DEF Adds
  <2>11. base.parent # 0 => row.channel = preferred /\ row.fallback = base.fallback
    <3> SUFFICES ASSUME base.parent # 0 PROVE row.channel = preferred /\ row.fallback = base.fallback
      OBVIOUS
    <3>1. order = <<preferred>> /\ list = base.fallback
      BY <2>a, <2>4
    <3> QED BY <2>5, <2>8, <3>1
  <2> QED BY <2>7, <2>8, <2>10, <2>11
<1>2. CASE SendBlocks(k, preferred, shut, base)
  <2> DEFINE row == [base EXCEPT !.status = "blocked", !.fallback = <<>>,
                                 !.channel = IF preferred = NoChannel THEN "sms" ELSE preferred]
  <2>1. /\ messages' = [messages EXCEPT ![k] = row] /\ job' = [job EXCEPT ![k] = NoJob]
        /\ events' = Emit(events, k, row.status, 0)
    BY <1>2 DEF SendBlocks, Insert
  <2>2. /\ row \in RowType /\ row.status = "blocked" /\ row.fallback = <<>>
        /\ row.parent = base.parent /\ row.providerId = 0
        /\ base.parent # 0 => row.channel = preferred
    BY EmptyList, ChannelAssumption DEF RowType, Status
  <2> HIDE DEF row
  <2>3. Adds(k, row)
    BY <2>1, <2>2 DEF Adds
  <2> QED BY <2>2, <2>3
<1> QED BY <1>1, <1>2 DEF Send

LEMMA IntentAdds ==
  ASSUME Types, NEW k \in Message, SendIntent(k)
  PROVE  \E row \in RowType : Adds(k, row) /\ row.parent = 0
<1>1. PICK preferred \in usable \cup {NoChannel}, purpose \in Purpose, shut \in SUBSET Channel,
           run \in BOOLEAN, national \in BOOLEAN :
        /\ run => shut = closed
        /\ Send(k, preferred, shut, Intent(purpose, run, national))
  BY DEF SendIntent
<1> DEFINE base == Intent(purpose, run, national)
<1>2. k \in Unused
  BY DEF SendIntent
<1>3. preferred \in Channel \cup {NoChannel} /\ purpose \in {"transactional", "marketing"}
  BY <1>1, PurposeAssumption DEF Types
<1>4. /\ base \in RowType /\ base.providerId = 0 /\ base.parent = 0 /\ base.run = run
  <2>1. base \in RowType /\ base.run = run
    BY <1>3, RowOf DEF RowType, Intent
  <2>2. base.providerId = 0 /\ base.parent = 0
    BY DEF NoRow, Intent
  <2> QED BY <2>1, <2>2
<1>5. Send(k, preferred, shut, base)
  BY <1>1
<1> HIDE DEF base
<1>6. \E row \in RowType :
        /\ Adds(k, row) /\ row.parent = base.parent
        /\ base.parent # 0 => row.channel = preferred /\ row.fallback \in {base.fallback, <<>>}
  <2>1. base.parent # 0 \/ base.run => shut = closed
    BY <1>1, <1>4
  <2>2. base.parent # 0 => preferred # NoChannel /\ preferred \notin Range(base.fallback)
    BY <1>4
  <2> QED BY <1>2, <1>3, <1>4, <1>5, <2>1, <2>2, SendAdds
<1> QED BY <1>4, <1>6

(* The row that continues m: on the next channel, with the rest of the list *)
(* to fall back on, or none where it was blocked.                           *)
Continues(row, m) ==
  /\ row.parent = m
  /\ row.channel = Head(messages[m].fallback)
  /\ row.fallback \in {Tail(messages[m].fallback), <<>>}

LEMMA FallBackAdds ==
  ASSUME Types, Started, NEW w \in Worker, FallBack(w)
  PROVE  \E k \in Unused, row \in RowType : Adds(k, row) /\ Continues(row, wk[w].at)
<1> DEFINE m == wk[w].at
           row == messages[m]
           next == Head(row.fallback)
           rest == Tail(row.fallback)
           base == [row EXCEPT !.parent = m, !.fallback = rest, !.providerId = 0]
           child == [row EXCEPT !.status = "blocked", !.channel = next, !.fallback = <<>>,
                                !.parent = m, !.run = FALSE, !.providerId = 0]
<1>2. m \in Message /\ row \in RowType /\ row.fallback # <<>>
  BY DEF FallBack, Types, TypeOK, Started
<1>1. PICK k \in Unused : Send(k, next, closed, base) \/ Insert(k, child, NoJob)
  <2>1. [row EXCEPT !.parent = m, !.fallback = Tail(@), !.providerId = 0] = base
    BY <1>2 DEF RowType
  <2> QED BY <2>1 DEF FallBack
<1>3. row.fallback \in ChannelLists /\ m \in 0..NMessage /\ m # 0
  BY <1>2, BoundsAssumption DEF RowType, Message
<1>4. next \in Channel /\ rest \in ChannelLists /\ next \notin Range(rest)
  BY <1>2, <1>3, ListRest
<1>5. next # NoChannel
  BY <1>4, ChannelAssumption
<1>a. ASSUME NEW r, r.parent = m, r.channel = next, r.fallback \in {rest, <<>>}
      PROVE  Continues(r, wk[w].at)
  BY <1>a DEF Continues
<1>b. base \in RowType /\ base.parent = m /\ base.fallback = rest /\ base.providerId = 0
  BY <1>2, <1>3, <1>4, BoundsAssumption DEF RowType
<1>c. /\ child \in RowType /\ child.status = "blocked" /\ child.fallback = <<>>
      /\ child.parent = m /\ child.channel = next /\ child.providerId = 0
  BY <1>2, <1>3, <1>4, EmptyList, BoundsAssumption DEF RowType, Status
<1> HIDE DEF m, row, next, rest, base, child
<1>6. CASE Send(k, next, closed, base)
  <2>1. PICK r \in RowType :
          /\ Adds(k, r) /\ r.parent = base.parent
          /\ base.parent # 0 => r.channel = next /\ r.fallback \in {base.fallback, <<>>}
    BY <1>4, <1>5, <1>6, <1>b, SendAdds
  <2>2. Continues(r, wk[w].at)
    BY <1>3, <1>a, <1>b, <2>1
  <2> QED BY <2>1, <2>2
<1>7. CASE Insert(k, child, NoJob)
  <2>1. /\ messages' = [messages EXCEPT ![k] = child] /\ job' = [job EXCEPT ![k] = NoJob]
        /\ events' = Emit(events, k, child.status, 0)
    BY <1>7 DEF Insert
  <2>2. Adds(k, child)
    BY <1>c, <2>1 DEF Adds
  <2>3. Continues(child, wk[w].at)
    BY <1>a, <1>c
  <2> QED BY <1>c, <2>2, <2>3
<1> QED BY <1>1, <1>6, <1>7

(* What an insertion keeps. *)
LEMMA AddsKeeps ==
  ASSUME Types, Started, NEW k, NEW row \in RowType, Adds(k, row)
  PROVE  /\ k \in Message /\ messages[k].status = "none" /\ job[k].state = "none"
         /\ \A w \in Worker : wk[w].pc # "idle" => wk[w].at # k
         /\ messages' \in [Message -> RowType] /\ job' \in [Message -> JobType]
         /\ messages'[k] = row
         /\ \/ row.status = "blocked" /\ job'[k] = NoJob
            \/ row.status = "queued" /\ job'[k] = FirstJob
         /\ \A m \in Message : m # k => messages'[m] = messages[m] /\ job'[m] = job[m]
<1>1. k \in Message /\ messages[k].status = "none" /\ messages \in [Message -> RowType]
  BY DEF Adds, Unused, Ids, Types, TypeOK
<1>2. job[k].state = "none"
  BY <1>1 DEF Started
<1>3. \A w \in Worker : wk[w].pc # "idle" => wk[w].at # k
  BY <1>2 DEF Started
<1>4. NoJob \in JobType /\ FirstJob \in JobType
  BY BoundsAssumption DEF NoJob, FirstJob, JobType
<1>5. messages' \in [Message -> RowType] /\ job' \in [Message -> JobType] /\ messages'[k] = row
  BY <1>1, <1>4 DEF Adds, Types, TypeOK
<1>6. \/ row.status = "blocked" /\ job'[k] = NoJob
      \/ row.status = "queued" /\ job'[k] = FirstJob
  BY <1>1 DEF Adds, Types, TypeOK
<1>7. \A m \in Message : m # k => messages'[m] = messages[m] /\ job'[m] = job[m]
  BY <1>1 DEF Adds, Types, TypeOK
<1> QED BY <1>1, <1>2, <1>3, <1>5, <1>6, <1>7

LEMMA AddsStarted ==
  ASSUME Types, Started, NEW k, NEW row \in RowType, Adds(k, row),
         \A w \in Worker : wk'[w].pc # "idle" => wk[w].pc # "idle" /\ wk'[w].at = wk[w].at,
         \A w \in Worker : wk'[w].pc = "fallingback" => wk[w].pc = "fallingback"
  PROVE  Started'
<1>1. \A w \in Worker : wk[w].pc # "idle" => wk[w].at \in Message
  BY DEF Types, TypeOK
<1>2. NoJob.state = "none" /\ FirstJob.state = "waiting" /\ FirstJob.fetches = 0
  BY DEF NoJob, FirstJob
<1>3. ASSUME NEW m \in Message
      PROVE  /\ job'[m].state # "none" => messages'[m].status \notin {"none", "blocked"}
             /\ job'[m].state = "waiting" => job'[m].fetches <= RetryLimit
  <2>1. CASE m = k
    BY <1>2, <2>1, AddsKeeps, BoundsAssumption
  <2>2. CASE m # k
    BY <2>2, AddsKeeps DEF Started
  <2> QED BY <2>1, <2>2
<1>4. ASSUME NEW w \in Worker
      PROVE  /\ wk'[w].pc # "idle" => job'[wk'[w].at].state # "none"
             /\ wk'[w].pc = "fallingback" => messages'[wk'[w].at].fallback # <<>>
  BY <1>1, AddsKeeps DEF Started
<1> QED BY <1>3, <1>4 DEF Started

(* A step of an execution that stays with its message. *)
LEMMA GotoMoves ==
  ASSUME Types, NEW w \in Worker, NEW pc \in {"calling", "committing", "failing", "fallingback",
                                              "announcing", "returning", "throwing"},
         wk[w].pc # "idle", pc \in {"failing", "fallingback", "announcing"} => Final(w),
         Goto(w, pc)
  PROVE  /\ wk' \in [Worker -> WorkerType]
         /\ wk'[w].pc = pc /\ wk'[w].at = wk[w].at /\ wk'[w].fetch = wk[w].fetch
         /\ \A v \in Worker : v # w => wk'[v] = wk[v]
         /\ \A v \in Worker : wk'[v].pc /= "idle" => wk'[v].at \in Message
         /\ \A v \in Worker : wk'[v].pc \in {"failing", "fallingback", "announcing"} => Final(v)'
<1>1. wk \in [Worker -> WorkerType] /\ wk' = [wk EXCEPT ![w].pc = pc]
  BY DEF Types, TypeOK, Goto
<1>2. wk[w] \in WorkerType
  BY <1>1
<1> DEFINE x == [wk[w] EXCEPT !.pc = pc]
<1>3. x \in WorkerType /\ x.pc = pc /\ x.at = wk[w].at /\ x.fetch = wk[w].fetch
  BY <1>2 DEF WorkerType
<1>4. wk' = [wk EXCEPT ![w] = x]
  BY <1>1
<1> HIDE DEF x
<1>5. wk' \in [Worker -> WorkerType] /\ wk'[w] = x /\ \A v \in Worker : v # w => wk'[v] = wk[v]
  BY <1>1, <1>3, <1>4
<1>6. ASSUME NEW v \in Worker
      PROVE  /\ wk'[v].pc /= "idle" => wk'[v].at \in Message
             /\ wk'[v].pc \in {"failing", "fallingback", "announcing"} => Final(v)'
  <2>1. CASE v = w
    BY <1>3, <1>5, <2>1 DEF Final, Types, TypeOK
  <2>2. CASE v # w
    BY <1>5, <2>2 DEF Final, Types, TypeOK
  <2> QED BY <2>1, <2>2
<1> QED BY <1>3, <1>5, <1>6

(* An update of a row: its status, and perhaps the provider's id. *)
LEMMA RowMoves ==
  ASSUME Types, NEW m \in Message, NEW status \in Status, NEW id \in Nat,
         \/ messages' = [messages EXCEPT ![m].status = status]
         \/ messages' = [messages EXCEPT ![m].status = status, ![m].providerId = id]
  PROVE  /\ messages' \in [Message -> RowType] /\ messages'[m].status = status
         /\ \A k \in Message : messages'[k].fallback = messages[k].fallback
         /\ \A k \in Message : k # m => messages'[k] = messages[k]
<1> DEFINE x == [messages[m] EXCEPT !.status = status]
           y == [messages[m] EXCEPT !.status = status, !.providerId = id]
<1>1. messages \in [Message -> RowType] /\ messages[m] \in RowType
  BY DEF Types, TypeOK
<1>2. /\ x \in RowType /\ x.status = status /\ x.fallback = messages[m].fallback
      /\ y \in RowType /\ y.status = status /\ y.fallback = messages[m].fallback
  BY <1>1 DEF RowType
<1>3. messages' = [messages EXCEPT ![m] = x] \/ messages' = [messages EXCEPT ![m] = y]
  BY <1>1
<1> HIDE DEF x, y
<1> QED BY <1>1, <1>2, <1>3

(* Steps that write no job and no row but one that was sent for. *)
LEMMA RowsOnly ==
  ASSUME Types, Started, NEW w \in Worker, NEW pc, NEW status \in Status \ {"none", "blocked"},
         NEW id \in Nat, wk[w].pc # "idle",
         \/ messages' = [messages EXCEPT ![wk[w].at].status = status]
         \/ messages' = [messages EXCEPT ![wk[w].at].status = status, ![wk[w].at].providerId = id]
         \/ messages' = messages,
         job' = job, Goto(w, pc),
         pc \in {"calling", "committing", "failing", "fallingback", "announcing", "returning", "throwing"},
         pc \in {"failing", "fallingback", "announcing"} => Final(w),
         pc = "fallingback" => messages[wk[w].at].fallback # <<>>
  PROVE  TypeOK' /\ Started'
<1> DEFINE m == wk[w].at
<1>1. m \in Message /\ messages[m].status \notin {"none", "blocked"}
  BY DEF Types, TypeOK, Started
<1>2. /\ messages' \in [Message -> RowType]
      /\ \A k \in Message : messages'[k].fallback = messages[k].fallback
      /\ \A k \in Message : messages'[k].status \in {"none", "blocked"} =>
           messages[k].status \in {"none", "blocked"}
  <2>1. CASE messages' = messages
    BY <2>1 DEF Types, TypeOK
  <2>2. CASE messages' # messages
    <3>1. /\ messages' \in [Message -> RowType] /\ messages'[m].status = status
          /\ \A k \in Message : messages'[k].fallback = messages[k].fallback
          /\ \A k \in Message : k # m => messages'[k] = messages[k]
      BY <1>1, <2>2, RowMoves
    <3> QED BY <3>1
  <2> QED BY <2>1, <2>2
<1>3. /\ wk' \in [Worker -> WorkerType]
      /\ wk'[w].pc = pc /\ wk'[w].at = m
      /\ \A v \in Worker : v # w => wk'[v] = wk[v]
      /\ \A v \in Worker : wk'[v].pc /= "idle" => wk'[v].at \in Message
      /\ \A v \in Worker : wk'[v].pc \in {"failing", "fallingback", "announcing"} => Final(v)'
  BY GotoMoves
<1>4. TypeOK'
  BY <1>2, <1>3 DEF TypeOK, Types
<1>5. ASSUME NEW k \in Message
      PROVE  /\ job'[k].state # "none" => messages'[k].status \notin {"none", "blocked"}
             /\ job'[k].state = "waiting" => job'[k].fetches <= RetryLimit
  BY <1>2 DEF Started
<1>6. ASSUME NEW v \in Worker
      PROVE  /\ wk'[v].pc # "idle" => job'[wk'[v].at].state # "none"
             /\ wk'[v].pc = "fallingback" => messages'[wk'[v].at].fallback # <<>>
  <2>1. CASE v = w
    BY <1>1, <1>2, <1>3, <2>1 DEF Started
  <2>2. CASE v # w
    <3>1. wk'[v] = wk[v] /\ (wk[v].pc # "idle" => wk[v].at \in Message)
      BY <1>3, <2>2 DEF Types, TypeOK
    <3>2. /\ wk[v].pc # "idle" => job[wk[v].at].state # "none"
          /\ wk[v].pc = "fallingback" => messages[wk[v].at].fallback # <<>>
      BY DEF Started
    <3> QED BY <1>2, <3>1, <3>2
  <2> QED BY <2>1, <2>2
<1> QED BY <1>4, <1>5, <1>6 DEF Started

LEMMA Jumps ==
  ASSUME Types, Started, NEW w \in Worker, NEW pc, wk[w].pc # "idle",
         messages' = messages, job' = job, Goto(w, pc),
         pc \in {"calling", "committing", "failing", "announcing", "returning", "throwing"},
         pc \in {"failing", "announcing"} => Final(w)
  PROVE  TypeOK' /\ Started'
<1>1. "sent" \in Status \ {"none", "blocked"} /\ 0 \in Nat
  BY DEF Status
<1> QED BY <1>1, RowsOnly

LEMMA FailedJob ==
  ASSUME NEW j \in JobType, j.state # "none"
  PROVE  /\ Failed(j) \in JobType /\ Failed(j).state \in {"waiting", "failed"}
         /\ Failed(j).fetches = j.fetches
         /\ Failed(j).state = "waiting" <=> j.fetches <= RetryLimit
<1> DEFINE state == IF j.fetches - 1 < RetryLimit THEN "waiting" ELSE "failed"
<1>1. /\ state \in {"waiting", "failed"}
      /\ state = "waiting" <=> j.fetches <= RetryLimit
  BY BoundsAssumption DEF JobType
<1>2. Failed(j) = [j EXCEPT !.state = state]
  BY DEF Failed
<1> HIDE DEF state
<1> QED BY <1>1, <1>2 DEF JobType

(* Steps that settle, expire or hand out a job, and leave the rows alone.  *)
LEMMA JobsOnly ==
  ASSUME Types, Started, NEW m \in Message, NEW x \in JobType,
         job' = [job EXCEPT ![m] = x] \/ job' = job, job[m].state # "none", x.state # "none",
         x.state = "waiting" => x.fetches <= RetryLimit,
         messages' = messages, wk' \in [Worker -> WorkerType],
         \A w \in Worker : \/ wk'[w] = wk[w] \/ wk'[w].pc = "idle"
                           \/ wk'[w].pc = "reading" /\ wk'[w].at = m
  PROVE  TypeOK' /\ Started'
<1>1. /\ job' \in [Message -> JobType]
      /\ \A k \in Message : job'[k] = job[k] \/ (k = m /\ job'[k] = x)
  <2>1. job \in [Message -> JobType]
    BY DEF Types, TypeOK
  <2>2. CASE job' = [job EXCEPT ![m] = x]
    BY <2>1, <2>2
  <2>3. CASE job' = job
    BY <2>1, <2>3
  <2> QED BY <2>2, <2>3
<1>2. \A w \in Worker : wk'[w].pc /= "idle" => wk'[w].at \in Message
  BY DEF Types, TypeOK
<1>3. \A w \in Worker : wk'[w].pc \in {"failing", "fallingback", "announcing"} => Final(w)'
  BY DEF Types, TypeOK, Final
<1>4. TypeOK'
  BY <1>1, <1>2, <1>3 DEF Types, TypeOK
<1>5. ASSUME NEW k \in Message
      PROVE  /\ job'[k].state # "none" => messages'[k].status \notin {"none", "blocked"}
             /\ job'[k].state = "waiting" => job'[k].fetches <= RetryLimit
  BY <1>1 DEF Started
<1>6. ASSUME NEW w \in Worker
      PROVE  /\ wk'[w].pc # "idle" => job'[wk'[w].at].state # "none"
             /\ wk'[w].pc = "fallingback" => messages'[wk'[w].at].fallback # <<>>
  <2>1. \A k \in Message : job[k].state # "none" => job'[k].state # "none"
    BY <1>1
  <2>2. CASE wk'[w] = wk[w]
    BY <2>1, <2>2 DEF Started, Types, TypeOK
  <2>3. CASE wk'[w].pc = "idle"
    BY <2>3
  <2>4. CASE wk'[w].pc = "reading" /\ wk'[w].at = m
    BY <2>1, <2>4
  <2> QED BY <2>2, <2>3, <2>4
<1> QED BY <1>4, <1>5, <1>6 DEF Started

LEMMA NextTypes == Types /\ Started /\ [Next]_vars => Types' /\ Started'
<1> SUFFICES ASSUME Types, Started, [Next]_vars PROVE Types' /\ Started'
  OBVIOUS
<1> USE DEF env
<1>a. TypeOK /\ accepted \in [Message -> Nat] /\ cut \in [Message -> Nat] /\ usable \subseteq Channel
  BY DEF Types
<1>b. ASSUME NEW w \in Worker, wk[w].pc # "idle"
      PROVE  wk[w].at \in Message /\ wk[w].fetch \in 0..RetryLimit + 1
  BY <1>a, <1>b DEF TypeOK, WorkerType
<1>c. \A m \in Message, n \in Nat :
        /\ [accepted EXCEPT ![m] = n] \in [Message -> Nat]
        /\ [cut EXCEPT ![m] = n] \in [Message -> Nat]
        /\ accepted[m] + 1 \in Nat /\ cut[m] + 1 \in Nat
  BY <1>a
<1>1. ASSUME NEW k \in Message, SendIntent(k) PROVE Types' /\ Started'
  <2>1. PICK row \in RowType : Adds(k, row)
    BY <1>1, IntentAdds
  <2>2. wk' = wk /\ accepted' = accepted /\ cut' = cut /\ usable' = usable
    BY <1>1 DEF SendIntent
  <2>3. Started'
    BY <2>1, <2>2, AddsStarted
  <2>4. messages' \in [Message -> RowType] /\ job' \in [Message -> JobType]
    BY <2>1, AddsKeeps
  <2> QED BY <1>a, <2>2, <2>3, <2>4 DEF Types, TypeOK, Final
<1>2. ASSUME NEW w \in Worker, FallBack(w) PROVE Types' /\ Started'
  <2>1. PICK k \in Unused, row \in RowType : Adds(k, row)
    BY <1>2, FallBackAdds
  <2>2. /\ wk[w].pc = "fallingback" /\ Goto(w, "announcing")
        /\ accepted' = accepted /\ cut' = cut /\ usable' = usable
    BY <1>2 DEF FallBack
  <2>3. Final(w)
    BY <1>a, <2>2 DEF TypeOK
  <2>4. /\ wk' \in [Worker -> WorkerType]
        /\ wk'[w].pc = "announcing" /\ wk'[w].at = wk[w].at
        /\ \A v \in Worker : v # w => wk'[v] = wk[v]
        /\ \A v \in Worker : wk'[v].pc /= "idle" => wk'[v].at \in Message
        /\ \A v \in Worker : wk'[v].pc \in {"failing", "fallingback", "announcing"} => Final(v)'
    BY <2>2, <2>3, GotoMoves
  <2>5. /\ \A v \in Worker : wk'[v].pc # "idle" => wk[v].pc # "idle" /\ wk'[v].at = wk[v].at
        /\ \A v \in Worker : wk'[v].pc = "fallingback" => wk[v].pc = "fallingback"
    BY <2>2, <2>4
  <2>6. Started'
    BY <2>1, <2>5, AddsStarted
  <2>7. messages' \in [Message -> RowType] /\ job' \in [Message -> JobType]
    BY <2>1, AddsKeeps
  <2> QED BY <1>a, <2>2, <2>4, <2>6, <2>7 DEF Types, TypeOK
<1>3. ASSUME NEW w \in Worker, Read(w) PROVE Types' /\ Started'
  <2>1. /\ Goto(w, IF messages[wk[w].at].status = "queued" THEN "calling" ELSE "returning")
        /\ wk[w].pc = "reading" /\ messages' = messages /\ job' = job
        /\ accepted' = accepted /\ cut' = cut /\ usable' = usable
    BY <1>3 DEF Read
  <2>2. CASE Goto(w, "calling")
    BY <1>a, <2>1, <2>2, Jumps DEF Types
  <2>3. CASE Goto(w, "returning")
    BY <1>a, <2>1, <2>3, Jumps DEF Types
  <2> QED BY <2>1, <2>2, <2>3
<1>4. ASSUME NEW w \in Worker, ProviderAccepts(w) PROVE Types' /\ Started'
  <2>1. /\ wk[w].pc = "calling" /\ messages' = messages /\ job' = job
        /\ wk' = [wk EXCEPT ![w].pc = "committing", ![w].id = accepted[wk[w].at] + 1]
        /\ accepted' = [accepted EXCEPT ![wk[w].at] = @ + 1] /\ cut' = cut /\ usable' = usable
    BY <1>4 DEF ProviderAccepts
  <2>2. accepted' \in [Message -> Nat] /\ accepted[wk[w].at] + 1 \in Nat /\ wk[w].at \in Message
    BY <1>b, <1>c, <2>1
  <2> DEFINE x == [wk[w] EXCEPT !.pc = "committing", !.id = accepted[wk[w].at] + 1]
  <2>3. wk \in [Worker -> WorkerType] /\ wk[w] \in WorkerType
    BY <1>a DEF TypeOK
  <2>4. x \in WorkerType /\ x.pc = "committing" /\ x.at = wk[w].at /\ x.fetch = wk[w].fetch
    BY <2>2, <2>3 DEF WorkerType
  <2>5. wk' = [wk EXCEPT ![w] = x]
    BY <2>1, <2>3
  <2> HIDE DEF x
  <2>6. wk' \in [Worker -> WorkerType] /\ wk'[w] = x /\ \A v \in Worker : v # w => wk'[v] = wk[v]
    BY <2>3, <2>4, <2>5
  <2>7. ASSUME NEW v \in Worker
        PROVE  /\ wk'[v].pc /= "idle" => wk'[v].at \in Message
               /\ wk'[v].pc \in {"failing", "fallingback", "announcing"} => Final(v)'
               /\ wk'[v].pc # "idle" => wk[v].pc # "idle" /\ wk'[v].at = wk[v].at
               /\ wk'[v].pc = "fallingback" => wk[v].pc = "fallingback"
    BY <1>a, <2>1, <2>2, <2>4, <2>6 DEF TypeOK, Final
  <2>8. TypeOK'
    BY <1>a, <2>1, <2>6, <2>7 DEF TypeOK
  <2>9. Started'
    BY <2>1, <2>7 DEF Started
  <2> QED BY <1>a, <2>1, <2>2, <2>8, <2>9 DEF Types
<1>5. ASSUME NEW w \in Worker, ProviderRefuses(w) PROVE Types' /\ Started'
  <2>1. /\ wk[w].pc = "calling" /\ Goto(w, IF Final(w) THEN "failing" ELSE "throwing")
        /\ messages' = messages /\ job' = job
        /\ accepted' = accepted /\ cut' = cut /\ usable' = usable
    BY <1>5 DEF ProviderRefuses
  <2>2. CASE Final(w) /\ Goto(w, "failing")
    BY <1>a, <2>1, <2>2, Jumps DEF Types
  <2>3. CASE Goto(w, "throwing")
    BY <1>a, <2>1, <2>3, Jumps DEF Types
  <2> QED BY <2>1, <2>2, <2>3
<1>6. ASSUME NEW w \in Worker, AnswerLost(w) PROVE Types' /\ Started'
  <2>1. /\ wk[w].pc = "calling" /\ Goto(w, IF Final(w) THEN "failing" ELSE "throwing")
        /\ messages' = messages /\ job' = job /\ usable' = usable
        /\ accepted' = [accepted EXCEPT ![wk[w].at] = @ + 1]
        /\ cut' = [cut EXCEPT ![wk[w].at] = @ + 1]
    BY <1>6 DEF AnswerLost
  <2>2. accepted' \in [Message -> Nat] /\ cut' \in [Message -> Nat]
    BY <1>b, <1>c, <2>1
  <2>3. CASE Final(w) /\ Goto(w, "failing")
    BY <1>a, <2>1, <2>2, <2>3, Jumps DEF Types
  <2>4. CASE Goto(w, "throwing")
    BY <1>a, <2>1, <2>2, <2>4, Jumps DEF Types
  <2> QED BY <2>1, <2>3, <2>4
<1>7. ASSUME NEW w \in Worker, CommitSent(w) PROVE Types' /\ Started'
  <2>1. /\ wk[w].pc = "committing" /\ Goto(w, "returning") /\ job' = job
        /\ messages' = [messages EXCEPT ![wk[w].at].status = "sent", ![wk[w].at].providerId = wk[w].id]
        /\ accepted' = accepted /\ cut' = cut /\ usable' = usable
    BY <1>7 DEF CommitSent
  <2>2. wk[w].id \in Nat
    BY <1>a DEF TypeOK, WorkerType
  <2> QED BY <1>a, <2>1, <2>2, RowsOnly DEF Types, Status
<1>8. ASSUME NEW w \in Worker, FailMessage(w) PROVE Types' /\ Started'
  <2>1. /\ wk[w].pc = "failing" /\ job' = job
        /\ Goto(w, IF messages[wk[w].at].fallback = <<>> THEN "throwing" ELSE "fallingback")
        /\ messages' = [messages EXCEPT ![wk[w].at].status = "failed"]
        /\ accepted' = accepted /\ cut' = cut /\ usable' = usable
    BY <1>8 DEF FailMessage
  <2>2. Final(w)
    BY <1>a, <2>1 DEF TypeOK
  <2>3. CASE Goto(w, "throwing")
    BY <1>a, <2>1, <2>3, RowsOnly DEF Types, Status
  <2>4. CASE messages[wk[w].at].fallback # <<>> /\ Goto(w, "fallingback")
    BY <1>a, <2>1, <2>2, <2>4, RowsOnly DEF Types, Status
  <2> QED BY <2>1, <2>3, <2>4
<1>9. ASSUME NEW w \in Worker, Announce(w) PROVE Types' /\ Started'
  <2>1. /\ wk[w].pc = "announcing" /\ Goto(w, "throwing") /\ job' = job /\ messages' = messages
        /\ accepted' = accepted /\ cut' = cut /\ usable' = usable
    BY <1>9 DEF Announce
  <2> QED BY <1>a, <2>1, Jumps DEF Types
<1>18. ASSUME NEW w \in Worker, FallBackThrows(w) PROVE Types' /\ Started'
  <2>1. /\ wk[w].pc = "fallingback" /\ Goto(w, "throwing") /\ job' = job /\ messages' = messages
        /\ accepted' = accepted /\ cut' = cut /\ usable' = usable
    BY <1>18 DEF FallBackThrows
  <2> QED BY <1>a, <2>1, Jumps DEF Types
<1>10. ASSUME NEW w \in Worker, TransactionFails(w) PROVE Types' /\ Started'
  <2>1. /\ wk[w].pc # "idle" /\ Goto(w, "throwing") /\ job' = job /\ messages' = messages
        /\ accepted' = accepted /\ usable' = usable
        /\ cut' = [cut EXCEPT ![wk[w].at] = @ + 1]
    BY <1>10 DEF TransactionFails, Fault
  <2>2. cut' \in [Message -> Nat]
    BY <1>b, <1>c, <2>1
  <2> QED BY <1>a, <2>1, <2>2, Jumps DEF Types
<1>11. ASSUME NEW w \in Worker, Crash(w) PROVE Types' /\ Started'
  <2>1. /\ wk[w].pc # "idle" /\ wk' = [wk EXCEPT ![w] = IdleWorker] /\ job' = job
        /\ messages' = messages /\ accepted' = accepted /\ usable' = usable
        /\ cut' = [cut EXCEPT ![wk[w].at] = @ + 1]
    BY <1>11 DEF Crash, Fault
  <2>2. cut' \in [Message -> Nat] /\ wk[w].at \in Message
    BY <1>b, <1>c, <2>1
  <2>3. /\ wk' \in [Worker -> WorkerType]
        /\ \A v \in Worker : wk'[v] = wk[v] \/ wk'[v].pc = "idle"
    BY <1>a, <2>1, IdleType DEF TypeOK
  <2> DEFINE m == wk[w].at
  <2>4. job[m] \in JobType /\ job[m].state # "none"
        /\ (job[m].state = "waiting" => job[m].fetches <= RetryLimit)
    BY <1>a, <2>1, <2>2 DEF TypeOK, Started
  <2>5. TypeOK' /\ Started'
    BY <2>1, <2>2, <2>3, <2>4, JobsOnly
  <2> QED BY <1>a, <2>1, <2>2, <2>5 DEF Types
<1>12. ASSUME NEW w \in Worker, Return(w) PROVE Types' /\ Started'
  <2> DEFINE m == wk[w].at
             x == IF wk[w].pc = "returning" THEN [job[m] EXCEPT !.state = "completed"] ELSE Failed(job[m])
  <2>1. /\ wk[w].pc # "idle" /\ wk' = [wk EXCEPT ![w] = IdleWorker] /\ messages' = messages
        /\ accepted' = accepted /\ cut' = cut /\ usable' = usable
    BY <1>12 DEF Return
  <2>2. m \in Message /\ job[m] \in JobType /\ job[m].state # "none"
    BY <1>a, <1>b, <2>1 DEF TypeOK, Started
  <2>3. job' = job \/ job' = [job EXCEPT ![m] = x]
    BY <1>12 DEF Return
  <2>4. x \in JobType /\ x.state # "none" /\ (x.state = "waiting" => x.fetches <= RetryLimit)
    <3>1. CASE wk[w].pc = "returning"
      BY <2>2, <3>1 DEF JobType
    <3>2. CASE wk[w].pc # "returning"
      <4>1. x = Failed(job[m])
        BY <3>2
      <4> HIDE DEF x
      <4> QED BY <2>2, <4>1, FailedJob
    <3> QED BY <3>1, <3>2
  <2>5. /\ wk' \in [Worker -> WorkerType]
        /\ \A v \in Worker : wk'[v] = wk[v] \/ wk'[v].pc = "idle"
    BY <1>a, <2>1, IdleType DEF TypeOK
  <2> HIDE DEF x, m
  <2>6. TypeOK' /\ Started'
    BY <2>1, <2>2, <2>3, <2>4, <2>5, JobsOnly
  <2> QED BY <1>a, <2>1, <2>6 DEF Types
<1>13. ASSUME NEW m \in Message, ExpireDead(m) \/ ExpireRunning(m) PROVE Types' /\ Started'
  <2>1. /\ job[m].state = "active" /\ job' = [job EXCEPT ![m] = Failed(job[m])]
        /\ messages' = messages /\ wk' = wk /\ accepted' = accepted /\ usable' = usable
        /\ cut' = cut \/ cut' = [cut EXCEPT ![m] = @ + 1]
    BY <1>13 DEF ExpireDead, ExpireRunning, Expire, Fault
  <2>2. cut' \in [Message -> Nat]
    BY <1>a, <1>c, <2>1
  <2>3. /\ job[m] \in JobType /\ Failed(job[m]) \in JobType
        /\ Failed(job[m]).state \in {"waiting", "failed"}
        /\ Failed(job[m]).state = "waiting" => Failed(job[m]).fetches <= RetryLimit
    BY <1>a, <2>1, FailedJob DEF TypeOK
  <2>4. wk' \in [Worker -> WorkerType]
    BY <1>a, <2>1 DEF TypeOK
  <2> DEFINE x == Failed(job[m])
  <2>5. TypeOK' /\ Started'
    <3> HIDE DEF x
    <3> QED BY <2>1, <2>3, <2>4, JobsOnly DEF x
  <2> QED BY <1>a, <2>1, <2>2, <2>5 DEF Types
<1>14. ASSUME NEW w \in Worker, NEW m \in Message, Fetch(w, m) PROVE Types' /\ Started'
  <2> DEFINE x == [state |-> "active", fetches |-> job[m].fetches + 1]
             y == [pc |-> "reading", at |-> m, fetch |-> job[m].fetches + 1, id |-> 0]
  <2>1. /\ job[m].state = "waiting" /\ job' = [job EXCEPT ![m] = x] /\ wk' = [wk EXCEPT ![w] = y]
        /\ messages' = messages /\ accepted' = accepted /\ cut' = cut /\ usable' = usable
    BY <1>14 DEF Fetch
  <2>2. job[m].fetches \in 0..RetryLimit
    BY <1>a, <2>1, BoundsAssumption DEF TypeOK, JobType, Started
  <2>3. x \in JobType /\ x.state = "active" /\ y \in WorkerType /\ y.pc = "reading" /\ y.at = m
    BY <2>2, BoundsAssumption DEF JobType, WorkerType, Message
  <2> HIDE DEF x, y
  <2>4. /\ wk' \in [Worker -> WorkerType]
        /\ \A v \in Worker : wk'[v] = wk[v] \/ (wk'[v].pc = "reading" /\ wk'[v].at = m)
    BY <1>a, <2>1, <2>3 DEF TypeOK
  <2>5. TypeOK' /\ Started'
    BY <2>1, <2>3, <2>4, JobsOnly
  <2> QED BY <1>a, <2>1, <2>5 DEF Types
<1>15. ASSUME NEW m \in Message, NEW id \in 1..accepted[m], NEW status \in ReportStatus,
              Report(m, id, status)
       PROVE  Types' /\ Started'
  <2>1. job' = job /\ wk' = wk /\ accepted' = accepted /\ cut' = cut /\ usable' = usable
    BY <1>15 DEF Report
  <2>2. CASE messages' = messages
    BY <1>a, <2>1, <2>2 DEF Types, TypeOK, Started, Final
  <2>3. CASE /\ messages[m].status \in From(status)
             /\ messages' = [messages EXCEPT ![m].status = status]
    <3>1. status \in Status \ {"none", "blocked"} /\ messages[m].status \notin {"none", "blocked"}
      BY <2>3 DEF ReportStatus, Status, From
    <3>2. /\ messages' \in [Message -> RowType] /\ messages'[m].status = status
          /\ \A k \in Message : messages'[k].fallback = messages[k].fallback
          /\ \A k \in Message : k # m => messages'[k] = messages[k]
      BY <2>3, <3>1, RowMoves
    <3>3. TypeOK'
      BY <1>a, <2>1, <3>2 DEF TypeOK, Final
    <3>4. ASSUME NEW w \in Worker, wk[w].pc = "fallingback" PROVE messages'[wk[w].at].fallback # <<>>
      BY <1>b, <3>2, <3>4 DEF Started
    <3>5. Started'
      BY <2>1, <3>1, <3>2, <3>4 DEF Started
    <3> QED BY <1>a, <2>1, <3>3, <3>5 DEF Types
  <2> QED BY <1>15, <2>2, <2>3 DEF Report
<1>16. ASSUME NEW c \in Channel, Settings(c) PROVE Types' /\ Started'
  <2>1. messages' = messages /\ job' = job /\ wk' = wk /\ accepted' = accepted /\ cut' = cut
    BY <1>16 DEF Settings, ConsentRequest, MessagingRequest, Suppress, RecordConsent, WindowTurns,
                 UpsertTemplate, StoreChannelConfig, Edit
  <2>2. usable' = usable \/ usable' = usable \cup {c}
    BY <1>16 DEF Settings, ConsentRequest, MessagingRequest, Suppress, RecordConsent, WindowTurns,
                 UpsertTemplate, StoreChannelConfig
  <2> QED BY <1>a, <2>1, <2>2 DEF Types, TypeOK, Started, Final
<1>17. CASE UNCHANGED vars
  BY <1>a, <1>17 DEF vars, Types, TypeOK, Started, Final
<1> QED
  BY <1>1, <1>2, <1>3, <1>4, <1>5, <1>6, <1>7, <1>8, <1>9, <1>10, <1>11, <1>12, <1>13, <1>14,
     <1>15, <1>16, <1>17, <1>18 DEF Next, ProcessSend, Callback

(* The tables, jobs and executions keep their shapes; only a final attempt *)
(* declares a message failed.                                              *)
THEOREM TypeCorrect == Spec => []TypeOK
<1>1. Init => Types /\ Started
  BY InitTypes
<1>2. Types /\ Started /\ [Next]_vars => Types' /\ Started'
  BY NextTypes
<1>3. Types => TypeOK
  BY DEF Types
<1> QED BY <1>1, <1>2, <1>3, PTL DEF Spec

---------------------------------------------------------------------------
(* Every change of a status *)

LEMMA StatusStep ==
  ASSUME Types, Started, [Next]_vars, NEW m \in Message, messages'[m].status # messages[m].status
  PROVE  \/ \E row \in RowType : Adds(m, row) /\ messages'[m] = row
         \/ \E w \in Worker : wk[w].pc = "committing" /\ wk[w].at = m /\ messages'[m].status = "sent"
         \/ \E w \in Worker : wk[w].pc = "failing" /\ wk[w].at = m /\ messages'[m].status = "failed"
         \/ \E status \in ReportStatus : /\ messages[m].status \in From(status)
                                         /\ messages'[m].status = status
<1>a. TypeOK /\ messages \in [Message -> RowType]
  BY DEF Types, TypeOK
<1>b. ASSUME NEW k \in Message, NEW status \in Status, NEW id \in Nat,
             \/ messages' = [messages EXCEPT ![k].status = status]
             \/ messages' = [messages EXCEPT ![k].status = status, ![k].providerId = id]
      PROVE  m = k /\ messages'[m].status = status
  <2>1. messages'[k].status = status /\ \A n \in Message : n # k => messages'[n] = messages[n]
    BY <1>b, RowMoves
  <2> QED BY <2>1
<1>c. "sent" \in Status /\ "failed" \in Status /\ 0 \in Nat /\ ReportStatus \subseteq Status
  BY DEF Status, ReportStatus
<1>1. CASE messages' = messages
  BY <1>1
<1>2. ASSUME NEW k \in Message, SendIntent(k)
      PROVE  \E row \in RowType : Adds(m, row) /\ messages'[m] = row
  <2>1. PICK row \in RowType : Adds(k, row)
    BY <1>2, IntentAdds
  <2>2. m = k /\ messages'[k] = row
    BY <2>1, AddsKeeps
  <2> QED BY <2>1, <2>2
<1>3. ASSUME NEW w \in Worker, FallBack(w)
      PROVE  \E row \in RowType : Adds(m, row) /\ messages'[m] = row
  <2>1. PICK k \in Unused, row \in RowType : Adds(k, row)
    BY <1>3, FallBackAdds
  <2>2. m = k /\ messages'[k] = row
    BY <2>1, AddsKeeps
  <2> QED BY <2>1, <2>2
<1>4. ASSUME NEW w \in Worker, CommitSent(w)
      PROVE  wk[w].pc = "committing" /\ wk[w].at = m /\ messages'[m].status = "sent"
  <2>1. /\ wk[w].pc = "committing"
        /\ messages' = [messages EXCEPT ![wk[w].at].status = "sent", ![wk[w].at].providerId = wk[w].id]
    BY <1>4 DEF CommitSent
  <2>2. wk[w].at \in Message /\ wk[w].id \in Nat
    BY <1>a, <2>1 DEF TypeOK, WorkerType
  <2> QED BY <1>b, <1>c, <2>1, <2>2
<1>5. ASSUME NEW w \in Worker, FailMessage(w)
      PROVE  wk[w].pc = "failing" /\ wk[w].at = m /\ messages'[m].status = "failed"
  <2>1. wk[w].pc = "failing" /\ messages' = [messages EXCEPT ![wk[w].at].status = "failed"]
    BY <1>5 DEF FailMessage
  <2>2. wk[w].at \in Message
    BY <1>a, <2>1 DEF TypeOK
  <2> QED BY <1>b, <1>c, <2>1, <2>2
<1>6. ASSUME NEW k \in Message, NEW id \in 1..accepted[k], NEW status \in ReportStatus,
             Report(k, id, status)
      PROVE  messages[m].status \in From(status) /\ messages'[m].status = status
  <2>1. CASE messages' = messages
    BY <2>1
  <2>2. CASE messages[k].status \in From(status) /\ messages' = [messages EXCEPT ![k].status = status]
    <3>1. m = k /\ messages'[m].status = status
      BY <1>b, <1>c, <2>2
    <3> QED BY <2>2, <3>1
  <2> QED BY <1>6, <2>1, <2>2 DEF Report
<1>7. \/ \E k \in Message : SendIntent(k)
      \/ \E w \in Worker : FallBack(w) \/ CommitSent(w) \/ FailMessage(w)
      \/ \E k \in Message : \E id \in 1..accepted[k], status \in ReportStatus : Report(k, id, status)
  BY <1>1 DEF Next, vars, env, ProcessSend, Callback, ExpireDead, ExpireRunning, Expire, Read,
     ProviderAccepts, ProviderRefuses, AnswerLost, FallBackThrows, Announce, Return, Crash, TransactionFails, Fetch,
     Settings, ConsentRequest, MessagingRequest, Suppress, RecordConsent, WindowTurns,
     UpsertTemplate, StoreChannelConfig, Edit
<1> QED BY <1>2, <1>3, <1>4, <1>5, <1>6, <1>7

(* A message is queued only on a channel consent and suppressions allow    *)
(* and that is not on its list to fall back on, for any channels, order    *)
(* and settings, on a fallback as on the first try; and on one no window   *)
(* denies then, unless the intent named a clock of its own.                *)
THEOREM OnlyDoor == Spec => OnlyDoorOut
<1>1. Init => Types /\ Started
  BY InitTypes
<1>2. Types /\ Started /\ [Next]_vars => Types' /\ Started'
  BY NextTypes
<1> DEFINE Out(m) == messages[m].status = "none" /\ messages'[m].status = "queued" =>
                       /\ messages'[m].channel \in Consented(messages'[m].purpose)
                       /\ messages'[m].parent # 0 \/ messages'[m].run => messages'[m].channel \notin closed
                       /\ messages'[m].channel \notin Range(messages'[m].fallback)
<1>3. Types /\ Started /\ [Next]_vars => \A m \in Message : Out(m)
  <2> SUFFICES ASSUME Types, Started, [Next]_vars, NEW m \in Message,
                      messages[m].status = "none", messages'[m].status = "queued"
               PROVE  /\ messages'[m].channel \in Consented(messages'[m].purpose)
                      /\ messages'[m].parent # 0 \/ messages'[m].run => messages'[m].channel \notin closed
                      /\ messages'[m].channel \notin Range(messages'[m].fallback)
    OBVIOUS
  <2>1. PICK row \in RowType : Adds(m, row) /\ messages'[m] = row
    BY StatusStep DEF ReportStatus
  <2> QED BY <2>1 DEF Adds
<1>4. Types /\ Started /\ [Next]_vars => [\A m \in Message : Out(m)]_vars
  BY <1>3
<1> QED BY <1>1, <1>2, <1>4, PTL DEF Spec, OnlyDoorOut

---------------------------------------------------------------------------
(* What holds of one message while no fault cut into its executions        *)

Works(w, m) == wk[w].pc # "idle" /\ wk[w].at = m
Undecided == {"none", "blocked", "queued"}

(* Until a fault cuts in, the one execution that works at a message holds  *)
(* its job, and knows whether it is queued; no retry is left only when it  *)
(* is not.  Whatever cuts in, who returns has seen the message decided.    *)
Sound(m) ==
  /\ cut[m] = 0 =>
       /\ \A w \in Worker : Works(w, m) =>
            /\ Holds(w)
            /\ wk[w].pc \in {"calling", "committing", "failing"} => messages[m].status = "queued"
            /\ wk[w].pc \in {"fallingback", "announcing"} => messages[m].status # "queued"
            /\ wk[w].pc = "throwing" /\ Final(w) => messages[m].status # "queued"
       /\ \A v, w \in Worker : Works(v, m) /\ Works(w, m) => v = w
       /\ job[m].state = "active" => \E w \in Worker : Works(w, m)
  /\ \A w \in Worker : Works(w, m) /\ wk[w].pc = "returning" => messages[m].status \notin Undecided
  /\ job[m].state = "completed" => messages[m].status \notin Undecided
  /\ messages[m].status = "queued" =>
       \/ job[m].state \in {"waiting", "active"}
       \/ job[m].state = "failed" /\ cut[m] > 0

LEMMA InitSound == Init => \A m \in Message : Sound(m)
BY DEF Init, Sound, Works, IdleWorker, NoRow, NoJob

(* A step about other messages, or about a report of this one. *)
LEMMA Elsewhere ==
  ASSUME Types, NEW m \in Message, Sound(m),
         job'[m] = job[m], cut'[m] = cut[m],
         \/ messages'[m].status = messages[m].status
         \/ messages[m].status \notin Undecided /\ messages'[m].status \notin Undecided,
         \A w \in Worker : wk'[w] = wk[w] \/ (~Works(w, m) /\ ~Works(w, m)')
  PROVE  Sound(m)'
<1>1. ASSUME NEW w \in Worker, Works(w, m)'
      PROVE  wk'[w] = wk[w] /\ Works(w, m)
  BY <1>1 DEF Works
<1>2. \A w \in Worker : Works(w, m) => Works(w, m)'
  BY DEF Works
<1>3. messages'[m].status = "queued" <=> messages[m].status = "queued"
  BY DEF Undecided
<1>4. messages[m].status \notin Undecided <=> messages'[m].status \notin Undecided
  OBVIOUS
<1>5. ASSUME cut'[m] = 0
      PROVE  /\ \A w \in Worker : Works(w, m)' =>
                  /\ Holds(w)'
                  /\ wk'[w].pc \in {"calling", "committing", "failing"} => messages'[m].status = "queued"
                  /\ wk'[w].pc \in {"fallingback", "announcing"} => messages'[m].status # "queued"
                  /\ wk'[w].pc = "throwing" /\ Final(w)' => messages'[m].status # "queued"
             /\ \A v, w \in Worker : Works(v, m)' /\ Works(w, m)' => v = w
             /\ job'[m].state = "active" => \E w \in Worker : Works(w, m)'
  <2>1. ASSUME NEW w \in Worker, Works(w, m)'
        PROVE  /\ Holds(w)'
               /\ wk'[w].pc \in {"calling", "committing", "failing"} => messages'[m].status = "queued"
               /\ wk'[w].pc \in {"fallingback", "announcing"} => messages'[m].status # "queued"
               /\ wk'[w].pc = "throwing" /\ Final(w)' => messages'[m].status # "queued"
    <3>1. wk'[w] = wk[w] /\ Works(w, m) /\ wk[w].at = m
      BY <1>1, <2>1 DEF Works
    <3> QED BY <1>3, <1>5, <3>1 DEF Sound, Holds, Final
  <2>2. \A v, w \in Worker : Works(v, m)' /\ Works(w, m)' => v = w
    BY <1>1, <1>5 DEF Sound
  <2>3. job'[m].state = "active" => \E w \in Worker : Works(w, m)'
    BY <1>2, <1>5 DEF Sound
  <2> QED BY <2>1, <2>2, <2>3
<1>6. /\ \A w \in Worker : Works(w, m)' /\ wk'[w].pc = "returning" => messages'[m].status \notin Undecided
      /\ job'[m].state = "completed" => messages'[m].status \notin Undecided
      /\ messages'[m].status = "queued" =>
           \/ job'[m].state \in {"waiting", "active"}
           \/ job'[m].state = "failed" /\ cut'[m] > 0
  BY <1>1, <1>3, <1>4 DEF Sound
<1> QED BY <1>5, <1>6 DEF Sound

(* A step of the execution w from one place to another. *)
LEMMA Onward ==
  ASSUME Types, NEW m \in Message, Sound(m), NEW w \in Worker, Works(w, m), job'[m] = job[m],
         NEW pc, pc # "idle", wk'[w].pc = pc, wk'[w].at = m, wk'[w].fetch = wk[w].fetch,
         \A v \in Worker : v # w => wk'[v] = wk[v],
         cut'[m] = cut[m] \/ cut'[m] = cut[m] + 1,
         \/ messages'[m].status = messages[m].status
         \/ messages[m].status # "none" /\ messages'[m].status \notin Undecided,
         pc \in {"calling", "committing", "failing"} /\ cut'[m] = 0 => messages'[m].status = "queued",
         pc \in {"fallingback", "announcing"} /\ cut'[m] = 0 => messages'[m].status # "queued",
         pc = "throwing" /\ Final(w) /\ cut'[m] = 0 => messages'[m].status # "queued",
         pc = "returning" => messages'[m].status \notin Undecided
  PROVE  Sound(m)'
<1>1. cut[m] \in Nat /\ (cut'[m] = 0 => cut[m] = 0) /\ (cut[m] > 0 => cut'[m] > 0)
  BY DEF Types
<1>2. ASSUME NEW v \in Worker, v # w PROVE Works(v, m)' <=> Works(v, m)
  BY <1>2 DEF Works
<1>3. Works(w, m)'
  BY DEF Works
<1>4. Final(w)' <=> Final(w)
  BY DEF Final
<1>5. ASSUME cut'[m] = 0
      PROVE  /\ \A v \in Worker : Works(v, m)' =>
                  /\ Holds(v)'
                  /\ wk'[v].pc \in {"calling", "committing", "failing"} => messages'[m].status = "queued"
                  /\ wk'[v].pc \in {"fallingback", "announcing"} => messages'[m].status # "queued"
                  /\ wk'[v].pc = "throwing" /\ Final(v)' => messages'[m].status # "queued"
             /\ \A u, v \in Worker : Works(u, m)' /\ Works(v, m)' => u = v
             /\ job'[m].state = "active" => \E v \in Worker : Works(v, m)'
  <2>1. \A v \in Worker : Works(v, m)' => v = w
    BY <1>1, <1>2, <1>5 DEF Sound
  <2>2. Holds(w)'
    <3>1. Holds(w) /\ wk[w].at = m
      BY <1>1, <1>5 DEF Sound, Works
    <3> QED BY <3>1 DEF Holds
  <2> QED BY <1>3, <1>4, <1>5, <2>1, <2>2
<1>6. messages[m].status \notin Undecided => messages'[m].status \notin Undecided
  OBVIOUS
<1>7. \A v \in Worker : Works(v, m)' /\ wk'[v].pc = "returning" => messages'[m].status \notin Undecided
  BY <1>2, <1>6 DEF Sound
<1>8. /\ job'[m].state = "completed" => messages'[m].status \notin Undecided
      /\ messages'[m].status = "queued" =>
           \/ job'[m].state \in {"waiting", "active"}
           \/ job'[m].state = "failed" /\ cut'[m] > 0
  BY <1>1, <1>6 DEF Sound, Undecided
<1> QED BY <1>5, <1>7, <1>8 DEF Sound

(* A row that was just written, with its job. *)
LEMMA Inserted ==
  ASSUME Types, Started, NEW m \in Message, NEW row \in RowType, Adds(m, row),
         \A w \in Worker : wk'[w].pc # "idle" => wk[w].pc # "idle" /\ wk'[w].at = wk[w].at
  PROVE  Sound(m)'
<1>1. /\ \A w \in Worker : wk[w].pc # "idle" => wk[w].at # m
      /\ messages'[m] = row
      /\ \/ row.status = "blocked" /\ job'[m] = NoJob
         \/ row.status = "queued" /\ job'[m] = FirstJob
  BY AddsKeeps
<1>2. \A w \in Worker : ~Works(w, m)'
  BY <1>1 DEF Works
<1>3. \/ messages'[m].status = "blocked" /\ job'[m].state = "none"
      \/ messages'[m].status = "queued" /\ job'[m].state = "waiting"
  BY <1>1 DEF NoJob, FirstJob
<1> QED BY <1>2, <1>3 DEF Sound

(* An execution that goes on to pc, under what is known of its message. *)
LEMMA OnwardAll ==
  ASSUME Types, Started, NEW w \in Worker, NEW pc, NEW m \in Message, Sound(m),
         wk[w].pc # "idle", pc # "idle",
         wk'[w].pc = pc, wk'[w].at = wk[w].at, wk'[w].fetch = wk[w].fetch,
         \A v \in Worker : v # w => wk'[v] = wk[v],
         job'[m] = job[m],
         \/ cut' = cut
         \/ cut' = [cut EXCEPT ![wk[w].at] = @ + 1] /\ pc \in {"failing", "throwing"},
         m # wk[w].at => messages'[m].status = messages[m].status,
         m = wk[w].at =>
           /\ \/ messages'[m].status = messages[m].status
              \/ messages'[m].status \notin Undecided
           /\ pc \in {"calling", "committing", "failing"} /\ cut'[m] = 0 => messages'[m].status = "queued"
           /\ pc \in {"fallingback", "announcing"} /\ cut'[m] = 0 => messages'[m].status # "queued"
           /\ pc = "throwing" /\ Final(w) /\ cut'[m] = 0 => messages'[m].status # "queued"
           /\ pc = "returning" => messages'[m].status \notin Undecided
  PROVE  Sound(m)'
<1>1. wk[w].at \in Message /\ cut \in [Message -> Nat]
  BY DEF Types, TypeOK
<1>2. CASE m = wk[w].at
  <2>1. Works(w, m) /\ messages[m].status # "none"
    BY <1>2 DEF Works, Started
  <2>2. cut'[m] = cut[m] \/ cut'[m] = cut[m] + 1
    BY <1>1, <1>2
  <2> QED BY <1>2, <2>1, <2>2, Onward
<1>3. CASE m # wk[w].at
  <2>1. cut'[m] = cut[m]
    BY <1>1, <1>3
  <2>2. \A v \in Worker : wk'[v] = wk[v] \/ (~Works(v, m) /\ ~Works(v, m)')
    BY <1>3 DEF Works
  <2> QED BY <1>3, <2>1, <2>2, Elsewhere
<1> QED BY <1>2, <1>3

(* An execution that ends: it returns, throws, or dies. *)
LEMMA Ended ==
  ASSUME Types, Started, NEW w \in Worker, NEW m \in Message, Sound(m),
         wk[w].pc # "idle", wk' = [wk EXCEPT ![w] = IdleWorker], messages' = messages,
         job'[m] # job[m] => m = wk[w].at,
         m = wk[w].at =>
           \/ cut'[m] = cut[m] + 1 /\ job'[m] = job[m]
           \/ cut'[m] = cut[m] /\ ~Holds(w) /\ job'[m] = job[m]
           \/ /\ cut'[m] = cut[m] /\ Holds(w)
              /\ wk[w].pc = "returning" /\ job'[m].state = "completed"
           \/ /\ cut'[m] = cut[m] /\ Holds(w)
              /\ wk[w].pc = "throwing" /\ job'[m] = Failed(job[m]),
         m # wk[w].at => cut'[m] = cut[m]
  PROVE  Sound(m)'
<1>1. wk'[w].pc = "idle" /\ \A v \in Worker : v # w => wk'[v] = wk[v]
  BY DEF Types, TypeOK, IdleWorker
<1>2. wk[w].at \in Message /\ job[m] \in JobType /\ cut[m] \in Nat
  BY DEF Types, TypeOK
<1>3. CASE m # wk[w].at
  <2>1. \A v \in Worker : wk'[v] = wk[v] \/ (~Works(v, m) /\ ~Works(v, m)')
    BY <1>1, <1>3 DEF Works
  <2> QED BY <1>3, <2>1, Elsewhere
<1>4. CASE m = wk[w].at
  <2>1. Works(w, m) /\ ~Works(w, m)'
    BY <1>1, <1>4 DEF Works
  <2>2. \A v \in Worker : Works(v, m)' => v # w /\ Works(v, m) /\ wk'[v] = wk[v]
    BY <1>1, <2>1 DEF Works
  <2>3. \A v \in Worker : Works(v, m)' /\ wk'[v].pc = "returning" => messages'[m].status \notin Undecided
    BY <2>2 DEF Sound
  <2>4. CASE cut'[m] > 0 /\ job'[m] = job[m]
    BY <2>3, <2>4 DEF Sound
  <2>5. CASE cut[m] = 0 /\ cut'[m] = 0 /\ job'[m] = job[m] /\ ~Holds(w)
    BY <2>1, <2>5 DEF Sound
  <2>6. CASE Holds(w) /\ cut'[m] = cut[m] /\ wk[w].pc = "returning" /\ job'[m].state = "completed"
    <3>1. messages[m].status \notin Undecided
      BY <2>1, <2>6 DEF Sound
    <3>2. cut'[m] = 0 => \A v \in Worker : ~Works(v, m)'
      BY <2>1, <2>2, <2>6 DEF Sound
    <3> QED BY <2>3, <2>6, <3>1, <3>2 DEF Sound, Undecided
  <2>7. CASE Holds(w) /\ cut'[m] = cut[m] /\ wk[w].pc = "throwing" /\ job'[m] = Failed(job[m])
    <3>1. /\ job[m].state = "active" /\ job[m].fetches = wk[w].fetch
      BY <1>4, <2>7 DEF Holds
    <3>2. /\ job'[m].state \in {"waiting", "failed"}
          /\ job'[m].state = "waiting" <=> job[m].fetches <= RetryLimit
      BY <1>2, <2>7, <3>1, FailedJob
    <3>3. cut'[m] = 0 => \A v \in Worker : ~Works(v, m)'
      BY <2>1, <2>2, <2>7 DEF Sound
    <3>4. cut[m] = 0 /\ messages[m].status = "queued" => ~Final(w)
      BY <2>1, <2>7 DEF Sound
    <3>5. cut[m] = 0 /\ messages[m].status = "queued" => job'[m].state = "waiting"
      BY <1>2, <3>1, <3>2, <3>4, BoundsAssumption DEF Final, JobType
    <3> QED BY <1>2, <2>3, <2>7, <3>2, <3>3, <3>5 DEF Sound
  <2> QED BY <1>2, <1>4, <2>4, <2>5, <2>6, <2>7
<1> QED BY <1>3, <1>4

LEMMA SoundStep ==
  ASSUME Types, Started, [Next]_vars, NEW m \in Message, Sound(m)
  PROVE  Sound(m)'
<1> USE DEF env
<1>a. /\ TypeOK /\ messages \in [Message -> RowType] /\ job \in [Message -> JobType]
      /\ wk \in [Worker -> WorkerType] /\ cut \in [Message -> Nat]
  BY DEF Types, TypeOK
<1>b. ASSUME NEW w \in Worker, NEW pc, wk[w].pc # "idle", Goto(w, pc)
      PROVE  /\ wk'[w].pc = pc /\ wk'[w].at = wk[w].at /\ wk'[w].fetch = wk[w].fetch
             /\ \A v \in Worker : v # w => wk'[v] = wk[v]
  BY <1>a, <1>b DEF Goto, WorkerType
<1>c. ASSUME NEW w \in Worker, m = wk[w].at, wk[w].pc # "idle", cut[m] = 0
      PROVE  /\ Holds(w)
             /\ wk[w].pc \in {"calling", "committing", "failing"} => messages[m].status = "queued"
             /\ wk[w].pc \in {"fallingback", "announcing"} => messages[m].status # "queued"
  BY <1>c DEF Sound, Works
<1>1. ASSUME NEW k \in Message, SendIntent(k) PROVE Sound(m)'
  <2>1. PICK row \in RowType : Adds(k, row)
    BY <1>1, IntentAdds
  <2>2. wk' = wk /\ cut' = cut
    BY <1>1 DEF SendIntent
  <2>3. CASE m = k
    BY <2>1, <2>2, <2>3, Inserted
  <2>4. CASE m # k
    <3>1. messages'[m] = messages[m] /\ job'[m] = job[m]
      BY <2>1, <2>4, AddsKeeps
    <3> QED BY <2>2, <3>1, Elsewhere
  <2> QED BY <2>3, <2>4
<1>2. ASSUME NEW w \in Worker, FallBack(w) PROVE Sound(m)'
  <2>1. PICK k \in Unused, row \in RowType : Adds(k, row)
    BY <1>2, FallBackAdds
  <2>2. wk[w].pc = "fallingback" /\ Goto(w, "announcing") /\ cut' = cut
    BY <1>2 DEF FallBack
  <2>3. /\ wk'[w].pc = "announcing" /\ wk'[w].at = wk[w].at /\ wk'[w].fetch = wk[w].fetch
        /\ \A v \in Worker : v # w => wk'[v] = wk[v]
    BY <1>b, <2>2
  <2>4. CASE m = k
    BY <2>1, <2>2, <2>3, <2>4, Inserted
  <2>5. CASE m # k
    <3>1. messages'[m] = messages[m] /\ job'[m] = job[m]
      BY <2>1, <2>5, AddsKeeps
    <3>2. m = wk[w].at /\ cut'[m] = 0 => messages'[m].status # "queued"
      BY <1>c, <2>2, <3>1
    <3> QED BY <2>2, <2>3, <3>1, <3>2, OnwardAll
  <2> QED BY <2>4, <2>5
<1>3. ASSUME NEW w \in Worker, Read(w) PROVE Sound(m)'
  <2>1. /\ wk[w].pc = "reading" /\ messages' = messages /\ job' = job /\ cut' = cut
        /\ Goto(w, IF messages[wk[w].at].status = "queued" THEN "calling" ELSE "returning")
    BY <1>3 DEF Read
  <2>2. CASE messages[wk[w].at].status = "queued" /\ Goto(w, "calling")
    BY <1>b, <2>1, <2>2, OnwardAll
  <2>3. CASE messages[wk[w].at].status # "queued" /\ Goto(w, "returning")
    <3>1. messages[wk[w].at].status \notin Undecided
      BY <1>a, <2>1, <2>3 DEF Undecided, Started, TypeOK
    <3> QED BY <1>b, <2>1, <2>3, <3>1, OnwardAll
  <2> QED BY <2>1, <2>2, <2>3
<1>4. ASSUME NEW w \in Worker, ProviderAccepts(w) PROVE Sound(m)'
  <2>1. /\ wk[w].pc = "calling" /\ messages' = messages /\ job' = job /\ cut' = cut
        /\ wk' = [wk EXCEPT ![w].pc = "committing", ![w].id = accepted[wk[w].at] + 1]
    BY <1>4 DEF ProviderAccepts
  <2>2. /\ wk'[w].pc = "committing" /\ wk'[w].at = wk[w].at /\ wk'[w].fetch = wk[w].fetch
        /\ \A v \in Worker : v # w => wk'[v] = wk[v]
    BY <1>a, <2>1 DEF WorkerType
  <2>3. m = wk[w].at /\ cut'[m] = 0 => messages'[m].status = "queued"
    BY <1>c, <2>1
  <2> QED BY <2>1, <2>2, <2>3, OnwardAll
<1>5. ASSUME NEW w \in Worker, ProviderRefuses(w) PROVE Sound(m)'
  <2>1. /\ wk[w].pc = "calling" /\ Goto(w, IF Final(w) THEN "failing" ELSE "throwing")
        /\ messages' = messages /\ job' = job /\ cut' = cut
    BY <1>5 DEF ProviderRefuses
  <2>2. m = wk[w].at /\ cut'[m] = 0 => messages'[m].status = "queued"
    BY <1>c, <2>1
  <2>3. CASE Goto(w, "failing")
    BY <1>b, <2>1, <2>2, <2>3, OnwardAll
  <2>4. CASE ~Final(w) /\ Goto(w, "throwing")
    BY <1>b, <2>1, <2>4, OnwardAll
  <2> QED BY <2>1, <2>3, <2>4
<1>6. ASSUME NEW w \in Worker, AnswerLost(w) PROVE Sound(m)'
  <2>1. /\ wk[w].pc = "calling" /\ Goto(w, IF Final(w) THEN "failing" ELSE "throwing")
        /\ messages' = messages /\ job' = job /\ cut' = [cut EXCEPT ![wk[w].at] = @ + 1]
    BY <1>6 DEF AnswerLost
  <2>2. m = wk[w].at => cut'[m] # 0
    BY <1>a, <2>1
  <2>3. CASE Goto(w, "failing")
    BY <1>b, <2>1, <2>2, <2>3, OnwardAll
  <2>4. CASE Goto(w, "throwing")
    BY <1>b, <2>1, <2>2, <2>4, OnwardAll
  <2> QED BY <2>1, <2>3, <2>4
<1>7. ASSUME NEW w \in Worker, CommitSent(w) PROVE Sound(m)'
  <2>1. /\ wk[w].pc = "committing" /\ Goto(w, "returning") /\ job' = job /\ cut' = cut
        /\ messages' = [messages EXCEPT ![wk[w].at].status = "sent", ![wk[w].at].providerId = wk[w].id]
    BY <1>7 DEF CommitSent
  <2>2. wk[w].at \in Message /\ wk[w].id \in Nat /\ "sent" \in Status
    BY <1>a, <2>1 DEF TypeOK, WorkerType, Status
  <2>3. /\ messages'[wk[w].at].status = "sent"
        /\ \A k \in Message : k # wk[w].at => messages'[k] = messages[k]
    BY <2>1, <2>2, RowMoves
  <2>4. "sent" \notin Undecided
    BY DEF Undecided
  <2>5. /\ wk'[w].pc = "returning" /\ wk'[w].at = wk[w].at /\ wk'[w].fetch = wk[w].fetch
        /\ \A v \in Worker : v # w => wk'[v] = wk[v]
    BY <1>b, <2>1
  <2>6. /\ m # wk[w].at => messages'[m].status = messages[m].status
        /\ m = wk[w].at => messages'[m].status \notin Undecided
    BY <2>3, <2>4
  <2>7. wk[w].pc # "idle" /\ job' = job /\ cut' = cut
    BY <2>1
  <2> QED BY <2>5, <2>6, <2>7, OnwardAll
<1>8. ASSUME NEW w \in Worker, FailMessage(w) PROVE Sound(m)'
  <2>1. /\ wk[w].pc = "failing" /\ job' = job /\ cut' = cut
        /\ Goto(w, IF messages[wk[w].at].fallback = <<>> THEN "throwing" ELSE "fallingback")
        /\ messages' = [messages EXCEPT ![wk[w].at].status = "failed"]
    BY <1>8 DEF FailMessage
  <2>2. wk[w].at \in Message /\ "failed" \in Status /\ 0 \in Nat
    BY <1>a, <2>1 DEF TypeOK, Status
  <2>3. /\ messages'[wk[w].at].status = "failed"
        /\ \A k \in Message : k # wk[w].at => messages'[k] = messages[k]
    BY <2>1, <2>2, RowMoves
  <2>4. "failed" \notin Undecided
    BY DEF Undecided
  <2>5. CASE Goto(w, "throwing")
    BY <1>b, <2>1, <2>3, <2>4, <2>5, OnwardAll
  <2>6. CASE Goto(w, "fallingback")
    BY <1>b, <2>1, <2>3, <2>4, <2>6, OnwardAll
  <2> QED BY <2>1, <2>5, <2>6
<1>9. ASSUME NEW w \in Worker, Announce(w) PROVE Sound(m)'
  <2>1. /\ wk[w].pc = "announcing" /\ Goto(w, "throwing") /\ job' = job /\ messages' = messages
        /\ cut' = cut
    BY <1>9 DEF Announce
  <2>2. m = wk[w].at /\ cut'[m] = 0 => messages'[m].status # "queued"
    BY <1>c, <2>1
  <2> QED BY <1>b, <2>1, <2>2, OnwardAll
<1>18. ASSUME NEW w \in Worker, FallBackThrows(w) PROVE Sound(m)'
  <2>1. /\ wk[w].pc = "fallingback" /\ Goto(w, "throwing") /\ job' = job /\ messages' = messages
        /\ cut' = cut
    BY <1>18 DEF FallBackThrows
  <2>2. m = wk[w].at /\ cut'[m] = 0 => messages'[m].status # "queued"
    BY <1>c, <2>1
  <2> QED BY <1>b, <2>1, <2>2, OnwardAll
<1>10. ASSUME NEW w \in Worker, TransactionFails(w) PROVE Sound(m)'
  <2>1. /\ wk[w].pc # "idle" /\ Goto(w, "throwing") /\ job' = job /\ messages' = messages
        /\ cut' = [cut EXCEPT ![wk[w].at] = @ + 1]
    BY <1>10 DEF TransactionFails, Fault
  <2>2. m = wk[w].at => cut'[m] # 0
    BY <1>a, <2>1
  <2> QED BY <1>b, <2>1, <2>2, OnwardAll
<1>11. ASSUME NEW w \in Worker, Crash(w) PROVE Sound(m)'
  <2>1. /\ wk[w].pc # "idle" /\ wk' = [wk EXCEPT ![w] = IdleWorker] /\ job' = job
        /\ messages' = messages /\ cut' = [cut EXCEPT ![wk[w].at] = @ + 1]
    BY <1>11 DEF Crash, Fault
  <2>2. /\ m = wk[w].at => cut'[m] = cut[m] + 1
        /\ m # wk[w].at => cut'[m] = cut[m]
    BY <1>a, <2>1
  <2> QED BY <2>1, <2>2, Ended
<1>12. ASSUME NEW w \in Worker, Return(w) PROVE Sound(m)'
  <2> DEFINE n == wk[w].at
             x == IF wk[w].pc = "returning" THEN [job[n] EXCEPT !.state = "completed"] ELSE Failed(job[n])
  <2>1. /\ wk[w].pc \in {"returning", "throwing"} /\ wk' = [wk EXCEPT ![w] = IdleWorker]
        /\ messages' = messages /\ cut' = cut
    BY <1>12 DEF Return
  <2>2. n \in Message /\ job[n] \in JobType
    BY <1>a, <2>1 DEF TypeOK
  <2>3. /\ wk[w].pc = "returning" => x.state = "completed"
        /\ wk[w].pc = "throwing" => x = Failed(job[n])
    BY <2>2 DEF JobType
  <2>4. IF ~Holds(w) THEN job' = job ELSE job' = [job EXCEPT ![n] = x]
    BY <1>12 DEF Return
  <2> HIDE DEF x
  <2>5. /\ ~Holds(w) => job'[m] = job[m]
        /\ Holds(w) => job'[n] = x
        /\ m # n => job'[m] = job[m]
    BY <1>a, <2>2, <2>4
  <2> QED BY <2>1, <2>3, <2>5, Ended
<1>13. ASSUME NEW k \in Message, ExpireDead(k) \/ ExpireRunning(k) PROVE Sound(m)'
  <2>1. /\ job[k].state = "active" /\ job' = [job EXCEPT ![k] = Failed(job[k])]
        /\ messages' = messages /\ wk' = wk
        /\ (~Held(k) /\ cut' = cut) \/ cut' = [cut EXCEPT ![k] = @ + 1]
    BY <1>13 DEF ExpireDead, ExpireRunning, Expire, Fault
  <2>2. CASE m # k
    <3>1. job'[m] = job[m] /\ cut'[m] = cut[m]
      BY <1>a, <2>1, <2>2
    <3> QED BY <2>1, <3>1, Elsewhere
  <2>3. CASE m = k
    <3>1. cut'[m] > 0
      <4>1. CASE cut' = [cut EXCEPT ![k] = @ + 1]
        BY <1>a, <2>3, <4>1
      <4>2. CASE ~Held(k) /\ cut' = cut
        <5>1. cut[m] # 0
          BY <2>1, <2>3, <4>2 DEF Sound, Held, Works
        <5> QED BY <1>a, <4>2, <5>1
      <4> QED BY <2>1, <4>1, <4>2
    <3>2. job'[m] = Failed(job[m]) /\ job[m] \in JobType
      BY <1>a, <2>1, <2>3
    <3>3. job'[m].state \in {"waiting", "failed"}
      BY <2>1, <2>3, <3>2, FailedJob
    <3>4. \A w \in Worker : Works(w, m)' <=> Works(w, m)
      BY <2>1 DEF Works
    <3> QED BY <2>1, <3>1, <3>3, <3>4 DEF Sound
  <2> QED BY <2>2, <2>3
<1>14. ASSUME NEW w \in Worker, NEW k \in Message, Fetch(w, k) PROVE Sound(m)'
  <2> DEFINE y == [pc |-> "reading", at |-> k, fetch |-> job[k].fetches + 1, id |-> 0]
             x == [state |-> "active", fetches |-> job[k].fetches + 1]
  <2>1. /\ wk[w].pc = "idle" /\ job[k].state = "waiting" /\ messages' = messages /\ cut' = cut
        /\ job' = [job EXCEPT ![k] = x] /\ wk' = [wk EXCEPT ![w] = y]
    BY <1>14 DEF Fetch
  <2>2. /\ wk'[w].pc = "reading" /\ wk'[w].at = k /\ wk'[w].fetch = job[k].fetches + 1
        /\ \A v \in Worker : v # w => wk'[v] = wk[v]
    BY <1>a, <2>1
  <2>3. CASE m # k
    <3>1. job'[m] = job[m]
      BY <1>a, <2>1, <2>3
    <3>2. ~Works(w, m) /\ ~Works(w, m)'
      BY <2>1, <2>2, <2>3 DEF Works
    <3> QED BY <2>1, <2>2, <3>1, <3>2, Elsewhere
  <2>4. CASE m = k
    <3>1. job'[m].state = "active" /\ job'[m].fetches = job[k].fetches + 1
      BY <1>a, <2>1, <2>4
    <3>2. Works(w, m)' /\ ~Works(w, m) /\ Holds(w)'
      BY <2>1, <2>2, <2>4, <3>1 DEF Works, Holds
    <3>3. cut[m] = 0 => \A v \in Worker : ~Works(v, m)
      BY <2>1, <2>4 DEF Sound, Holds, Works
    <3>4. cut[m] = 0 => \A v \in Worker : Works(v, m)' => v = w
      BY <2>2, <3>3 DEF Works
    <3>5. \A v \in Worker : Works(v, m)' /\ wk'[v].pc = "returning" => messages'[m].status \notin Undecided
      BY <2>1, <2>2 DEF Sound, Works
    <3> QED BY <2>1, <2>2, <3>1, <3>2, <3>4, <3>5 DEF Sound
  <2> QED BY <2>3, <2>4
<1>15. ASSUME NEW k \in Message, NEW id \in 1..accepted[k], NEW status \in ReportStatus,
              Report(k, id, status)
       PROVE  Sound(m)'
  <2>1. job' = job /\ wk' = wk /\ cut' = cut
    BY <1>15 DEF Report
  <2>2. CASE messages' = messages
    BY <2>1, <2>2, Elsewhere
  <2>3. CASE messages[k].status \in From(status) /\ messages' = [messages EXCEPT ![k].status = status]
    <3>1. status \in Status /\ 0 \in Nat
      BY DEF ReportStatus, Status
    <3>2. messages'[k].status = status /\ \A n \in Message : n # k => messages'[n] = messages[n]
      BY <2>3, <3>1, RowMoves
    <3>3. status \notin Undecided /\ messages[k].status \notin Undecided
      BY <2>3 DEF ReportStatus, From, Undecided
    <3> QED BY <2>1, <3>2, <3>3, Elsewhere
  <2> QED BY <1>15, <2>2, <2>3 DEF Report
<1>16. ASSUME NEW c \in Channel, Settings(c) PROVE Sound(m)'
  <2>1. messages' = messages /\ job' = job /\ wk' = wk /\ cut' = cut
    BY <1>16 DEF Settings, ConsentRequest, MessagingRequest, Suppress, RecordConsent, WindowTurns,
                 UpsertTemplate, StoreChannelConfig, Edit
  <2> QED BY <2>1, Elsewhere
<1>17. CASE UNCHANGED vars
  <2>1. messages' = messages /\ job' = job /\ wk' = wk /\ cut' = cut
    BY <1>17 DEF vars
  <2> QED BY <2>1, Elsewhere
<1> QED
  BY <1>1, <1>2, <1>3, <1>4, <1>5, <1>6, <1>7, <1>8, <1>9, <1>10, <1>11, <1>12, <1>13, <1>14,
     <1>15, <1>16, <1>17, <1>18 DEF Next, ProcessSend, Callback

LEMMA CutGrows ==
  ASSUME Types, [Next]_vars, NEW m \in Message, cut'[m] = 0
  PROVE  cut[m] = 0
<1>1. cut \in [Message -> Nat]
  BY DEF Types
<1>2. cut' = cut \/ \E k : cut' = [cut EXCEPT ![k] = @ + 1]
  BY DEF Next, vars, env, ProcessSend, Callback, Report, SendIntent, FallBack, CommitSent, FailMessage,
     ExpireDead, ExpireRunning, Fault, Read, ProviderAccepts, ProviderRefuses, AnswerLost, FallBackThrows, Announce,
     Return, Crash, TransactionFails, Fetch, Settings, ConsentRequest, MessagingRequest, Suppress,
     RecordConsent, WindowTurns, UpsertTemplate, StoreChannelConfig, Edit
<1> QED BY <1>1, <1>2

(* Sound of every message: what the two theorems below rest on.            *)
THEOREM AllSound == Spec => [](\A m \in Message : Sound(m))
<1>1. Init => Types /\ Started /\ \A m \in Message : Sound(m)
  BY InitTypes, InitSound
<1>2. Types /\ Started /\ (\A m \in Message : Sound(m)) /\ [Next]_vars
        => Types' /\ Started' /\ (\A m \in Message : Sound(m))'
  BY NextTypes, SoundStep
<1> QED BY <1>1, <1>2, PTL DEF Spec

(* A message whose job is over is decided, and one that is still queued    *)
(* has a job that comes back unless a fault cut into its executions, for   *)
(* any number of messages, workers, retries and faults.                    *)
THEOREM QueuedSafe == Spec => []QueuedHasJob
<1>1. (\A m \in Message : Sound(m)) => QueuedHasJob
  BY DEF Sound, Undecided, QueuedHasJob
<1> QED BY <1>1, AllSound, PTL

(* While no fault cuts into its executions, a message only moves forward:  *)
(* retries, and reports however late or often they come, take nothing back. *)
THEOREM MovesForward == Spec => StatusMovesForward
<1>1. Init => Types /\ Started
  BY InitTypes
<1>2. Types /\ Started /\ [Next]_vars => Types' /\ Started'
  BY NextTypes
<1>3. ASSUME Types, Started, [Next]_vars, NEW m \in Message, Sound(m), cut'[m] = 0,
             messages'[m].status # messages[m].status
      PROVE  messages'[m].status \in Later(messages[m].status)
  <2>1. cut[m] = 0
    BY <1>3, CutGrows
  <2>2. CASE \E row \in RowType : Adds(m, row) /\ messages'[m] = row
    <3>1. PICK row \in RowType : Adds(m, row) /\ messages'[m] = row
      BY <2>2
    <3>2. messages[m].status = "none" /\ row.status \in {"blocked", "queued"}
      BY <1>3, <3>1, AddsKeeps
    <3> QED BY <3>1, <3>2 DEF Later
  <2>3. CASE \E w \in Worker : wk[w].pc = "committing" /\ wk[w].at = m /\ messages'[m].status = "sent"
    BY <1>3, <2>1, <2>3 DEF Sound, Works, Later
  <2>4. CASE \E w \in Worker : wk[w].pc = "failing" /\ wk[w].at = m /\ messages'[m].status = "failed"
    BY <1>3, <2>1, <2>4 DEF Sound, Works, Later
  <2>5. CASE \E status \in ReportStatus : messages[m].status \in From(status) /\ messages'[m].status = status
    BY <1>3, <2>5 DEF ReportStatus, From, Later
  <2> QED BY <1>3, <2>2, <2>3, <2>4, <2>5, StatusStep
<1>4. Types /\ Started /\ (\A m \in Message : Sound(m)) /\ [Next]_vars =>
        [\A m \in Message : cut'[m] = 0 /\ messages'[m].status /= messages[m].status =>
            messages'[m].status \in Later(messages[m].status)]_vars
  BY <1>3
<1> QED BY <1>1, <1>2, <1>4, AllSound, PTL DEF Spec, StatusMovesForward

---------------------------------------------------------------------------
(* What the log says of one provider id *)

EventType == [type : Status \cup {"fallback"}, id : Nat]

Logs == events \in [Message -> Seq(EventType)]

Commits(w, m) == wk[w].pc = "committing" /\ wk[w].at = m
IsReport(e) == e.type \in ReportStatus

(* Ids come from the provider. *)
Issued(m) ==
  /\ messages[m].providerId \in 0..accepted[m]
  /\ \A i \in DOMAIN events[m] : events[m][i].id \in 0..accepted[m]

(* An id on its way to the row is nobody else's and was not reported yet. *)
Pending(m) ==
  /\ \A w \in Worker : Commits(w, m) =>
       /\ wk[w].id \in 1..accepted[m] /\ wk[w].id # messages[m].providerId
       /\ \A i \in DOMAIN events[m] : IsReport(events[m][i]) => events[m][i].id # wk[w].id
  /\ \A v, w \in Worker : Commits(v, m) /\ Commits(w, m) /\ wk[v].id = wk[w].id => v = w

(* What was logged of the id the row is stamped with fits the row's status. *)
Standing(m) ==
  messages[m].providerId # 0 =>
    \A i \in DOMAIN events[m] : IsReport(events[m][i]) /\ events[m][i].id = messages[m].providerId =>
      /\ messages[m].status # "sent"
      /\ messages[m].status = "delivered" => events[m][i].type = "delivered"

CountedOnce(m) ==
  \A i, j \in DOMAIN events[m] :
    i < j /\ events[m][i].id = events[m][j].id /\ events[m][i].id # 0
          /\ IsReport(events[m][i]) /\ IsReport(events[m][j])
    => events[m][i].type = "delivered" /\ events[m][j].type = "read"

Logged(m) == Issued(m) /\ Pending(m) /\ Standing(m) /\ CountedOnce(m)

(* new is the list old with e at its end. *)
Grown(old, new, e) ==
  /\ Len(old) \in Nat /\ DOMAIN old = 1..Len(old) /\ DOMAIN new = 1..(Len(old) + 1)
  /\ \A i \in 1..Len(old) : new[i] = old[i]
  /\ new[Len(old) + 1] = e

(* One entry more in the log of m.                                         *)
LEMMA Emits ==
  ASSUME Logs, NEW m \in Message, NEW type, NEW id \in Nat, type \in Status \cup {"fallback"},
         events' = Emit(events, m, type, id)
  PROVE  /\ Logs'
         /\ Grown(events[m], events'[m], Event(type, id))
         /\ \A k \in Message : k # m => events'[k] = events[k]
<1> DEFINE old == events[m]
           new == Append(old, Event(type, id))
<1>1. Event(type, id) \in EventType
  BY DEF Event, EventType
<1>2. old \in Seq(EventType) /\ events \in [Message -> Seq(EventType)]
  BY DEF Logs
<1>3. new \in Seq(EventType) /\ Grown(old, new, Event(type, id))
  BY <1>1, <1>2 DEF Grown
<1>4. events' = [events EXCEPT ![m] = new]
  BY DEF Emit
<1> HIDE DEF new
<1>5. events' \in [Message -> Seq(EventType)] /\ events'[m] = new
      /\ \A k \in Message : k # m => events'[k] = events[k]
  BY <1>2, <1>3, <1>4
<1> QED BY <1>3, <1>5 DEF Logs

(* An execution that is not about to record what the provider took. *)
LEMMA GotoCommits ==
  ASSUME Types, NEW w \in Worker, NEW pc, pc # "committing", Goto(w, pc), NEW m
  PROVE  \A v \in Worker : Commits(v, m)' => Commits(v, m) /\ wk'[v].id = wk[v].id
<1>1. wk \in [Worker -> WorkerType] /\ wk' = [wk EXCEPT ![w].pc = pc]
  BY DEF Types, TypeOK, Goto
<1>2. wk'[w].pc = pc /\ \A v \in Worker : v # w => wk'[v] = wk[v]
  BY <1>1 DEF WorkerType
<1> QED BY <1>2 DEF Commits

(* Steps that report nothing, and record no acceptance. *)
LEMMA LogQuiet ==
  ASSUME Types, Logs, NEW m \in Message, Logged(m),
         \/ events'[m] = events[m]
         \/ \E e : e.id = 0 /\ Grown(events[m], events'[m], e),
         accepted'[m] \in Nat, accepted'[m] >= accepted[m],
         \A w \in Worker : Commits(w, m)' => Commits(w, m) /\ wk'[w].id = wk[w].id,
         messages'[m].providerId \in {0, messages[m].providerId},
         messages'[m].status = messages[m].status \/ messages'[m].status \notin {"sent", "delivered"}
  PROVE  Logged(m)'
<1>1. accepted[m] \in Nat
  BY DEF Types
<1>2. ASSUME NEW i \in DOMAIN events'[m], events'[m][i].id # 0
      PROVE  i \in DOMAIN events[m] /\ events'[m][i] = events[m][i]
  <2>1. CASE events'[m] = events[m]
    BY <2>1
  <2>2. CASE \E e : e.id = 0 /\ Grown(events[m], events'[m], e)
    <3>1. PICK e : e.id = 0 /\ Grown(events[m], events'[m], e)
      BY <2>2
    <3>2. i # Len(events[m]) + 1
      BY <1>2, <3>1 DEF Grown
    <3>3. i \in 1..Len(events[m])
      BY <3>1, <3>2 DEF Grown
    <3> QED BY <3>1, <3>3 DEF Grown
  <2> QED BY <2>1, <2>2
<1>3. Issued(m)'
  <2>1. messages'[m].providerId \in 0..accepted'[m]
    BY <1>1 DEF Logged, Issued
  <2>2. ASSUME NEW i \in DOMAIN events'[m] PROVE events'[m][i].id \in 0..accepted'[m]
    <3>1. CASE events'[m][i].id = 0
      BY <3>1
    <3>2. CASE events'[m][i].id # 0
      <4>1. events'[m][i].id \in 0..accepted[m]
        BY <1>2, <3>2 DEF Logged, Issued
      <4> QED BY <1>1, <4>1
    <3> QED BY <3>1, <3>2
  <2> QED BY <2>1, <2>2 DEF Issued
<1>4. Pending(m)'
  <2>1. ASSUME NEW w \in Worker, Commits(w, m)'
        PROVE  /\ wk'[w].id \in 1..accepted'[m] /\ wk'[w].id # messages'[m].providerId
               /\ \A i \in DOMAIN events'[m] : IsReport(events[m][i])' => events'[m][i].id # wk'[w].id
    <3>1. Commits(w, m) /\ wk'[w].id = wk[w].id
      BY <2>1
    <3>2. /\ wk[w].id \in 1..accepted[m] /\ wk[w].id # messages[m].providerId
          /\ \A i \in DOMAIN events[m] : IsReport(events[m][i]) => events[m][i].id # wk[w].id
      BY <3>1 DEF Logged, Pending
    <3>3. wk'[w].id \in 1..accepted'[m] /\ wk'[w].id # messages'[m].providerId /\ wk'[w].id # 0
      BY <1>1, <3>1, <3>2
    <3>4. \A i \in DOMAIN events'[m] : IsReport(events[m][i])' => events'[m][i].id # wk'[w].id
      BY <1>2, <3>1, <3>2, <3>3 DEF IsReport
    <3> QED BY <3>3, <3>4
  <2>2. \A v, w \in Worker : Commits(v, m)' /\ Commits(w, m)' /\ wk'[v].id = wk'[w].id => v = w
    BY DEF Logged, Pending
  <2> QED BY <2>1, <2>2 DEF Pending
<1>5. Standing(m)'
  BY <1>2 DEF Logged, Standing, IsReport
<1>6. CountedOnce(m)'
  BY <1>2 DEF Logged, CountedOnce, IsReport
<1> QED BY <1>3, <1>4, <1>5, <1>6 DEF Logged

(* The provider takes the message: an id nobody has seen. *)
LEMMA LogAccepts ==
  ASSUME Types, Logs, NEW w \in Worker, ProviderAccepts(w), NEW m \in Message, m = wk[w].at, Logged(m)
  PROVE  Logged(m)'
<1>1. /\ messages' = messages /\ events' = events /\ wk[w].pc = "calling"
      /\ accepted' = [accepted EXCEPT ![m] = @ + 1]
      /\ wk' = [wk EXCEPT ![w].pc = "committing", ![w].id = accepted[m] + 1]
  BY DEF ProviderAccepts
<1>2. accepted[m] \in Nat /\ accepted'[m] = accepted[m] + 1 /\ wk \in [Worker -> WorkerType]
  BY <1>1 DEF Types, TypeOK
<1>3. /\ wk'[w].id = accepted[m] + 1
      /\ \A v \in Worker : v # w => wk'[v] = wk[v]
  BY <1>1, <1>2 DEF WorkerType
<1>4. Issued(m)'
  BY <1>1, <1>2 DEF Logged, Issued
<1>5. ASSUME NEW v \in Worker, Commits(v, m)'
      PROVE  /\ wk'[v].id \in 1..accepted'[m] /\ wk'[v].id # messages'[m].providerId
             /\ \A i \in DOMAIN events'[m] : IsReport(events[m][i])' => events'[m][i].id # wk'[v].id
             /\ v # w => Commits(v, m) /\ wk'[v].id = wk[v].id /\ wk'[v].id # wk'[w].id
  <2>1. CASE v = w
    <3>1. wk'[v].id = accepted[m] + 1 /\ wk'[v].id \in 1..accepted'[m]
      BY <1>2, <1>3, <2>1
    <3>2. messages[m].providerId \in 0..accepted[m] /\ \A i \in DOMAIN events[m] : events[m][i].id \in 0..accepted[m]
      BY DEF Logged, Issued
    <3>3. wk'[v].id # messages'[m].providerId /\ \A i \in DOMAIN events'[m] : events'[m][i].id # wk'[v].id
      BY <1>1, <1>2, <3>1, <3>2
    <3> QED BY <2>1, <3>1, <3>3
  <2>2. CASE v # w
    <3>1. Commits(v, m) /\ wk'[v].id = wk[v].id
      BY <1>3, <1>5, <2>2 DEF Commits
    <3>2. /\ wk[v].id \in 1..accepted[m] /\ wk[v].id # messages[m].providerId
          /\ \A i \in DOMAIN events[m] : IsReport(events[m][i]) => events[m][i].id # wk[v].id
      BY <3>1 DEF Logged, Pending
    <3> QED BY <1>1, <1>2, <1>3, <3>1, <3>2 DEF IsReport
  <2> QED BY <2>1, <2>2
<1>6. ASSUME NEW u \in Worker, NEW v \in Worker, Commits(u, m)', Commits(v, m)', wk'[u].id = wk'[v].id
      PROVE  u = v
  <2>1. u # w /\ v # w => u = v
    BY <1>5, <1>6 DEF Logged, Pending
  <2> QED BY <1>5, <1>6, <2>1
<1>7. Pending(m)'
  BY <1>5, <1>6 DEF Pending
<1>8. Standing(m)' /\ CountedOnce(m)'
  BY <1>1 DEF Logged, Standing, CountedOnce, IsReport
<1> QED BY <1>4, <1>7, <1>8 DEF Logged

(* The id is stamped on the row: nothing was reported of it yet. *)
LEMMA LogSent ==
  ASSUME Types, Logs, NEW w \in Worker, CommitSent(w), NEW m \in Message, m = wk[w].at, Logged(m)
  PROVE  Logged(m)'
<1> DEFINE id == wk[w].id
<1>1. /\ events' = Emit(events, m, "sent", id) /\ wk[w].pc = "committing"
      /\ messages' = [messages EXCEPT ![m].status = "sent", ![m].providerId = id]
      /\ accepted' = accepted /\ Goto(w, "returning")
  BY DEF CommitSent
<1>2. /\ accepted[m] \in Nat /\ wk \in [Worker -> WorkerType] /\ messages \in [Message -> RowType]
      /\ id \in Nat
  BY DEF Types, TypeOK, WorkerType
<1>3. messages'[m].providerId = id /\ messages'[m].status = "sent"
  BY <1>1, <1>2 DEF RowType
<1>4. /\ id \in 1..accepted[m] /\ id # messages[m].providerId
      /\ \A i \in DOMAIN events[m] : IsReport(events[m][i]) => events[m][i].id # id
      /\ Commits(w, m)
  BY <1>1 DEF Logged, Pending, Commits
<1>5. Grown(events[m], events'[m], Event("sent", id))
  BY <1>1, <1>2, Emits DEF Status
<1> DEFINE e == Event("sent", id)
<1>6. e.id = id /\ ~IsReport(e)
  BY DEF Event, IsReport, ReportStatus
<1> HIDE DEF e
<1>7. ASSUME NEW i \in DOMAIN events'[m]
      PROVE  \/ i \in DOMAIN events[m] /\ events'[m][i] = events[m][i]
             \/ events'[m][i] = e
  <2>1. i = Len(events[m]) + 1 \/ i \in 1..Len(events[m])
    BY <1>5, <1>7 DEF Grown
  <2> QED BY <1>5, <2>1 DEF Grown, e
<1>8. \A v \in Worker : Commits(v, m)' => Commits(v, m) /\ wk'[v].id = wk[v].id /\ v # w
  <2>1. \A v \in Worker : Commits(v, m)' => Commits(v, m) /\ wk'[v].id = wk[v].id
    BY <1>1, GotoCommits
  <2>2. ~Commits(w, m)'
    BY <1>1, <1>2 DEF Goto, Commits, WorkerType
  <2> QED BY <2>1, <2>2
<1> HIDE DEF id
<1>9. Issued(m)'
  BY <1>1, <1>2, <1>3, <1>4, <1>6, <1>7 DEF Logged, Issued
<1>10. Pending(m)'
  <2>1. ASSUME NEW v \in Worker, Commits(v, m)'
        PROVE  /\ wk'[v].id \in 1..accepted'[m] /\ wk'[v].id # messages'[m].providerId
               /\ \A i \in DOMAIN events'[m] : IsReport(events[m][i])' => events'[m][i].id # wk'[v].id
    <3>1. Commits(v, m) /\ wk'[v].id = wk[v].id /\ v # w
      BY <1>8, <2>1
    <3>2. /\ wk[v].id \in 1..accepted[m] /\ wk[v].id # id
          /\ \A i \in DOMAIN events[m] : IsReport(events[m][i]) => events[m][i].id # wk[v].id
      BY <1>4, <3>1 DEF Logged, Pending, id
    <3> QED BY <1>1, <1>3, <1>6, <1>7, <3>1, <3>2 DEF IsReport
  <2>2. \A u, v \in Worker : Commits(u, m)' /\ Commits(v, m)' /\ wk'[u].id = wk'[v].id => u = v
    BY <1>8 DEF Logged, Pending
  <2> QED BY <2>1, <2>2 DEF Pending
<1>11. Standing(m)'
  BY <1>3, <1>4, <1>6, <1>7 DEF Standing, IsReport
<1>12. CountedOnce(m)'
  BY <1>6, <1>7 DEF Logged, CountedOnce, IsReport
<1> QED BY <1>9, <1>10, <1>11, <1>12 DEF Logged

(* A report that matches the row: the only one of its id, or a reading     *)
(* after a delivery.                                                       *)
LEMMA LogReports ==
  ASSUME Types, Logs, NEW m \in Message, NEW id \in 1..accepted[m], NEW status \in ReportStatus,
         messages[m].providerId = id, messages[m].status \in From(status),
         messages' = [messages EXCEPT ![m].status = status],
         events' = Emit(events, m, status, id), wk' = wk, accepted' = accepted, Logged(m)
  PROVE  Logged(m)'
<1>1. /\ accepted[m] \in Nat /\ messages \in [Message -> RowType] /\ id \in Nat \ {0}
      /\ status \in Status
  BY DEF Types, TypeOK, ReportStatus, Status
<1>2. messages'[m].providerId = id /\ messages'[m].status = status
  BY <1>1 DEF RowType
<1> DEFINE e == Event(status, id)
<1>3. Grown(events[m], events'[m], e)
  BY <1>1, Emits
<1>4. e.id = id /\ e.type = status /\ IsReport(e)
  BY DEF Event, IsReport
<1> HIDE DEF e
<1>5. ASSUME NEW i \in DOMAIN events'[m]
      PROVE  /\ i \in Nat
             /\ \/ i \in DOMAIN events[m] /\ events'[m][i] = events[m][i]
                \/ i = Len(events[m]) + 1 /\ events'[m][i] = e
  <2>1. i = Len(events[m]) + 1 \/ i \in 1..Len(events[m])
    BY <1>3, <1>5 DEF Grown
  <2> QED BY <1>3, <2>1 DEF Grown
<1>6. ASSUME NEW i \in DOMAIN events[m], IsReport(events[m][i]), events[m][i].id = id
      PROVE  status = "read" /\ events[m][i].type = "delivered"
  BY <1>1, <1>6 DEF Logged, Standing, From
<1>7. Issued(m)'
  BY <1>1, <1>2, <1>4, <1>5 DEF Logged, Issued
<1>8. Pending(m)'
  <2>1. ASSUME NEW v \in Worker, Commits(v, m)'
        PROVE  /\ wk'[v].id \in 1..accepted'[m] /\ wk'[v].id # messages'[m].providerId
               /\ \A i \in DOMAIN events'[m] : IsReport(events[m][i])' => events'[m][i].id # wk'[v].id
    <3>1. Commits(v, m) /\ wk'[v].id = wk[v].id
      BY <2>1 DEF Commits
    <3>2. /\ wk[v].id \in 1..accepted[m] /\ wk[v].id # id
          /\ \A i \in DOMAIN events[m] : IsReport(events[m][i]) => events[m][i].id # wk[v].id
      BY <3>1 DEF Logged, Pending
    <3> QED BY <1>2, <1>4, <1>5, <3>1, <3>2 DEF IsReport
  <2>2. \A u, v \in Worker : Commits(u, m)' /\ Commits(v, m)' /\ wk'[u].id = wk'[v].id => u = v
    BY DEF Logged, Pending, Commits
  <2> QED BY <2>1, <2>2 DEF Pending
<1>9. Standing(m)'
  <2>1. ASSUME NEW i \in DOMAIN events'[m], IsReport(events[m][i])', events'[m][i].id = id
        PROVE  status # "sent" /\ (status = "delivered" => events'[m][i].type = "delivered")
    <3>1. status # "sent"
      BY DEF ReportStatus
    <3>2. CASE events'[m][i] = e
      BY <1>4, <3>1, <3>2
    <3>3. CASE i \in DOMAIN events[m] /\ events'[m][i] = events[m][i]
      BY <1>6, <2>1, <3>1, <3>3 DEF IsReport
    <3> QED BY <1>5, <3>2, <3>3
  <2> QED BY <1>2, <2>1 DEF Standing
<1>10. CountedOnce(m)'
  <2>1. ASSUME NEW i \in DOMAIN events'[m], NEW j \in DOMAIN events'[m],
               i < j, events'[m][i].id = events'[m][j].id, events'[m][i].id # 0,
               IsReport(events[m][i])', IsReport(events[m][j])'
        PROVE  events'[m][i].type = "delivered" /\ events'[m][j].type = "read"
    <3>1. i \in DOMAIN events[m] /\ events'[m][i] = events[m][i]
      <4>1. \A n \in DOMAIN events'[m] : n <= Len(events[m]) + 1
        BY <1>3 DEF Grown
      <4>2. i # Len(events[m]) + 1
        BY <1>3, <1>5, <2>1, <4>1 DEF Grown
      <4> QED BY <1>5, <4>2
    <3>2. CASE j \in DOMAIN events[m] /\ events'[m][j] = events[m][j]
      BY <2>1, <3>1, <3>2 DEF Logged, CountedOnce, IsReport
    <3>3. CASE events'[m][j] = e
      BY <1>4, <1>6, <2>1, <3>1, <3>3 DEF IsReport
    <3> QED BY <1>5, <3>2, <3>3
  <2> QED BY <2>1 DEF CountedOnce
<1> QED BY <1>7, <1>8, <1>9, <1>10 DEF Logged

Calm == \A m \in Message : \A w \in Worker : Commits(w, m)' => Commits(w, m) /\ wk'[w].id = wk[w].id
AllLogged == Logs /\ \A m \in Message : Logged(m)

(* A step that leaves rows and log alone. *)
LEMMA LogStays ==
  ASSUME Types, AllLogged, events' = events, messages' = messages, Calm,
         \A m \in Message : accepted'[m] \in Nat /\ accepted'[m] >= accepted[m]
  PROVE  AllLogged'
<1>1. ASSUME NEW m \in Message PROVE Logged(m)'
  <2>1. \A w \in Worker : Commits(w, m)' => Commits(w, m) /\ wk'[w].id = wk[w].id
    BY DEF Calm
  <2> QED BY <2>1, LogQuiet DEF AllLogged
<1>2. Logs'
  BY DEF AllLogged, Logs
<1> QED BY <1>1, <1>2 DEF AllLogged

(* A step that logs something that is not a provider's. *)
LEMMA LogNotes ==
  ASSUME Types, AllLogged, NEW k \in Message, NEW type \in Status \cup {"fallback"},
         events' = Emit(events, k, type, 0), Calm, accepted' = accepted,
         \A m \in Message : /\ messages'[m].providerId \in {0, messages[m].providerId}
                            /\ \/ messages'[m].status = messages[m].status
                               \/ messages'[m].status \notin {"sent", "delivered"}
  PROVE  AllLogged'
<1>1. /\ Logs' /\ Grown(events[k], events'[k], Event(type, 0))
      /\ \A m \in Message : m # k => events'[m] = events[m]
  BY Emits DEF AllLogged
<1>2. Event(type, 0).id = 0
  BY DEF Event
<1>3. ASSUME NEW m \in Message PROVE Logged(m)'
  <2>1. \A w \in Worker : Commits(w, m)' => Commits(w, m) /\ wk'[w].id = wk[w].id
    BY DEF Calm
  <2>2. events'[m] = events[m] \/ \E e : e.id = 0 /\ Grown(events[m], events'[m], e)
    BY <1>1, <1>2
  <2>3. accepted'[m] \in Nat /\ accepted'[m] >= accepted[m]
    BY DEF Types
  <2> QED BY <2>1, <2>2, <2>3, LogQuiet DEF AllLogged
<1> QED BY <1>1, <1>3 DEF AllLogged

(* One case per action.                                                    *)
LEMMA LogStep ==
  ASSUME Types, Started, AllLogged, [Next]_vars
  PROVE  AllLogged'
<1> USE DEF env
<1>a. /\ TypeOK /\ messages \in [Message -> RowType] /\ accepted \in [Message -> Nat]
      /\ wk \in [Worker -> WorkerType]
  BY DEF Types, TypeOK
<1>b. ASSUME NEW w \in Worker, NEW pc, pc # "committing", Goto(w, pc) PROVE Calm
  BY <1>b, GotoCommits DEF Calm
<1>c. accepted' = accepted => \A m \in Message : accepted'[m] \in Nat /\ accepted'[m] >= accepted[m]
  BY <1>a
<1>d. wk' = wk => Calm
  BY DEF Calm, Commits
<1>e. \A m \in Message : messages[m].status \in Status
  BY <1>a DEF RowType
<1>f. ASSUME NEW k, NEW row \in RowType, Adds(k, row), Calm, accepted' = accepted PROVE AllLogged'
  <2>1. /\ k \in Message /\ events' = Emit(events, k, row.status, 0) /\ row.providerId = 0
        /\ messages'[k] = row /\ row.status \in {"blocked", "queued"}
        /\ \A m \in Message : m # k => messages'[m] = messages[m]
    BY <1>f, AddsKeeps DEF Adds
  <2>2. row.status \in Status \cup {"fallback"}
    BY <2>1 DEF Status
  <2>3. \A m \in Message : /\ messages'[m].providerId \in {0, messages[m].providerId}
                           /\ \/ messages'[m].status = messages[m].status
                              \/ messages'[m].status \notin {"sent", "delivered"}
    BY <2>1
  <2> QED BY <1>f, <2>1, <2>2, <2>3, LogNotes
<1>1. ASSUME NEW k \in Message, SendIntent(k) PROVE AllLogged'
  <2>1. PICK row \in RowType : Adds(k, row)
    BY <1>1, IntentAdds
  <2>2. wk' = wk /\ accepted' = accepted
    BY <1>1 DEF SendIntent
  <2> QED BY <1>d, <1>f, <2>1, <2>2
<1>2. ASSUME NEW w \in Worker, FallBack(w) PROVE AllLogged'
  <2>1. PICK k \in Unused, row \in RowType : Adds(k, row)
    BY <1>2, FallBackAdds
  <2>2. Goto(w, "announcing") /\ accepted' = accepted
    BY <1>2 DEF FallBack
  <2>3. Calm
    BY <1>b, <2>2
  <2> QED BY <1>f, <2>1, <2>2, <2>3
<1>3. ASSUME NEW w \in Worker,
             Read(w) \/ ProviderRefuses(w) \/ FallBackThrows(w) \/ TransactionFails(w)
      PROVE  AllLogged'
  <2>1. events' = events /\ messages' = messages /\ accepted' = accepted
    BY <1>3 DEF Read, ProviderRefuses, FallBackThrows, TransactionFails
  <2>2. \E pc : pc # "committing" /\ Goto(w, pc)
    <3>1. CASE Read(w)
      BY <3>1 DEF Read
    <3>2. CASE ProviderRefuses(w)
      BY <3>2 DEF ProviderRefuses
    <3>3. CASE FallBackThrows(w) \/ TransactionFails(w)
      BY <3>3 DEF FallBackThrows, TransactionFails
    <3> QED BY <1>3, <3>1, <3>2, <3>3
  <2>3. Calm
    BY <1>b, <2>2
  <2> QED BY <1>c, <2>1, <2>3, LogStays
<1>4. ASSUME NEW w \in Worker, ProviderAccepts(w) PROVE AllLogged'
  <2>1. /\ messages' = messages /\ events' = events /\ wk[w].pc = "calling"
        /\ accepted' = [accepted EXCEPT ![wk[w].at] = @ + 1]
        /\ wk' = [wk EXCEPT ![w].pc = "committing", ![w].id = accepted[wk[w].at] + 1]
    BY <1>4 DEF ProviderAccepts
  <2>2. /\ wk'[w].at = wk[w].at /\ \A v \in Worker : v # w => wk'[v] = wk[v]
        /\ \A m \in Message : accepted'[m] \in Nat /\ accepted'[m] >= accepted[m]
    BY <1>a, <2>1 DEF WorkerType
  <2>3. ASSUME NEW m \in Message PROVE Logged(m)'
    <3>1. CASE m = wk[w].at
      BY <1>4, <3>1, LogAccepts DEF AllLogged
    <3>2. CASE m # wk[w].at
      <4>1. \A v \in Worker : Commits(v, m)' => Commits(v, m) /\ wk'[v].id = wk[v].id
        BY <2>2, <3>2 DEF Commits
      <4> QED BY <2>1, <2>2, <4>1, LogQuiet DEF AllLogged
    <3> QED BY <3>1, <3>2
  <2> QED BY <2>1, <2>3 DEF AllLogged, Logs
<1>5. ASSUME NEW w \in Worker, AnswerLost(w) PROVE AllLogged'
  <2>1. /\ messages' = messages /\ events' = events
        /\ accepted' = [accepted EXCEPT ![wk[w].at] = @ + 1]
        /\ Goto(w, IF Final(w) THEN "failing" ELSE "throwing")
    BY <1>5 DEF AnswerLost
  <2>2. \A m \in Message : accepted'[m] \in Nat /\ accepted'[m] >= accepted[m]
    BY <1>a, <2>1
  <2>3. Calm
    BY <1>b, <2>1
  <2> QED BY <2>1, <2>2, <2>3, LogStays
<1>6. ASSUME NEW w \in Worker, CommitSent(w) PROVE AllLogged'
  <2>1. /\ events' = Emit(events, wk[w].at, "sent", wk[w].id) /\ wk[w].pc = "committing"
        /\ messages' = [messages EXCEPT ![wk[w].at].status = "sent", ![wk[w].at].providerId = wk[w].id]
        /\ accepted' = accepted /\ Goto(w, "returning")
    BY <1>6 DEF CommitSent
  <2>2. wk[w].at \in Message /\ wk[w].id \in Nat /\ "sent" \in Status
    BY <1>a, <2>1 DEF TypeOK, WorkerType, Status
  <2>3. Logs' /\ \A k \in Message : k # wk[w].at => events'[k] = events[k]
    BY <2>1, <2>2, Emits DEF AllLogged
  <2>4. \A k \in Message : k # wk[w].at => messages'[k] = messages[k]
    BY <2>1, <2>2, RowMoves
  <2>5. Calm
    BY <1>b, <2>1
  <2>6. ASSUME NEW m \in Message PROVE Logged(m)'
    <3>1. CASE m = wk[w].at
      BY <1>6, <3>1, LogSent DEF AllLogged
    <3>2. CASE m # wk[w].at
      BY <1>c, <2>1, <2>3, <2>4, <2>5, <3>2, LogQuiet DEF AllLogged, Calm
    <3> QED BY <3>1, <3>2
  <2> QED BY <2>3, <2>6 DEF AllLogged
<1>7. ASSUME NEW w \in Worker, FailMessage(w) PROVE AllLogged'
  <2>1. /\ events' = Emit(events, wk[w].at, "failed", 0) /\ wk[w].pc = "failing"
        /\ messages' = [messages EXCEPT ![wk[w].at].status = "failed"]
        /\ accepted' = accepted
        /\ Goto(w, IF messages[wk[w].at].fallback = <<>> THEN "throwing" ELSE "fallingback")
    BY <1>7 DEF FailMessage
  <2>2. wk[w].at \in Message /\ "failed" \in Status
    BY <1>a, <2>1 DEF TypeOK, Status
  <2>3. \A m \in Message : /\ messages'[m].providerId \in {0, messages[m].providerId}
                           /\ \/ messages'[m].status = messages[m].status
                              \/ messages'[m].status \notin {"sent", "delivered"}
    BY <1>a, <2>1, <2>2 DEF RowType
  <2>4. Calm
    BY <1>b, <2>1
  <2> QED BY <2>1, <2>2, <2>3, <2>4, LogNotes
<1>8. ASSUME NEW w \in Worker, Announce(w) PROVE AllLogged'
  <2>1. /\ events' = Emit(events, wk[w].at, "fallback", 0) /\ wk[w].pc = "announcing"
        /\ messages' = messages /\ accepted' = accepted /\ Goto(w, "throwing")
    BY <1>8 DEF Announce
  <2>2. wk[w].at \in Message
    BY <1>a, <2>1 DEF TypeOK
  <2>3. Calm
    BY <1>b, <2>1
  <2> QED BY <2>1, <2>2, <2>3, LogNotes
<1>9. ASSUME NEW w \in Worker, Crash(w) \/ Return(w) PROVE AllLogged'
  <2>1. /\ events' = events /\ messages' = messages /\ accepted' = accepted
        /\ wk' = [wk EXCEPT ![w] = IdleWorker]
    BY <1>9 DEF Crash, Return
  <2>2. Calm
    BY <1>a, <2>1, IdleType DEF Calm, Commits
  <2> QED BY <1>c, <2>1, <2>2, LogStays
<1>10. ASSUME NEW w \in Worker, NEW k \in Message, Fetch(w, k) PROVE AllLogged'
  <2>1. /\ events' = events /\ messages' = messages /\ accepted' = accepted
        /\ wk' = [wk EXCEPT ![w] = [pc |-> "reading", at |-> k, fetch |-> job[k].fetches + 1, id |-> 0]]
    BY <1>10 DEF Fetch
  <2>2. Calm
    BY <1>a, <2>1 DEF Calm, Commits
  <2> QED BY <1>c, <2>1, <2>2, LogStays
<1>11. ASSUME NEW k \in Message, NEW id \in 1..accepted[k], NEW status \in ReportStatus,
              Report(k, id, status)
       PROVE  AllLogged'
  <2>1. wk' = wk /\ accepted' = accepted
    BY <1>11 DEF Report
  <2>2. CASE messages' = messages /\ events' = events
    BY <1>c, <1>d, <2>1, <2>2, LogStays
  <2>3. CASE /\ messages[k].providerId = id /\ messages[k].status \in From(status)
             /\ messages' = [messages EXCEPT ![k].status = status]
             /\ events' = Emit(events, k, status, id)
    <3>1. status \in Status /\ id \in Nat
      BY <1>a DEF ReportStatus, Status
    <3>2. Logs' /\ \A m \in Message : m # k => events'[m] = events[m]
      BY <2>3, <3>1, Emits DEF AllLogged
    <3>3. \A m \in Message : m # k => messages'[m] = messages[m]
      BY <2>3, <3>1, RowMoves
    <3>4. ASSUME NEW m \in Message PROVE Logged(m)'
      <4>1. CASE m = k
        BY <2>1, <2>3, <4>1, LogReports DEF AllLogged
      <4>2. CASE m # k
        BY <1>c, <1>d, <2>1, <3>2, <3>3, <4>2, LogQuiet DEF AllLogged, Calm
      <4> QED BY <4>1, <4>2
    <3> QED BY <3>2, <3>4 DEF AllLogged
  <2> QED BY <1>11, <2>2, <2>3 DEF Report
<1>12. CASE /\ wk' = wk /\ messages' = messages /\ events' = events /\ accepted' = accepted
  BY <1>c, <1>d, <1>12, LogStays
<1>13. ASSUME NEW k \in Message, ExpireDead(k) \/ ExpireRunning(k) PROVE AllLogged'
  BY <1>12, <1>13 DEF ExpireDead, ExpireRunning, Expire
<1>14. ASSUME NEW c \in Channel, Settings(c) PROVE AllLogged'
  BY <1>12, <1>14 DEF Settings, ConsentRequest, MessagingRequest, Suppress, RecordConsent, WindowTurns,
                      UpsertTemplate, StoreChannelConfig, Edit
<1>15. CASE UNCHANGED vars
  BY <1>12, <1>15 DEF vars
<1> QED
  BY <1>1, <1>2, <1>3, <1>4, <1>5, <1>6, <1>7, <1>8, <1>9, <1>10, <1>11, <1>13, <1>14, <1>15
  DEF Next, ProcessSend, Callback

LEMMA InitLogged == Init => AllLogged
<1> SUFFICES ASSUME Init PROVE AllLogged
  OBVIOUS
<1>1. Logs
  BY DEF Init, Logs
<1>2. ASSUME NEW m \in Message PROVE Logged(m)
  <2>1. events[m] = <<>> /\ accepted[m] = 0 /\ messages[m].providerId = 0
    BY DEF Init, NoRow
  <2>2. \A w \in Worker : ~Commits(w, m)
    BY DEF Init, IdleWorker, Commits
  <2> QED BY <2>1, <2>2 DEF Logged, Issued, Pending, Standing, CountedOnce
<1> QED BY <1>1, <1>2 DEF AllLogged

(* The log holds two reports of one provider id only where a delivery is   *)
(* followed by a reading, however often, late and out of order the reports *)
(* come, and whatever retries, crashes and lost answers do to the row.     *)
THEOREM ReportsSafe == Spec => []ReportsCountOnce
<1>1. Init => Types /\ Started /\ AllLogged
  BY InitTypes, InitLogged
<1>2. Types /\ Started /\ AllLogged /\ [Next]_vars => Types' /\ Started' /\ AllLogged'
  BY NextTypes, LogStep
<1>3. AllLogged => ReportsCountOnce
  BY DEF AllLogged, Logged, CountedOnce, IsReport, ReportsCountOnce
<1> QED BY <1>1, <1>2, <1>3, PTL DEF Spec

---------------------------------------------------------------------------
(* One intent as a chain of messages *)

Late == {"announcing", "returning", "throwing"}

(* Numbers are given out in order; a child comes after its parent; what is *)
(* chosen is not on the list to fall back on; nobody sends an unused row.  *)
Rows ==
  /\ \A m \in Ids : /\ 1..m \subseteq Ids /\ messages[m].parent < m
                    /\ messages[m].channel \notin Range(messages[m].fallback)
  /\ \A m \in Message \ Ids : messages[m].parent = 0 /\ accepted[m] = 0

(* Executions of one message are told apart by the attempt they are, and a *)
(* message that has been continued has used its last one up.               *)
Fetches(m) ==
  /\ \A w \in Worker : Works(w, m) => wk[w].fetch \in 1..job[m].fetches
  /\ \A v, w \in Worker : Works(v, m) /\ Works(w, m) /\ wk[v].fetch = wk[w].fetch => v = w
  /\ Children(m) # {} =>
       /\ job[m].fetches = RetryLimit + 1
       /\ \A w \in Worker : Works(w, m) /\ Final(w) => wk[w].pc \in Late

(* r leads every message to the intent it continues. *)
Leads(r) ==
  /\ r \in [Message -> Message]
  /\ \A m \in Message : r[m] = IF messages[m].parent = 0 THEN m ELSE r[messages[m].parent]

(* Of two messages of one chain the earlier has been continued, and the    *)
(* later is on a channel of its list, with a part of the list left.        *)
Ordered(r) ==
  /\ \A m \in Ids : r[m] \in Ids
  /\ \A j, k \in Ids : j < k /\ r[j] = r[k] =>
       /\ Children(j) # {}
       /\ messages[k].channel \in Range(messages[j].fallback)
       /\ Range(messages[k].fallback) \subseteq Range(messages[j].fallback)

Joined == Rows /\ (\A m \in Message : Fetches(m)) /\ \E r : Leads(r) /\ Ordered(r)

(* A step keeps the place of a row in its chain. *)
Keeps(m) ==
  /\ messages'[m].parent = messages[m].parent /\ messages'[m].channel = messages[m].channel
  /\ messages'[m].fallback = messages[m].fallback
  /\ messages'[m].status = "none" <=> messages[m].status = "none"

(* A step starts no execution of m, and takes none back. *)
Steady(m) ==
  /\ job'[m].fetches = job[m].fetches
  /\ \A w \in Worker : Works(w, m)' =>
       /\ Works(w, m) /\ wk'[w].fetch = wk[w].fetch
       /\ wk[w].pc \in Late => wk'[w].pc \in Late

(* A change of status keeps every place.                                   *)
LEMMA RowKeeps ==
  ASSUME Types, NEW m \in Message, NEW status, NEW id, status # "none", messages[m].status # "none",
         \/ messages' = [messages EXCEPT ![m].status = status]
         \/ messages' = [messages EXCEPT ![m].status = status, ![m].providerId = id]
  PROVE  \A k \in Message : Keeps(k)
<1> DEFINE x == [messages[m] EXCEPT !.status = status]
           y == [messages[m] EXCEPT !.status = status, !.providerId = id]
<1>1. messages \in [Message -> RowType] /\ messages[m] \in RowType
  BY DEF Types, TypeOK
<1>2. /\ x.status = status /\ x.fallback = messages[m].fallback /\ x.channel = messages[m].channel
      /\ x.parent = messages[m].parent
      /\ y.status = status /\ y.fallback = messages[m].fallback /\ y.channel = messages[m].channel
      /\ y.parent = messages[m].parent
  BY <1>1 DEF RowType
<1>3. messages' = [messages EXCEPT ![m] = x] \/ messages' = [messages EXCEPT ![m] = y]
  BY <1>1
<1> HIDE DEF x, y
<1> QED BY <1>1, <1>2, <1>3 DEF Keeps

(* What starts no execution of m keeps the account of them.                *)
LEMMA FetchesSteady ==
  ASSUME NEW m \in Message, Fetches(m), Steady(m), Children(m)' # {} => Children(m) # {}
  PROVE  Fetches(m)'
<1>1. \A w \in Worker : Works(w, m)' => wk'[w].fetch \in 1..job'[m].fetches
  BY DEF Fetches, Steady
<1>2. \A v, w \in Worker : Works(v, m)' /\ Works(w, m)' /\ wk'[v].fetch = wk'[w].fetch => v = w
  BY DEF Fetches, Steady
<1>3. ASSUME Children(m)' # {}
      PROVE  /\ job'[m].fetches = RetryLimit + 1
             /\ \A w \in Worker : Works(w, m)' /\ Final(w)' => wk'[w].pc \in Late
  BY <1>3 DEF Fetches, Steady, Final
<1> QED BY <1>1, <1>2, <1>3 DEF Fetches

(* Where every row keeps its place, so do the children.                    *)
LEMMA KeepsChildren ==
  ASSUME \A m \in Message : Keeps(m)
  PROVE  Ids' = Ids /\ \A m : Children(m)' = Children(m)
<1>1. Ids' = Ids
  BY DEF Keeps, Ids
<1> QED BY <1>1 DEF Keeps, Children, Ids

(* A step that adds no row. *)
LEMMA JoinedKeeps ==
  ASSUME Types, Joined, \A m \in Message : Keeps(m),
         \A m \in Message : Steady(m) \/ Fetches(m)',
         \A m \in Message \ Ids : accepted'[m] = accepted[m]
  PROVE  Joined'
<1>1. Ids' = Ids /\ \A m : Children(m)' = Children(m)
  BY KeepsChildren
<1>2. Rows'
  <2>1. ASSUME NEW m \in Ids'
        PROVE /\ 1..m \subseteq Ids' /\ messages'[m].parent < m
              /\ messages'[m].channel \notin Range(messages'[m].fallback)
    BY <1>1, <2>1 DEF Joined, Rows, Keeps, Ids
  <2>2. ASSUME NEW m \in Message \ Ids' PROVE messages'[m].parent = 0 /\ accepted'[m] = 0
    BY <1>1, <2>2 DEF Joined, Rows, Keeps
  <2> QED BY <2>1, <2>2 DEF Rows
<1>3. ASSUME NEW m \in Message PROVE Fetches(m)'
  <2>1. CASE Steady(m)
    BY <1>1, <2>1, FetchesSteady DEF Joined
  <2> QED BY <2>1
<1>4. PICK r : Leads(r) /\ Ordered(r)
  BY DEF Joined
<1>5. Leads(r)'
  BY <1>4 DEF Leads, Keeps
<1>6. Ordered(r)'
  <2>1. \A m \in Ids' : r[m] \in Ids'
    BY <1>1, <1>4 DEF Ordered
  <2>2. ASSUME NEW j \in Ids', NEW k \in Ids', j < k, r[j] = r[k]
        PROVE  /\ Children(j)' # {}
               /\ messages'[k].channel \in Range(messages'[j].fallback)
               /\ Range(messages'[k].fallback) \subseteq Range(messages'[j].fallback)
    <3>1. j \in Ids /\ k \in Ids /\ j \in Message /\ k \in Message
      BY <1>1 DEF Ids
    <3>2. /\ Children(j) # {}
          /\ messages[k].channel \in Range(messages[j].fallback)
          /\ Range(messages[k].fallback) \subseteq Range(messages[j].fallback)
      BY <1>4, <2>2, <3>1 DEF Ordered
    <3> QED BY <1>1, <3>1, <3>2 DEF Keeps
  <2> QED BY <2>1, <2>2 DEF Ordered
<1> QED BY <1>2, <1>3, <1>5, <1>6 DEF Joined

(* What a new row does to the set of rows and their children. *)
LEMMA AddsRow ==
  ASSUME Types, Started, Joined, NEW k, NEW row \in RowType, Adds(k, row), row.parent < k,
         row.parent # 0 => row.parent \in Ids
  PROVE  /\ k \in Message \ Ids /\ k \in Nat /\ Ids' = Ids \cup {k} /\ 1..k \subseteq Ids' /\ k \notin Children(k)
         /\ \A j \in Ids : j < k
         /\ \A m \in Message : Children(m)' = Children(m) \cup (IF m = row.parent THEN {k} ELSE {})
         /\ Children(k)' = {}
         /\ \A m \in Ids : messages'[m] = messages[m]
         /\ messages'[k] = row
<1>1. /\ k \in Message \ Ids /\ \A j \in 1..(k - 1) : j \in Ids
      /\ messages'[k] = row /\ \A m \in Message : m # k => messages'[m] = messages[m]
      /\ row.status \in {"blocked", "queued"}
  BY AddsKeeps DEF Adds, Unused
<1>2. k \in Nat /\ Ids \subseteq Message /\ Message \subseteq Nat
  BY <1>1, BoundsAssumption DEF Message, Ids
<1>3. Ids' = Ids \cup {k}
  BY <1>1 DEF Ids
<1>4. 1..k \subseteq Ids'
  <2>1. ASSUME NEW j \in 1..k PROVE j = k \/ j \in 1..(k - 1)
    BY <1>2
  <2> QED BY <1>1, <1>3, <2>1
<1>5. ASSUME NEW j \in Ids PROVE j < k
  <2>1. j \in Nat /\ 1..j \subseteq Ids
    BY <1>2 DEF Joined, Rows
  <2>2. k >= 1
    BY <1>1, BoundsAssumption DEF Message
  <2> QED BY <1>1, <1>2, <2>1, <2>2
<1>6. \A m \in Message : Children(m)' = Children(m) \cup (IF m = row.parent THEN {k} ELSE {})
  BY <1>1, <1>2, <1>3 DEF Children
<1>7. k \notin Children(k) /\ Children(k) = {}
  <2>1. ASSUME NEW j \in Children(k) PROVE FALSE
    <3>1. j \in Ids /\ messages[j].parent = k /\ messages[j].parent < j
      BY <2>1 DEF Children, Joined, Rows
    <3> QED BY <1>2, <1>5, <3>1
  <2> QED BY <2>1
<1>8. Children(k)' = {}
  BY <1>1, <1>2, <1>6, <1>7
<1> QED BY <1>1, <1>2, <1>3, <1>4, <1>5, <1>6, <1>7, <1>8

(* A new row keeps the order of the rows.                                  *)
LEMMA AddsRows ==
  ASSUME Types, Started, Joined, NEW k, NEW row \in RowType, Adds(k, row), row.parent < k,
         row.parent # 0 => row.parent \in Ids, accepted' = accepted
  PROVE  Rows'
<1>1. /\ k \in Message \ Ids /\ Ids' = Ids \cup {k} /\ 1..k \subseteq Ids'
      /\ \A m \in Ids : messages'[m] = messages[m]
      /\ messages'[k] = row
  BY AddsRow
<1>2. row.channel \notin Range(row.fallback)
  <2>1. CASE row.fallback = <<>>
    BY <2>1 DEF Range
  <2>2. CASE row.fallback # <<>>
    BY <2>2 DEF Adds
  <2> QED BY <2>1, <2>2
<1>3. ASSUME NEW m \in Ids'
      PROVE /\ 1..m \subseteq Ids' /\ messages'[m].parent < m
            /\ messages'[m].channel \notin Range(messages'[m].fallback)
  <2>1. CASE m = k
    BY <1>1, <1>2, <2>1
  <2>2. CASE m # k
    <3>1. m \in Ids
      BY <1>1, <2>2
    <3>2. /\ 1..m \subseteq Ids /\ messages[m].parent < m
          /\ messages[m].channel \notin Range(messages[m].fallback)
      BY <3>1 DEF Joined, Rows
    <3> QED BY <1>1, <3>1, <3>2
  <2> QED BY <2>1, <2>2
<1>4. ASSUME NEW m \in Message \ Ids' PROVE messages'[m].parent = 0 /\ accepted'[m] = 0
  <2>1. m \in Message \ Ids /\ m # k
    BY <1>1
  <2>2. messages'[m] = messages[m]
    BY <2>1, AddsKeeps
  <2> QED BY <2>1, <2>2 DEF Joined, Rows
<1> QED BY <1>3, <1>4 DEF Rows

(* A new intent: a chain of its own. *)
LEMMA JoinedIntent ==
  ASSUME Types, Started, Joined, NEW k, NEW row \in RowType, Adds(k, row), row.parent = 0,
         accepted' = accepted, wk' = wk
  PROVE  Joined' /\ \A m \in Message : Children(m)' = Children(m)
<1>1. /\ k \in Message \ Ids /\ k \in Nat /\ Ids' = Ids \cup {k} /\ \A j \in Ids : j < k
      /\ \A m \in Message : Children(m)' = Children(m)
      /\ Children(k)' = {}
      /\ \A m \in Ids : messages'[m] = messages[m]
      /\ messages'[k] = row
  <2>1. k \in Message
    BY AddsKeeps
  <2>2. row.parent < k /\ \A m \in Message : m # row.parent
    BY <2>1, BoundsAssumption DEF Message
  <2>3. /\ k \in Message \ Ids /\ k \in Nat /\ Ids' = Ids \cup {k} /\ \A j \in Ids : j < k
        /\ \A m \in Message : Children(m)' = Children(m) \cup (IF m = row.parent THEN {k} ELSE {})
        /\ Children(k)' = {}
        /\ \A m \in Ids : messages'[m] = messages[m]
        /\ messages'[k] = row
    BY <2>2, AddsRow
  <2>4. \A m \in Message : Children(m)' = Children(m)
    BY <2>2, <2>3
  <2> QED BY <2>3, <2>4
<1>2. \A m \in Message : m # k => messages'[m] = messages[m] /\ job'[m] = job[m]
  BY AddsKeeps
<1>3. Rows'
  <2>1. row.parent < k
    BY <1>1, BoundsAssumption DEF Message
  <2> QED BY <2>1, AddsRows
<1>4. ASSUME NEW m \in Message PROVE Fetches(m)'
  <2>1. CASE m = k
    <3>1. \A w \in Worker : ~Works(w, m)'
      BY <2>1, AddsKeeps DEF Works
    <3> QED BY <1>1, <2>1, <3>1 DEF Fetches
  <2>2. CASE m # k
    <3>1. Steady(m)
      BY <1>2, <2>2 DEF Steady, Works
    <3> QED BY <1>1, <3>1, FetchesSteady DEF Joined
  <2> QED BY <2>1, <2>2
<1>5. PICK r : Leads(r) /\ Ordered(r)
  BY DEF Joined
<1>6. messages[k].parent = 0 /\ r[k] = k
  BY <1>1, <1>5 DEF Joined, Rows, Leads
<1>7. Leads(r)'
  BY <1>1, <1>2, <1>5, <1>6 DEF Leads
<1>8. Ordered(r)'
  <2>1. \A m \in Ids' : r[m] \in Ids'
    BY <1>1, <1>5, <1>6 DEF Ordered
  <2>2. ASSUME NEW i \in Ids', NEW j \in Ids', i < j, r[i] = r[j]
        PROVE  /\ Children(i)' # {}
               /\ messages'[j].channel \in Range(messages'[i].fallback)
               /\ Range(messages'[j].fallback) \subseteq Range(messages'[i].fallback)
    <3>1. i # k /\ j # k
      BY <1>1, <1>5, <1>6, <2>2 DEF Ordered, Ids, Message
    <3>2. i \in Ids /\ j \in Ids /\ i \in Message
      BY <1>1, <3>1 DEF Ids
    <3>3. /\ Children(i) # {}
          /\ messages[j].channel \in Range(messages[i].fallback)
          /\ Range(messages[j].fallback) \subseteq Range(messages[i].fallback)
      BY <1>5, <2>2, <3>2 DEF Ordered
    <3> QED BY <1>1, <3>2, <3>3
  <2> QED BY <2>1, <2>2 DEF Ordered
<1> QED BY <1>1, <1>3, <1>4, <1>7, <1>8 DEF Joined

(* A list, its head and what is left of it.                                *)
LEMMA RestOf ==
  ASSUME NEW s \in ChannelLists, s # <<>>
  PROVE  Head(s) \in Range(s) /\ Range(Tail(s)) \subseteq Range(s)
<1>1. PICK n \in 0..Cardinality(Channel) : s \in [1..n -> Channel]
  BY DEF ChannelLists
<1>2. Cardinality(Channel) \in Nat
  BY ChannelAssumption, FS_CardinalityType
<1>3. s \in Seq(Channel) /\ Len(s) = n /\ n \in Nat \ {0}
  BY <1>1, <1>2
<1>4. /\ Head(s) = s[1] /\ DOMAIN Tail(s) = 1..(n - 1) /\ DOMAIN s = 1..n
      /\ \A i \in 1..(n - 1) : Tail(s)[i] = s[i + 1] /\ i + 1 \in 1..n
      /\ 1 \in 1..n
  BY <1>1, <1>3
<1> QED BY <1>4 DEF Range

(* The next message of a chain.  Only the last attempt falls back, and only *)
(* where no other has: so what it continues is the last of its chain.       *)
LEMMA JoinedNext ==
  ASSUME Types, Started, Joined, NEW w \in Worker, wk[w].pc = "fallingback", Goto(w, "announcing"),
         NEW p, p = wk[w].at,
         NEW k, NEW row \in RowType, Adds(k, row), Continues(row, p), accepted' = accepted
  PROVE  /\ Joined' /\ Children(p) = {} /\ k \in Children(p)'
         /\ \A m \in Message : m # p => Children(m)' = Children(m)
<1>a. TypeOK /\ wk \in [Worker -> WorkerType] /\ messages \in [Message -> RowType] /\ job \in [Message -> JobType]
  BY DEF Types, TypeOK
<1>0. p \in Message /\ p \in Ids /\ Final(w) /\ Works(w, p) /\ messages[p].fallback # <<>>
  BY <1>a DEF TypeOK, Started, Ids, Works
<1>1. /\ k \in Message \ Ids /\ k \in Nat /\ Ids' = Ids \cup {k} /\ \A j \in Ids : j < k
      /\ \A m \in Message : Children(m)' = Children(m) \cup (IF m = row.parent THEN {k} ELSE {})
      /\ Children(k)' = {}
      /\ \A m \in Ids : messages'[m] = messages[m]
      /\ messages'[k] = row
      /\ row.parent = p /\ p < k
  <2>1. k \in Unused /\ row.parent = p
    BY DEF Adds, Continues
  <2>2. p < k
    <3>1. p \in Nat /\ k \in Nat /\ k >= 1
      BY <1>0, <2>1, BoundsAssumption DEF Unused, Message
    <3>2. k \notin Ids /\ k \notin 1..p
      BY <1>0, <2>1 DEF Joined, Rows, Unused
    <3> QED BY <3>1, <3>2
  <2> QED BY <1>0, <2>1, <2>2, AddsRow
<1>2. \A m \in Message : m # k => messages'[m] = messages[m] /\ job'[m] = job[m]
  BY AddsKeeps
<1>3. Rows'
  BY <1>0, <1>1, AddsRows
<1>4. /\ wk'[w].pc = "announcing" /\ wk'[w].at = p /\ wk'[w].fetch = wk[w].fetch
      /\ \A v \in Worker : v # w => wk'[v] = wk[v]
  BY <1>a DEF Goto, WorkerType
<1>5. Children(p) = {}
  BY <1>0 DEF Joined, Fetches, Late
<1>6. wk[w].fetch = RetryLimit + 1 /\ job[p].fetches = RetryLimit + 1
  <2>1. wk[w].fetch \in 1..job[p].fetches /\ job[p].fetches \in 0..RetryLimit + 1
    BY <1>0, <1>a DEF Joined, Fetches, JobType
  <2> QED BY <1>0, <2>1, BoundsAssumption DEF Final
<1>7. ASSUME NEW m \in Message PROVE Fetches(m)'
  <2>1. CASE m = k
    <3>1. \A v \in Worker : ~Works(v, m)'
      BY <1>0, <1>1, <1>4, <2>1, AddsKeeps DEF Works
    <3> QED BY <1>1, <2>1, <3>1 DEF Fetches
  <2>2. CASE m # k
    <3>1. Steady(m)
      BY <1>2, <1>4, <2>2 DEF Steady, Works, Late
    <3>2. CASE m # p
      BY <1>1, <3>1, <3>2, FetchesSteady DEF Joined
    <3>3. CASE m = p
      <4>1. /\ \A v \in Worker : Works(v, m)' => Works(v, m) /\ wk'[v].fetch = wk[v].fetch
            /\ job'[m].fetches = job[m].fetches
        BY <3>1 DEF Steady
      <4>2. ASSUME NEW v \in Worker, Works(v, m)', Final(v)' PROVE v = w
        <5>1. Works(v, m) /\ wk[v].fetch = wk'[v].fetch /\ wk[v].fetch \in Int
          BY <1>a, <4>1, <4>2 DEF WorkerType
        <5>2. wk[v].fetch \in 1..job[m].fetches
          BY <5>1 DEF Joined, Fetches
        <5>3. wk[v].fetch = wk[w].fetch
          BY <1>6, <3>3, <4>2, <5>1, <5>2, BoundsAssumption DEF Final
        <5> QED BY <1>0, <3>3, <5>1, <5>3 DEF Joined, Fetches
      <4>3. \A v \in Worker : Works(v, m)' /\ Final(v)' => wk'[v].pc \in Late
        BY <1>4, <4>2 DEF Late
      <4>4. \A v \in Worker : Works(v, m)' => wk'[v].fetch \in 1..job'[m].fetches
        BY <4>1 DEF Joined, Fetches
      <4>5. \A u, v \in Worker : Works(u, m)' /\ Works(v, m)' /\ wk'[u].fetch = wk'[v].fetch => u = v
        BY <4>1 DEF Joined, Fetches
      <4>6. job'[m].fetches = RetryLimit + 1
        BY <1>6, <3>3, <4>1
      <4> QED BY <4>3, <4>4, <4>5, <4>6 DEF Fetches
    <3> QED BY <3>2, <3>3
  <2> QED BY <2>1, <2>2
<1>8. PICK r : Leads(r) /\ Ordered(r)
  BY DEF Joined
<1>s. PICK s : s = [r EXCEPT ![k] = r[p]]
  OBVIOUS
<1>9. r[p] \in Message /\ r \in [Message -> Message] /\ r[p] \in Ids
  BY <1>0, <1>8 DEF Leads, Ordered
<1>10. s \in [Message -> Message] /\ s[k] = r[p] /\ \A m \in Message : m # k => s[m] = r[m]
  BY <1>1, <1>9, <1>s
<1>11. Leads(s)'
  <2>1. ASSUME NEW m \in Message
        PROVE  s[m] = IF messages'[m].parent = 0 THEN m ELSE s[messages'[m].parent]
    <3>1. CASE m = k
      <4>1. messages'[m].parent = p /\ p # k /\ p # 0 /\ s[p] = r[p]
        BY <1>0, <1>1, <1>10, <3>1, BoundsAssumption DEF Message
      <4> QED BY <1>10, <3>1, <4>1
    <3>2. CASE m # k /\ messages[m].parent = 0
      BY <1>2, <1>8, <1>10, <3>2 DEF Leads
    <3>3. CASE m # k /\ messages[m].parent # 0
      <4>1. /\ m \in Ids /\ messages[m].parent < m /\ 1..m \subseteq Ids
            /\ m \in Nat /\ messages[m].parent \in Nat
        <5>1. m \in Ids
          BY <3>3 DEF Joined, Rows
        <5>2. m \in Nat /\ messages[m].parent \in Nat
          BY <1>a, BoundsAssumption DEF Message, RowType
        <5> QED BY <5>1, <5>2 DEF Joined, Rows
      <4>2. messages[m].parent \in Ids
        BY <3>3, <4>1
      <4>3. messages[m].parent \in Message /\ messages[m].parent # k
        BY <1>1, <4>2 DEF Ids
      <4>4. r[m] = r[messages[m].parent]
        BY <1>8, <3>3 DEF Leads
      <4> QED BY <1>2, <1>10, <3>3, <4>3, <4>4
    <3> QED BY <3>1, <3>2, <3>3
  <2> QED BY <1>10, <2>1 DEF Leads
<1>12. /\ row.channel \in Range(messages[p].fallback)
       /\ Range(row.fallback) \subseteq Range(messages[p].fallback)
  <2>1. messages[p].fallback \in ChannelLists
    BY <1>0, <1>a DEF RowType
  <2>2. /\ Head(messages[p].fallback) \in Range(messages[p].fallback)
        /\ Range(Tail(messages[p].fallback)) \subseteq Range(messages[p].fallback)
    BY <1>0, <2>1, RestOf
  <2>3. Range(<<>>) = {}
    BY DEF Range
  <2> QED BY <2>2, <2>3 DEF Continues
<1>13. Ordered(s)'
  <2>1. \A m \in Ids' : s[m] \in Ids'
    BY <1>1, <1>8, <1>9, <1>10 DEF Ordered, Ids
  <2>2. ASSUME NEW i \in Ids', NEW j \in Ids', i < j, s[i] = s[j]
        PROVE  /\ Children(i)' # {}
               /\ messages'[j].channel \in Range(messages'[i].fallback)
               /\ Range(messages'[j].fallback) \subseteq Range(messages'[i].fallback)
    <3>1. i # k /\ i \in Ids /\ i \in Message /\ i \in Nat
      BY <1>1, <2>2, BoundsAssumption DEF Ids, Message
    <3>2. messages'[i] = messages[i] /\ s[i] = r[i]
      BY <1>1, <1>10, <3>1
    <3>3. CASE j # k
      <4>1. j \in Ids /\ j \in Message
        BY <1>1, <3>3 DEF Ids
      <4>2. s[j] = r[j] /\ messages'[j] = messages[j]
        BY <1>1, <1>10, <3>3, <4>1
      <4>3. /\ Children(i) # {}
            /\ messages[j].channel \in Range(messages[i].fallback)
            /\ Range(messages[j].fallback) \subseteq Range(messages[i].fallback)
        BY <1>8, <2>2, <3>1, <3>2, <4>1, <4>2 DEF Ordered
      <4> QED BY <1>1, <3>1, <3>2, <4>2, <4>3
    <3>4. CASE j = k /\ i = p
      BY <1>1, <1>12, <3>1, <3>2, <3>4
    <3>5. CASE j = k /\ i < p
      <4>1. /\ Children(i) # {}
            /\ Range(messages[p].fallback) \subseteq Range(messages[i].fallback)
        BY <1>0, <1>8, <1>10, <2>2, <3>1, <3>2, <3>5 DEF Ordered
      <4> QED BY <1>1, <1>12, <3>1, <3>2, <3>5, <4>1
    <3>6. CASE j = k /\ p < i
      <4>1. Children(p) # {}
        BY <1>0, <1>8, <1>10, <2>2, <3>1, <3>2, <3>6 DEF Ordered
      <4> QED BY <1>5, <4>1
    <3>7. p \in Nat
      BY <1>0, BoundsAssumption DEF Message
    <3> QED BY <3>1, <3>3, <3>4, <3>5, <3>6, <3>7
  <2> QED BY <2>1, <2>2 DEF Ordered
<1>14. Joined'
  BY <1>3, <1>7, <1>11, <1>13 DEF Joined
<1>15. k \in Children(p)'
  BY <1>0, <1>1
<1>16. ASSUME NEW m \in Message, m # p PROVE Children(m)' = Children(m)
  <2>1. Children(m)' = Children(m) \cup (IF m = row.parent THEN {k} ELSE {}) /\ m # row.parent
    BY <1>1, <1>16
  <2> QED BY <2>1
<1> QED BY <1>5, <1>14, <1>15, <1>16

(* One case per action.                                                    *)
LEMMA JoinedStep ==
  ASSUME Types, Started, Joined, [Next]_vars
  PROVE  Joined'
<1> USE DEF env
<1>a. /\ TypeOK /\ messages \in [Message -> RowType] /\ accepted \in [Message -> Nat]
      /\ wk \in [Worker -> WorkerType] /\ job \in [Message -> JobType]
  BY DEF Types, TypeOK
<1>b. ASSUME NEW w \in Worker, NEW pc, wk[w].pc # "idle", pc # "idle", Goto(w, pc), job' = job,
             wk[w].pc \in Late => pc \in Late
      PROVE  \A m \in Message : Steady(m)
  <2>1. /\ wk'[w].pc = pc /\ wk'[w].at = wk[w].at /\ wk'[w].fetch = wk[w].fetch
        /\ \A v \in Worker : v # w => wk'[v] = wk[v]
    BY <1>a, <1>b DEF Goto, WorkerType
  <2> QED BY <1>b, <2>1 DEF Steady, Works
<1>c. messages' = messages => \A m \in Message : Keeps(m)
  BY DEF Keeps
<1>d. ASSUME NEW w \in Worker, wk[w].pc # "idle" PROVE wk[w].at \in Ids /\ wk[w].at \in Message
  BY <1>a, <1>d DEF TypeOK, Started, Ids
<1>1. ASSUME NEW k \in Message, SendIntent(k) PROVE Joined'
  <2>1. PICK row \in RowType : Adds(k, row) /\ row.parent = 0
    BY <1>1, IntentAdds
  <2>2. wk' = wk /\ accepted' = accepted
    BY <1>1 DEF SendIntent
  <2> QED BY <2>1, <2>2, JoinedIntent
<1>2. ASSUME NEW w \in Worker, FallBack(w) PROVE Joined'
  <2>1. PICK k \in Unused, row \in RowType : Adds(k, row) /\ Continues(row, wk[w].at)
    BY <1>2, FallBackAdds
  <2>2. wk[w].pc = "fallingback" /\ Goto(w, "announcing") /\ accepted' = accepted
    BY <1>2 DEF FallBack
  <2>3. PICK p : p = wk[w].at
    OBVIOUS
  <2> QED BY <2>1, <2>2, <2>3, JoinedNext
<1>3. ASSUME NEW w \in Worker,
             \/ Read(w) \/ ProviderRefuses(w) \/ FallBackThrows(w)
             \/ TransactionFails(w) \/ Announce(w)
      PROVE  Joined'
  <2>1. messages' = messages /\ accepted' = accepted /\ job' = job /\ wk[w].pc # "idle"
    BY <1>3 DEF Read, ProviderRefuses, FallBackThrows, TransactionFails, Announce
  <2>2. \E pc : pc # "idle" /\ Goto(w, pc) /\ (wk[w].pc \in Late => pc \in Late)
    <3>1. CASE Read(w)
      BY <3>1 DEF Read, Late
    <3>2. CASE ProviderRefuses(w)
      BY <3>2 DEF ProviderRefuses, Late
    <3>3. CASE FallBackThrows(w) \/ TransactionFails(w) \/ Announce(w)
      BY <3>3 DEF FallBackThrows, TransactionFails, Announce, Late
    <3> QED BY <1>3, <3>1, <3>2, <3>3
  <2>3. \A m \in Message : Steady(m)
    BY <1>b, <2>1, <2>2
  <2> QED BY <1>c, <2>1, <2>3, JoinedKeeps
<1>4. ASSUME NEW w \in Worker, ProviderAccepts(w) PROVE Joined'
  <2>1. /\ messages' = messages /\ job' = job /\ wk[w].pc = "calling"
        /\ accepted' = [accepted EXCEPT ![wk[w].at] = @ + 1]
        /\ wk' = [wk EXCEPT ![w].pc = "committing", ![w].id = accepted[wk[w].at] + 1]
    BY <1>4 DEF ProviderAccepts
  <2>2. /\ wk'[w].at = wk[w].at /\ wk'[w].fetch = wk[w].fetch
        /\ \A v \in Worker : v # w => wk'[v] = wk[v]
    BY <1>a, <2>1 DEF WorkerType
  <2>3. \A m \in Message : Steady(m)
    BY <2>1, <2>2 DEF Steady, Works, Late
  <2>4. \A m \in Message \ Ids : accepted'[m] = accepted[m]
    BY <1>a, <1>d, <2>1
  <2> QED BY <1>c, <2>1, <2>3, <2>4, JoinedKeeps
<1>5. ASSUME NEW w \in Worker, AnswerLost(w) PROVE Joined'
  <2>1. /\ messages' = messages /\ job' = job /\ wk[w].pc = "calling"
        /\ accepted' = [accepted EXCEPT ![wk[w].at] = @ + 1]
        /\ Goto(w, IF Final(w) THEN "failing" ELSE "throwing")
    BY <1>5 DEF AnswerLost
  <2>2. \A m \in Message : Steady(m)
    BY <1>b, <2>1 DEF Late
  <2>3. \A m \in Message \ Ids : accepted'[m] = accepted[m]
    BY <1>a, <1>d, <2>1
  <2> QED BY <1>c, <2>1, <2>2, <2>3, JoinedKeeps
<1>6. ASSUME NEW w \in Worker, CommitSent(w) PROVE Joined'
  <2>1. /\ wk[w].pc = "committing" /\ job' = job
        /\ messages' = [messages EXCEPT ![wk[w].at].status = "sent", ![wk[w].at].providerId = wk[w].id]
        /\ accepted' = accepted /\ Goto(w, "returning")
    BY <1>6 DEF CommitSent
  <2>2. wk[w].at \in Message /\ messages[wk[w].at].status # "none"
    BY <1>d, <2>1 DEF Ids
  <2>3. \A k \in Message : Keeps(k)
    BY <2>1, <2>2, RowKeeps
  <2>4. \A m \in Message : Steady(m)
    BY <1>b, <2>1 DEF Late
  <2> QED BY <2>1, <2>3, <2>4, JoinedKeeps
<1>7. ASSUME NEW w \in Worker, FailMessage(w) PROVE Joined'
  <2>1. /\ wk[w].pc = "failing" /\ job' = job
        /\ messages' = [messages EXCEPT ![wk[w].at].status = "failed"]
        /\ accepted' = accepted
        /\ Goto(w, IF messages[wk[w].at].fallback = <<>> THEN "throwing" ELSE "fallingback")
    BY <1>7 DEF FailMessage
  <2>2. wk[w].at \in Message /\ messages[wk[w].at].status # "none"
    BY <1>d, <2>1 DEF Ids
  <2>3. \A k \in Message : Keeps(k)
    BY <2>1, <2>2, RowKeeps
  <2>4. \A m \in Message : Steady(m)
    BY <1>b, <2>1 DEF Late
  <2> QED BY <2>1, <2>3, <2>4, JoinedKeeps
<1>8. ASSUME NEW w \in Worker, Crash(w) \/ Return(w) PROVE Joined'
  <2>1. /\ messages' = messages /\ accepted' = accepted /\ wk[w].pc # "idle"
        /\ wk' = [wk EXCEPT ![w] = IdleWorker]
    BY <1>8 DEF Crash, Return
  <2>2. \A m \in Message : job'[m].fetches = job[m].fetches
    <3>1. wk[w].at \in Message /\ job[wk[w].at] \in JobType /\ job[wk[w].at].state # "none"
      BY <1>a, <1>d, <2>1 DEF Started
    <3> DEFINE x == IF wk[w].pc = "returning" THEN [job[wk[w].at] EXCEPT !.state = "completed"]
                                              ELSE Failed(job[wk[w].at])
    <3>2. x.fetches = job[wk[w].at].fetches
      <4>1. CASE wk[w].pc = "returning"
        BY <3>1, <4>1 DEF JobType
      <4>2. CASE wk[w].pc # "returning"
        <5>1. x = Failed(job[wk[w].at])
          BY <4>2
        <5> HIDE DEF x
        <5> QED BY <3>1, <5>1, FailedJob
      <4> QED BY <4>1, <4>2
    <3>3. job' = job \/ job' = [job EXCEPT ![wk[w].at] = x]
      BY <1>8 DEF Crash, Return
    <3> HIDE DEF x
    <3> QED BY <1>a, <3>1, <3>2, <3>3
  <2>3. \A v \in Worker : wk'[v] = wk[v] \/ wk'[v].pc = "idle"
    BY <1>a, <2>1, IdleType
  <2>4. \A m \in Message : Steady(m)
    BY <2>2, <2>3 DEF Steady, Works
  <2> QED BY <1>c, <2>1, <2>4, JoinedKeeps
<1>9. ASSUME NEW w \in Worker, NEW k \in Message, Fetch(w, k) PROVE Joined'
  <2>1. /\ messages' = messages /\ accepted' = accepted /\ job[k].state = "waiting" /\ wk[w].pc = "idle"
        /\ wk' = [wk EXCEPT ![w] = [pc |-> "reading", at |-> k, fetch |-> job[k].fetches + 1, id |-> 0]]
        /\ job' = [job EXCEPT ![k] = [state |-> "active", fetches |-> job[k].fetches + 1]]
    BY <1>9 DEF Fetch
  <2>2. /\ wk'[w].at = k /\ wk'[w].fetch = job[k].fetches + 1
        /\ \A v \in Worker : v # w => wk'[v] = wk[v]
        /\ job'[k].fetches = job[k].fetches + 1 /\ \A m \in Message : m # k => job'[m] = job[m]
        /\ job[k].fetches \in Nat /\ job[k].fetches <= RetryLimit
    BY <1>a, <2>1 DEF JobType, Started
  <2>3. ASSUME NEW m \in Message, m # k PROVE Steady(m)
    BY <2>2, <2>3 DEF Steady, Works
  <2>4. Fetches(k)'
    <3>1. Children(k)' = {}
      <4>1. Children(k) = {}
        BY <2>2, BoundsAssumption DEF Joined, Fetches
      <4> QED BY <1>c, <2>1, <4>1, KeepsChildren
    <3>2. ASSUME NEW v \in Worker, Works(v, k)', v # w
          PROVE  Works(v, k) /\ wk'[v].fetch = wk[v].fetch /\ wk[v].fetch \in 1..job[k].fetches
      BY <2>2, <3>2 DEF Joined, Fetches, Works
    <3>3. \A v \in Worker : Works(v, k)' => wk'[v].fetch \in 1..job'[k].fetches
      BY <2>2, <3>2
    <3>4. \A u, v \in Worker : Works(u, k)' /\ Works(v, k)' /\ wk'[u].fetch = wk'[v].fetch => u = v
      <4>1. ASSUME NEW v \in Worker, Works(v, k)', v # w PROVE wk'[v].fetch # wk'[w].fetch
        BY <2>2, <3>2, <4>1
      <4>2. ASSUME NEW u \in Worker, NEW v \in Worker, Works(u, k)', Works(v, k)',
                   wk'[u].fetch = wk'[v].fetch, u # w, v # w
            PROVE  u = v
        BY <3>2, <4>2 DEF Joined, Fetches
      <4> QED BY <4>1, <4>2
    <3> QED BY <3>1, <3>3, <3>4 DEF Fetches
  <2> QED BY <1>c, <2>1, <2>3, <2>4, JoinedKeeps
<1>10. ASSUME NEW k \in Message, NEW id \in 1..accepted[k], NEW status \in ReportStatus,
              Report(k, id, status)
       PROVE  Joined'
  <2>1. wk' = wk /\ accepted' = accepted /\ job' = job
    BY <1>10 DEF Report
  <2>2. \A m \in Message : Steady(m)
    BY <2>1 DEF Steady, Works
  <2>3. CASE messages' = messages
    BY <1>c, <2>1, <2>2, <2>3, JoinedKeeps
  <2>4. CASE messages[k].status \in From(status) /\ messages' = [messages EXCEPT ![k].status = status]
    <3>1. status # "none" /\ messages[k].status # "none"
      BY <2>4 DEF ReportStatus, From
    <3>2. \A m \in Message : Keeps(m)
      BY <2>4, <3>1, RowKeeps
    <3> QED BY <2>1, <2>2, <3>2, JoinedKeeps
  <2> QED BY <1>10, <2>3, <2>4 DEF Report
<1>11. CASE /\ wk' = wk /\ messages' = messages /\ accepted' = accepted
            /\ \A m \in Message : job'[m].fetches = job[m].fetches
  <2>1. \A m \in Message : Steady(m)
    BY <1>11 DEF Steady, Works
  <2> QED BY <1>c, <1>11, <2>1, JoinedKeeps
<1>12. ASSUME NEW k \in Message, ExpireDead(k) \/ ExpireRunning(k) PROVE Joined'
  <2>1. /\ wk' = wk /\ messages' = messages /\ accepted' = accepted
        /\ job' = [job EXCEPT ![k] = Failed(job[k])] /\ job[k].state = "active"
    BY <1>12 DEF ExpireDead, ExpireRunning, Expire
  <2>2. Failed(job[k]).fetches = job[k].fetches
    BY <1>a, <2>1, FailedJob
  <2>3. \A m \in Message : job'[m].fetches = job[m].fetches
    BY <1>a, <2>1, <2>2
  <2> QED BY <1>11, <2>1, <2>3
<1>13. ASSUME NEW c \in Channel, Settings(c) PROVE Joined'
  BY <1>11, <1>13 DEF Settings, ConsentRequest, MessagingRequest, Suppress, RecordConsent, WindowTurns,
                      UpsertTemplate, StoreChannelConfig, Edit
<1>14. CASE UNCHANGED vars
  BY <1>11, <1>14 DEF vars
<1> QED
  BY <1>1, <1>2, <1>3, <1>4, <1>5, <1>6, <1>7, <1>8, <1>9, <1>10, <1>12, <1>13, <1>14
  DEF Next, ProcessSend, Callback

LEMMA InitJoined == Init => Joined
<1> SUFFICES ASSUME Init PROVE Joined
  OBVIOUS
<1>1. Ids = {} /\ \A m \in Message : messages[m].parent = 0 /\ accepted[m] = 0
  BY DEF Init, Ids, NoRow
<1>2. \A m \in Message : Children(m) = {}
  BY <1>1 DEF Children
<1>3. \A m \in Message : Fetches(m)
  BY <1>2 DEF Init, Fetches, Works, IdleWorker
<1>4. PICK r : r = [m \in Message |-> m]
  OBVIOUS
<1>5. Leads(r) /\ Ordered(r)
  BY <1>1, <1>4 DEF Leads, Ordered
<1> QED BY <1>1, <1>3, <1>5 DEF Joined, Rows

IsRoot(f) == f = [m \in Message |-> IF messages[m].parent = 0 THEN m ELSE f[messages[m].parent]]

(* A function that leads every message to its intent is RootOf. *)
LEMMA RootFound ==
  ASSUME Types, Rows, NEW r, Leads(r)
  PROVE  \A m \in Message : RootOf[m] = r[m]
<1>1. IsRoot(r)
  <2>1. r = [m \in Message |-> r[m]]
    BY DEF Leads
  <2> QED BY <2>1, Zenon DEF Leads, IsRoot
<1> DEFINE f == CHOOSE f : IsRoot(f)
<1>2. IsRoot(f)
  BY <1>1, Zenon
<1>3. RootOf = f
  BY DEF RootOf, IsRoot
<1> HIDE DEF f
<1>4. \A m \in Message : RootOf[m] = IF messages[m].parent = 0 THEN m ELSE RootOf[messages[m].parent]
  BY <1>2, <1>3, Zenon DEF IsRoot
<1> DEFINE P == {n \in Nat : \A m \in Message : m <= n => RootOf[m] = r[m]}
<1>5. 0 \in P
  BY BoundsAssumption DEF Message
<1>6. ASSUME NEW n \in Nat, n \in P PROVE n + 1 \in P
  <2>1. ASSUME NEW m \in Message, m = n + 1, messages[m].parent # 0
        PROVE  messages[m].parent \in Message /\ messages[m].parent <= n
    <3>1. messages[m].parent \in Nat /\ m \in Nat
      BY BoundsAssumption DEF Types, TypeOK, RowType, Message
    <3>2. messages[m].parent < m /\ 1..m \subseteq Message
      BY <2>1 DEF Rows, Ids
    <3> QED BY <2>1, <3>1, <3>2
  <2>2. ASSUME NEW m \in Message, m <= n + 1 PROVE RootOf[m] = r[m]
    <3>1. CASE m <= n
      BY <1>6, <3>1
    <3>2. CASE m = n + 1 /\ messages[m].parent = 0
      BY <1>4, <3>2 DEF Leads
    <3>3. CASE m = n + 1 /\ messages[m].parent # 0
      <4>1. RootOf[messages[m].parent] = r[messages[m].parent]
        BY <1>6, <2>1, <3>3
      <4> QED BY <1>4, <3>3, <4>1 DEF Leads
    <3> QED BY <2>2, <3>1, <3>2, <3>3, BoundsAssumption DEF Message
  <2> QED BY <2>2
<1> HIDE DEF P
<1>7. Nat \subseteq P
  BY <1>5, <1>6, Induct
<1>8. ASSUME NEW m \in Message PROVE RootOf[m] = r[m]
  <2>1. m \in Nat
    BY BoundsAssumption DEF Message
  <2> QED BY <1>7, <2>1 DEF P
<1> QED BY <1>8

(* What a chain is, without the recursion. *)
LEMMA ChainOrdered ==
  ASSUME Types, Joined, NEW m \in Message, NEW j \in Chain(m), NEW k \in Chain(m), j < k
  PROVE  /\ Children(j) # {}
         /\ messages[k].channel \in Range(messages[j].fallback)
<1>1. PICK r : Leads(r) /\ Ordered(r)
  BY DEF Joined
<1>2. j \in Ids /\ k \in Ids /\ RootOf[j] = m /\ RootOf[k] = m /\ j \in Message /\ k \in Message
  BY DEF Chain, Ids
<1>3. r[j] = r[k]
  BY <1>1, <1>2, RootFound DEF Joined
<1> QED BY <1>1, <1>2, <1>3 DEF Ordered

(* An intent tries a channel once, however often its messages are retried, *)
(* whatever crashes, and whatever the settings become, for any number of   *)
(* channels, messages and workers.                                         *)
THEOREM OneTry == Spec => []OneTryPerChannel
<1>1. Init => Types /\ Started /\ Joined
  BY InitTypes, InitJoined
<1>2. Types /\ Started /\ Joined /\ [Next]_vars => Types' /\ Started' /\ Joined'
  BY NextTypes, JoinedStep
<1>3. Types /\ Joined => OneTryPerChannel
  <2> SUFFICES ASSUME Types, Joined, NEW m \in Intents, NEW j \in Chain(m), NEW k \in Chain(m), j # k
               PROVE  messages[j].channel # messages[k].channel
    BY DEF OneTryPerChannel
  <2>1. m \in Message /\ j \in Ids /\ k \in Ids /\ j \in Nat /\ k \in Nat
    BY BoundsAssumption DEF Intents, Chain, Ids, Message
  <2>2. messages[j].channel \notin Range(messages[j].fallback) /\ messages[k].channel \notin Range(messages[k].fallback)
    BY <2>1 DEF Joined, Rows
  <2>3. CASE j < k
    BY <2>1, <2>2, <2>3, ChainOrdered
  <2>4. CASE k < j
    BY <2>1, <2>2, <2>4, ChainOrdered
  <2> QED BY <2>1, <2>3, <2>4
<1> QED BY <1>1, <1>2, <1>3, PTL DEF Spec

---------------------------------------------------------------------------
(* What may still reach the provider, and what it has cost *)

Trying == {"reading", "calling", "failing", "fallingback"}

(* The job of m is coming back. *)
Again(m) ==
  \/ job[m].state = "waiting"
  \/ /\ job[m].state = "active"
     /\ \A w \in Worker : Works(w, m) /\ Holds(w) => wk[w].pc = "throwing" /\ ~Final(w)

Tries(w, m) == Works(w, m) /\ wk[w].pc \in Trying

(* The attempts that may still have m accepted or continued: those under   *)
(* way, and the next one, which is 0 here.                                 *)
Chances(m) ==
  {f \in 0..RetryLimit + 1 : \/ f = 0 /\ Again(m)
                             \/ \E w \in Worker : Tries(w, m) /\ wk[w].fetch = f}

(* Every acceptance of m, and every chance of one, is paid for by a fault  *)
(* that cut into m, but for one, which a message hands on to its child.    *)
Paid(m) == accepted[m] + Cardinality(Chances(m)) <= cut[m] + (IF Children(m) # {} THEN 0 ELSE 1)

(* There are finitely many chances, before and after.                      *)
LEMMA ChancesCount ==
  ASSUME NEW m
  PROVE  /\ IsFiniteSet(Chances(m)) /\ Cardinality(Chances(m)) \in Nat
         /\ IsFiniteSet(Chances(m)') /\ Cardinality(Chances(m)') \in Nat
<1>1. IsFiniteSet(0..RetryLimit + 1)
  BY BoundsAssumption, FS_Interval
<1>2. Chances(m) \subseteq 0..RetryLimit + 1 /\ Chances(m)' \subseteq 0..RetryLimit + 1
  BY DEF Chances
<1> QED BY <1>1, <1>2, FS_Subset, FS_CardinalityType

(* How a set grows or shrinks by an element.                               *)
LEMMA FewerChances ==
  ASSUME NEW S, IsFiniteSet(S), NEW T
  PROVE  /\ T \subseteq S => Cardinality(T) <= Cardinality(S)
         /\ \A y : T \subseteq S \cup {y} => Cardinality(T) <= Cardinality(S) + 1
         /\ \A y \in S : T \subseteq S \ {y} => Cardinality(T) <= Cardinality(S) - 1
         /\ \A x, y : y \in S /\ T \subseteq (S \ {y}) \cup {x} => Cardinality(T) <= Cardinality(S)
<1>1. Cardinality(S) \in Nat
  BY FS_CardinalityType
<1>2. ASSUME NEW U, IsFiniteSet(U), T \subseteq U
      PROVE  Cardinality(T) <= Cardinality(U) /\ Cardinality(T) \in Nat /\ Cardinality(U) \in Nat
  BY <1>2, FS_Subset, FS_CardinalityType
<1>3. ASSUME NEW U, IsFiniteSet(U), NEW y
      PROVE  /\ IsFiniteSet(U \cup {y}) /\ Cardinality(U \cup {y}) \in Nat
             /\ Cardinality(U \cup {y}) <= Cardinality(U) + 1
  <2>1. IsFiniteSet(U \cup {y}) /\ Cardinality(U) \in Nat /\ Cardinality(U \cup {y}) \in Nat
    BY <1>3, FS_AddElement, FS_CardinalityType
  <2>2. Cardinality(U \cup {y}) = Cardinality(U) \/ Cardinality(U \cup {y}) = Cardinality(U) + 1
    BY <1>3, FS_AddElement
  <2> QED BY <2>1, <2>2
<1>4. \A y \in S : IsFiniteSet(S \ {y}) /\ Cardinality(S \ {y}) = Cardinality(S) - 1
  BY FS_RemoveElement
<1>5. ASSUME NEW y, T \subseteq S \cup {y} PROVE Cardinality(T) <= Cardinality(S) + 1
  <2>1. /\ IsFiniteSet(S \cup {y}) /\ Cardinality(S \cup {y}) \in Nat
        /\ Cardinality(S \cup {y}) <= Cardinality(S) + 1
    BY <1>3
  <2>2. Cardinality(T) <= Cardinality(S \cup {y}) /\ Cardinality(T) \in Nat
    BY <1>2, <1>5, <2>1
  <2> QED BY <1>1, <2>1, <2>2
<1>6. ASSUME NEW y \in S, T \subseteq S \ {y} PROVE Cardinality(T) <= Cardinality(S) - 1
  <2>1. IsFiniteSet(S \ {y}) /\ Cardinality(S \ {y}) = Cardinality(S) - 1
    BY <1>4
  <2>2. Cardinality(T) <= Cardinality(S \ {y})
    BY <1>2, <1>6, <2>1
  <2> QED BY <2>1, <2>2
<1>7. ASSUME NEW x, NEW y, y \in S, T \subseteq (S \ {y}) \cup {x} PROVE Cardinality(T) <= Cardinality(S)
  <2>1. IsFiniteSet(S \ {y}) /\ Cardinality(S \ {y}) = Cardinality(S) - 1
    BY <1>4, <1>7
  <2>2. /\ IsFiniteSet((S \ {y}) \cup {x}) /\ Cardinality((S \ {y}) \cup {x}) \in Nat
        /\ Cardinality((S \ {y}) \cup {x}) <= Cardinality(S \ {y}) + 1
    BY <1>3, <2>1
  <2>3. Cardinality(T) <= Cardinality((S \ {y}) \cup {x}) /\ Cardinality(T) \in Nat
    BY <1>2, <1>7, <2>2
  <2> QED BY <1>1, <2>1, <2>2, <2>3
<1> QED BY <1>2, <1>5, <1>6, <1>7

(* The account of a step. *)
LEMMA PaysNothing ==
  ASSUME Types, NEW m \in Message, Paid(m), accepted'[m] = accepted[m],
         cut'[m] = cut[m] \/ cut'[m] = cut[m] + 1, Children(m)' = Children(m),
         \/ Chances(m)' \subseteq Chances(m)
         \/ \E x, y : y \in Chances(m) /\ Chances(m)' \subseteq (Chances(m) \ {y}) \cup {x}
  PROVE  Paid(m)'
<1> DEFINE S == Chances(m)
<1>1. /\ accepted[m] \in Nat /\ cut[m] \in Nat /\ Cardinality(S) \in Nat /\ Cardinality(S') \in Nat
      /\ IsFiniteSet(S)
  BY ChancesCount DEF Types
<1>2. Cardinality(S') <= Cardinality(S)
  <2> HIDE DEF S
  <2>1. S' \subseteq S \/ \E x, y : y \in S /\ S' \subseteq (S \ {y}) \cup {x}
    BY DEF S
  <2> QED BY <1>1, <2>1, FewerChances
<1>3. Cardinality(Chances(m))' = Cardinality(S')
  OBVIOUS
<1> HIDE DEF S
<1>4. accepted[m] + Cardinality(S) <= cut[m] + (IF Children(m) # {} THEN 0 ELSE 1)
  BY DEF Paid, S
<1>5. accepted'[m] + Cardinality(S') <= cut'[m] + (IF Children(m)' # {} THEN 0 ELSE 1)
  <2>1. CASE Children(m) = {}
    BY <1>1, <1>2, <1>4, <2>1
  <2>2. CASE Children(m) # {}
    BY <1>1, <1>2, <1>4, <2>2
  <2> QED BY <2>1, <2>2
<1> QED BY <1>5 DEF Paid, S

(* A fault pays for one chance more.                                       *)
LEMMA PaysFault ==
  ASSUME Types, NEW m \in Message, Paid(m), accepted'[m] = accepted[m],
         cut'[m] = cut[m] + 1, Children(m)' = Children(m),
         NEW x, Chances(m)' \subseteq Chances(m) \cup {x}
  PROVE  Paid(m)'
<1>1. /\ accepted[m] \in Nat /\ cut[m] \in Nat
      /\ IsFiniteSet(Chances(m)) /\ Cardinality(Chances(m)) \in Nat /\ Cardinality(Chances(m)') \in Nat
  BY ChancesCount DEF Types
<1>2. Cardinality(Chances(m)') <= Cardinality(Chances(m)) + 1
  BY <1>1, FewerChances
<1>3. CASE Children(m) = {}
  BY <1>1, <1>2, <1>3 DEF Paid
<1>4. CASE Children(m) # {}
  BY <1>1, <1>2, <1>4 DEF Paid
<1> QED BY <1>3, <1>4

(* An acceptance uses up a chance; if its answer is lost, the fault pays.  *)
LEMMA PaysAcceptance ==
  ASSUME Types, NEW m \in Message, Paid(m), accepted'[m] = accepted[m] + 1,
         Children(m)' = Children(m), NEW y \in Chances(m),
         \/ cut'[m] = cut[m] /\ Chances(m)' \subseteq Chances(m) \ {y}
         \/ cut'[m] = cut[m] + 1 /\ \E x : Chances(m)' \subseteq (Chances(m) \ {y}) \cup {x}
  PROVE  Paid(m)'
<1>1. /\ accepted[m] \in Nat /\ cut[m] \in Nat
      /\ IsFiniteSet(Chances(m)) /\ Cardinality(Chances(m)) \in Nat /\ Cardinality(Chances(m)') \in Nat
  BY ChancesCount DEF Types
<1>2. \/ cut'[m] = cut[m] /\ Cardinality(Chances(m)') <= Cardinality(Chances(m)) - 1
      \/ cut'[m] = cut[m] + 1 /\ Cardinality(Chances(m)') <= Cardinality(Chances(m))
  BY <1>1, FewerChances
<1>3. CASE Children(m) = {}
  BY <1>1, <1>2, <1>3 DEF Paid
<1>4. CASE Children(m) # {}
  BY <1>1, <1>2, <1>4 DEF Paid
<1> QED BY <1>3, <1>4

(* A child takes over the chance that its parent used up.                  *)
LEMMA PaysChild ==
  ASSUME Types, NEW m \in Message, Paid(m), accepted'[m] = accepted[m], cut'[m] = cut[m],
         Children(m) = {}, NEW y \in Chances(m), Chances(m)' \subseteq Chances(m) \ {y}
  PROVE  Paid(m)'
<1>1. /\ accepted[m] \in Nat /\ cut[m] \in Nat
      /\ IsFiniteSet(Chances(m)) /\ Cardinality(Chances(m)) \in Nat /\ Cardinality(Chances(m)') \in Nat
  BY ChancesCount DEF Types
<1>2. Cardinality(Chances(m)') <= Cardinality(Chances(m)) - 1
  BY <1>1, FewerChances
<1>3. accepted[m] + Cardinality(Chances(m)) <= cut[m] + 1
  BY DEF Paid
<1>4. CASE Children(m)' = {}
  BY <1>1, <1>2, <1>3, <1>4 DEF Paid
<1>5. CASE Children(m)' # {}
  BY <1>1, <1>2, <1>3, <1>5 DEF Paid
<1> QED BY <1>4, <1>5

(* A step that has nothing to do with m. *)
LEMMA ChancesElsewhere ==
  ASSUME NEW m \in Message, job'[m] = job[m],
         \A w \in Worker : wk'[w] = wk[w] \/ (~Works(w, m) /\ ~Works(w, m)')
  PROVE  Chances(m)' \subseteq Chances(m)
<1>1. ASSUME NEW w \in Worker
      PROVE  /\ Works(w, m)' <=> Works(w, m)
             /\ Works(w, m) => wk'[w] = wk[w] /\ wk[w].at = m
  BY DEF Works
<1>2. Again(m)' => Again(m)
  <2>1. ASSUME NEW w \in Worker, Works(w, m), Holds(w)
        PROVE  Works(w, m)' /\ Holds(w)' /\ wk'[w] = wk[w] /\ (Final(w)' <=> Final(w))
    BY <1>1, <2>1 DEF Holds, Final
  <2> QED BY <2>1 DEF Again
<1>3. \A w \in Worker : Tries(w, m)' => Tries(w, m) /\ wk'[w] = wk[w]
  BY <1>1 DEF Tries
<1> QED BY <1>2, <1>3 DEF Chances

(* A step of the execution w of m. *)
LEMMA ChancesMove ==
  ASSUME Types, NEW m \in Message, Fetches(m), NEW w \in Worker, Works(w, m),
         NEW pc, pc # "idle", wk'[w].pc = pc, wk'[w].at = m, wk'[w].fetch = wk[w].fetch,
         \A v \in Worker : v # w => wk'[v] = wk[v], job'[m] = job[m]
  PROVE  /\ wk[w].pc \in Trying => wk[w].fetch \in Chances(m)
         /\ pc \in Trying /\ wk[w].pc \in Trying => Chances(m)' \subseteq Chances(m)
         /\ pc \notin Trying /\ (pc # "throwing" \/ Final(w)) =>
              Chances(m)' \subseteq Chances(m) \ {wk[w].fetch}
         /\ pc = "throwing" => Chances(m)' \subseteq (Chances(m) \ {wk[w].fetch}) \cup {0}
<1> DEFINE f == wk[w].fetch
<1>1. f \in 0..RetryLimit + 1 /\ f # 0 /\ wk[w].at = m
  BY DEF Types, TypeOK, WorkerType, Fetches, Works
<1>2. wk[w].pc \in Trying => f \in Chances(m)
  BY <1>1 DEF Chances, Tries
<1>3. ASSUME NEW v \in Worker
      PROVE  /\ Works(v, m)' <=> Works(v, m)
             /\ Works(v, m) => (Holds(v)' <=> Holds(v)) /\ (Final(v)' <=> Final(v)) /\ wk'[v].fetch = wk[v].fetch
             /\ v # w => wk'[v].pc = wk[v].pc
  <2>1. CASE v = w
    BY <1>1, <2>1 DEF Works, Holds, Final
  <2>2. CASE v # w
    BY <2>2 DEF Works, Holds, Final
  <2> QED BY <2>1, <2>2
<1>4. Again(m)' /\ (pc # "throwing" \/ Final(w)) => Again(m)
  <2> SUFFICES ASSUME Again(m)', pc # "throwing" \/ Final(w) PROVE Again(m)
    OBVIOUS
  <2>1. CASE job[m].state = "waiting"
    BY <2>1 DEF Again
  <2>2. CASE job[m].state = "active" /\ job[m].state # "waiting"
    <3>1. \A v \in Worker : Works(v, m)' /\ Holds(v)' => wk'[v].pc = "throwing" /\ ~Final(v)'
      BY <2>2 DEF Again
    <3>2. ~Holds(w)
      BY <1>3, <3>1
    <3>3. \A v \in Worker : Works(v, m) /\ Holds(v) => wk[v].pc = "throwing" /\ ~Final(v)
      BY <1>3, <3>1, <3>2
    <3> QED BY <2>2, <3>3 DEF Again
  <2>3. job[m].state \in {"waiting", "active"}
    BY DEF Again
  <2> QED BY <2>1, <2>2, <2>3
<1>5. ASSUME NEW v \in Worker, Tries(v, m)', v # w
      PROVE  Tries(v, m) /\ wk'[v].fetch = wk[v].fetch /\ wk[v].fetch # f
  <2>1. Works(v, m) /\ wk'[v] = wk[v] /\ wk[v].pc \in Trying
    BY <1>3, <1>5 DEF Tries
  <2> QED BY <1>5, <2>1 DEF Tries, Fetches
<1>6. ASSUME NEW x \in Chances(m)'
      PROVE  \/ x = 0 /\ Again(m)'
             \/ x \in Chances(m) /\ x # f
             \/ x = f /\ pc \in Trying
  <2>1. x \in 0..RetryLimit + 1
    BY DEF Chances
  <2>2. (x = 0 /\ Again(m)') \/ \E v \in Worker : Tries(v, m)' /\ wk'[v].fetch = x
    BY DEF Chances
  <2>3. ASSUME NEW v \in Worker, Tries(v, m)', wk'[v].fetch = x
        PROVE  (x \in Chances(m) /\ x # f) \/ (x = f /\ pc \in Trying)
    <3>1. CASE v = w
      BY <2>3, <3>1 DEF Tries
    <3>2. CASE v # w
      BY <1>5, <2>1, <2>3, <3>2 DEF Chances
    <3> QED BY <3>1, <3>2
  <2> QED BY <2>2, <2>3
<1>7. Again(m) => 0 \in Chances(m)
  BY BoundsAssumption DEF Chances
<1> HIDE DEF f
<1>8. pc \in Trying /\ wk[w].pc \in Trying => Chances(m)' \subseteq Chances(m)
  <2>1. pc \in Trying => pc # "throwing"
    BY DEF Trying
  <2> QED BY <1>2, <1>4, <1>6, <1>7, <2>1
<1>9. pc \notin Trying /\ (pc # "throwing" \/ Final(w)) => Chances(m)' \subseteq Chances(m) \ {f}
  BY <1>1, <1>4, <1>6, <1>7
<1>10. pc = "throwing" => Chances(m)' \subseteq (Chances(m) \ {f}) \cup {0}
  <2>1. "throwing" \notin Trying
    BY DEF Trying
  <2> QED BY <1>6, <2>1
<1> QED BY <1>2, <1>8, <1>9, <1>10 DEF f

(* A step that starts no attempt at m. *)
LEMMA ChancesShrink ==
  ASSUME NEW m \in Message,
         \A w \in Worker : Tries(w, m)' => Tries(w, m) /\ wk'[w].fetch = wk[w].fetch
  PROVE  /\ Chances(m)' \subseteq Chances(m) \cup {0}
         /\ (Again(m)' => Again(m)) => Chances(m)' \subseteq Chances(m)
<1>1. ASSUME NEW x \in Chances(m)', x # 0 \/ ~Again(m)' PROVE x \in Chances(m)
  BY <1>1 DEF Chances
<1>2. Again(m) => 0 \in Chances(m)
  BY BoundsAssumption DEF Chances
<1> QED BY <1>1, <1>2

(* An execution ends, and settles the job it holds. *)
LEMMA ChancesReturn ==
  ASSUME Types, Started, NEW m \in Message, Fetches(m), NEW w \in Worker, Return(w)
  PROVE  Chances(m)' \subseteq Chances(m)
<1>a. /\ job \in [Message -> JobType] /\ wk \in [Worker -> WorkerType]
      /\ wk[w].pc # "idle" => wk[w].at \in Message
  BY DEF Types, TypeOK
<1>1. wk[w].pc \in {"returning", "throwing"} /\ wk' = [wk EXCEPT ![w] = IdleWorker]
  BY DEF Return
<1>2. wk'[w].pc = "idle" /\ \A v \in Worker : v # w => wk'[v] = wk[v]
  BY <1>a, <1>1, IdleType
<1>3. \A v \in Worker : Tries(v, m)' => Tries(v, m) /\ wk'[v].fetch = wk[v].fetch
  BY <1>2 DEF Tries, Works
<1>4. PICK n : n = wk[w].at
  OBVIOUS
<1> DEFINE x == IF wk[w].pc = "returning" THEN [job[n] EXCEPT !.state = "completed"] ELSE Failed(job[n])
<1>5. n \in Message /\ job[n] \in JobType /\ job[n].state # "none"
  BY <1>a, <1>1, <1>4 DEF Started
<1>6. /\ wk[w].pc = "returning" => x.state = "completed"
      /\ wk[w].pc # "returning" => /\ x.state \in {"waiting", "failed"}
                                   /\ x.state = "waiting" <=> job[n].fetches <= RetryLimit
  <2>1. CASE wk[w].pc = "returning"
    BY <1>5, <2>1 DEF JobType
  <2>2. CASE wk[w].pc # "returning"
    <3>1. x = Failed(job[n])
      BY <2>2
    <3> HIDE DEF x
    <3> QED BY <1>5, <2>2, <3>1, FailedJob
  <2> QED BY <2>1, <2>2
<1>7. IF ~Holds(w) THEN job' = job ELSE job' = [job EXCEPT ![n] = x]
  BY <1>4 DEF Return
<1> HIDE DEF x
<1>8. /\ ~Holds(w) \/ m # n => job'[m] = job[m]
      /\ Holds(w) /\ m = n => job'[m] = x
  <2>1. job \in [Message -> JobType]
    BY <1>a
  <2>2. CASE Holds(w)
    BY <1>5, <1>7, <2>1, <2>2
  <2>3. CASE ~Holds(w)
    BY <1>7, <2>3
  <2> QED BY <2>2, <2>3
<1>9. ASSUME Again(m)', Holds(w), m = n PROVE Again(m)
  <2>1. x.state \in {"waiting", "active"}
    BY <1>8, <1>9 DEF Again
  <2>2. wk[w].pc = "throwing" /\ job[n].fetches <= RetryLimit
    BY <1>1, <1>6, <2>1
  <2>3. job[m].state = "active" /\ job[m].fetches = wk[w].fetch /\ job[m].fetches \in Nat
    BY <1>4, <1>5, <1>9 DEF Holds, JobType
  <2>4. ~Final(w)
    BY <1>9, <2>2, <2>3, BoundsAssumption DEF Final
  <2>5. ASSUME NEW v \in Worker, Works(v, m), Holds(v) PROVE v = w
    <3>1. Works(w, m) /\ wk[v].fetch = wk[w].fetch
      BY <1>1, <1>4, <1>9, <2>3, <2>5 DEF Works, Holds
    <3> QED BY <2>5, <3>1 DEF Fetches
  <2> QED BY <2>2, <2>3, <2>4, <2>5 DEF Again
<1>10. ASSUME Again(m)', ~Holds(w) \/ m # n PROVE Again(m)
  <2>1. job'[m] = job[m]
    BY <1>8, <1>10
  <2>2. ASSUME NEW v \in Worker, Works(v, m), Holds(v)
        PROVE  Works(v, m)' /\ Holds(v)' /\ (Final(v)' <=> Final(v)) /\ wk'[v].pc = wk[v].pc
    <3>1. v # w
      BY <1>4, <1>10, <2>2 DEF Works
    <3> QED BY <1>2, <2>1, <2>2, <3>1 DEF Works, Holds, Final
  <2> QED BY <1>10, <2>1, <2>2 DEF Again
<1> QED BY <1>3, <1>9, <1>10, ChancesShrink

(* The next attempt is the chance that was counted as 0. *)
LEMMA ChancesFetch ==
  ASSUME Types, Started, NEW w \in Worker, NEW m \in Message, Fetches(m), Fetch(w, m)
  PROVE  /\ 0 \in Chances(m)
         /\ \E x : Chances(m)' \subseteq (Chances(m) \ {0}) \cup {x}
<1>a. job \in [Message -> JobType] /\ wk \in [Worker -> WorkerType]
  BY DEF Types, TypeOK
<1>1. /\ job[m].state = "waiting" /\ wk[w].pc = "idle"
      /\ wk' = [wk EXCEPT ![w] = [pc |-> "reading", at |-> m, fetch |-> job[m].fetches + 1, id |-> 0]]
      /\ job' = [job EXCEPT ![m] = [state |-> "active", fetches |-> job[m].fetches + 1]]
  BY DEF Fetch
<1>2. /\ wk'[w].pc = "reading" /\ wk'[w].at = m /\ wk'[w].fetch = job[m].fetches + 1
      /\ \A v \in Worker : v # w => wk'[v] = wk[v]
      /\ job'[m].state = "active" /\ job'[m].fetches = job[m].fetches + 1
      /\ job[m].fetches \in Nat
  BY <1>a, <1>1 DEF JobType
<1>3. 0 \in Chances(m)
  BY <1>1, BoundsAssumption DEF Chances, Again
<1>4. ~Again(m)'
  <2>1. Works(w, m)' /\ Holds(w)'
    BY <1>2 DEF Works, Holds
  <2> QED BY <1>2, <2>1 DEF Again
<1>5. ASSUME NEW x \in Chances(m)', x # job[m].fetches + 1 PROVE x \in Chances(m) \ {0}
  <2>1. PICK v \in Worker : Tries(v, m)' /\ wk'[v].fetch = x
    BY <1>4 DEF Chances
  <2>2. v # w /\ wk'[v] = wk[v]
    BY <1>2, <1>5, <2>1
  <2>3. Tries(v, m) /\ wk[v].fetch = x
    BY <2>1, <2>2 DEF Tries, Works
  <2>4. x \in 0..RetryLimit + 1
    BY DEF Chances
  <2>5. x # 0
    BY <1>2, <2>3 DEF Tries, Fetches
  <2> QED BY <2>3, <2>4, <2>5 DEF Chances
<1> QED BY <1>3, <1>5

AllPaid == \A m \in Message : Paid(m)

(* A step that concerns other messages than m. *)
Spares(m) ==
  /\ accepted'[m] = accepted[m] /\ cut'[m] = cut[m] /\ job'[m] = job[m]
  /\ Children(m)' = Children(m)
  /\ \A w \in Worker : wk'[w] = wk[w] \/ (~Works(w, m) /\ ~Works(w, m)')

(* The execution w of n goes on to pc. *)
Moves(w, n, pc) ==
  /\ wk[w].pc # "idle" /\ wk[w].at = n /\ pc # "idle"
  /\ wk'[w].pc = pc /\ wk'[w].at = n /\ wk'[w].fetch = wk[w].fetch
  /\ \A v \in Worker : v # w => wk'[v] = wk[v]
  /\ job' = job

LEMMA PaidSpared ==
  ASSUME Types, NEW m \in Message, Paid(m), Spares(m)
  PROVE  Paid(m)'
<1>1. Chances(m)' \subseteq Chances(m)
  BY ChancesElsewhere DEF Spares
<1> QED BY <1>1, PaysNothing DEF Spares

(* Goto, as a move of w on its message.                                    *)
LEMMA GoesOn ==
  ASSUME Types, NEW w \in Worker, NEW to, wk[w].pc # "idle", to # "idle", Goto(w, to), job' = job
  PROVE  \A n : n = wk[w].at => Moves(w, n, to)
<1> SUFFICES ASSUME NEW n, n = wk[w].at PROVE Moves(w, n, to)
  OBVIOUS
<1>1. wk \in [Worker -> WorkerType]
  BY DEF Types, TypeOK
<1>2. /\ wk'[w].pc = to /\ wk'[w].at = wk[w].at /\ wk'[w].fetch = wk[w].fetch
      /\ \A v \in Worker : v # w => wk'[v] = wk[v]
  BY <1>1 DEF Goto, WorkerType
<1>3. Moves(w, n, to)
  BY <1>2 DEF Moves
<1> QED BY <1>3

(* A move on n leaves the other messages alone.                            *)
LEMMA MovesSpare ==
  ASSUME NEW w \in Worker, NEW n, NEW pc, Moves(w, n, pc), NEW m \in Message, m # n
  PROVE  /\ job'[m] = job[m]
         /\ \A v \in Worker : wk'[v] = wk[v] \/ (~Works(v, m) /\ ~Works(v, m)')
BY DEF Moves, Works

(* What a move does to the chances of its message.                         *)
LEMMA MovesChances ==
  ASSUME Types, Joined, NEW w \in Worker, NEW n \in Message, NEW pc, Moves(w, n, pc)
  PROVE  /\ wk[w].pc \in Trying => wk[w].fetch \in Chances(n)
         /\ pc \in Trying /\ wk[w].pc \in Trying => Chances(n)' \subseteq Chances(n)
         /\ pc \notin Trying /\ (pc # "throwing" \/ Final(w)) =>
              Chances(n)' \subseteq Chances(n) \ {wk[w].fetch}
         /\ pc = "throwing" => Chances(n)' \subseteq (Chances(n) \ {wk[w].fetch}) \cup {0}
<1>1. Fetches(n) /\ Works(w, n)
  BY DEF Joined, Moves, Works
<1>2. /\ pc # "idle" /\ wk'[w].pc = pc /\ wk'[w].at = n /\ wk'[w].fetch = wk[w].fetch
      /\ \A v \in Worker : v # w => wk'[v] = wk[v]
      /\ job'[n] = job[n]
  BY DEF Moves
<1> QED BY <1>1, <1>2, ChancesMove

(* A step of one execution that the provider has no part in. *)
LEMMA PaidQuiet ==
  ASSUME Types, Joined, AllPaid, NEW w \in Worker, NEW n \in Message, NEW pc, Moves(w, n, pc),
         accepted' = accepted, cut' = cut, \A m \in Message : Children(m)' = Children(m),
         wk[w].pc \in Trying \/ Final(w) \/ pc # "throwing",
         pc \in Trying => wk[w].pc \in Trying
  PROVE  AllPaid'
<1>1. ASSUME NEW m \in Message, m # n PROVE Paid(m)'
  <2>1. Spares(m)
    BY <1>1, MovesSpare DEF Spares
  <2> QED BY <2>1, PaidSpared DEF AllPaid
<1>2. Paid(n)'
  <2>1. \/ Chances(n)' \subseteq Chances(n)
        \/ \E x, y : y \in Chances(n) /\ Chances(n)' \subseteq (Chances(n) \ {y}) \cup {x}
    BY MovesChances
  <2> QED BY <2>1, PaysNothing DEF AllPaid
<1> QED BY <1>1, <1>2 DEF AllPaid

(* A new message: one chance, nothing accepted, no child. *)
LEMMA PaidNew ==
  ASSUME Types, Started, Joined, NEW k, NEW row \in RowType, Adds(k, row),
         accepted' = accepted, cut' = cut, Children(k)' = Children(k),
         \A w \in Worker : ~Works(w, k)'
  PROVE  Paid(k)'
<1>1. k \in Message \ Ids /\ k \in Message
  BY DEF Adds, Unused
<1>2. Children(k) = {}
  <2>1. ASSUME NEW j \in Children(k) PROVE FALSE
    <3>1. j \in Ids /\ j \in Message /\ messages[j].parent = k /\ messages[j].parent < j /\ 1..j \subseteq Ids
      BY DEF Children, Joined, Rows, Ids
    <3>2. k \in 1..j
      BY <1>1, <3>1, BoundsAssumption DEF Message
    <3> QED BY <1>1, <3>1, <3>2
  <2> QED BY <2>1
<1>3. Chances(k)' \subseteq {0}
  BY DEF Chances, Tries
<1>4. Cardinality(Chances(k)') <= 1 /\ Cardinality(Chances(k)') \in Nat
  <2>1. IsFiniteSet({0}) /\ Cardinality({0}) = 1
    BY FS_Singleton
  <2>2. IsFiniteSet(Chances(k)') /\ Cardinality(Chances(k)') \in Nat
    BY ChancesCount
  <2> QED BY <1>3, <2>1, <2>2, FS_Subset
<1>5. accepted'[k] = 0 /\ cut'[k] \in Nat
  BY <1>1 DEF Joined, Rows, Types
<1> QED BY <1>2, <1>4, <1>5 DEF Paid

(* One case per action.                                                    *)
LEMMA PaidStep ==
  ASSUME Types, Started, Joined, AllPaid, [Next]_vars
  PROVE  AllPaid'
<1> USE DEF env
<1>a. /\ TypeOK /\ messages \in [Message -> RowType] /\ accepted \in [Message -> Nat]
      /\ cut \in [Message -> Nat] /\ wk \in [Worker -> WorkerType] /\ job \in [Message -> JobType]
  BY DEF Types, TypeOK
<1>b. messages' = messages => \A m : Children(m)' = Children(m)
  BY DEF Children, Ids
<1>c. ASSUME NEW w \in Worker, wk[w].pc # "idle" PROVE wk[w].at \in Ids /\ wk[w].at \in Message
  BY <1>a, <1>c DEF TypeOK, Started, Ids
<1>d. ASSUME NEW n \in Message, Paid(n)', \A m \in Message : m # n => Spares(m)
      PROVE  AllPaid'
  BY <1>d, PaidSpared DEF AllPaid
<1>1. ASSUME NEW k \in Message, SendIntent(k) PROVE AllPaid'
  <2>1. PICK row \in RowType : Adds(k, row) /\ row.parent = 0
    BY <1>1, IntentAdds
  <2>2. wk' = wk /\ accepted' = accepted /\ cut' = cut
    BY <1>1 DEF SendIntent
  <2>3. \A m \in Message : Children(m)' = Children(m)
    BY <2>1, <2>2, JoinedIntent
  <2>4. /\ \A w \in Worker : ~Works(w, k)'
        /\ \A m \in Message : m # k => job'[m] = job[m]
    BY <2>1, <2>2, AddsKeeps DEF Works
  <2>5. Paid(k)'
    BY <2>1, <2>2, <2>3, <2>4, PaidNew
  <2>6. \A m \in Message : m # k => Spares(m)
    BY <2>2, <2>3, <2>4 DEF Spares
  <2> QED BY <1>d, <2>5, <2>6
<1>2. ASSUME NEW w \in Worker, FallBack(w) PROVE AllPaid'
  <2>1. PICK k \in Unused, row \in RowType : Adds(k, row) /\ Continues(row, wk[w].at)
    BY <1>2, FallBackAdds
  <2>2. wk[w].pc = "fallingback" /\ Goto(w, "announcing") /\ accepted' = accepted /\ cut' = cut
    BY <1>2 DEF FallBack
  <2>3. PICK p : p = wk[w].at
    OBVIOUS
  <2>4. p \in Message /\ p # k /\ k \in Message
    BY <1>c, <2>1, <2>2, <2>3 DEF Unused
  <2>5. Children(p) = {} /\ \A m \in Message : m # p => Children(m)' = Children(m)
    BY <2>1, <2>2, <2>3, JoinedNext
  <2>6. /\ wk'[w].pc = "announcing" /\ wk'[w].at = p /\ wk'[w].fetch = wk[w].fetch
        /\ \A v \in Worker : v # w => wk'[v] = wk[v]
    BY <1>a, <2>2, <2>3 DEF Goto, WorkerType
  <2>7. \A m \in Message : m # k => job'[m] = job[m]
    BY <2>1, AddsKeeps
  <2>8. Paid(k)'
    <3>1. \A v \in Worker : ~Works(v, k)'
      BY <2>1, <2>4, <2>6, AddsKeeps DEF Works
    <3> QED BY <2>1, <2>2, <2>4, <2>5, <3>1, PaidNew
  <2>9. Paid(p)'
    <3>1. Fetches(p) /\ Works(w, p) /\ wk[w].pc \in Trying /\ "announcing" \notin Trying
      BY <2>2, <2>3, <2>4 DEF Joined, Works, Trying
    <3>2. wk[w].fetch \in Chances(p) /\ Chances(p)' \subseteq Chances(p) \ {wk[w].fetch}
      BY <2>4, <2>6, <2>7, <3>1, ChancesMove
    <3> QED BY <2>2, <2>4, <2>5, <3>2, PaysChild DEF AllPaid
  <2>10. ASSUME NEW m \in Message, m # p, m # k PROVE Paid(m)'
    <3>1. Spares(m)
      BY <2>2, <2>3, <2>5, <2>6, <2>7, <2>10 DEF Spares, Works
    <3> QED BY <3>1, PaidSpared DEF AllPaid
  <2> QED BY <2>8, <2>9, <2>10 DEF AllPaid
<1>3. ASSUME NEW w \in Worker,
             Read(w) \/ ProviderRefuses(w) \/ FallBackThrows(w) \/ Announce(w)
      PROVE  AllPaid'
  <2>1. /\ messages' = messages /\ accepted' = accepted /\ cut' = cut /\ job' = job /\ wk[w].pc # "idle"
    BY <1>3 DEF Read, ProviderRefuses, FallBackThrows, Announce
  <2>2. PICK pc : /\ pc # "idle" /\ Goto(w, pc)
                  /\ wk[w].pc \in Trying \/ Final(w) \/ pc # "throwing"
                  /\ pc \in Trying => wk[w].pc \in Trying
    <3>1. CASE Read(w)
      BY <3>1 DEF Read, Trying
    <3>2. CASE ProviderRefuses(w)
      BY <3>2 DEF ProviderRefuses, Trying
    <3>3. CASE FallBackThrows(w) \/ Announce(w)
      BY <1>a, <3>3 DEF FallBackThrows, Announce, Trying, TypeOK
    <3> QED BY <1>3, <3>1, <3>2, <3>3
  <2>3. PICK n : n = wk[w].at
    OBVIOUS
  <2>4. n \in Message /\ Moves(w, n, pc)
    BY <1>c, <2>1, <2>2, <2>3, GoesOn
  <2> QED BY <1>b, <2>1, <2>2, <2>4, PaidQuiet
<1>4. ASSUME NEW w \in Worker, ProviderAccepts(w) PROVE AllPaid'
  <2>1. /\ messages' = messages /\ job' = job /\ wk[w].pc = "calling" /\ cut' = cut
        /\ accepted' = [accepted EXCEPT ![wk[w].at] = @ + 1]
        /\ wk' = [wk EXCEPT ![w].pc = "committing", ![w].id = accepted[wk[w].at] + 1]
    BY <1>4 DEF ProviderAccepts
  <2>2. PICK n : n = wk[w].at
    OBVIOUS
  <2>3. n \in Message /\ Moves(w, n, "committing")
    BY <1>a, <1>c, <2>1, <2>2 DEF Moves, WorkerType
  <2>4. accepted'[n] = accepted[n] + 1 /\ \A m \in Message : m # n => accepted'[m] = accepted[m]
    BY <1>a, <2>1, <2>2, <2>3
  <2>5. wk[w].fetch \in Chances(n) /\ Chances(n)' \subseteq Chances(n) \ {wk[w].fetch}
    BY <2>1, <2>3, MovesChances DEF Trying
  <2>6. Paid(n)'
    BY <1>b, <2>1, <2>3, <2>4, <2>5, PaysAcceptance DEF AllPaid
  <2>7. \A m \in Message : m # n => Spares(m)
    BY <1>b, <2>1, <2>3, <2>4, MovesSpare DEF Spares
  <2> QED BY <1>d, <2>3, <2>6, <2>7
<1>5. ASSUME NEW w \in Worker, AnswerLost(w) PROVE AllPaid'
  <2>1. /\ messages' = messages /\ job' = job /\ wk[w].pc = "calling"
        /\ accepted' = [accepted EXCEPT ![wk[w].at] = @ + 1]
        /\ cut' = [cut EXCEPT ![wk[w].at] = @ + 1]
        /\ Goto(w, IF Final(w) THEN "failing" ELSE "throwing")
    BY <1>5 DEF AnswerLost
  <2>2. PICK n : n = wk[w].at
    OBVIOUS
  <2>3. PICK pc : pc = IF Final(w) THEN "failing" ELSE "throwing"
    OBVIOUS
  <2>4. n \in Message /\ Moves(w, n, pc)
    BY <1>c, <2>1, <2>2, <2>3, GoesOn
  <2>5. /\ accepted'[n] = accepted[n] + 1 /\ \A m \in Message : m # n => accepted'[m] = accepted[m]
        /\ cut'[n] = cut[n] + 1 /\ \A m \in Message : m # n => cut'[m] = cut[m]
    BY <1>a, <2>1, <2>2, <2>4
  <2>6. wk[w].fetch \in Chances(n) /\ \E x : Chances(n)' \subseteq (Chances(n) \ {wk[w].fetch}) \cup {x}
    <3>0. wk[w].pc \in Trying
      BY <2>1 DEF Trying
    <3>1. wk[w].fetch \in Chances(n)
      BY <2>4, <3>0, MovesChances
    <3>2. CASE Final(w)
      <4>1. Chances(n)' \subseteq Chances(n)
        BY <2>3, <2>4, <3>0, <3>2, MovesChances DEF Trying
      <4>2. Chances(n)' \subseteq (Chances(n) \ {wk[w].fetch}) \cup {wk[w].fetch}
        BY <4>1
      <4> QED BY <3>1, <4>2
    <3>3. CASE ~Final(w)
      BY <2>3, <2>4, <3>1, <3>3, MovesChances
    <3> QED BY <3>2, <3>3
  <2>7. Paid(n)'
    BY <1>b, <2>1, <2>4, <2>5, <2>6, PaysAcceptance DEF AllPaid
  <2>8. \A m \in Message : m # n => Spares(m)
    BY <1>b, <2>1, <2>4, <2>5, MovesSpare DEF Spares
  <2> QED BY <1>d, <2>4, <2>7, <2>8
<1>6. ASSUME NEW w \in Worker, CommitSent(w) \/ FailMessage(w) PROVE AllPaid'
  <2>1. wk[w].pc \in {"committing", "failing"} /\ job' = job /\ accepted' = accepted /\ cut' = cut
    BY <1>6 DEF CommitSent, FailMessage
  <2>2. PICK n : n = wk[w].at
    OBVIOUS
  <2>3. n \in Message /\ messages[n].status # "none"
    BY <1>c, <2>1, <2>2 DEF Ids
  <2>4. \A k \in Message : Keeps(k)
    <3>1. CASE CommitSent(w)
      <4>1. messages' = [messages EXCEPT ![n].status = "sent", ![n].providerId = wk[w].id]
        BY <2>2, <3>1 DEF CommitSent
      <4> QED BY <2>3, <4>1, RowKeeps
    <3>2. CASE FailMessage(w)
      <4>1. messages' = [messages EXCEPT ![n].status = "failed"]
        BY <2>2, <3>2 DEF FailMessage
      <4> QED BY <2>3, <4>1, RowKeeps
    <3> QED BY <1>6, <3>1, <3>2
  <2>5. PICK pc : /\ pc # "idle" /\ Goto(w, pc)
                  /\ wk[w].pc \in Trying \/ Final(w) \/ pc # "throwing"
                  /\ pc \in Trying => wk[w].pc \in Trying
    <3>1. CASE CommitSent(w)
      BY <3>1 DEF CommitSent, Trying
    <3>2. CASE FailMessage(w)
      BY <3>2 DEF FailMessage, Trying
    <3> QED BY <1>6, <3>1, <3>2
  <2>6. Moves(w, n, pc)
    BY <2>1, <2>2, <2>5, GoesOn
  <2>7. \A m \in Message : Children(m)' = Children(m)
    BY <2>4, KeepsChildren
  <2> QED BY <2>1, <2>3, <2>5, <2>6, <2>7, PaidQuiet
<1>7. ASSUME NEW w \in Worker, TransactionFails(w) PROVE AllPaid'
  <2>1. /\ messages' = messages /\ job' = job /\ wk[w].pc # "idle" /\ accepted' = accepted
        /\ cut' = [cut EXCEPT ![wk[w].at] = @ + 1] /\ Goto(w, "throwing")
    BY <1>7 DEF TransactionFails, Fault
  <2>2. PICK n : n = wk[w].at
    OBVIOUS
  <2>3. n \in Message /\ Moves(w, n, "throwing")
    BY <1>c, <2>1, <2>2, GoesOn
  <2>4. cut'[n] = cut[n] + 1 /\ \A m \in Message : m # n => cut'[m] = cut[m]
    BY <1>a, <2>1, <2>2, <2>3
  <2>5. Chances(n)' \subseteq Chances(n) \cup {0}
    BY <2>3, MovesChances
  <2>6. Paid(n)'
    BY <1>b, <2>1, <2>3, <2>4, <2>5, PaysFault DEF AllPaid
  <2>7. \A m \in Message : m # n => Spares(m)
    BY <1>b, <2>1, <2>3, <2>4, MovesSpare DEF Spares
  <2> QED BY <1>d, <2>3, <2>6, <2>7
<1>8. ASSUME NEW w \in Worker, Crash(w) PROVE AllPaid'
  <2>1. /\ messages' = messages /\ job' = job /\ wk[w].pc # "idle" /\ accepted' = accepted
        /\ cut' = [cut EXCEPT ![wk[w].at] = @ + 1] /\ wk' = [wk EXCEPT ![w] = IdleWorker]
    BY <1>8 DEF Crash, Fault
  <2>2. PICK n : n = wk[w].at
    OBVIOUS
  <2>3. n \in Message
    BY <1>c, <2>1, <2>2
  <2>4. cut'[n] = cut[n] + 1 /\ \A m \in Message : m # n => cut'[m] = cut[m]
    BY <1>a, <2>1, <2>2, <2>3
  <2>5. wk'[w].pc = "idle" /\ \A v \in Worker : v # w => wk'[v] = wk[v]
    BY <1>a, <2>1, IdleType
  <2>6. Paid(n)'
    <3>1. \A v \in Worker : Tries(v, n)' => Tries(v, n) /\ wk'[v].fetch = wk[v].fetch
      BY <2>5 DEF Tries, Works
    <3>2. Chances(n)' \subseteq Chances(n) \cup {0}
      BY <2>3, <3>1, ChancesShrink
    <3> QED BY <1>b, <2>1, <2>3, <2>4, <3>2, PaysFault DEF AllPaid
  <2>7. \A m \in Message : m # n => Spares(m)
    BY <1>b, <2>1, <2>2, <2>4, <2>5 DEF Spares, Works
  <2> QED BY <1>d, <2>3, <2>6, <2>7
<1>9. ASSUME NEW w \in Worker, Return(w) PROVE AllPaid'
  <2>1. messages' = messages /\ accepted' = accepted /\ cut' = cut
    BY <1>9 DEF Return
  <2>2. ASSUME NEW m \in Message PROVE Paid(m)'
    <3>1. Fetches(m)
      BY DEF Joined
    <3>2. Chances(m)' \subseteq Chances(m)
      BY <1>9, <3>1, ChancesReturn
    <3> QED BY <1>b, <2>1, <3>2, PaysNothing DEF AllPaid
  <2> QED BY <2>2 DEF AllPaid
<1>10. ASSUME NEW w \in Worker, NEW n \in Message, Fetch(w, n) PROVE AllPaid'
  <2>1. /\ messages' = messages /\ accepted' = accepted /\ cut' = cut /\ wk[w].pc = "idle"
        /\ wk' = [wk EXCEPT ![w] = [pc |-> "reading", at |-> n, fetch |-> job[n].fetches + 1, id |-> 0]]
        /\ job' = [job EXCEPT ![n] = [state |-> "active", fetches |-> job[n].fetches + 1]]
    BY <1>10 DEF Fetch
  <2>2. /\ wk'[w].at = n /\ \A v \in Worker : v # w => wk'[v] = wk[v]
        /\ \A m \in Message : m # n => job'[m] = job[m]
    BY <1>a, <2>1
  <2>3. Paid(n)'
    <3>1. Fetches(n)
      BY DEF Joined
    <3>2. 0 \in Chances(n) /\ \E x : Chances(n)' \subseteq (Chances(n) \ {0}) \cup {x}
      BY <1>10, <3>1, ChancesFetch
    <3> QED BY <1>b, <2>1, <3>2, PaysNothing DEF AllPaid
  <2>4. \A m \in Message : m # n => Spares(m)
    BY <1>b, <2>1, <2>2 DEF Spares, Works
  <2> QED BY <1>d, <2>3, <2>4
<1>11. ASSUME NEW k \in Message, NEW id \in 1..accepted[k], NEW status \in ReportStatus,
              Report(k, id, status)
       PROVE  AllPaid'
  <2>1. wk' = wk /\ accepted' = accepted /\ job' = job /\ cut' = cut
    BY <1>11 DEF Report
  <2>2. \A m \in Message : Children(m)' = Children(m)
    <3>1. CASE messages' = messages
      BY <1>b, <3>1
    <3>2. CASE messages[k].status \in From(status) /\ messages' = [messages EXCEPT ![k].status = status]
      <4>1. status # "none" /\ messages[k].status # "none"
        BY <3>2 DEF ReportStatus, From
      <4>2. \A m \in Message : Keeps(m)
        BY <3>2, <4>1, RowKeeps
      <4> QED BY <4>2, KeepsChildren
    <3> QED BY <1>11, <3>1, <3>2 DEF Report
  <2>3. \A m \in Message : Spares(m)
    BY <2>1, <2>2 DEF Spares
  <2> QED BY <2>3, PaidSpared DEF AllPaid
<1>12. ASSUME NEW k \in Message, ExpireDead(k) \/ ExpireRunning(k) PROVE AllPaid'
  <2>1. /\ wk' = wk /\ messages' = messages /\ accepted' = accepted
        /\ job' = [job EXCEPT ![k] = Failed(job[k])] /\ job[k].state = "active"
    BY <1>12 DEF ExpireDead, ExpireRunning, Expire
  <2>2. \A v \in Worker : Tries(v, k)' => Tries(v, k) /\ wk'[v].fetch = wk[v].fetch
    BY <2>1 DEF Tries, Works
  <2>3. Paid(k)'
    <3>1. CASE ExpireDead(k)
      <4>1. cut' = cut /\ ~Held(k)
        BY <3>1 DEF ExpireDead
      <4>2. Again(k)
        BY <2>1, <4>1 DEF Again, Held, Works
      <4>3. Chances(k)' \subseteq Chances(k)
        BY <2>2, <4>2, ChancesShrink
      <4> QED BY <1>b, <2>1, <4>1, <4>3, PaysNothing DEF AllPaid
    <3>2. CASE ExpireRunning(k)
      <4>1. cut'[k] = cut[k] + 1
        BY <1>a, <3>2 DEF ExpireRunning, Fault
      <4>2. Chances(k)' \subseteq Chances(k) \cup {0}
        BY <2>2, ChancesShrink
      <4> QED BY <1>b, <2>1, <4>1, <4>2, PaysFault DEF AllPaid
    <3> QED BY <1>12, <3>1, <3>2
  <2>4. ASSUME NEW m \in Message, m # k PROVE Spares(m)
    <3>1. cut'[m] = cut[m]
      BY <1>12, <1>a, <2>4 DEF ExpireDead, ExpireRunning, Fault
    <3> QED BY <1>a, <1>b, <2>1, <2>4, <3>1 DEF Spares
  <2> QED BY <1>d, <2>3, <2>4
<1>13. CASE wk' = wk /\ messages' = messages /\ accepted' = accepted /\ cut' = cut /\ job' = job
  <2>1. \A m \in Message : Spares(m)
    BY <1>b, <1>13 DEF Spares
  <2> QED BY <2>1, PaidSpared DEF AllPaid
<1>14. ASSUME NEW c \in Channel, Settings(c) PROVE AllPaid'
  BY <1>13, <1>14 DEF Settings, ConsentRequest, MessagingRequest, Suppress, RecordConsent, WindowTurns,
                      UpsertTemplate, StoreChannelConfig, Edit
<1>15. CASE UNCHANGED vars
  BY <1>13, <1>15 DEF vars
<1> QED
  BY <1>1, <1>2, <1>3, <1>4, <1>5, <1>6, <1>7, <1>8, <1>9, <1>10, <1>11, <1>12, <1>14, <1>15
  DEF Next, ProcessSend, Callback

LEMMA InitPaid == Init => AllPaid
<1> SUFFICES ASSUME Init, NEW m \in Message PROVE Paid(m)
  BY DEF AllPaid
<1>1. Children(m) = {} /\ accepted[m] = 0 /\ cut[m] = 0
  BY DEF Init, Children, Ids, NoRow
<1>2. Chances(m) = {}
  BY DEF Init, Chances, Again, Tries, Works, NoJob, IdleWorker
<1> QED BY <1>1, <1>2, FS_EmptySet DEF Paid

(* The messages of a chain that nothing continues are one at most. *)
LEMMA LastOfChain ==
  ASSUME Types, Joined, NEW m \in Message, NEW j \in Chain(m), NEW k \in Chain(m),
         Children(j) = {}, Children(k) = {}
  PROVE  j = k
<1>1. j \in Nat /\ k \in Nat
  BY BoundsAssumption DEF Chain, Ids, Message
<1>2. ~(j < k) /\ ~(k < j)
  BY ChainOrdered
<1> QED BY <1>1, <1>2

(* An intent reaches the provider once, and once more at most for every    *)
(* execution a fault cut into: over all its retries, fallbacks, crashes,   *)
(* lost answers and reports, for any number of workers and messages.       *)
THEOREM OneAcceptance == Spec => []OneAcceptancePerIntent
<1>1. Init => Types /\ Started /\ Joined /\ AllPaid
  BY InitTypes, InitJoined, InitPaid
<1>2. Types /\ Started /\ Joined /\ AllPaid /\ [Next]_vars => Types' /\ Started' /\ Joined' /\ AllPaid'
  BY NextTypes, JoinedStep, PaidStep
<1>3. Types /\ Joined /\ AllPaid => OneAcceptancePerIntent
  <2> SUFFICES ASSUME Types, Joined, AllPaid, NEW m \in Intents
               PROVE  SumFunctionOnSet(accepted, Chain(m)) <= 1 + SumFunctionOnSet(cut, Chain(m))
    BY DEF OneAcceptancePerIntent
  <2> DEFINE S == Chain(m)
  <2>1. m \in Message /\ S \subseteq Message
    BY DEF Intents, Chain, Ids
  <2>2. IsFiniteSet(S)
    <3>1. IsFiniteSet(Message)
      BY BoundsAssumption, FS_Interval DEF Message
    <3> QED BY <2>1, <3>1, FS_Subset
  <2>3. \A k \in S : accepted[k] \in Nat /\ cut[k] \in Nat
    BY <2>1 DEF Types
  <2>4. ASSUME NEW k \in S PROVE accepted[k] <= cut[k] + (IF Children(k) # {} THEN 0 ELSE 1)
    <3>1. Paid(k) /\ Cardinality(Chances(k)) \in Nat
      BY <2>1, ChancesCount DEF AllPaid
    <3>2. accepted[k] \in Nat /\ cut[k] \in Nat
      BY <2>3
    <3>3. CASE Children(k) = {}
      BY <3>1, <3>2, <3>3 DEF Paid
    <3>4. CASE Children(k) # {}
      BY <3>1, <3>2, <3>4 DEF Paid
    <3> QED BY <3>3, <3>4
  <2>5. \A j, k \in S : Children(j) = {} /\ Children(k) = {} => j = k
    BY <2>1, LastOfChain
  <2> HIDE DEF S
  <2>6. AllInts(accepted, S) /\ AllInts(cut, S)
    BY <2>3 DEF AllInts
  <2>7. CASE \A k \in S : Children(k) # {}
    <3>1. LeqOn(accepted, cut, S)
      <4>1. ASSUME NEW k \in S PROVE accepted[k] <= cut[k]
        BY <2>3, <2>4, <2>7
      <4> QED BY <4>1 DEF LeqOn
    <3>2. /\ SumFunctionOnSet(accepted, S) <= SumFunctionOnSet(cut, S)
          /\ SumFunctionOnSet(accepted, S) \in Int /\ SumFunctionOnSet(cut, S) \in Int
      BY <2>2, <2>6, <3>1, SumLeq, SumType
    <3> QED BY <3>2 DEF S
  <2>8. CASE \E k \in S : Children(k) = {}
    <3>1. PICK x \in S : Children(x) = {}
      BY <2>8
    <3>2. PICK h : h = [k \in S |-> cut[k] + (IF k = x THEN 1 ELSE 0)]
      OBVIOUS
    <3>3. \A k \in S : h[k] \in Int /\ (k # x => h[k] = cut[k]) /\ (k = x => h[k] = cut[k] + 1)
      BY <2>3, <3>2
    <3>4. AllInts(h, S)
      BY <3>3 DEF AllInts
    <3>5. LeqOn(accepted, h, S)
      <4>1. ASSUME NEW k \in S PROVE accepted[k] <= h[k]
        <5>1. CASE k = x
          <6>1. accepted[k] <= cut[k] + (IF Children(k) # {} THEN 0 ELSE 1) /\ Children(k) = {}
            BY <2>4, <3>1, <5>1
          <6> QED BY <2>3, <3>3, <5>1, <6>1
        <5>2. CASE k # x
          <6>1. Children(k) # {}
            BY <2>5, <3>1, <5>2
          <6> QED BY <2>3, <2>4, <3>3, <5>2, <6>1
        <5> QED BY <5>1, <5>2
      <4> QED BY <4>1 DEF LeqOn
    <3>6. SumFunctionOnSet(h, S) = SumFunctionOnSet(cut, S) + (h[x] - cut[x])
      BY <2>2, <2>6, <3>3, SumChange
    <3>7. /\ SumFunctionOnSet(accepted, S) <= SumFunctionOnSet(h, S)
          /\ SumFunctionOnSet(accepted, S) \in Int /\ SumFunctionOnSet(cut, S) \in Int
      BY <2>2, <2>6, <3>4, <3>5, SumLeq, SumType
    <3>8. h[x] - cut[x] = 1
      BY <2>3, <3>3
    <3> QED BY <3>6, <3>7, <3>8 DEF S
  <2> QED BY <2>7, <2>8
<1> QED BY <1>1, <1>2, <1>3, PTL DEF Spec
===============================================================================
