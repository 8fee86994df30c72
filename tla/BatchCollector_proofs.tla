----------------------- MODULE BatchCollector_proofs -----------------------
(***************************************************************************)
(* Proofs about the batch collector, for every number of adders and        *)
(* closers, every batch size and every width of the sequence counter.      *)
(***************************************************************************)
EXTENDS BatchCollector, SequenceTheorems, TLAPS

LEMMA QueueCapType == QueueCap \in Nat \ {0}
  BY SizeAssumption, SMTT(30) DEF QueueCap, MaxInt

LEMMA NextSeqType == \A s \in 0..SeqMax : NextSeq(s) \in 0..SeqMax
  BY SizeAssumption DEF NextSeq

\* A goroutine is never the value that stands for an unlocked mutex.
LEMMA GoroutineNotFree == \A g \in Goroutines : g # Free
  BY GoroutineAssumption DEF Goroutines, Flusher, Free

-----------------------------------------------------------------------------
(* Type correctness, the accounting of the wait group included, because     *)
(* pendingSends stays a natural number only as long as it counts the calls. *)

TypeInv == TypeOK /\ PendingAccounting

\* What StartSend does to the types.
LEMMA StartSendType ==
  ASSUME TypeOK, NEW g \in Goroutines, NEW evs \in Seq(Nat), mu = Free,
         StartSend(g, evs)
  PROVE  /\ events' \in Seq(Nat) /\ Len(events') < MaxSize
         /\ sequence' \in 0..SeqMax
         /\ pendingSends' = pendingSends + 1
         /\ mu' \in Goroutines \cup {Free}
         /\ outgoing = <<>>
         /\ outgoing' \in Seq(Request) /\ Len(outgoing') = 1
         /\ mu' # Free
<1>1. outgoing = <<>>
  BY EmptySeq DEF TypeOK
<1>2. events' = <<>> /\ events' \in Seq(Nat) /\ Len(events') < MaxSize
  BY SizeAssumption DEF StartSend, Cleared
<1>3. sequence' \in 0..SeqMax
  BY NextSeqType DEF StartSend, TypeOK
<1>4. [seq |-> NextSeq(sequence), batch |-> evs] \in Request
  BY NextSeqType DEF TypeOK, Request
<1>5. outgoing' \in Seq(Request) /\ Len(outgoing') = 1
  BY <1>4 DEF StartSend
<1>6. mu' = g /\ mu' # Free
  BY GoroutineNotFree DEF StartSend
<1> QED BY <1>1, <1>2, <1>3, <1>5, <1>6 DEF StartSend

\* What flush does to the types, whether or not there is anything to flush.
LEMMA FlushType ==
  ASSUME TypeInv, NEW g \in Goroutines, NEW evs \in Seq(Nat), mu = Free,
         Flush(g, evs), UNCHANGED <<sendQueue, sendLoop>>
  PROVE  /\ events' \in Seq(Nat) /\ Len(events') < MaxSize
         /\ sequence' \in 0..SeqMax
         /\ pendingSends' \in Nat
         /\ mu' \in Goroutines \cup {Free}
         /\ outgoing' \in Seq(Request)
         /\ Len(outgoing') = IF mu' = Free THEN 0 ELSE 1
         /\ PendingAccounting'
<1>1. CASE NothingToFlush(evs)
  <2>1. events' = <<>> /\ UNCHANGED <<sequence, pendingSends, mu, outgoing>>
    BY <1>1 DEF NothingToFlush
  <2>2. events' \in Seq(Nat) /\ Len(events') < MaxSize
    BY <2>1, SizeAssumption
  <2> QED BY <2>1, <2>2 DEF TypeInv, TypeOK, PendingAccounting
<1>2. CASE StartSend(g, evs)
  <2>1. TypeOK
    BY DEF TypeInv
  <2>2. /\ events' \in Seq(Nat) /\ Len(events') < MaxSize
        /\ sequence' \in 0..SeqMax
        /\ pendingSends' = pendingSends + 1
        /\ mu' \in Goroutines \cup {Free}
        /\ outgoing = <<>>
        /\ outgoing' \in Seq(Request) /\ Len(outgoing') = 1
        /\ mu' # Free
    BY <1>2, <2>1, StartSendType
  <2>3. Len(outgoing) = 0
    BY <2>2
  <2>4. pendingSends' \in Nat /\ PendingAccounting'
    BY <2>2, <2>3 DEF TypeInv, TypeOK, PendingAccounting
  <2> QED BY <2>2, <2>4
<1> QED BY <1>1, <1>2 DEF Flush

LEMMA TypeInit == Init => TypeInv
<1> SUFFICES ASSUME Init
             PROVE  TypeInv
  OBVIOUS
<1>1. /\ events \in Seq(Nat) /\ Len(events) = 0
      /\ outgoing \in Seq(Request) /\ Len(outgoing) = 0
      /\ sendQueue \in Seq(Request) /\ Len(sendQueue) = 0
      /\ sent \in Seq(Request)
  BY DEF Init
<1>2. closer \in [Closers -> CloseStates]
  BY DEF Init, CloseStates
<1>3. PendingAccounting
  BY <1>1 DEF Init, PendingAccounting
<1>4. /\ Len(events) < MaxSize
      /\ Len(sendQueue) <= QueueCap
      /\ sequence \in 0..SeqMax /\ pendingSends \in Nat /\ added \in Nat
  BY <1>1, QueueCapType, SizeAssumption DEF Init
<1>5. /\ queueClosed \in BOOLEAN /\ ctxDone \in BOOLEAN
      /\ panicked \in BOOLEAN
  BY DEF Init
<1>6. TypeOK
  BY <1>1, <1>2, <1>4, <1>5 DEF Init, TypeOK
<1> QED BY <1>3, <1>6 DEF TypeInv

\* Every step keeps the types and the accounting.
LEMMA TypeStep == TypeInv /\ [Next]_vars => TypeInv'
<1> SUFFICES ASSUME TypeInv, [Next]_vars
             PROVE  TypeInv'
  OBVIOUS
<1> USE QueueCapType
<1>1. ASSUME NEW a \in Adders, Add(a)
      PROVE  TypeInv'
  <2> DEFINE evs == Append(events, added + 1)
  <2>1. evs \in Seq(Nat) /\ Len(evs) = Len(events) + 1 /\ mu = Free
    BY <1>1 DEF Add, TypeInv, TypeOK
  <2>2. UNCHANGED <<sendQueue, queueClosed, procs, sent>> /\ added' \in Nat
    BY <1>1 DEF Add, TypeInv, TypeOK
  <2>3. CASE Flush(a, evs)
    <3>1. /\ events' \in Seq(Nat) /\ Len(events') < MaxSize
          /\ sequence' \in 0..SeqMax
          /\ pendingSends' \in Nat
          /\ mu' \in Goroutines \cup {Free}
          /\ outgoing' \in Seq(Request)
          /\ Len(outgoing') = IF mu' = Free THEN 0 ELSE 1
          /\ PendingAccounting'
      <4> HIDE DEF evs
      <4> QED BY <2>1, <2>2, <2>3, FlushType DEF Goroutines, procs
    <3> QED BY <2>2, <3>1 DEF TypeInv, TypeOK, procs
  <2>4. CASE /\ ~BatchFull(evs) /\ events' = evs
             /\ UNCHANGED <<sequence, pendingSends, mu, outgoing>>
    <3>1. events' \in Seq(Nat) /\ Len(events') < MaxSize
      BY <2>1, <2>4, SizeAssumption DEF BatchFull, TypeInv, TypeOK
    <3> QED BY <2>2, <2>4, <3>1 DEF TypeInv, TypeOK, PendingAccounting, procs
  <2> QED BY <1>1, <2>3, <2>4 DEF Add
<1>2. ASSUME NEW g \in Goroutines, EnqueueBatch(g)
      PROVE  TypeInv'
  <2>1. mu # Free /\ Len(outgoing) = 1
    BY <1>2, GoroutineNotFree DEF EnqueueBatch, TypeInv, TypeOK
  <2>2. /\ sendQueue' \in Seq(Request)
        /\ Len(sendQueue') = Len(sendQueue) + 1
        /\ Len(sendQueue') <= QueueCap
    <3>1. sendQueue \in Seq(Request) /\ outgoing \in Seq(Request)
      BY DEF TypeInv, TypeOK
    <3>2. /\ sendQueue \o outgoing \in Seq(Request)
          /\ Len(sendQueue \o outgoing) = Len(sendQueue) + Len(outgoing)
      BY <3>1, ConcatProperties
    <3> QED BY <1>2, <2>1, <3>1, <3>2 DEF EnqueueBatch
  <2>3. outgoing' \in Seq(Request) /\ Len(outgoing') = 0
    BY <1>2 DEF EnqueueBatch
  <2> QED BY <1>2, <2>1, <2>2, <2>3
          DEF EnqueueBatch, TypeInv, TypeOK, PendingAccounting, buffer,
              procs, history
<1>3. ASSUME NEW g \in Goroutines, SendOnClosed(g)
      PROVE  TypeInv'
  BY <1>3 DEF SendOnClosed, TypeInv, TypeOK, PendingAccounting, buffer,
              channel, history
<1>4. CASE AutoFlushTick \/ AutoFlushStop
  BY <1>4 DEF AutoFlushTick, AutoFlushStop, TypeInv, TypeOK,
              PendingAccounting, buffer, channel, history
<1>5. CASE AutoFlushFlush
  <2>1. /\ events' \in Seq(Nat) /\ Len(events') < MaxSize
        /\ sequence' \in 0..SeqMax
        /\ pendingSends' \in Nat
        /\ mu' \in Goroutines \cup {Free}
        /\ outgoing' \in Seq(Request)
        /\ Len(outgoing') = IF mu' = Free THEN 0 ELSE 1
        /\ PendingAccounting'
    BY <1>5, FlushType DEF AutoFlushFlush, Goroutines, TypeInv, TypeOK
  <2> QED BY <1>5, <2>1 DEF AutoFlushFlush, TypeInv, TypeOK, history
<1>6. ASSUME NEW c \in Closers, CloseFlush(c)
      PROVE  TypeInv'
  <2>1. /\ events' \in Seq(Nat) /\ Len(events') < MaxSize
        /\ sequence' \in 0..SeqMax
        /\ pendingSends' \in Nat
        /\ mu' \in Goroutines \cup {Free}
        /\ outgoing' \in Seq(Request)
        /\ Len(outgoing') = IF mu' = Free THEN 0 ELSE 1
        /\ PendingAccounting'
    BY <1>6, FlushType DEF CloseFlush, Goroutines, TypeInv, TypeOK
  <2> QED BY <1>6, <2>1
          DEF CloseFlush, TypeInv, TypeOK, history, CloseStates
<1>7. ASSUME NEW c \in Closers,
             CloseCancel(c) \/ CloseDone(c) \/ CloseTimeout(c)
      PROVE  TypeInv'
  BY <1>7 DEF CloseCancel, CloseDone, CloseTimeout, TypeInv, TypeOK,
              PendingAccounting, buffer, channel, history, CloseStates
<1>8. ASSUME NEW c \in Closers, CloseQueue(c)
      PROVE  TypeInv'
  BY <1>8 DEF CloseQueue, TypeInv, TypeOK, PendingAccounting, buffer,
              history, CloseStates
<1>9. CASE Receive
  <2>1. /\ sendQueue' \in Seq(Request)
        /\ Len(sendQueue') = Len(sendQueue) - 1
        /\ Head(sendQueue) \in Request
        /\ sent' \in Seq(Request)
    BY <1>9 DEF Receive, TypeInv, TypeOK
  <2>2. PendingAccounting'
    <3>1. pendingSends = Len(outgoing) + Len(sendQueue)
      BY <1>9 DEF Receive, TypeInv, TypeOK, PendingAccounting
    <3>2. Len(outgoing) \in Nat /\ Len(sendQueue) \in Nat
      BY DEF TypeInv, TypeOK
    <3> QED BY <1>9, <2>1, <3>1, <3>2
            DEF Receive, PendingAccounting, buffer
  <2>3. TypeOK'
    BY <1>9, <2>1 DEF Receive, TypeInv, TypeOK, buffer
  <2> QED BY <2>2, <2>3 DEF TypeInv
<1>10. CASE SendReturns
  <2>1. pendingSends = Len(outgoing) + Len(sendQueue) + 1
    BY <1>10 DEF SendReturns, TypeInv, PendingAccounting
  <2>2. Len(outgoing) \in Nat /\ Len(sendQueue) \in Nat
    BY DEF TypeInv, TypeOK
  <2>3. PendingAccounting' /\ pendingSends' \in Nat
    BY <1>10, <2>1, <2>2 DEF SendReturns, PendingAccounting, channel
  <2>4. TypeOK'
    BY <1>10, <2>3 DEF SendReturns, TypeInv, TypeOK, channel, history
  <2> QED BY <2>3, <2>4 DEF TypeInv
<1>11. CASE SendLoopExit
  BY <1>11 DEF SendLoopExit, TypeInv, TypeOK, PendingAccounting, buffer,
               channel, history
<1>12. CASE UNCHANGED vars
  BY <1>12 DEF vars, buffer, channel, procs, history, TypeInv, TypeOK,
               PendingAccounting
<1> QED BY <1>1, <1>2, <1>3, <1>4, <1>5, <1>6, <1>7, <1>8, <1>9, <1>10,
           <1>11, <1>12 DEF Next, Terminated

\* Every reachable state is well typed: the buffer stays below maxSize
\* outside the critical section and the channel within its capacity.
THEOREM TypeCorrect == Spec => []TypeOK
<1>1. Init => TypeInv
  BY TypeInit
<1>2. TypeInv => TypeOK
  BY DEF TypeInv
<1> QED BY <1>1, <1>2, TypeStep, PTL DEF Spec

\* The wait group that Close waits for counts exactly the requests on their
\* way: being sent to the channel, queued in it, or inside SendBatch.
THEOREM PendingCorrect == Spec => []PendingAccounting
<1>1. Init => TypeInv
  BY TypeInit
<1>2. TypeInv => PendingAccounting
  BY DEF TypeInv
<1> QED BY <1>1, <1>2, TypeStep, PTL DEF Spec
-----------------------------------------------------------------------------
(* Order.  The pipeline only ever grows at its end: StartSend appends the   *)
(* new request; moving a request from the blocked sender into the channel,  *)
(* or from the channel to the send loop, leaves the pipeline as it is.      *)

Chain(p) == \A k \in 1..Len(p) : WellFormedAt(p, k)

\* No request of the pipeline holds an event that was not added yet.
Bounded == \A k \in 1..Len(Pipeline) : LastEvent(Pipeline, k) <= added

OrderInv == TypeInv /\ InOrder /\ Bounded

LEMMA PipelineType == TypeOK => Pipeline \in Seq(Request)
  BY ConcatProperties DEF TypeOK, Pipeline

\* A well-formed chain stays one when the next request is appended.
LEMMA AppendChain ==
  ASSUME NEW p \in Seq(Request), NEW r \in Request, Chain(p),
         Len(r.batch) \in 1..MaxSize,
         Consecutive(r.batch),
         r.batch[1] = LastEvent(p, Len(p)) + 1,
         r.seq = NextSeq(SeqAt(p, Len(p)))
  PROVE  /\ Chain(Append(p, r))
         /\ Len(Append(p, r)) = Len(p) + 1
         /\ SeqAt(Append(p, r), Len(p) + 1) = r.seq
         /\ LastEvent(Append(p, r), Len(p) + 1) = r.batch[Len(r.batch)]
         /\ \A k \in 1..Len(p) : LastEvent(Append(p, r), k) = LastEvent(p, k)
<1> DEFINE q == Append(p, r)
<1>1. /\ Len(q) = Len(p) + 1 /\ q[Len(p) + 1] = r /\ Len(p) \in Nat
      /\ \A k \in 1..Len(p) : q[k] = p[k]
  OBVIOUS
<1> HIDE DEF q
<1>2. \A k \in 0..Len(p) : /\ LastEvent(q, k) = LastEvent(p, k)
                           /\ SeqAt(q, k) = SeqAt(p, k)
  BY <1>1 DEF LastEvent, SeqAt
<1>3. ASSUME NEW k \in 1..Len(q)
      PROVE  WellFormedAt(q, k)
  <2>1. CASE k = Len(p) + 1
    <3>1. k - 1 = Len(p)
      BY <1>1, <2>1
    <3> QED BY <1>1, <1>2, <2>1, <3>1 DEF WellFormedAt
  <2>2. CASE k \in 1..Len(p)
    <3>1. k - 1 \in 0..Len(p)
      BY <1>1, <2>2
    <3>2. WellFormedAt(p, k)
      BY <2>2 DEF Chain
    <3> QED BY <1>1, <1>2, <2>2, <3>1, <3>2 DEF WellFormedAt
  <2> QED BY <1>1, <2>1, <2>2
<1>4. /\ SeqAt(q, Len(p) + 1) = r.seq
      /\ LastEvent(q, Len(p) + 1) = r.batch[Len(r.batch)]
  BY <1>1 DEF SeqAt, LastEvent
<1>5. Chain(q)
  BY <1>3 DEF Chain
<1>6. \A k \in 1..Len(p) : LastEvent(q, k) = LastEvent(p, k)
  BY <1>1, <1>2
<1> QED BY <1>1, <1>4, <1>5, <1>6 DEF q

\* What StartSend does to the pipeline when the buffer continues it.
LEMMA StartSendOrder ==
  ASSUME TypeOK, InOrder, NEW g \in Goroutines, NEW evs \in Seq(Nat),
         mu = Free, StartSend(g, evs), UNCHANGED <<sent, sendQueue>>,
         Len(evs) \in 1..MaxSize, Consecutive(evs),
         evs[1] = LastEvent(Pipeline, Len(Pipeline)) + 1
  PROVE  /\ Chain(Pipeline')
         /\ Len(Pipeline') = Len(Pipeline) + 1
         /\ sequence' = SeqAt(Pipeline', Len(Pipeline'))
         /\ LastEvent(Pipeline', Len(Pipeline')) = evs[Len(evs)]
         /\ \A k \in 1..Len(Pipeline) :
               LastEvent(Pipeline', k) = LastEvent(Pipeline, k)
<1> DEFINE r == [seq |-> NextSeq(sequence), batch |-> evs]
<1>1. r \in Request
  BY NextSeqType DEF TypeOK, Request
<1>2. outgoing = <<>> /\ outgoing' = <<r>>
  BY StartSendType DEF StartSend
<1>3. Pipeline' = Append(Pipeline, r)
  <2>1. sent \in Seq(Request) /\ sendQueue \in Seq(Request)
    BY DEF TypeOK
  <2>2. sent \o sendQueue \in Seq(Request)
    BY <2>1, ConcatProperties
  <2> DEFINE front == sent \o sendQueue
  <2>3. Pipeline = front
    BY <1>2, <2>2, ConcatEmptySeq DEF Pipeline
  <2>4. Pipeline' = front \o <<r>>
    BY <1>2 DEF Pipeline
  <2>5. front \o <<r>> = Append(front, r)
    <3> HIDE DEF front, r
    <3> QED BY <1>1, <2>2, AppendIsConcat DEF front
  <2> QED BY <2>3, <2>4, <2>5
<1>4. Pipeline \in Seq(Request)
  BY PipelineType
<1>5. Chain(Pipeline) /\ sequence = SeqAt(Pipeline, Len(Pipeline))
  BY DEF InOrder, Chain
<1>6. r.batch = evs /\ r.seq = NextSeq(sequence) /\ sequence' = r.seq
  BY DEF StartSend
<1> HIDE DEF r
<1> QED BY <1>1, <1>3, <1>4, <1>5, <1>6, AppendChain

\* Moving the head of t to the end of s leaves s \o t as it is.
LEMMA MoveHead ==
  ASSUME NEW S, NEW s \in Seq(S), NEW t \in Seq(S), t # <<>>
  PROVE  Append(s, Head(t)) \o Tail(t) = s \o t
<1>1. /\ Head(t) \in S /\ Tail(t) \in Seq(S) /\ Len(Tail(t)) = Len(t) - 1
      /\ \A i \in 1..Len(Tail(t)) : Tail(t)[i] = t[i + 1]
      /\ Head(t) = t[1] /\ Len(t) \in Nat \ {0}
  BY HeadTailProperties, EmptySeq
<1> DEFINE u == Append(s, Head(t))
<1>2. /\ u \in Seq(S) /\ Len(u) = Len(s) + 1 /\ u[Len(s) + 1] = t[1]
      /\ \A i \in 1..Len(s) : u[i] = s[i] /\ Len(s) \in Nat
  BY <1>1
<1> HIDE DEF u
<1>3. /\ u \o Tail(t) \in Seq(S)
      /\ Len(u \o Tail(t)) = Len(u) + Len(Tail(t))
      /\ \A i \in 1..Len(u) + Len(Tail(t)) : (u \o Tail(t))[i] =
            IF i <= Len(u) THEN u[i] ELSE Tail(t)[i - Len(u)]
  BY <1>1, <1>2, ConcatProperties
<1>4. /\ s \o t \in Seq(S)
      /\ Len(s \o t) = Len(s) + Len(t)
      /\ \A i \in 1..Len(s) + Len(t) : (s \o t)[i] =
            IF i <= Len(s) THEN s[i] ELSE t[i - Len(s)]
  BY ConcatProperties
<1>5. Len(u \o Tail(t)) = Len(s \o t)
  BY <1>1, <1>2, <1>3, <1>4
<1>6. ASSUME NEW i \in 1..Len(s \o t)
      PROVE  (u \o Tail(t))[i] = (s \o t)[i]
  <2>1. CASE i <= Len(s)
    BY <1>1, <1>2, <1>3, <1>4, <2>1
  <2>2. CASE i = Len(s) + 1
    BY <1>1, <1>2, <1>3, <1>4, <2>2
  <2>3. CASE i > Len(s) + 1
    BY <1>1, <1>2, <1>3, <1>4, <2>3
  <2> QED BY <1>2, <1>4, <2>1, <2>2, <2>3
<1> QED BY <1>3, <1>4, <1>5, <1>6, SeqEqual DEF u

\* flush keeps the order, whichever buffer evs it is run on: bc.events, or
\* bc.events with the event that Add has just appended.
LEMMA FlushOrder ==
  ASSUME OrderInv, NEW g \in Goroutines, NEW evs \in Seq(Nat), mu = Free,
         NEW last \in Nat, last >= added, added' = last,
         Flush(g, evs), UNCHANGED <<sent, sendQueue>>,
         Len(evs) <= MaxSize, Consecutive(evs),
         evs = <<>> => last = added /\ events = <<>>,
         evs # <<>> => /\ evs[1] = LastEvent(Pipeline, Len(Pipeline)) + 1
                       /\ evs[Len(evs)] = last
  PROVE  InOrder' /\ Bounded'
<1>1. TypeOK /\ InOrder /\ Bounded /\ added \in Nat
  BY DEF OrderInv, TypeInv, TypeOK
<1>2. CASE NothingToFlush(evs)
  <2>1. /\ Pipeline' = Pipeline
        /\ events' = events /\ added' = added /\ sequence' = sequence
    BY <1>2 DEF NothingToFlush, Pipeline
  <2> QED BY <1>1, <2>1 DEF InOrder, Bounded
<1>3. CASE StartSend(g, evs)
  <2>1. evs # <<>> /\ Len(evs) \in 1..MaxSize
    BY <1>3, EmptySeq, SizeAssumption DEF StartSend
  <2>2. /\ Chain(Pipeline')
        /\ Len(Pipeline') = Len(Pipeline) + 1
        /\ sequence' = SeqAt(Pipeline', Len(Pipeline'))
        /\ LastEvent(Pipeline', Len(Pipeline')) = evs[Len(evs)]
        /\ \A k \in 1..Len(Pipeline) :
              LastEvent(Pipeline', k) = LastEvent(Pipeline, k)
    BY <1>1, <1>3, <2>1, StartSendOrder
  <2>3. events' = <<>>
    BY <1>3 DEF StartSend, Cleared
  <2>4. Consecutive(events')
    BY <2>3 DEF Consecutive
  <2>5. InOrder'
    BY <2>1, <2>2, <2>3, <2>4 DEF InOrder, Chain
  <2>6. Len(Pipeline) \in Nat
    BY <1>1, PipelineType
  <2>7. ASSUME NEW k \in 1..Len(Pipeline')
        PROVE  LastEvent(Pipeline', k) <= added'
    <3>1. CASE k = Len(Pipeline')
      BY <2>1, <2>2, <3>1
    <3>2. CASE k \in 1..Len(Pipeline)
      <4>1. LastEvent(Pipeline, k) <= added
        BY <1>1, <3>2 DEF Bounded
      <4>2. LastEvent(Pipeline, k) \in Nat
        <5>1. Pipeline[k] \in Request
          BY <1>1, <3>2, PipelineType, ElementOfSeq
        <5>2. Len(Pipeline[k].batch) \in 1..MaxSize
          BY <1>1, <3>2 DEF InOrder, WellFormedAt
        <5>3. Pipeline[k].batch \in Seq(Nat)
          BY <5>1 DEF Request
        <5>4. Len(Pipeline[k].batch) \in 1..Len(Pipeline[k].batch)
          BY <5>2, SizeAssumption
        <5>5. Pipeline[k].batch[Len(Pipeline[k].batch)] \in Nat
          BY <5>3, <5>4, ElementOfSeq
        <5> QED BY <5>5, <3>2 DEF LastEvent
      <4> QED BY <1>1, <2>2, <3>2, <4>1, <4>2
    <3> QED BY <2>2, <2>6, <3>1, <3>2
  <2> QED BY <2>5, <2>7 DEF Bounded
<1> QED BY <1>2, <1>3 DEF Flush

LEMMA OrderStep == OrderInv /\ [Next]_vars => OrderInv'
<1> SUFFICES ASSUME OrderInv, [Next]_vars
             PROVE  OrderInv'
  OBVIOUS
<1>1. TypeInv' /\ TypeOK /\ InOrder /\ Bounded
  BY TypeStep DEF OrderInv, TypeInv
<1> SUFFICES InOrder' /\ Bounded'
  BY <1>1 DEF OrderInv
<1>0. added \in Nat /\ events \in Seq(Nat) /\ Len(events) < MaxSize
  BY <1>1 DEF TypeOK
<1>2. ASSUME UNCHANGED <<events, sequence, added, Pipeline>>
      PROVE  InOrder' /\ Bounded'
  BY <1>1, <1>2 DEF InOrder, Bounded
<1>3. ASSUME NEW a \in Adders, Add(a)
      PROVE  InOrder' /\ Bounded'
  <2> DEFINE evs == Append(events, added + 1)
  <2>1. /\ mu = Free /\ added' = added + 1
        /\ UNCHANGED <<sent, sendQueue>>
    BY <1>3 DEF Add
  <2>2. /\ evs \in Seq(Nat) /\ Len(evs) = Len(events) + 1
        /\ evs[Len(evs)] = added + 1
        /\ evs # <<>>
        /\ \A i \in 1..Len(events) : evs[i] = events[i]
    BY <1>0
  <2>3. evs[1] = LastEvent(Pipeline, Len(Pipeline)) + 1
    <3>1. CASE events = <<>>
      BY <1>0, <1>1, <2>2, <3>1 DEF InOrder
    <3>2. CASE events # <<>>
      BY <1>0, <1>1, <2>2, <3>2, EmptySeq DEF InOrder
    <3> QED BY <3>1, <3>2
  <2>4. Consecutive(evs)
    <3>1. CASE events = <<>>
      BY <1>0, <2>2, <3>1 DEF Consecutive
    <3>2. CASE events # <<>>
      <4>1. Len(events) \in Nat \ {0}
        BY <1>0, <3>2, EmptySeq
      <4>2. /\ \A i \in 1..Len(events) : events[i] = events[1] + (i - 1)
            /\ events[Len(events)] = added
        BY <1>1, <3>2 DEF InOrder, Consecutive
      <4>3. evs[1] = events[1] /\ events[1] \in Nat
        BY <1>0, <2>2, <4>1, ElementOfSeq
      <4>4. added + 1 = events[1] + Len(events)
        <5>1. Len(events) \in 1..Len(events)
          BY <4>1
        <5>2. events[Len(events)] = events[1] + (Len(events) - 1)
          BY <4>2, <5>1
        <5> QED BY <1>0, <4>1, <4>2, <4>3, <5>2
      <4>5. ASSUME NEW i \in 1..Len(evs)
            PROVE  evs[i] = evs[1] + (i - 1)
        <5>1. CASE i = Len(evs)
          BY <2>2, <4>1, <4>3, <4>4, <5>1
        <5>2. CASE i \in 1..Len(events)
          BY <2>2, <4>2, <4>3, <5>2
        <5> QED BY <2>2, <4>1, <5>1, <5>2
      <4> QED BY <4>5 DEF Consecutive
    <3> QED BY <3>1, <3>2
  <2>5. CASE Flush(a, evs)
    <3> HIDE DEF evs
    <3>1. Len(evs) <= MaxSize
      BY <1>0, <2>2, SizeAssumption
    <3>2. added + 1 \in Nat /\ added + 1 >= added /\ a \in Goroutines
      BY <1>0 DEF Goroutines
    <3> QED BY <2>1, <2>2, <2>3, <2>4, <2>5, <3>1, <3>2, FlushOrder
  <2>6. CASE /\ events' = evs
             /\ UNCHANGED <<sequence, pendingSends, mu, outgoing>>
    <3>1. Pipeline' = Pipeline /\ sequence' = sequence
      BY <2>1, <2>6 DEF Pipeline
    <3>2. InOrder'
      BY <1>1, <2>1, <2>2, <2>3, <2>4, <2>6, <3>1 DEF InOrder
    <3>3. Bounded'
      <4>1. ASSUME NEW k \in 1..Len(Pipeline)
            PROVE  LastEvent(Pipeline, k) <= added + 1
        <5>1. Pipeline[k] \in Request
          BY <1>1, PipelineType, ElementOfSeq
        <5>2. Len(Pipeline[k].batch) \in 1..Len(Pipeline[k].batch)
          BY <1>1, SizeAssumption DEF InOrder, WellFormedAt
        <5>3. Pipeline[k].batch[Len(Pipeline[k].batch)] \in Nat
          BY <5>1, <5>2, ElementOfSeq DEF Request
        <5>4. LastEvent(Pipeline, k) \in Nat
          BY <5>3 DEF LastEvent
        <5> QED BY <1>0, <1>1, <5>4 DEF Bounded
      <4> QED BY <2>1, <3>1, <4>1 DEF Bounded
    <3> QED BY <3>2, <3>3
  <2> QED BY <1>3, <2>5, <2>6 DEF Add
<1>4. ASSUME NEW g \in Goroutines, mu = Free, Flush(g, events),
             UNCHANGED <<sent, sendQueue, added>>
      PROVE  InOrder' /\ Bounded'
  <2>1. /\ Consecutive(events)
        /\ events # <<>> =>
             /\ events[1] = LastEvent(Pipeline, Len(Pipeline)) + 1
             /\ events[Len(events)] = added
    BY <1>1 DEF InOrder
  <2>2. Len(events) <= MaxSize /\ added >= added /\ added' = added
    BY <1>0, <1>4, SizeAssumption
  <2> QED BY <1>0, <1>4, <2>1, <2>2, FlushOrder
<1>5. ASSUME NEW g \in Goroutines, EnqueueBatch(g)
      PROVE  InOrder' /\ Bounded'
  <2>1. /\ sent \in Seq(Request) /\ sendQueue \in Seq(Request)
        /\ outgoing \in Seq(Request)
    BY <1>1 DEF TypeOK
  <2>2. /\ sendQueue' = sendQueue \o outgoing /\ outgoing' = <<>>
        /\ UNCHANGED <<events, sequence, added, sent>>
    BY <1>5 DEF EnqueueBatch, buffer, history
  <2>3. Pipeline' = (sent \o (sendQueue \o outgoing)) \o <<>>
    BY <2>2 DEF Pipeline
  <2>4. /\ sendQueue \o outgoing \in Seq(Request)
        /\ sent \o (sendQueue \o outgoing) \in Seq(Request)
    BY <2>1, ConcatProperties
  <2>5. Pipeline' = sent \o (sendQueue \o outgoing)
    BY <2>3, <2>4, ConcatEmptySeq
  <2>6. Pipeline = sent \o (sendQueue \o outgoing)
    BY <2>1, ConcatAssociative, SMTT(30) DEF Pipeline
  <2> QED BY <1>2, <2>2, <2>5, <2>6
<1>6. CASE Receive
  <2>1. /\ sent \in Seq(Request) /\ sendQueue \in Seq(Request)
        /\ sendQueue # <<>>
    BY <1>1, <1>6 DEF Receive, TypeOK
  <2>2. /\ sent' = Append(sent, Head(sendQueue))
        /\ sendQueue' = Tail(sendQueue)
        /\ UNCHANGED <<events, sequence, added, outgoing>>
    BY <1>6 DEF Receive, buffer
  <2>3. sent' \o sendQueue' = sent \o sendQueue
    BY <2>1, <2>2, MoveHead
  <2>4. Pipeline' = Pipeline
    BY <2>2, <2>3 DEF Pipeline
  <2> QED BY <1>2, <2>2, <2>4
<1>7. CASE AutoFlushFlush
  BY <1>4, <1>7 DEF AutoFlushFlush, Goroutines, history
<1>8. ASSUME NEW c \in Closers, CloseFlush(c)
      PROVE  InOrder' /\ Bounded'
  BY <1>4, <1>8 DEF CloseFlush, Goroutines, history
<1>9. ASSUME NEW g \in Goroutines, SendOnClosed(g)
      PROVE  InOrder' /\ Bounded'
  BY <1>2, <1>9 DEF SendOnClosed, Pipeline, buffer, channel, history
<1>10. ASSUME NEW c \in Closers,
              \/ CloseCancel(c) \/ CloseQueue(c)
              \/ CloseDone(c) \/ CloseTimeout(c)
       PROVE  InOrder' /\ Bounded'
  BY <1>2, <1>10 DEF CloseCancel, CloseQueue, CloseDone, CloseTimeout,
                     Pipeline, buffer, channel, history
<1>11. CASE \/ AutoFlushTick \/ AutoFlushStop \/ SendReturns
            \/ SendLoopExit \/ UNCHANGED vars
  BY <1>2, <1>11 DEF AutoFlushTick, AutoFlushStop, SendReturns, SendLoopExit,
                     Pipeline, vars, buffer, channel, history
<1> QED BY <1>3, <1>5, <1>6, <1>7, <1>8, <1>9, <1>10, <1>11
        DEF Next, Terminated

LEMMA OrderInit == Init => OrderInv
<1> SUFFICES ASSUME Init
             PROVE  OrderInv
  OBVIOUS
<1>1. Pipeline = <<>>
  BY EmptySeq, ConcatEmptySeq DEF Init, Pipeline
<1>2. Len(Pipeline) = 0 /\ events = <<>> /\ added = 0 /\ sequence = 0
  BY <1>1 DEF Init
<1>3. InOrder
  BY <1>2 DEF InOrder, Consecutive, LastEvent, SeqAt
<1>4. Bounded
  BY <1>2 DEF Bounded
<1> QED BY <1>3, <1>4, TypeInit DEF OrderInv

\* In every reachable state no event has been lost, duplicated or reordered
\* between Add and SendBatch, no batch is empty or larger than maxSize, and
\* batch numbers have no gaps, with any number of concurrent Add and Close
\* calls, Add calls after Close included.
THEOREM InOrderCorrect == Spec => []InOrder
<1>1. OrderInv => InOrder
  BY DEF OrderInv
<1> QED BY <1>1, OrderInit, OrderStep, PTL DEF Spec
-----------------------------------------------------------------------------
(* Shutdown, when no Add acquires the mutex after Close has begun.  A Close *)
(* that is past its flush has left the buffer empty, and nothing can refill *)
(* it; so from then on only that Close itself can still be blocked in its   *)
(* own channel send, and nobody once it has closed the channel.             *)

PastFlush == {"flushed", "waiting", "sent", "timeout"}
PastQueue == {"waiting", "sent", "timeout"}

ShutdownInv ==
  /\ \A c \in Closers : closer[c] \in PastFlush =>
       events = <<>> /\ mu \in {Free, c}
  /\ \A c \in Closers : closer[c] \in PastQueue => mu = Free
  /\ queueClosed => \E c \in Closers : closer[c] \in PastQueue
  /\ \A c \in Closers : closer[c] = "sent" => sendQueue = <<>>
  /\ ~panicked

LEMMA ShutdownStep ==
  ~LateAdds /\ TypeInv /\ ShutdownInv /\ [Next]_vars => ShutdownInv'
<1> SUFFICES ASSUME ~LateAdds, TypeInv, ShutdownInv, [Next]_vars
             PROVE  ShutdownInv'
  OBVIOUS
<1> USE DEF PastFlush, PastQueue
<1>0. /\ closer \in [Closers -> CloseStates]
      /\ \A g \in Goroutines : g # Free
  BY GoroutineNotFree DEF TypeInv, TypeOK
<1>1. ASSUME NEW a \in Adders, Add(a)
      PROVE  ShutdownInv'
  <2>1. \A c \in Closers : closer[c] = "idle"
    BY <1>1 DEF Add, MayAdd
  <2>2. UNCHANGED <<closer, queueClosed, panicked>>
    BY <1>1 DEF Add, procs
  <2> QED BY <2>1, <2>2 DEF ShutdownInv
<1>2. ASSUME NEW g \in Goroutines, EnqueueBatch(g)
      PROVE  ShutdownInv'
  <2>1. /\ mu = g /\ mu # Free /\ mu' = Free
        /\ UNCHANGED <<events, closer, queueClosed, panicked>>
    BY <1>0, <1>2 DEF EnqueueBatch, buffer, procs
  <2>2. \A c \in Closers : closer[c] \notin PastQueue
    BY <2>1 DEF ShutdownInv
  <2> QED BY <2>1, <2>2 DEF ShutdownInv
<1>3. ASSUME NEW g \in Goroutines, SendOnClosed(g)
      PROVE  ShutdownInv'
  <2>1. mu # Free /\ queueClosed
    BY <1>0, <1>3 DEF SendOnClosed
  <2> QED BY <2>1 DEF ShutdownInv
<1>4. CASE \/ AutoFlushTick \/ AutoFlushStop \/ SendReturns
           \/ SendLoopExit \/ UNCHANGED vars
  <2>1. UNCHANGED <<events, mu, queueClosed, closer, panicked, sendQueue>>
    BY <1>4 DEF AutoFlushTick, AutoFlushStop, SendReturns, SendLoopExit,
                vars, buffer, channel, procs, history
  <2> QED BY <2>1 DEF ShutdownInv
<1>5. CASE AutoFlushFlush
  <2>1. UNCHANGED <<closer, queueClosed, panicked, sendQueue>>
    BY <1>5 DEF AutoFlushFlush
  <2>2. CASE \A c \in Closers : closer[c] \notin PastFlush
    BY <2>1, <2>2 DEF ShutdownInv
  <2>3. CASE \E c \in Closers : closer[c] \in PastFlush
    <3>1. events = <<>>
      BY <2>3 DEF ShutdownInv
    <3>2. UNCHANGED <<events, mu>>
      BY <1>5, <3>1 DEF AutoFlushFlush, Flush, NothingToFlush, StartSend
    <3> QED BY <2>1, <3>2 DEF ShutdownInv
  <2> QED BY <2>2, <2>3
<1>6. ASSUME NEW c \in Closers, CloseFlush(c)
      PROVE  ShutdownInv'
  <2>1. /\ UNCHANGED <<queueClosed, panicked, sendQueue>>
        /\ mu = Free
        /\ closer[c] = "locking"
        /\ closer' = [closer EXCEPT ![c] = "flushed"]
    BY <1>6 DEF CloseFlush
  <2>2. /\ closer'[c] = "flushed"
        /\ \A d \in Closers \ {c} : closer'[d] = closer[d]
    BY <1>0, <2>1
  <2>3. events' = <<>> /\ mu' \in {Free, c}
    BY <1>6, <2>1
       DEF CloseFlush, Flush, NothingToFlush, StartSend, Cleared
  <2>4. CASE \A d \in Closers : closer[d] \notin PastFlush
    <3>1. \A d \in Closers : closer'[d] \notin PastQueue
      BY <2>2, <2>4
    <3>2. \A d \in Closers : closer'[d] \in PastFlush => d = c
      BY <2>2, <2>4
    <3>3. ~queueClosed'
      BY <2>1, <2>4 DEF ShutdownInv
    <3> QED BY <2>1, <2>3, <3>1, <3>2, <3>3 DEF ShutdownInv
  <2>5. CASE \E d \in Closers : closer[d] \in PastFlush
    <3>1. events = <<>>
      BY <2>5 DEF ShutdownInv
    <3>2. mu' = Free
      BY <1>6, <2>1, <3>1 DEF CloseFlush, Flush, NothingToFlush, StartSend
    <3>3. queueClosed' => \E d \in Closers : closer'[d] \in PastQueue
      BY <2>1, <2>2 DEF ShutdownInv
    <3>4. \A d \in Closers : closer'[d] = "sent" => closer[d] = "sent"
      BY <2>2
    <3> QED BY <2>1, <2>3, <3>2, <3>3, <3>4 DEF ShutdownInv
  <2> QED BY <2>4, <2>5
<1>7. ASSUME NEW c \in Closers, CloseCancel(c)
      PROVE  ShutdownInv'
  <2>1. /\ closer'[c] = "locking" /\ closer[c] = "idle"
        /\ \A d \in Closers \ {c} : closer'[d] = closer[d]
        /\ UNCHANGED <<events, mu, queueClosed, panicked, sendQueue>>
    BY <1>0, <1>7 DEF CloseCancel, buffer, channel
  <2> QED BY <2>1 DEF ShutdownInv
<1>8. ASSUME NEW c \in Closers, CloseQueue(c)
      PROVE  ShutdownInv'
  <2>1. /\ closer'[c] = "waiting" /\ closer[c] = "flushed" /\ mu # c
        /\ \A d \in Closers \ {c} : closer'[d] = closer[d]
        /\ UNCHANGED <<events, mu, panicked, sendQueue>>
    BY <1>0, <1>8 DEF CloseQueue, buffer
  <2>2. mu = Free /\ events = <<>>
    BY <2>1 DEF ShutdownInv
  <2> QED BY <2>1, <2>2 DEF ShutdownInv
<1>9. ASSUME NEW c \in Closers, CloseDone(c)
      PROVE  ShutdownInv'
  <2>1. /\ closer'[c] = "sent" /\ closer[c] = "waiting"
        /\ \A d \in Closers \ {c} : closer'[d] = closer[d]
        /\ UNCHANGED <<events, mu, queueClosed, panicked, sendQueue>>
        /\ pendingSends = 0
    BY <1>0, <1>9 DEF CloseDone, buffer, channel
  <2>2. sendQueue = <<>>
    <3>1. /\ Len(sendQueue) \in Nat /\ Len(outgoing) \in Nat
          /\ sendQueue \in Seq(Request)
      BY DEF TypeInv, TypeOK
    <3>2. Len(sendQueue) = 0
      BY <2>1, <3>1 DEF TypeInv, PendingAccounting
    <3> QED BY <3>1, <3>2, EmptySeq
  <2> QED BY <2>1, <2>2 DEF ShutdownInv
<1>10. ASSUME NEW c \in Closers, CloseTimeout(c)
       PROVE  ShutdownInv'
  <2>1. /\ closer'[c] = "timeout" /\ closer[c] = "waiting"
        /\ \A d \in Closers \ {c} : closer'[d] = closer[d]
        /\ UNCHANGED <<events, mu, queueClosed, panicked, sendQueue>>
    BY <1>0, <1>10 DEF CloseTimeout, buffer, channel
  <2> QED BY <2>1 DEF ShutdownInv
<1>11. CASE Receive
  <2>1. /\ UNCHANGED <<events, mu, queueClosed, closer, panicked>>
        /\ sendQueue # <<>>
    BY <1>11 DEF Receive, buffer
  <2> QED BY <2>1 DEF ShutdownInv
<1> QED BY <1>1, <1>2, <1>3, <1>4, <1>5, <1>6, <1>7, <1>8, <1>9, <1>10,
           <1>11 DEF Next, Terminated

LEMMA ShutdownInit == Init => ShutdownInv
  BY DEF Init, ShutdownInv, PastFlush, PastQueue

\* If no Add acquires the mutex once Close has begun, no interleaving of any
\* number of Close calls with the auto-flush goroutine and the send loop
\* sends on the closed channel.
THEOREM NoPanicCorrect == ~LateAdds /\ Spec => []NoPanic
<1>1. ShutdownInv => NoPanic
  BY DEF ShutdownInv, NoPanic
<1>2. CASE LateAdds
  BY <1>2, PTL
<1>3. CASE ~LateAdds
  <2>1. TypeInv /\ ShutdownInv /\ [Next]_vars => ShutdownInv'
    BY <1>3, ShutdownStep
  <2> QED BY <1>1, <2>1, ShutdownInit, TypeInit, TypeStep, PTL DEF Spec
<1> QED BY <1>2, <1>3

\* Under the same discipline, a Close that reports "all batches sent" leaves
\* no event behind: everything Add accepted was handed to SendBatch.
THEOREM CloseDeliversAllCorrect == ~LateAdds /\ Spec => []CloseDeliversAll
<1>1. OrderInv /\ ShutdownInv => CloseDeliversAll
  <2> SUFFICES ASSUME OrderInv, ShutdownInv,
                      NEW c \in Closers, closer[c] = "sent"
               PROVE  events = <<>> /\ LastEvent(sent, Len(sent)) = added
    BY DEF CloseDeliversAll
  <2>1. events = <<>> /\ mu = Free /\ sendQueue = <<>>
    BY DEF ShutdownInv, PastFlush, PastQueue
  <2>2. outgoing = <<>> /\ sent \in Seq(Request)
    BY <2>1, EmptySeq DEF OrderInv, TypeInv, TypeOK
  <2>3. Pipeline = sent
    BY <2>1, <2>2, ConcatEmptySeq DEF Pipeline
  <2> QED BY <2>1, <2>3 DEF OrderInv, InOrder
<1>2. CASE LateAdds
  BY <1>2, PTL
<1>3. CASE ~LateAdds
  <2>1. TypeInv /\ ShutdownInv /\ [Next]_vars => ShutdownInv'
    BY <1>3, ShutdownStep
  <2>2. OrderInv => TypeInv
    BY DEF OrderInv
  <2> QED BY <1>1, <2>1, <2>2, ShutdownInit, OrderInit, OrderStep, PTL
          DEF Spec
<1> QED BY <1>2, <1>3
-----------------------------------------------------------------------------
(* Refinement: the abstract stream sees a step only when Add accepts an     *)
(* event and when the send loop receives a request.                         *)

Batches(reqs) == [k \in 1..Len(reqs) |-> reqs[k].batch]

LEMMA BatchesType ==
  ASSUME NEW reqs \in Seq(Request)
  PROVE  Batches(reqs) \in Seq(Seq(Nat)) /\ Len(Batches(reqs)) = Len(reqs)
<1>1. ASSUME NEW k \in 1..Len(reqs)
      PROVE  reqs[k].batch \in Seq(Nat)
  <2>1. reqs[k] \in Request
    BY ElementOfSeq
  <2> QED BY <2>1 DEF Request
<1>2. Len(reqs) \in Nat
  OBVIOUS
<1> QED BY <1>1, <1>2 DEF Batches

LEMMA BatchesAppend ==
  ASSUME NEW reqs \in Seq(Request), NEW r \in Request
  PROVE  Batches(Append(reqs, r)) = Append(Batches(reqs), r.batch)
<1> DEFINE s == Batches(Append(reqs, r))
           t == Append(Batches(reqs), r.batch)
<1>1. /\ Append(reqs, r) \in Seq(Request)
      /\ Len(Append(reqs, r)) = Len(reqs) + 1 /\ Len(reqs) \in Nat
      /\ Append(reqs, r)[Len(reqs) + 1] = r
      /\ \A k \in 1..Len(reqs) : Append(reqs, r)[k] = reqs[k]
  OBVIOUS
<1>2. s \in Seq(Seq(Nat)) /\ Len(s) = Len(reqs) + 1
  BY <1>1, BatchesType
<1>3. /\ Batches(reqs) \in Seq(Seq(Nat)) /\ Len(Batches(reqs)) = Len(reqs)
      /\ r.batch \in Seq(Nat)
  BY BatchesType DEF Request
<1>4. /\ t \in Seq(Seq(Nat)) /\ Len(t) = Len(reqs) + 1
      /\ t[Len(reqs) + 1] = r.batch
      /\ \A k \in 1..Len(reqs) : t[k] = Batches(reqs)[k]
  BY <1>3
<1>5. ASSUME NEW k \in 1..Len(s)
      PROVE  s[k] = t[k]
  <2>1. s[k] = Append(reqs, r)[k].batch
    BY <1>1, <1>2 DEF Batches
  <2>2. CASE k = Len(reqs) + 1
    BY <1>1, <1>4, <2>1, <2>2
  <2>3. CASE k \in 1..Len(reqs)
    <3>1. t[k] = reqs[k].batch
      BY <1>4, <2>3 DEF Batches
    <3>2. s[k] = reqs[k].batch
      BY <1>1, <2>1, <2>3
    <3> QED BY <3>1, <3>2
  <2>4. k = Len(reqs) + 1 \/ k \in 1..Len(reqs)
    BY <1>1, <1>2
  <2> QED BY <2>2, <2>3, <2>4
<1> HIDE DEF s, t
<1>6. s = t
  BY <1>2, <1>4, <1>5, SeqEqual
<1> QED BY <1>6 DEF s, t

\* The abstract stream's last event is the last event of the last request.
LEMMA BatchesLast ==
  ASSUME NEW reqs \in Seq(Request)
  PROVE  Stream!LastOf(Batches(reqs)) = LastEvent(reqs, Len(reqs))
<1>1. Batches(reqs) \in Seq(Seq(Nat)) /\ Len(Batches(reqs)) = Len(reqs)
  BY BatchesType
<1>2. CASE Len(reqs) = 0
  <2>1. Batches(reqs) = <<>>
    BY <1>1, <1>2, EmptySeq
  <2> QED BY <1>2, <2>1 DEF Stream!LastOf, LastEvent
<1>3. CASE Len(reqs) # 0
  <2>1. Len(reqs) \in 1..Len(reqs)
    BY <1>3
  <2>2. Batches(reqs)[Len(reqs)] = reqs[Len(reqs)].batch
    BY <2>1 DEF Batches
  <2>3. Batches(reqs) # <<>>
    BY <1>1, <1>3, EmptySeq
  <2> QED BY <1>1, <1>3, <2>2, <2>3 DEF Stream!LastOf, LastEvent
<1> QED BY <1>2, <1>3

\* The request the send loop receives is the next one of the pipeline, so it
\* holds exactly the events that follow those already delivered.
LEMMA ReceiveDelivers ==
  ASSUME OrderInv, Receive
  PROVE  Stream!Deliver
<1> DEFINE r == Head(sendQueue)
           n == Len(r.batch)
           j == Len(sent) + 1
<1>1. /\ sent \in Seq(Request) /\ sendQueue \in Seq(Request)
      /\ outgoing \in Seq(Request) /\ sendQueue # <<>>
      /\ sent' = Append(sent, r) /\ added' = added /\ added \in Nat
  BY DEF Receive, OrderInv, TypeInv, TypeOK
<1>2. /\ r \in Request /\ r = sendQueue[1]
      /\ Len(sendQueue) \in Nat \ {0} /\ Len(sent) \in Nat
      /\ Len(outgoing) \in Nat
  BY <1>1, EmptySeq, HeadTailProperties
<1>3. /\ sent \o sendQueue \in Seq(Request)
      /\ Len(sent \o sendQueue) = Len(sent) + Len(sendQueue)
      /\ \A i \in 1..Len(sent) + Len(sendQueue) : (sent \o sendQueue)[i] =
            IF i <= Len(sent) THEN sent[i] ELSE sendQueue[i - Len(sent)]
  BY <1>1, ConcatProperties
<1>4. /\ Len(Pipeline) = Len(sent \o sendQueue) + Len(outgoing)
      /\ \A i \in 1..Len(sent \o sendQueue) :
            Pipeline[i] = (sent \o sendQueue)[i]
  <2> DEFINE front == sent \o sendQueue
  <2>1. front \in Seq(Request) /\ Pipeline = front \o outgoing
    BY <1>3 DEF Pipeline
  <2> HIDE DEF front
  <2>2. /\ Len(Pipeline) = Len(front) + Len(outgoing)
        /\ \A i \in 1..Len(front) : Pipeline[i] = front[i]
    BY <1>1, <2>1, ConcatProperties
  <2> QED BY <2>2 DEF front
<1>5. j \in 1..Len(Pipeline) /\ Pipeline[j] = r
  BY <1>2, <1>3, <1>4
<1>6. LastEvent(Pipeline, j - 1) = LastEvent(sent, Len(sent))
  <2>1. CASE Len(sent) = 0
    BY <2>1 DEF LastEvent
  <2>2. CASE Len(sent) # 0
    <3>1. Pipeline[Len(sent)] = sent[Len(sent)]
      BY <1>2, <1>3, <1>4, <2>2
    <3> QED BY <1>2, <2>2, <3>1 DEF LastEvent
  <2> QED BY <2>1, <2>2
<1> DEFINE last == LastEvent(sent, Len(sent))
<1>7. /\ n \in 1..MaxSize /\ Consecutive(r.batch)
      /\ r.batch[1] = last + 1
      /\ LastEvent(Pipeline, j) <= added
  BY <1>5, <1>6 DEF OrderInv, InOrder, WellFormedAt, Bounded
<1>8. LastEvent(Pipeline, j) = r.batch[n]
  BY <1>2, <1>5 DEF LastEvent
<1>9. last \in Nat
  <2>1. CASE Len(sent) = 0
    BY <2>1 DEF LastEvent
  <2>2. CASE Len(sent) # 0
    <3>1. Len(sent) \in 1..Len(Pipeline) /\ Pipeline[Len(sent)] = sent[Len(sent)]
      BY <1>2, <1>3, <1>4, <2>2
    <3>2. Len(sent[Len(sent)].batch) \in 1..MaxSize
      BY <3>1 DEF OrderInv, InOrder, WellFormedAt
    <3>3. sent[Len(sent)].batch \in Seq(Nat)
      <4>1. sent[Len(sent)] \in Request
        BY <1>1, <1>2, <2>2, ElementOfSeq
      <4> QED BY <4>1 DEF Request
    <3>4. sent[Len(sent)].batch[Len(sent[Len(sent)].batch)] \in Nat
      BY <3>2, <3>3, ElementOfSeq, SizeAssumption
    <3> QED BY <2>2, <3>4 DEF LastEvent
  <2> QED BY <2>1, <2>2
<1>10. n \in Nat \ {0} /\ r.batch \in Seq(Nat)
  BY <1>2, <1>7, SizeAssumption DEF Request
<1> HIDE DEF last, n, r, j
<1>11. r.batch = [i \in 1..n |-> last + i]
  <2>1. \A i \in 1..n : r.batch[i] = last + i
    BY <1>7, <1>9, <1>10 DEF Consecutive, n
  <2>2. [i \in 1..n |-> last + i] \in Seq(Nat)
    BY <1>9, <1>10
  <2>3. Len([i \in 1..n |-> last + i]) = n
    BY <1>10
  <2> QED BY <1>10, <2>1, <2>2, <2>3, SeqEqual DEF n
<1>12. last + n <= added
  <2>1. r.batch[n] = last + n
    BY <1>10, <1>11
  <2> QED BY <1>7, <1>8, <2>1
<1>13. Batches(sent') = Append(Batches(sent), r.batch)
  BY <1>1, <1>2, BatchesAppend
<1>14. Stream!LastOf(Batches(sent)) = last
  BY <1>1, BatchesLast DEF last
<1> QED BY <1>1, <1>7, <1>11, <1>12, <1>13, <1>14 DEF Stream!Deliver, Batches

\* The collector refines the ordered stream of batches: whatever the
\* interleaving, every step accepts the next event, hands the sender the
\* batch that continues the previous one, or is invisible to the caller.
THEOREM Refinement == Spec => ImplementsStream
<1>1. Init => Stream!Init
  <2> SUFFICES ASSUME Init PROVE Stream!Init
    OBVIOUS
  <2>1. sent = <<>> /\ added = 0
    BY DEF Init
  <2>2. Batches(sent) = <<>>
    BY <2>1, BatchesType, EmptySeq
  <2> QED BY <2>1, <2>2 DEF Stream!Init, Batches
<1>2. OrderInv /\ [Next]_vars => [Stream!Next]_(Stream!vars)
  <2> SUFFICES ASSUME OrderInv, [Next]_vars
               PROVE  [Stream!Next]_(Stream!vars)
    OBVIOUS
  <2>1. ASSUME NEW a \in Adders, Add(a)
        PROVE  Stream!Accept
    BY <2>1 DEF Add, Stream!Accept
  <2>2. CASE Receive
    BY <2>2, ReceiveDelivers DEF Stream!Next
  <2>3. ASSUME UNCHANGED <<added, sent>>
        PROVE  UNCHANGED Stream!vars
    BY <2>3 DEF Stream!vars
  <2>4. ASSUME NEW g \in Goroutines, EnqueueBatch(g) \/ SendOnClosed(g)
        PROVE  UNCHANGED <<added, sent>>
    BY <2>4 DEF EnqueueBatch, SendOnClosed, history
  <2>5. ASSUME NEW c \in Closers,
               \/ CloseCancel(c) \/ CloseFlush(c) \/ CloseQueue(c)
               \/ CloseDone(c) \/ CloseTimeout(c)
        PROVE  UNCHANGED <<added, sent>>
    BY <2>5 DEF CloseCancel, CloseFlush, CloseQueue, CloseDone, CloseTimeout,
                history
  <2>6. CASE \/ AutoFlushTick \/ AutoFlushFlush \/ AutoFlushStop
             \/ SendReturns \/ SendLoopExit \/ UNCHANGED vars
    <3>1. UNCHANGED <<added, sent>>
      BY <2>6 DEF AutoFlushTick, AutoFlushFlush, AutoFlushStop, SendReturns,
                  SendLoopExit, vars, history
    <3> QED BY <2>3, <3>1
  <2> QED BY <2>1, <2>2, <2>3, <2>4, <2>5, <2>6
          DEF Next, Terminated, Stream!Next
<1> QED BY <1>1, <1>2, OrderInit, OrderStep, PTL
        DEF Spec, ImplementsStream, Stream!SafeSpec
=============================================================================
