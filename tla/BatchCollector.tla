--------------------------- MODULE BatchCollector ---------------------------
(***************************************************************************)
(* The batch collector of internal/collector/collector.go.                 *)
(*                                                                         *)
(* Goroutines: the callers of Add (Adders), the callers of Close           *)
(* (Closers), the auto-flush goroutine and the send loop.  A critical      *)
(* section that cannot block is one action.  The only operation that       *)
(* blocks while bc.mu is held is the channel send at the end of flush, so  *)
(* mu is either Free or the goroutine that waits in that send.             *)
(***************************************************************************)
EXTENDS Naturals, Sequences

CONSTANTS Adders,     \* goroutines that call Add
          Closers,    \* goroutines that call Close, once each
          MaxSize,    \* bc.maxSize
          SeqMax,     \* largest value of the sequence counter (2^32 - 1)
          LateAdds,   \* TRUE: Add may be called once Close has begun
          MaxEvents   \* bound: number of events added in a behaviour

Flusher == "autoFlush"
Free == "free"
Goroutines == Adders \cup Closers \cup {Flusher}

ASSUME SizeAssumption ==
  /\ MaxSize \in Nat \ {0}
  /\ SeqMax \in Nat \ {0}
  /\ MaxEvents \in Nat
  /\ LateAdds \in BOOLEAN

ASSUME GoroutineAssumption ==
  /\ Adders \cap Closers = {}
  /\ {Flusher, Free} \cap (Adders \cup Closers) = {}

VARIABLES
  events,        \* bc.events; an event is its number in the order of arrival
  sequence,      \* bc.sequence
  mu,            \* bc.mu: Free, or the goroutine blocked in sendQueue <-
  outgoing,      \* the request that goroutine is sending, <<>> when none is
  sendQueue,     \* bc.sendQueue, the buffered channel
  queueClosed,   \* close(bc.sendQueue) has happened
  pendingSends,  \* counter of bc.pendingSendGroup
  sendLoop,      \* runSendLoop: "receive", "calling" SendBatch, "done"
  ctxDone,       \* bc.ctx is cancelled
  autoFlush,     \* autoFlush: "waiting" in select, "locking", "done"
  closer,        \* closer[c]: how far c is in Close
  panicked,      \* a send on the closed channel has crashed the process
  added,         \* history: number of events accepted by Add
  sent           \* history: the requests handed to SendBatch

buffer  == <<events, sequence, pendingSends>>
channel == <<mu, outgoing, sendQueue, queueClosed>>
procs   == <<sendLoop, ctxDone, autoFlush, closer, panicked>>
history == <<added, sent>>
vars    == <<buffer, channel, procs, history>>

MaxInt(a, b) == IF a > b THEN a ELSE b
QueueCap == MaxInt(1, MaxSize \div 2)

CloseStates == {"idle", "locking", "flushed", "waiting", "sent", "timeout"}
Returned == {"sent", "timeout"}
Request == [seq : 0..SeqMax, batch : Seq(Nat)]

Init ==
  /\ events = <<>>
  /\ sequence = 0
  /\ pendingSends = 0
  /\ mu = Free
  /\ outgoing = <<>>
  /\ sendQueue = <<>>
  /\ queueClosed = FALSE
  /\ sendLoop = "receive"
  /\ ctxDone = FALSE
  /\ autoFlush = "waiting"
  /\ closer = [c \in Closers |-> "idle"]
  /\ panicked = FALSE
  /\ added = 0
  /\ sent = <<>>

-----------------------------------------------------------------------------
(* flush, run by goroutine g with bc.mu held, on a buffer holding evs.     *)

\* uint32 increment
NextSeq(s) == IF s = SeqMax THEN 0 ELSE s + 1

\* Mutant: flush forgets to reset the buffer.
KeepsEvents(evs) == evs
\* The buffer after flush has copied it: bc.events[:0].
Cleared(evs) == <<>>

NothingToFlush(evs) ==
  /\ evs = <<>>
  /\ events' = evs
  /\ UNCHANGED <<sequence, pendingSends, mu, outgoing>>

StartSend(g, evs) ==
  /\ evs # <<>>
  /\ sequence' = NextSeq(sequence)
  /\ events' = Cleared(evs)
  /\ pendingSends' = pendingSends + 1
  /\ outgoing' = <<[seq |-> NextSeq(sequence), batch |-> evs]>>
  /\ mu' = g

Flush(g, evs) == NothingToFlush(evs) \/ StartSend(g, evs)

\* Mutant: a non-blocking send (select with default) drops the batch.
DropsWhenFull(g) ==
  /\ ~panicked
  /\ mu = g
  /\ ~queueClosed
  /\ sendQueue' = IF Len(sendQueue) < QueueCap THEN sendQueue \o outgoing
                  ELSE sendQueue
  /\ outgoing' = <<>>
  /\ mu' = Free
  /\ UNCHANGED <<buffer, queueClosed, procs, history>>
\* bc.sendQueue <- ... succeeds, and the caller of flush releases bc.mu.
EnqueueBatch(g) ==
  /\ ~panicked
  /\ mu = g
  /\ ~queueClosed
  /\ Len(sendQueue) < QueueCap
  /\ sendQueue' = sendQueue \o outgoing
  /\ outgoing' = <<>>
  /\ mu' = Free
  /\ UNCHANGED <<buffer, queueClosed, procs, history>>

\* bc.sendQueue <- ... finds the channel closed: the runtime panics.
SendOnClosed(g) ==
  /\ ~panicked
  /\ mu = g
  /\ queueClosed
  /\ panicked' = TRUE
  /\ UNCHANGED <<buffer, channel, sendLoop, ctxDone, autoFlush, closer,
                 history>>

-----------------------------------------------------------------------------
(* Add *)

\* Mutant: > instead of >=.
OverFull(evs) == Len(evs) > MaxSize
BatchFull(evs) == Len(evs) >= MaxSize

MayAdd == LateAdds \/ \A c \in Closers : closer[c] = "idle"

Add(a) ==
  /\ ~panicked
  /\ mu = Free
  /\ added < MaxEvents
  /\ MayAdd
  /\ added' = added + 1
  /\ LET evs == Append(events, added + 1) IN
       \/ /\ BatchFull(evs)
          /\ Flush(a, evs)
       \/ /\ ~BatchFull(evs)
          /\ events' = evs
          /\ UNCHANGED <<sequence, pendingSends, mu, outgoing>>
  /\ UNCHANGED <<sendQueue, queueClosed, procs, sent>>

-----------------------------------------------------------------------------
(* autoFlush.  When the timer and the cancellation are both ready, select   *)
(* takes either.                                                           *)

\* Mutant: the timer only wakes the goroutine until a batch was sent.
TickOnlyOnce ==
  /\ ~panicked
  /\ autoFlush = "waiting"
  /\ mu # Flusher
  /\ sequence = 0
  /\ autoFlush' = "locking"
  /\ UNCHANGED <<buffer, channel, sendLoop, ctxDone, closer, panicked,
                 history>>
AutoFlushTick ==
  /\ ~panicked
  /\ autoFlush = "waiting"
  /\ mu # Flusher
  /\ autoFlush' = "locking"
  /\ UNCHANGED <<buffer, channel, sendLoop, ctxDone, closer, panicked,
                 history>>

AutoFlushFlush ==
  /\ ~panicked
  /\ autoFlush = "locking"
  /\ mu = Free
  /\ Flush(Flusher, events)
  /\ autoFlush' = "waiting"
  /\ UNCHANGED <<sendQueue, queueClosed, sendLoop, ctxDone, closer, panicked,
                 history>>

AutoFlushStop ==
  /\ ~panicked
  /\ autoFlush = "waiting"
  /\ mu # Flusher
  /\ ctxDone
  /\ autoFlush' = "done"
  /\ UNCHANGED <<buffer, channel, sendLoop, ctxDone, closer, panicked,
                 history>>

-----------------------------------------------------------------------------
(* Close *)

\* Mutant: the channel is closed before the last flush.
ClosesQueueFirst(c) ==
  /\ ~panicked
  /\ closer[c] = "idle"
  /\ ctxDone' = TRUE
  /\ queueClosed' = TRUE
  /\ closer' = [closer EXCEPT ![c] = "locking"]
  /\ UNCHANGED <<buffer, mu, outgoing, sendQueue, sendLoop, autoFlush,
                 panicked, history>>
CloseCancel(c) ==
  /\ ~panicked
  /\ closer[c] = "idle"
  /\ ctxDone' = TRUE
  /\ closer' = [closer EXCEPT ![c] = "locking"]
  /\ UNCHANGED <<buffer, channel, sendLoop, autoFlush, panicked, history>>

\* Mutant: Close trusts the auto-flush goroutine for the last flush.
ClosesWithoutFlush(c) ==
  /\ ~panicked
  /\ closer[c] = "locking"
  /\ mu = Free
  /\ closer' = [closer EXCEPT ![c] = "flushed"]
  /\ UNCHANGED <<buffer, channel, sendLoop, ctxDone, autoFlush, panicked,
                 history>>
CloseFlush(c) ==
  /\ ~panicked
  /\ closer[c] = "locking"
  /\ mu = Free
  /\ Flush(c, events)
  /\ closer' = [closer EXCEPT ![c] = "flushed"]
  /\ UNCHANGED <<sendQueue, queueClosed, sendLoop, ctxDone, autoFlush,
                 panicked, history>>

\* closeSendQueueOnce: the first Close closes the channel, later ones do not.
CloseQueue(c) ==
  /\ ~panicked
  /\ closer[c] = "flushed"
  /\ mu # c
  /\ queueClosed' = TRUE
  /\ closer' = [closer EXCEPT ![c] = "waiting"]
  /\ UNCHANGED <<buffer, mu, outgoing, sendQueue, sendLoop, ctxDone,
                 autoFlush, panicked, history>>

\* The three wait groups have drained: "all batches sent".
CloseDone(c) ==
  /\ ~panicked
  /\ closer[c] = "waiting"
  /\ sendLoop = "done"
  /\ pendingSends = 0
  /\ autoFlush = "done"
  /\ closer' = [closer EXCEPT ![c] = "sent"]
  /\ UNCHANGED <<buffer, channel, sendLoop, ctxDone, autoFlush, panicked,
                 history>>

\* Five seconds have passed: "timeout waiting for sends".
CloseTimeout(c) ==
  /\ ~panicked
  /\ closer[c] = "waiting"
  /\ closer' = [closer EXCEPT ![c] = "timeout"]
  /\ UNCHANGED <<buffer, channel, sendLoop, ctxDone, autoFlush, panicked,
                 history>>

-----------------------------------------------------------------------------
(* runSendLoop *)

Receive ==
  /\ ~panicked
  /\ sendLoop = "receive"
  /\ sendQueue # <<>>
  /\ sendQueue' = Tail(sendQueue)
  /\ sent' = Append(sent, Head(sendQueue))
  /\ sendLoop' = "calling"
  /\ UNCHANGED <<buffer, mu, outgoing, queueClosed, ctxDone, autoFlush,
                 closer, panicked, added>>

\* Mutant: a failed SendBatch skips pendingSendGroup.Done.
ErrorSkipsDone ==
  /\ ~panicked
  /\ sendLoop = "calling"
  /\ \/ pendingSends' = pendingSends - 1
     \/ UNCHANGED pendingSends
  /\ sendLoop' = "receive"
  /\ UNCHANGED <<events, sequence, channel, ctxDone, autoFlush, closer,
                 panicked, history>>
\* SendBatch returns; an error is only logged.
SendReturns ==
  /\ ~panicked
  /\ sendLoop = "calling"
  /\ pendingSends' = pendingSends - 1
  /\ sendLoop' = "receive"
  /\ UNCHANGED <<events, sequence, channel, ctxDone, autoFlush, closer,
                 panicked, history>>

\* Mutant: the send loop stops on cancellation instead of channel close.
ExitsOnCancel ==
  /\ ~panicked
  /\ sendLoop = "receive"
  /\ ctxDone
  /\ sendLoop' = "done"
  /\ UNCHANGED <<buffer, channel, ctxDone, autoFlush, closer, panicked,
                 history>>
SendLoopExit ==
  /\ ~panicked
  /\ sendLoop = "receive"
  /\ sendQueue = <<>>
  /\ queueClosed
  /\ sendLoop' = "done"
  /\ UNCHANGED <<buffer, channel, ctxDone, autoFlush, closer, panicked,
                 history>>

-----------------------------------------------------------------------------

\* The process is gone, or every call and every goroutine has ended.
Terminated ==
  /\ \/ panicked
     \/ /\ \A c \in Closers : closer[c] \in Returned
        /\ sendLoop = "done"
        /\ autoFlush = "done"
        /\ ~MayAdd \/ added = MaxEvents
  /\ UNCHANGED vars

Next ==
  \/ \E a \in Adders : Add(a)
  \/ \E g \in Goroutines : EnqueueBatch(g) \/ SendOnClosed(g)
  \/ AutoFlushTick \/ AutoFlushFlush \/ AutoFlushStop
  \/ \E c \in Closers : \/ CloseCancel(c) \/ CloseFlush(c) \/ CloseQueue(c)
                        \/ CloseDone(c) \/ CloseTimeout(c)
  \/ Receive \/ SendReturns \/ SendLoopExit
  \/ Terminated

Spec == Init /\ [][Next]_vars

(***************************************************************************)
(* Fairness.  A runnable goroutine runs and a timer fires (WF).  A Go      *)
(* mutex hands over to a waiter that has starved for 1ms, and select picks *)
(* a ready case at random (SF).  Nothing obliges a caller to Add or Close. *)
(***************************************************************************)
RuntimeFairness ==
  /\ \A g \in Goroutines : WF_vars(EnqueueBatch(g))
  /\ WF_vars(AutoFlushTick)
  /\ SF_vars(AutoFlushFlush)
  /\ SF_vars(AutoFlushStop)
  /\ \A c \in Closers : /\ SF_vars(CloseFlush(c))
                        /\ WF_vars(CloseQueue(c))
                        /\ WF_vars(CloseDone(c))
                        /\ WF_vars(CloseTimeout(c))
  /\ WF_vars(Receive)
  /\ WF_vars(SendLoopExit)

\* The runtime schedules everyone; nothing is said of the sender.  SendBatch
\* ends in stream.Send, which flow control blocks without a time-out for as
\* long as the cloud does not read.
StalledSpec == Spec /\ RuntimeFairness

\* Moreover every call of SendBatch returns.
FairSpec == StalledSpec /\ WF_vars(SendReturns)

-----------------------------------------------------------------------------
(* Properties *)

\* Every request created so far, in the order in which flush created them.
Pipeline == sent \o sendQueue \o outgoing

Consecutive(s) == \A i \in 1..Len(s) : s[i] = s[1] + (i - 1)

\* The number of the last event in the first k requests of p.
LastEvent(p, k) == IF k = 0 THEN 0 ELSE p[k].batch[Len(p[k].batch)]
\* The sequence number of the k-th request of p; the counter starts at 0.
SeqAt(p, k) == IF k = 0 THEN 0 ELSE p[k].seq

\* Types of the variables, and the capacity of the buffer and of the channel.
TypeOK ==
  /\ events \in Seq(Nat) /\ Len(events) < MaxSize
  /\ sequence \in 0..SeqMax
  /\ pendingSends \in Nat
  /\ mu \in Goroutines \cup {Free}
  /\ outgoing \in Seq(Request) /\ Len(outgoing) = IF mu = Free THEN 0 ELSE 1
  /\ sendQueue \in Seq(Request) /\ Len(sendQueue) <= QueueCap
  /\ queueClosed \in BOOLEAN
  /\ sendLoop \in {"receive", "calling", "done"}
  /\ ctxDone \in BOOLEAN
  /\ autoFlush \in {"waiting", "locking", "done"}
  /\ closer \in [Closers -> CloseStates]
  /\ panicked \in BOOLEAN
  /\ added \in Nat
  /\ sent \in Seq(Request)

\* A batch of the pipeline holds 1..MaxSize consecutive events, begins with
\* the event after the last one of the batch before, and has the next number.
WellFormedAt(p, k) ==
  /\ Len(p[k].batch) \in 1..MaxSize
  /\ Consecutive(p[k].batch)
  /\ p[k].batch[1] = LastEvent(p, k - 1) + 1
  /\ p[k].seq = NextSeq(SeqAt(p, k - 1))

\* No event is lost, duplicated or reordered between Add and SendBatch, and
\* batch numbers have no gaps, whichever goroutines run flush and however
\* their lock acquisitions interleave with the send loop.
InOrder ==
  /\ \A k \in 1..Len(Pipeline) : WellFormedAt(Pipeline, k)
  /\ sequence = SeqAt(Pipeline, Len(Pipeline))
  /\ Consecutive(events)
  /\ LET last == LastEvent(Pipeline, Len(Pipeline)) IN
       IF events = <<>> THEN added = last
       ELSE events[1] = last + 1 /\ events[Len(events)] = added

\* The wait group Close waits for counts exactly the requests that are being
\* sent to the channel, are in it, or are inside SendBatch.
PendingAccounting ==
  pendingSends = Len(outgoing) + Len(sendQueue)
                 + (IF sendLoop = "calling" THEN 1 ELSE 0)

\* Provided no Add acquires the mutex once Close has begun, no goroutine ever
\* sends on the closed channel, although the auto-flush goroutine may still
\* be waiting for the mutex when a Close closes it.
NoPanic == ~panicked

\* When Close reports "all batches sent", every event ever accepted has been
\* handed to SendBatch (provided no Add follows Close).
CloseDeliversAll ==
  (\E c \in Closers : closer[c] = "sent")
    => events = <<>> /\ LastEvent(sent, Len(sent)) = added

\* Every accepted event reaches SendBatch: by a full batch, by the auto-flush
\* timer, or by Close.
EventuallyDelivered ==
  \A n \in 1..MaxEvents :
    (added >= n) ~> (LastEvent(sent, Len(sent)) >= n)

\* A call of Close returns.
CloseReturns ==
  \A c \in Closers : (closer[c] = "locking") ~> (closer[c] \in Returned)

\* The collector implements the ordered stream of batches: seen from outside,
\* every step of every goroutine accepts the next event, hands the sender the
\* batch that follows the previous one, or changes nothing.
Stream == INSTANCE BatchStream
            WITH accepted <- added,
                 delivered <- [k \in 1..Len(sent) |-> sent[k].batch]
ImplementsStream == Stream!SafeSpec

=============================================================================
