----------------------------- MODULE GrpcClient -----------------------------
(***************************************************************************)
(* The cloud forwarder's client, internal/grpc/client.go, from the moment  *)
(* NewClient has returned it.                                              *)
(*                                                                         *)
(* Goroutines: the sender (the collector's send loop calling SendBatch),   *)
(* one acknowledgement receiver and, with rotation, one timer per          *)
(* connection, the reconnect goroutines, and the caller of Close.  connect *)
(* writes c.conn, c.stream and c.connected without c.mu, so it is split at *)
(* those writes.  A critical section that cannot block is one action; the  *)
(* sender is the only goroutine that blocks (in stream.Send) holding c.mu. *)
(*                                                                         *)
(* A connection and its stream share a number; numbers are reused once     *)
(* nothing refers to them, so behaviours are unbounded.                    *)
(***************************************************************************)
EXTENDS Naturals, FiniteSets

CONSTANTS
  Conns,        \* bound: numbers for connections, 1..n
  Loops,        \* slots for running reconnect loops
  Rotation,     \* StreamRotateInterval is positive
  LongInterval, \* the interval outlasts the return from reconnect that
                \* follows the start of the timer
  MayClose,     \* Close is called
  MaxPending,   \* bound: reconnect goroutines started and not yet scheduled
  MaxFaults     \* bound: streams broken by the server, failed dials

ASSUME ClientAssumption ==
  /\ Conns \subseteq Nat \ {0} /\ 1 \in Conns
  /\ Loops # {}
  /\ {Rotation, LongInterval, MayClose} \subseteq BOOLEAN
  /\ MaxPending \in Nat \ {0} /\ MaxFaults \in Nat

VARIABLES
  conn,          \* c.conn
  stream,        \* c.stream
  connected,     \* c.connected
  ctxDone,       \* c.ctx is cancelled
  reconnecting,  \* c.reconnecting
  link,          \* link[k]: the connection: "unused", "dialled", "open",
                 \* "broken" (the server ended the stream), "closed"
  receiver,      \* receiver[k]: receiveAcks started by the k-th connect
  recvOn,        \* recvOn[k]: its local variable stream
  timer,         \* timer[k]: the rotation goroutine of the k-th connect
  sender,        \* the stream SendBatch is blocked on with c.mu held, or 0
  pending,       \* number of go c.reconnect() not yet scheduled
  loop,          \* loop[r]: how far a reconnect goroutine is
  dialling,      \* dialling[r]: its local variables conn and stream
  closer,        \* how far Close is
  faults         \* number of faults so far

shared == <<conn, stream, connected, ctxDone, reconnecting>>
vars   == <<shared, link, receiver, recvOn, timer, sender, pending, loop,
            dialling, closer, faults>>

MuFree == sender = 0

Init ==
  /\ conn = 1 /\ stream = 1 /\ connected = TRUE
  /\ ctxDone = FALSE /\ reconnecting = FALSE
  /\ link = [k \in Conns |-> IF k = 1 THEN "open" ELSE "unused"]
  /\ receiver = [k \in Conns |-> IF k = 1 THEN "top" ELSE "none"]
  /\ recvOn = [k \in Conns |-> 0]
  /\ timer = [k \in Conns |-> IF k = 1 /\ Rotation THEN "armed" ELSE "none"]
  /\ sender = 0
  /\ pending = 0
  /\ loop = [r \in Loops |-> "idle"]
  /\ dialling = [r \in Loops |-> 0]
  /\ closer = "idle"
  /\ faults = 0

\* Mutant: the stream is opened with a context nobody cancels.
FailsUncancelled(k) == link[k] # "open"
\* Send and Recv return an error: the stream has ended, its connection was
\* closed, or its context was cancelled.
Fails(k) == link[k] # "open" \/ ctxDone

\* go c.reconnect()
SpawnReconnect == pending < MaxPending /\ pending' = pending + 1

-----------------------------------------------------------------------------
(* SendBatch.  A call that finds the client disconnected returns an error   *)
(* and changes nothing.                                                     *)

SendStart ==
  /\ MuFree
  /\ connected
  /\ sender' = stream
  /\ UNCHANGED <<shared, link, receiver, recvOn, timer, pending, loop,
                 dialling, closer, faults>>

SendOk ==
  /\ sender # 0
  /\ link[sender] = "open"
  /\ sender' = 0
  /\ UNCHANGED <<shared, link, receiver, recvOn, timer, pending, loop,
                 dialling, closer, faults>>

SendFails ==
  /\ sender # 0
  /\ Fails(sender)
  /\ connected' = FALSE
  /\ SpawnReconnect
  /\ sender' = 0
  /\ UNCHANGED <<conn, stream, ctxDone, reconnecting, link, receiver, recvOn,
                 timer, loop, dialling, closer, faults>>

-----------------------------------------------------------------------------
(* receiveAcks of the k-th connect.  c.stream is read again for every ack.  *)

ReceiverStops(k) ==
  /\ receiver[k] = "top"
  /\ ctxDone
  /\ receiver' = [receiver EXCEPT ![k] = "done"]
  /\ UNCHANGED <<shared, link, recvOn, timer, sender, pending, loop,
                 dialling, closer, faults>>

ReceiverReadsStream(k) ==
  /\ receiver[k] = "top"
  /\ ~ctxDone
  /\ MuFree
  /\ recvOn' = [recvOn EXCEPT ![k] = stream]
  /\ receiver' = [receiver EXCEPT ![k] = "recv"]
  /\ UNCHANGED <<shared, link, timer, sender, pending, loop, dialling,
                 closer, faults>>

\* Recv returns an acknowledgement, which handleAck only counts.
AckReceived(k) ==
  /\ receiver[k] = "recv"
  /\ link[recvOn[k]] = "open"
  /\ receiver' = [receiver EXCEPT ![k] = "top"]
  /\ recvOn' = [recvOn EXCEPT ![k] = 0]
  /\ UNCHANGED <<shared, link, timer, sender, pending, loop, dialling,
                 closer, faults>>

\* Recv returns an error, after which nothing is read from the stream.
RecvFails(k) ==
  /\ receiver[k] = "recv"
  /\ Fails(recvOn[k])
  /\ receiver' = [receiver EXCEPT ![k] = "failed"]
  /\ recvOn' = [recvOn EXCEPT ![k] = 0]
  /\ UNCHANGED <<shared, link, timer, sender, pending, loop, dialling,
                 closer, faults>>

ReceiverDisconnects(k) ==
  /\ receiver[k] = "failed"
  /\ MuFree
  /\ connected' = FALSE
  /\ SpawnReconnect
  /\ receiver' = [receiver EXCEPT ![k] = "done"]
  /\ UNCHANGED <<conn, stream, ctxDone, reconnecting, link, recvOn, timer,
                 sender, loop, dialling, closer, faults>>

-----------------------------------------------------------------------------
(* The rotation goroutine of the k-th connect                               *)

\* Both cases of the select may be ready: a cancelled timer may still fire.
RotationDue(k) ==
  /\ timer[k] \in {"armed", "cancelled"}
  /\ timer[k] = "armed" /\ LongInterval => \A r \in Loops : loop[r] # "exit"
  /\ SpawnReconnect
  /\ timer' = [timer EXCEPT ![k] = "done"]
  /\ UNCHANGED <<shared, link, receiver, recvOn, sender, loop, dialling,
                 closer, faults>>

RotationCancelled(k) ==
  /\ timer[k] = "cancelled" \/ (timer[k] = "armed" /\ ctxDone)
  /\ timer' = [timer EXCEPT ![k] = "done"]
  /\ UNCHANGED <<shared, link, receiver, recvOn, sender, pending, loop,
                 dialling, closer, faults>>

-----------------------------------------------------------------------------
(* reconnect                                                                *)

Goto(r, pc) == loop' = [loop EXCEPT ![r] = pc]

\* Another loop is running: this goroutine ends.
ReconnectSuppressed ==
  /\ pending > 0
  /\ reconnecting
  /\ pending' = pending - 1
  /\ UNCHANGED <<shared, link, receiver, recvOn, timer, sender, loop,
                 dialling, closer, faults>>

\* Mutant: the flag is not tested.
ReconnectUnchecked(r) ==
  /\ pending > 0
  /\ loop[r] = "idle"
  /\ pending' = pending - 1
  /\ reconnecting' = TRUE
  /\ Goto(r, "check")
  /\ UNCHANGED <<conn, stream, connected, ctxDone, link, receiver, recvOn,
                 timer, sender, dialling, closer, faults>>
ReconnectStarts(r) ==
  /\ pending > 0
  /\ ~reconnecting
  /\ loop[r] = "idle"
  /\ pending' = pending - 1
  /\ reconnecting' = TRUE
  /\ Goto(r, "check")
  /\ UNCHANGED <<conn, stream, connected, ctxDone, link, receiver, recvOn,
                 timer, sender, dialling, closer, faults>>

\* select on the context, then the delay.
ReconnectWaits(r) ==
  /\ loop[r] = "check"
  /\ ~ctxDone
  /\ Goto(r, "delay")
  /\ UNCHANGED <<shared, link, receiver, recvOn, timer, sender, pending,
                 dialling, closer, faults>>

ReconnectCancelled(r) ==
  /\ loop[r] \in {"check", "delay"}
  /\ ctxDone
  /\ Goto(r, "exit")
  /\ UNCHANGED <<shared, link, receiver, recvOn, timer, sender, pending,
                 dialling, closer, faults>>

\* Mutant: the old connection is left to the garbage collector.
KeepsOldConn(r) ==
  /\ loop[r] = "delay"
  /\ MuFree
  /\ Goto(r, "build")
  /\ UNCHANGED <<shared, link, receiver, recvOn, timer, sender, pending,
                 dialling, closer, faults>>
\* The delay is over: the old connection is closed under c.mu.
CloseOldConn(r) ==
  /\ loop[r] = "delay"
  /\ MuFree
  /\ link' = [link EXCEPT ![conn] = "closed"]
  /\ Goto(r, "build")
  /\ UNCHANGED <<shared, receiver, recvOn, timer, sender, pending, dialling,
                 closer, faults>>

\* The deferred reset of the flag, when reconnect returns.
ReconnectReturns(r) ==
  /\ loop[r] = "exit"
  /\ reconnecting' = FALSE
  /\ Goto(r, "idle")
  /\ UNCHANGED <<conn, stream, connected, ctxDone, link, receiver, recvOn,
                 timer, sender, pending, dialling, closer, faults>>

-----------------------------------------------------------------------------
(* connect, as run by the reconnect loop                                    *)

\* k is not in use: nothing refers to it any more.
Recyclable(k) ==
  /\ link[k] \in {"unused", "closed"}
  /\ receiver[k] \in {"none", "done"}
  /\ timer[k] \in {"none", "done"}
  /\ stream # k /\ sender # k
  /\ \A j \in Conns : recvOn[j] # k

Fresh(k) == Recyclable(k) /\ \A j \in Conns : Recyclable(j) => k <= j

\* builder.Build succeeds: c.conn = conn.
Build(r) ==
  /\ loop[r] = "build"
  /\ \E k \in Conns :
       /\ Fresh(k)
       /\ conn' = k
       /\ dialling' = [dialling EXCEPT ![r] = k]
       /\ link' = [link EXCEPT ![k] = "dialled"]
       /\ receiver' = [receiver EXCEPT ![k] = "none"]
       /\ timer' = [timer EXCEPT ![k] = "none"]
  /\ Goto(r, "stream")
  /\ UNCHANGED <<stream, connected, ctxDone, reconnecting, recvOn, sender,
                 pending, closer, faults>>

\* builder.Build fails: because the context is cancelled, or by a fault.
BuildFails(r) ==
  /\ loop[r] = "build"
  /\ \/ ctxDone /\ UNCHANGED faults
     \/ faults < MaxFaults /\ faults' = faults + 1
  /\ Goto(r, "check")
  /\ UNCHANGED <<shared, link, receiver, recvOn, timer, sender, pending,
                 dialling, closer>>

OpenStream(r) ==
  /\ loop[r] = "stream"
  /\ ~ctxDone
  /\ link[dialling[r]] = "dialled"
  /\ link' = [link EXCEPT ![dialling[r]] = "open"]
  /\ Goto(r, "publish")
  /\ UNCHANGED <<shared, receiver, recvOn, timer, sender, pending, dialling,
                 closer, faults>>

\* Mutant: the error path forgets to close the connection it has dialled.
OpenStreamLeaks(r) ==
  /\ loop[r] = "stream"
  /\ \/ /\ ctxDone \/ link[dialling[r]] = "closed"
        /\ UNCHANGED faults
     \/ /\ faults < MaxFaults
        /\ faults' = faults + 1
  /\ dialling' = [dialling EXCEPT ![r] = 0]
  /\ Goto(r, "check")
  /\ UNCHANGED <<shared, link, receiver, recvOn, timer, sender, pending,
                 closer>>
\* StreamEntropy fails: because the context is cancelled or Close has closed
\* the connection, or by a fault.
OpenStreamFails(r) ==
  /\ loop[r] = "stream"
  /\ \/ /\ ctxDone \/ link[dialling[r]] = "closed"
        /\ UNCHANGED faults
     \/ /\ faults < MaxFaults
        /\ faults' = faults + 1
  /\ link' = [link EXCEPT ![dialling[r]] = "closed"]
  /\ dialling' = [dialling EXCEPT ![r] = 0]
  /\ Goto(r, "check")
  /\ UNCHANGED <<shared, receiver, recvOn, timer, sender, pending, closer>>

\* c.stream = stream
PublishStream(r) ==
  /\ loop[r] = "publish"
  /\ stream' = dialling[r]
  /\ Goto(r, "mark")
  /\ UNCHANGED <<conn, connected, ctxDone, reconnecting, link, receiver,
                 recvOn, timer, sender, pending, dialling, closer, faults>>

\* c.connected = true
MarkConnected(r) ==
  /\ loop[r] = "mark"
  /\ connected' = TRUE
  /\ Goto(r, "start")
  /\ UNCHANGED <<conn, stream, ctxDone, reconnecting, link, receiver, recvOn,
                 timer, sender, pending, dialling, closer, faults>>

\* c.wg.Add(1); go c.receiveAcks()
StartReceiver(r) ==
  /\ loop[r] = "start"
  /\ receiver' = [receiver EXCEPT ![dialling[r]] = "top"]
  /\ Goto(r, "arm")
  /\ UNCHANGED <<shared, link, recvOn, timer, sender, pending, dialling,
                 closer, faults>>

\* stopRotationTimer: the timer that rotateCancel belongs to.
Cancelled == [k \in Conns |-> IF timer[k] = "armed" THEN "cancelled"
                              ELSE timer[k]]

\* Mutant: the timer is stopped and not started again.
StopsTimerOnly(r) ==
  /\ loop[r] = "arm"
  /\ timer' = Cancelled
  /\ dialling' = [dialling EXCEPT ![r] = 0]
  /\ Goto(r, "exit")
  /\ UNCHANGED <<shared, link, receiver, recvOn, sender, pending, closer,
                 faults>>
\* resetRotationTimer; connect and then reconnect return.
ResetRotationTimer(r) ==
  /\ loop[r] = "arm"
  /\ timer' = IF Rotation THEN [Cancelled EXCEPT ![dialling[r]] = "armed"]
              ELSE Cancelled
  /\ dialling' = [dialling EXCEPT ![r] = 0]
  /\ Goto(r, "exit")
  /\ UNCHANGED <<shared, link, receiver, recvOn, sender, pending, closer,
                 faults>>

-----------------------------------------------------------------------------
(* Close                                                                    *)

CloseStopsTimer ==
  /\ MayClose
  /\ closer = "idle"
  /\ timer' = Cancelled
  /\ closer' = "cancel"
  /\ UNCHANGED <<shared, link, receiver, recvOn, sender, pending, loop,
                 dialling, faults>>

CloseCancels ==
  /\ closer = "cancel"
  /\ ctxDone' = TRUE
  /\ closer' = "wait"
  /\ UNCHANGED <<conn, stream, connected, reconnecting, link, receiver,
                 recvOn, timer, sender, pending, loop, dialling, faults>>

\* The goroutines counted by c.wg have ended.
WaitGroupZero ==
  \A k \in Conns : /\ receiver[k] \in {"none", "done"}
                   /\ timer[k] \in {"none", "done"}

CloseWaits ==
  /\ closer = "wait"
  /\ WaitGroupZero
  /\ closer' = "lock"
  /\ UNCHANGED <<shared, link, receiver, recvOn, timer, sender, pending,
                 loop, dialling, faults>>

CloseConn ==
  /\ closer = "lock"
  /\ MuFree
  /\ link' = [link EXCEPT ![conn] = "closed"]
  /\ closer' = "closed"
  /\ UNCHANGED <<shared, receiver, recvOn, timer, sender, pending, loop,
                 dialling, faults>>

-----------------------------------------------------------------------------
(* The server                                                               *)

StreamBreaks(k) ==
  /\ link[k] = "open"
  /\ faults < MaxFaults
  /\ faults' = faults + 1
  /\ link' = [link EXCEPT ![k] = "broken"]
  /\ UNCHANGED <<shared, receiver, recvOn, timer, sender, pending, loop,
                 dialling, closer>>

-----------------------------------------------------------------------------

Connect(r) ==
  \/ Build(r) \/ BuildFails(r) \/ OpenStream(r) \/ OpenStreamFails(r)
  \/ PublishStream(r) \/ MarkConnected(r) \/ StartReceiver(r)
  \/ ResetRotationTimer(r)

Reconnect(r) ==
  \/ ReconnectStarts(r) \/ ReconnectWaits(r) \/ ReconnectCancelled(r)
  \/ CloseOldConn(r) \/ ReconnectReturns(r)

ReceiveAcks(k) ==
  \/ ReceiverStops(k) \/ ReceiverReadsStream(k) \/ AckReceived(k)
  \/ RecvFails(k) \/ ReceiverDisconnects(k)

Quiet ==
  /\ sender = 0 /\ pending = 0
  /\ \A r \in Loops : loop[r] = "idle"
  /\ WaitGroupZero

\* Nothing is left to do after Close, except calls that change nothing.
Terminated ==
  /\ closer = "closed"
  /\ Quiet
  /\ ~connected
  /\ UNCHANGED vars

Next ==
  \/ SendStart \/ SendOk \/ SendFails
  \/ \E k \in Conns : \/ ReceiveAcks(k) \/ RotationDue(k)
                      \/ RotationCancelled(k) \/ StreamBreaks(k)
  \/ ReconnectSuppressed
  \/ \E r \in Loops : Reconnect(r) \/ Connect(r)
  \/ CloseStopsTimer \/ CloseCancels \/ CloseWaits \/ CloseConn
  \/ Terminated

Spec == Init /\ [][Next]_vars

(***************************************************************************)
(* Fairness, one condition per goroutine.  The Go scheduler runs every     *)
(* goroutine that can run (WF); c.mu, the select of a timer and a freed    *)
(* number come and go and are granted in the end (SF: sync.Mutex hands     *)
(* over to a waiter that starves).  A Send in progress returns.  Nobody is *)
(* obliged to call SendBatch or Close, and the server need not acknowledge *)
(* anything; it accepts a dial in the end because faults are bounded.      *)
(***************************************************************************)
Fairness ==
  /\ WF_vars(SendOk \/ SendFails)
  /\ WF_vars(ReconnectSuppressed)
  /\ \A k \in Conns :
       /\ SF_vars(\/ ReceiverStops(k) \/ ReceiverReadsStream(k)
                  \/ RecvFails(k) \/ ReceiverDisconnects(k))
       /\ SF_vars(RotationDue(k) \/ RotationCancelled(k))
  /\ \A r \in Loops : SF_vars(Reconnect(r) \/ Connect(r))
  /\ SF_vars(CloseCancels \/ CloseWaits \/ CloseConn)

FairSpec == Spec /\ Fairness

-----------------------------------------------------------------------------
(* Properties *)

Live(k) == link[k] \in {"dialled", "open", "broken"}

\* Only c.conn is ever a live connection: however failures of the sender, of
\* receivers, rotation and Close interleave, no connection is dialled before
\* the previous one was closed, and none is left open unreferenced.
OneLiveConnection == \A k \in Conns : Live(k) => k = conn

\* "Only one reconnection loop runs at a time."
SingleFlight ==
  /\ Cardinality({r \in Loops : loop[r] # "idle"}) <= 1
  /\ reconnecting <=> \E r \in Loops : loop[r] # "idle"

\* After Close, once the goroutines it does not wait for have ended too, no
\* connection is left open, even if a reconnect was under way.
NoLeakAfterClose == closer = "closed" /\ Quiet => \A k \in Conns : ~Live(k)

Healthy == connected /\ link[stream] = "open"

\* With stream rotation the client is never disconnected for good: until it
\* is closed it holds a healthy stream again and again.
Recovers == []<>(ctxDone \/ Healthy)

\* The safety part of Recovers: with a rotation interval that outlasts the
\* return from reconnect, a client that is not being closed always has a
\* reconnect pending or running or a timer that will start one, whichever
\* goroutines were suppressed because another reconnect was running.
ReconnectScheduled ==
  Rotation /\ LongInterval /\ closer = "idle" =>
    \/ pending > 0
    \/ \E r \in Loops : loop[r] # "idle"
    \/ \E k \in Conns : timer[k] = "armed"

\* A call of Close returns: every goroutine it waits for ends.
CloseReturns == (closer = "cancel") ~> (closer = "closed")

\* "re-established on transient failures": a client that is disconnected has
\* a reconnection under way or about to start.
RecoveryUnderWay ==
  ~connected /\ ~ctxDone =>
    \/ pending > 0
    \/ \E r \in Loops : loop[r] # "idle"
    \/ \E k \in Conns : receiver[k] = "failed" \/ timer[k] = "armed"
=============================================================================
