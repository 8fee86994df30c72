------------------------- MODULE GrpcClient_proofs -------------------------
(***************************************************************************)
(* Proofs about the cloud client, for any number of connections, of        *)
(* reconnect goroutines and of faults, with and without rotation.          *)
(***************************************************************************)
EXTENDS GrpcClient, FiniteSetTheorems, TLAPS

Links   == {"unused", "dialled", "open", "broken", "closed"}
Pcs     == {"idle", "check", "delay", "build", "stream", "publish", "mark",
            "start", "arm", "exit"}

\* Types of the variables.
ClientType ==
  /\ conn \in Conns /\ stream \in Conns
  /\ link \in [Conns -> Links]
  /\ receiver \in [Conns -> {"none", "top", "recv", "failed", "done"}]
  /\ recvOn \in [Conns -> Conns \cup {0}]
  /\ timer \in [Conns -> {"none", "armed", "cancelled", "done"}]
  /\ sender \in Conns \cup {0}
  /\ pending \in 0..MaxPending
  /\ loop \in [Loops -> Pcs]
  /\ dialling \in [Loops -> Conns \cup {0}]
  /\ closer \in {"idle", "cancel", "wait", "lock", "closed"}
  /\ faults \in 0..MaxFaults

\* SingleFlight without the cardinality.
OneLoop ==
  /\ \A r, s \in Loops : loop[r] # "idle" /\ loop[s] # "idle" => r = s
  /\ reconnecting <=> \E r \in Loops : loop[r] # "idle"

\* A loop inside connect works on c.conn, and enters connect only when
\* nothing is connected.
Connecting ==
  \A r \in Loops :
    /\ loop[r] = "build" => \A k \in Conns : ~Live(k)
    /\ loop[r] \in {"stream", "publish", "mark", "start", "arm"}
         => dialling[r] \in Conns

\* Once Close is over, what is still connected is about to be given up by the
\* loop that has dialled it.
Closing ==
  /\ closer \in {"wait", "lock", "closed"} => ctxDone
  /\ closer = "closed" =>
       \A k \in Conns :
         Live(k) => \E r \in Loops : loop[r] = "stream" /\ dialling[r] = k

\* ReconnectScheduled, and why a loop may end: it has armed a timer, which
\* does not fire before reconnect has returned.
Scheduled ==
  /\ ReconnectScheduled
  /\ Rotation /\ LongInterval /\ closer = "idle" =>
       /\ ~ctxDone
       /\ \A r \in Loops :
            loop[r] = "exit" => \E k \in Conns : timer[k] = "armed"

ClientInv ==
  ClientType /\ OneLoop /\ OneLiveConnection /\ Connecting /\ Closing

LEMMA ClientInit == Init => ClientInv
<1> USE ClientAssumption
<1> SUFFICES ASSUME Init PROVE ClientInv
  OBVIOUS
<1>1. ClientType
  BY DEF Init, ClientType, Links, Pcs
<1>2. OneLoop /\ OneLiveConnection /\ Connecting /\ Closing
  BY DEF Init, OneLoop, OneLiveConnection, Connecting, Closing, Live
<1> QED BY <1>1, <1>2 DEF ClientInv

-----------------------------------------------------------------------------
(* The steps, grouped by goroutine                                          *)

\* What the sender, the receivers and the timers leave alone.
LEMMA Frame ==
  ASSUME ClientInv, ClientType',
         UNCHANGED <<conn, ctxDone, reconnecting, link, loop, dialling, closer>>
  PROVE  ClientInv'
  BY DEF ClientInv, OneLoop, OneLiveConnection, Connecting, Closing, Live

LEMMA SendStep ==
  ASSUME ClientInv, SendStart \/ SendOk \/ SendFails
  PROVE  ClientInv'
<1>1. UNCHANGED <<conn, ctxDone, reconnecting, link, loop, dialling, closer>>
  BY DEF SendStart, SendOk, SendFails, shared
<1>2. ClientType'
  BY ClientAssumption DEF ClientInv, ClientType, SendStart, SendOk,
     SendFails, shared, SpawnReconnect
<1> QED BY <1>1, <1>2, Frame

LEMMA ReceiverStep ==
  ASSUME ClientInv, NEW k \in Conns, ReceiveAcks(k)
  PROVE  ClientInv'
<1>1. UNCHANGED <<conn, ctxDone, reconnecting, link, loop, dialling, closer>>
  BY DEF ReceiveAcks, ReceiverStops, ReceiverReadsStream, AckReceived,
     RecvFails, ReceiverDisconnects, shared
<1>2. ClientType'
  BY ClientAssumption DEF ClientInv, ClientType, ReceiveAcks, ReceiverStops,
     ReceiverReadsStream, AckReceived, RecvFails, ReceiverDisconnects, shared,
     SpawnReconnect
<1> QED BY <1>1, <1>2, Frame

LEMMA TimerStep ==
  ASSUME ClientInv, NEW k \in Conns, RotationDue(k) \/ RotationCancelled(k)
  PROVE  ClientInv'
<1>1. UNCHANGED <<conn, ctxDone, reconnecting, link, loop, dialling, closer>>
  BY DEF RotationDue, RotationCancelled, shared
<1>2. ClientType'
  BY ClientAssumption DEF ClientInv, ClientType, RotationDue,
     RotationCancelled, shared, SpawnReconnect
<1> QED BY <1>1, <1>2, Frame

\* A stream that breaks was live and stays so: its connection is not closed.
LEMMA BreakStep ==
  ASSUME ClientInv, NEW k \in Conns, StreamBreaks(k)
  PROVE  ClientInv'
<1>1. ClientType'
  BY ClientAssumption DEF ClientInv, ClientType, StreamBreaks, shared, Links
<1>2. /\ \A j \in Conns : Live(j)' <=> Live(j)
      /\ UNCHANGED <<conn, ctxDone, reconnecting, loop, dialling, closer>>
  BY DEF ClientInv, ClientType, StreamBreaks, Live, shared
<1> QED BY <1>1, <1>2 DEF ClientInv, OneLoop, OneLiveConnection, Connecting,
                          Closing

LEMMA ReconnectStep ==
  ASSUME ClientInv, NEW r \in Loops, Reconnect(r)
  PROVE  ClientInv'
<1>0. ClientType /\ OneLoop /\ OneLiveConnection /\ Connecting /\ Closing
  BY DEF ClientInv
<1>1. ClientType'
  BY <1>0, ClientAssumption DEF ClientType, Reconnect, ReconnectStarts,
     ReconnectWaits, ReconnectCancelled, CloseOldConn, ReconnectReturns,
     shared, Goto, Links, Pcs
<1>2. OneLoop'
  BY <1>0 DEF ClientType, OneLoop, Reconnect, ReconnectStarts,
     ReconnectWaits, ReconnectCancelled, CloseOldConn, ReconnectReturns,
     shared, Goto
<1>3. \A s \in Loops : s # r => loop[s] = "idle" /\ loop'[s] = "idle"
  BY <1>0 DEF ClientType, OneLoop, Reconnect, ReconnectStarts,
     ReconnectWaits, ReconnectCancelled, CloseOldConn, ReconnectReturns,
     Goto
<1>4. CASE CloseOldConn(r)
  <2>1. \A k \in Conns : ~Live(k)'
    BY <1>0, <1>4 DEF CloseOldConn, ClientType, OneLiveConnection, Live, shared
  <2>2. loop'[r] = "build" /\ UNCHANGED <<ctxDone, closer>>
    BY <1>0, <1>4 DEF CloseOldConn, ClientType, Goto, shared
  <2> QED BY <1>0, <1>1, <1>2, <1>3, <2>1, <2>2
          DEF ClientInv, OneLiveConnection, Connecting, Closing
<1>5. CASE ~CloseOldConn(r)
  <2>1. UNCHANGED <<conn, ctxDone, link, dialling, closer>>
    BY <1>5 DEF Reconnect, ReconnectStarts, ReconnectWaits,
       ReconnectCancelled, ReconnectReturns, shared
  <2>2. /\ loop[r] \in {"idle", "check", "delay", "exit"}
        /\ loop'[r] \in {"idle", "check", "delay", "exit"}
    BY <1>0, <1>5 DEF ClientType, Reconnect, ReconnectStarts, ReconnectWaits,
       ReconnectCancelled, ReconnectReturns, Goto
  <2> QED BY <1>0, <1>1, <1>2, <1>3, <2>1, <2>2
          DEF ClientInv, OneLiveConnection, Connecting, Closing, Live
<1> QED BY <1>4, <1>5

LEMMA SuppressedStep ==
  ASSUME ClientInv, ReconnectSuppressed
  PROVE  ClientInv'
<1>1. UNCHANGED <<conn, ctxDone, reconnecting, link, loop, dialling, closer>>
  BY DEF ReconnectSuppressed, shared
<1>2. ClientType'
  BY ClientAssumption DEF ClientInv, ClientType, ReconnectSuppressed, shared
<1> QED BY <1>1, <1>2, Frame

\* connect: the loop r is the only one, so nobody else dials meanwhile.
LEMMA ConnectStep ==
  ASSUME ClientInv, NEW r \in Loops, Connect(r)
  PROVE  ClientInv'
<1>0. ClientType /\ OneLoop /\ OneLiveConnection /\ Connecting /\ Closing
  BY DEF ClientInv
<1>1. /\ loop[r] # "idle" /\ loop'[r] # "idle"
      /\ \A s \in Loops : s # r => loop'[s] = loop[s]
      /\ UNCHANGED <<ctxDone, reconnecting, closer>>
  BY <1>0 DEF ClientType, Connect, Build, BuildFails, OpenStream,
     OpenStreamFails, PublishStream, MarkConnected, StartReceiver,
     ResetRotationTimer, Goto, shared
<1>2. OneLoop'
  BY <1>0, <1>1 DEF OneLoop
<1>3. \A s \in Loops : s # r => loop[s] = "idle" /\ loop'[s] = "idle"
  BY <1>0, <1>1 DEF OneLoop
<1>4. CASE Build(r)
  <2>1. PICK k \in Conns :
          /\ Fresh(k) /\ conn' = k
          /\ dialling' = [dialling EXCEPT ![r] = k]
          /\ link' = [link EXCEPT ![k] = "dialled"]
          /\ receiver' = [receiver EXCEPT ![k] = "none"]
          /\ timer' = [timer EXCEPT ![k] = "none"]
    BY <1>4 DEF Build
  <2>2. loop[r] = "build" /\ loop' = [loop EXCEPT ![r] = "stream"]
    BY <1>4 DEF Build, Goto
  <2>3. ClientType'
    BY <1>0, <1>4, <2>1, <2>2 DEF Build, ClientType, Links, Pcs
  <2>4. \A j \in Conns : Live(j)' => j = k
    BY <1>0, <2>1, <2>2 DEF ClientType, Connecting, Live
  <2>5. loop'[r] = "stream" /\ dialling'[r] = k
    BY <1>0, <2>1, <2>2 DEF ClientType
  <2> QED BY <1>0, <1>1, <1>2, <1>3, <2>1, <2>3, <2>4, <2>5
          DEF ClientInv, OneLiveConnection, Connecting, Closing
<1>5. CASE OpenStream(r)
  <2>1. dialling[r] \in Conns /\ link[dialling[r]] = "dialled" /\ ~ctxDone
    BY <1>0, <1>5 DEF OpenStream, Connecting
  <2>2. ClientType'
    BY <1>0, <1>5, <2>1 DEF OpenStream, ClientType, Links, Pcs, Goto, shared
  <2>3. \A j \in Conns : Live(j)' <=> Live(j)
    BY <1>0, <1>5, <2>1 DEF OpenStream, ClientType, Live
  <2>4. loop'[r] = "publish" /\ UNCHANGED <<conn, dialling>>
    BY <1>0, <1>5 DEF OpenStream, ClientType, Goto, shared
  <2> QED BY <1>0, <1>1, <1>2, <1>3, <2>1, <2>2, <2>3, <2>4
          DEF ClientInv, OneLiveConnection, Connecting, Closing
<1>6. CASE OpenStreamFails(r)
  <2>1. dialling[r] \in Conns /\ loop[r] = "stream"
    BY <1>0, <1>6 DEF OpenStreamFails, Connecting
  <2>2. ClientType'
    BY <1>0, <1>6, <2>1, ClientAssumption
       DEF OpenStreamFails, ClientType, Links, Pcs, Goto, shared
  <2>3. \A j \in Conns : Live(j)' => Live(j) /\ j # dialling[r]
    BY <1>0, <1>6, <2>1 DEF OpenStreamFails, ClientType, Live
  <2>4. loop'[r] = "check" /\ UNCHANGED conn
    BY <1>0, <1>6 DEF OpenStreamFails, ClientType, Goto, shared
  <2> QED BY <1>0, <1>1, <1>2, <1>3, <2>1, <2>2, <2>3, <2>4
          DEF ClientInv, OneLiveConnection, Connecting, Closing
<1>7. CASE BuildFails(r)
  <2>1. ClientType'
    BY <1>0, <1>7, ClientAssumption DEF BuildFails, ClientType, Pcs, Goto,
       shared
  <2>2. /\ loop[r] = "build" /\ loop'[r] = "check"
        /\ UNCHANGED <<conn, link, dialling>>
    BY <1>0, <1>7 DEF BuildFails, ClientType, Goto, shared
  <2> QED BY <1>0, <1>1, <1>2, <1>3, <2>1, <2>2
          DEF ClientInv, OneLiveConnection, Connecting, Closing, Live
<1>8. CASE PublishStream(r) \/ MarkConnected(r) \/ StartReceiver(r)
  <2>1. dialling[r] \in Conns
    BY <1>0, <1>8 DEF PublishStream, MarkConnected, StartReceiver, Connecting
  <2>2. ClientType'
    BY <1>0, <1>8, <2>1 DEF PublishStream, MarkConnected, StartReceiver,
       ClientType, Pcs, Goto, shared
  <2>3. /\ loop[r] \in {"publish", "mark", "start"}
        /\ loop'[r] \in {"mark", "start", "arm"}
        /\ UNCHANGED <<conn, link, dialling>>
    BY <1>0, <1>8 DEF PublishStream, MarkConnected, StartReceiver,
       ClientType, Goto, shared
  <2> QED BY <1>0, <1>1, <1>2, <1>3, <2>1, <2>2, <2>3
          DEF ClientInv, OneLiveConnection, Connecting, Closing, Live
<1>9. CASE ResetRotationTimer(r)
  <2>1. dialling[r] \in Conns /\ loop[r] = "arm"
    BY <1>0, <1>9 DEF ResetRotationTimer, Connecting
  <2>2. Cancelled \in [Conns -> {"none", "armed", "cancelled", "done"}]
    BY <1>0 DEF Cancelled, ClientType
  <2>3. ClientType'
    BY <1>0, <1>9, <2>1, <2>2 DEF ResetRotationTimer, ClientType, Pcs, Goto,
       shared
  <2>4. loop'[r] = "exit" /\ UNCHANGED <<conn, link>>
    BY <1>0, <1>9 DEF ResetRotationTimer, ClientType, Goto, shared
  <2> QED BY <1>0, <1>1, <1>2, <1>3, <2>1, <2>3, <2>4
          DEF ClientInv, OneLiveConnection, Connecting, Closing, Live
<1> QED BY <1>4, <1>5, <1>6, <1>7, <1>8, <1>9 DEF Connect

LEMMA CloseStep ==
  ASSUME ClientInv, CloseStopsTimer \/ CloseCancels \/ CloseWaits \/ CloseConn
  PROVE  ClientInv'
<1>0. ClientType /\ OneLoop /\ OneLiveConnection /\ Connecting /\ Closing
  BY DEF ClientInv
<1>1. UNCHANGED <<conn, reconnecting, loop, dialling>>
  BY DEF CloseStopsTimer, CloseCancels, CloseWaits, CloseConn, shared
<1>2. ClientType'
  <2>1. Cancelled \in [Conns -> {"none", "armed", "cancelled", "done"}]
    BY <1>0 DEF Cancelled, ClientType
  <2> QED BY <1>0, <2>1 DEF ClientType, Links, CloseStopsTimer, CloseCancels,
             CloseWaits, CloseConn, shared
<1>3. /\ \A k \in Conns : Live(k)' => Live(k)
      /\ closer' \in {"wait", "lock", "closed"} => ctxDone'
      /\ closer' = "closed" => \A k \in Conns : ~Live(k)'
  BY <1>0 DEF ClientType, OneLiveConnection, Closing, Live, CloseStopsTimer,
     CloseCancels, CloseWaits, CloseConn, shared
<1> QED BY <1>0, <1>1, <1>2, <1>3
        DEF ClientInv, OneLoop, OneLiveConnection, Connecting, Closing

LEMMA ClientNext == ClientInv /\ [Next]_vars => ClientInv'
<1> SUFFICES ASSUME ClientInv, [Next]_vars PROVE ClientInv'
  OBVIOUS
<1>1. CASE Terminated \/ UNCHANGED vars
  <2>1. UNCHANGED vars
    BY <1>1 DEF Terminated
  <2>2. ClientType'
    BY <2>1 DEF ClientInv, ClientType, vars, shared
  <2> QED BY <2>1, <2>2, Frame DEF vars, shared
<1> QED BY <1>1, SendStep, ReceiverStep, TimerStep, BreakStep, SuppressedStep,
           ReconnectStep, ConnectStep, CloseStep DEF Next

LEMMA ClientInvariant == Spec => []ClientInv
  BY ClientInit, ClientNext, PTL DEF Spec

\* Every step keeps the rotation alive until Close is called.
LEMMA ScheduledStep ==
  ASSUME ClientInv, Scheduled, [Next]_vars
  PROVE  Scheduled'
<1> DEFINE Armed == \E k \in Conns : timer[k] = "armed"
           Running == \E r \in Loops : loop[r] # "idle"
<1> SUFFICES ASSUME Rotation, LongInterval, closer' = "idle"
             PROVE  /\ pending' > 0 \/ Running' \/ Armed'
                    /\ ~ctxDone'
                    /\ \A r \in Loops : loop'[r] = "exit" => Armed'
  BY DEF Scheduled, ReconnectScheduled
<1>0. ClientType /\ OneLoop /\ Connecting
  BY DEF ClientInv
<1>1. closer = "idle" /\ ~ctxDone' /\ ~ctxDone
  <2>1. closer = "idle" /\ UNCHANGED ctxDone
    BY <1>0 DEF Next, SendStart, SendOk, SendFails, ReceiveAcks,
       ReceiverStops, ReceiverReadsStream, AckReceived, RecvFails,
       ReceiverDisconnects, RotationDue, RotationCancelled, StreamBreaks,
       ReconnectSuppressed, Reconnect, ReconnectStarts, ReconnectWaits,
       ReconnectCancelled, CloseOldConn, ReconnectReturns, Connect, Build,
       BuildFails, OpenStream, OpenStreamFails, PublishStream, MarkConnected,
       StartReceiver, ResetRotationTimer, CloseStopsTimer, CloseCancels,
       CloseWaits, CloseConn, Terminated, vars, shared
  <2> QED BY <2>1 DEF Scheduled
<1>2. /\ pending > 0 \/ Running \/ Armed
      /\ \A r \in Loops : loop[r] = "exit" => Armed
  BY <1>1 DEF Scheduled, ReconnectScheduled
<1>3. ASSUME UNCHANGED <<loop, timer>>, pending' \in {pending, pending + 1}
      PROVE  /\ pending' > 0 \/ Running' \/ Armed'
             /\ \A r \in Loops : loop'[r] = "exit" => Armed'
  BY <1>0, <1>2, <1>3 DEF ClientType
<1>4. CASE SendStart \/ SendOk \/ SendFails \/ Terminated \/ UNCHANGED vars
  <2>1. UNCHANGED <<loop, timer>> /\ pending' \in {pending, pending + 1}
    BY <1>0, <1>4 DEF ClientType, SendStart, SendOk, SendFails,
       SpawnReconnect, Terminated, vars, shared
  <2> QED BY <1>1, <1>3, <2>1
<1>5. ASSUME NEW k \in Conns, ReceiveAcks(k) \/ StreamBreaks(k)
      PROVE  UNCHANGED <<loop, timer>> /\ pending' \in {pending, pending + 1}
  BY <1>0, <1>5 DEF ClientType, ReceiveAcks, ReceiverStops,
     ReceiverReadsStream, AckReceived, RecvFails, ReceiverDisconnects,
     StreamBreaks, SpawnReconnect
<1>6. ASSUME NEW k \in Conns, RotationDue(k)
      PROVE  /\ pending' > 0
             /\ \A r \in Loops : loop'[r] = "exit" => Armed'
  <2>1. pending' > 0 /\ UNCHANGED loop
    BY <1>0, <1>6 DEF ClientType, RotationDue, SpawnReconnect
  <2>2. CASE timer[k] = "armed"
    BY <1>6, <2>1, <2>2 DEF RotationDue
  <2>3. CASE timer[k] # "armed"
    <3>1. \A j \in Conns : timer[j] = "armed" => timer'[j] = "armed"
      BY <1>0, <1>6, <2>3 DEF ClientType, RotationDue
    <3> QED BY <1>2, <2>1, <3>1
  <2> QED BY <2>1, <2>2, <2>3
<1>7. ASSUME NEW k \in Conns, RotationCancelled(k)
      PROVE  /\ \A j \in Conns : timer[j] = "armed" => timer'[j] = "armed"
             /\ UNCHANGED <<pending, loop>>
  BY <1>0, <1>1, <1>7 DEF ClientType, RotationCancelled
<1>8. CASE ReconnectSuppressed
  BY <1>0, <1>1, <1>2, <1>8 DEF OneLoop, ReconnectSuppressed
<1>9. ASSUME NEW r \in Loops, Reconnect(r)
      PROVE  /\ pending' > 0 \/ Running' \/ Armed'
             /\ \A s \in Loops : loop'[s] = "exit" => Armed'
  <2>1. CASE ReconnectReturns(r)
    BY <1>0, <1>2, <2>1 DEF ClientType, ReconnectReturns, Goto
  <2>2. CASE ~ReconnectReturns(r)
    <3>1. /\ loop'[r] \in {"check", "delay", "build"} /\ UNCHANGED timer
          /\ \A s \in Loops : s # r => loop'[s] = loop[s]
      BY <1>0, <1>1, <1>9, <2>2 DEF ClientType, Reconnect, ReconnectStarts,
         ReconnectWaits, ReconnectCancelled, CloseOldConn, Goto
    <3> QED BY <1>2, <3>1
  <2> QED BY <2>1, <2>2
<1>10. ASSUME NEW r \in Loops, Connect(r)
       PROVE  /\ Running'
              /\ \A s \in Loops : loop'[s] = "exit" => Armed'
  <2>1. /\ loop[r] # "idle" /\ loop'[r] # "idle"
        /\ \A s \in Loops : s # r => loop'[s] = loop[s]
        /\ loop'[r] = "exit" => ResetRotationTimer(r)
    BY <1>0, <1>10 DEF ClientType, Connect, Build, BuildFails, OpenStream,
       OpenStreamFails, PublishStream, MarkConnected, StartReceiver,
       ResetRotationTimer, Goto
  <2>2. \A s \in Loops : s # r => loop'[s] = "idle"
    BY <1>0, <2>1 DEF OneLoop
  <2>3. ASSUME ResetRotationTimer(r) PROVE Armed'
    <3>1. dialling[r] \in Conns /\ Cancelled \in [Conns -> {"none", "armed", "cancelled", "done"}]
      BY <1>0, <2>3 DEF ResetRotationTimer, Connecting, Cancelled, ClientType
    <3>2. timer'[dialling[r]] = "armed"
      BY <2>3, <3>1 DEF ResetRotationTimer
    <3> QED BY <3>1, <3>2
  <2> QED BY <2>1, <2>2, <2>3
<1>11. CASE CloseStopsTimer \/ CloseCancels \/ CloseWaits \/ CloseConn
  BY <1>11 DEF CloseStopsTimer, CloseCancels, CloseWaits, CloseConn
<1>12. ASSUME NEW k \in Conns, RotationCancelled(k)
       PROVE  /\ pending' > 0 \/ Running' \/ Armed'
              /\ \A r \in Loops : loop'[r] = "exit" => Armed'
  BY <1>2, <1>7, <1>12
<1> HIDE DEF Armed, Running
<1> QED BY <1>1, <1>3, <1>4, <1>5, <1>6, <1>8, <1>9, <1>10, <1>11, <1>12
        DEF Next

-----------------------------------------------------------------------------

\* Whatever the sender, the receivers, the timers and Close do, and however
\* often streams break, no connection is ever dialled before the previous one
\* was closed.
THEOREM OneLiveConnectionCorrect == Spec => []OneLiveConnection
<1>1. ClientInv => OneLiveConnection
  BY DEF ClientInv
<1> QED BY <1>1, ClientInvariant, PTL

\* At most one reconnect goroutine is past the test of c.reconnecting, for
\* any number of them.
THEOREM SingleFlightCorrect == Spec => []SingleFlight
<1>1. ASSUME OneLoop PROVE SingleFlight
  <2> DEFINE running == {r \in Loops : loop[r] # "idle"}
  <2>1. CASE running = {}
    <3>1. Cardinality(running) = 0
      BY <2>1, FS_EmptySet
    <3> QED BY <1>1, <3>1 DEF OneLoop, SingleFlight
  <2>2. CASE running # {}
    <3>1. PICK r \in Loops : running = {r}
      BY <1>1, <2>2 DEF OneLoop
    <3>2. Cardinality(running) = 1
      BY <3>1, FS_Singleton
    <3> QED BY <1>1, <3>2 DEF OneLoop, SingleFlight
  <2> QED BY <2>1, <2>2
<1>2. ClientInv => SingleFlight
  BY <1>1 DEF ClientInv
<1> QED BY <1>2, ClientInvariant, PTL

\* Once everything has ended after Close, no connection is left open.
THEOREM NoLeakAfterCloseCorrect == Spec => []NoLeakAfterClose
<1>1. ClientInv => NoLeakAfterClose
  BY DEF ClientInv, Closing, NoLeakAfterClose, Quiet
<1> QED BY <1>1, ClientInvariant, PTL

\* With rotation, until Close is called something is always about to start a
\* reconnect: the wake-ups that c.reconnecting suppresses are never the last.
THEOREM ReconnectScheduledCorrect == Spec => []ReconnectScheduled
<1>1. Init => Scheduled
  BY ClientAssumption DEF Init, Scheduled, ReconnectScheduled
<1>2. ClientInv /\ Scheduled /\ [Next]_vars => Scheduled'
  BY ScheduledStep
<1>3. Scheduled => ReconnectScheduled
  BY DEF Scheduled
<1> QED BY <1>1, <1>2, <1>3, ClientInvariant, PTL DEF Spec
=============================================================================
