------------------------- MODULE MqttStatus_proofs -------------------------
(***************************************************************************)
(* Proofs about the MQTT clients and the gauge that reports on them, for   *)
(* any number of attempts, topics, handlers and lost connections.          *)
(***************************************************************************)
EXTENDS MqttStatus, TLAPS

Pcs == {"none", "token", "giveup", "result", "connected", "failed", "closed"}

\* Types of the variables of MqttClient.
MqttType ==
  /\ link \in [Attempts -> {"none", "connecting", "up", "reconnecting", "down"}]
  /\ caller \in [Attempts -> Pcs]
  /\ subscriber \in [Attempts -> [Handlers -> 0..(NumTopics + 1)]]
  /\ initial \in [Attempts -> {"none", "ok", "error"}]
  /\ session \in [Attempts -> SUBSET Topics]
  /\ callback \in [Attempts -> BOOLEAN]
  /\ missed \in [Attempts -> BOOLEAN]
  /\ forgotten \in [Attempts -> BOOLEAN]

\* The attempt that setupMQTT works on, or the client in use.
Active(k) == caller[k] \notin {"none", "failed"}

\* connectMQTTWithRetry makes one attempt at a time; a number never used has
\* no connection and no handler.
OneAttempt ==
  /\ \A j, k \in Attempts : Active(j) /\ Active(k) => j = k
  /\ \A k \in Attempts :
       caller[k] = "none" => link[k] = "none" /\ subscriber[k] = Idle

\* A client that was given up or closed is disconnected, or Close has missed
\* its connection.
Released ==
  \A k \in Attempts :
    caller[k] \in {"failed", "closed"} => missed[k] \/ link[k] \in {"none", "down"}

\* A handler that is at its n-th topic has subscribed the topics before it,
\* unless the broker has forgotten the session since.
Subscribing ==
  \A k \in Attempts :
    \/ forgotten[k]
    \/ /\ \A h \in Handlers : \A t \in Topics :
            t < subscriber[k][h] => t \in session[k]
       /\ initial[k] = "ok" \/ caller[k] = "connected" => session[k] = Topics

MqttInv ==
  MqttType /\ OneAttempt /\ Released /\ ClosedIsQuiet /\ Subscribing

LEMMA MqttInitial == MqttInit => MqttInv
<1> SUFFICES ASSUME MqttInit PROVE MqttInv
  OBVIOUS
<1>1. MqttType
  BY MqttAssumption DEF MqttInit, MqttType, Each, Idle, Pcs
<1>2. OneAttempt /\ Released /\ ClosedIsQuiet /\ Subscribing
  BY MqttAssumption DEF MqttInit, OneAttempt, Released, ClosedIsQuiet, Subscribing, Each, Idle, Active, Topics
<1> QED BY <1>1, <1>2 DEF MqttInv

-----------------------------------------------------------------------------
(* The steps of a client k                                                  *)

LEMMA ConnectStartStep ==
  ASSUME MqttInv, NEW k \in Attempts, ConnectStart(k)
  PROVE  MqttInv'
<1> USE DEF MqttInv
<1>1. MqttType'
  BY DEF MqttType, ConnectStart, Set, Goto, Pcs
<1>2. OneAttempt'
  BY DEF MqttType, OneAttempt, ConnectStart, BetweenAttempts, Set, Goto, Active
<1>3. Released' /\ ClosedIsQuiet'
  BY DEF MqttType, Released, ClosedIsQuiet, ConnectStart, Set, Goto
<1>4. Subscribing'
  BY DEF MqttType, Subscribing, ConnectStart, Reusable, Idle, Set, Goto, Topics
<1> QED BY <1>1, <1>2, <1>3, <1>4

\* The steps of Connect that only move on.
LEMMA WaitStep ==
  ASSUME MqttInv, NEW k \in Attempts,
         TokenTimeout(k) \/ TokenDone(k) \/ InitialResult(k) \/ InitialTimeout(k)
  PROVE  MqttInv'
<1> USE DEF MqttInv
<1>1. MqttType'
  BY DEF MqttType, TokenTimeout, TokenDone, InitialResult, InitialTimeout,
     Set, Goto, Pcs
<1>2. /\ Active(k) /\ Active(k)' /\ caller'[k] \notin {"failed", "closed"}
      /\ \A j \in Attempts : j # k => caller'[j] = caller[j]
      /\ caller'[k] = "connected" => initial[k] = "ok"
      /\ UNCHANGED <<link, subscriber, initial, session, callback, missed,
                     forgotten>>
  BY DEF MqttType, TokenTimeout, TokenDone, InitialResult, InitialTimeout,
     Set, Goto, Active
<1>3. OneAttempt'
  BY <1>2 DEF OneAttempt, Active
<1>4. Released' /\ ClosedIsQuiet'
  BY <1>2 DEF Released, ClosedIsQuiet
<1>5. Subscribing'
  BY <1>2 DEF Subscribing
<1> QED BY <1>1, <1>3, <1>4, <1>5

\* Close leaves a client disconnected or notes that it missed it.
LEMMA CloseStep ==
  ASSUME MqttInv, NEW k \in Attempts, GiveUp(k) \/ CloseClient(k)
  PROVE  MqttInv'
<1> USE DEF MqttInv
<1>1. MqttType'
  BY DEF MqttType, GiveUp, CloseClient, CloseEffect, Set, Goto, Pcs
<1>2. /\ Active(k) /\ caller'[k] \in {"failed", "closed"}
      /\ \A j \in Attempts : j # k => /\ caller'[j] = caller[j]
                                      /\ link'[j] = link[j]
                                      /\ missed'[j] = missed[j]
      /\ UNCHANGED <<subscriber, initial, session, callback, forgotten>>
  BY DEF MqttType, GiveUp, CloseClient, CloseEffect, Set, Goto, Active
<1>3. OneAttempt'
  BY <1>2 DEF OneAttempt, Active
<1>4. /\ callback[k] => missed'[k]
      /\ missed'[k] \/ link'[k] \in {"none", "down"}
  BY DEF MqttType, GiveUp, CloseClient, CloseEffect, Set
<1>5. Released' /\ ClosedIsQuiet'
  BY <1>2, <1>4 DEF Released, ClosedIsQuiet
<1>6. Subscribing'
  BY <1>2 DEF Subscribing
<1> QED BY <1>1, <1>3, <1>5, <1>6

\* Paho connects again only a client that Close has missed.
LEMMA PahoStep ==
  ASSUME MqttInv, NEW k \in Attempts, PahoConnects(k) \/ PahoReconnects(k)
  PROVE  MqttInv'
<1> USE DEF MqttInv
<1>1. PICK h \in Handlers :
        /\ subscriber[k][h] = 0
        /\ subscriber' = [subscriber EXCEPT ![k][h] = 1]
  BY DEF PahoConnects, PahoReconnects, StartHandler
<1>2. /\ link[k] \in {"connecting", "reconnecting"}
      /\ link' = [link EXCEPT ![k] = "up"]
      /\ UNCHANGED <<caller, initial, session, callback, missed, forgotten>>
  BY DEF PahoConnects, PahoReconnects, Set
<1>3. MqttType'
  BY <1>1, <1>2, MqttAssumption DEF MqttType
<1>4. OneAttempt'
  BY <1>1, <1>2 DEF MqttType, OneAttempt, Active
<1>5. Released' /\ ClosedIsQuiet'
  BY <1>2 DEF MqttType, Released, ClosedIsQuiet
<1>6. Subscribing'
  BY <1>1, <1>2 DEF MqttType, Subscribing, Topics
<1> QED BY <1>3, <1>4, <1>5, <1>6

LEMMA LostStep ==
  ASSUME MqttInv, NEW k \in Attempts, ConnectionLost(k) \/ PahoConnectFails(k)
  PROVE  MqttInv'
<1> USE DEF MqttInv
<1>1. MqttType'
  BY DEF MqttType, ConnectionLost, PahoConnectFails, Set
<1>2. OneAttempt' /\ Released' /\ ClosedIsQuiet'
  BY DEF MqttType, OneAttempt, Released, ClosedIsQuiet, ConnectionLost,
     PahoConnectFails, Set, Active
<1>3. Subscribing'
  BY DEF MqttType, Subscribing, ConnectionLost, PahoConnectFails, Set
<1> QED BY <1>1, <1>2, <1>3

\* A message is delivered on an open connection only.
LEMMA MessageStep ==
  ASSUME MqttInv, NEW k \in Attempts, MessageArrives(k) \/ CallbackReturns(k)
  PROVE  MqttInv'
<1> USE DEF MqttInv
<1>1. MqttType'
  BY DEF MqttType, MessageArrives, CallbackReturns, Set
<1>2. OneAttempt' /\ Released' /\ Subscribing'
  BY DEF OneAttempt, Released, Subscribing, MessageArrives, CallbackReturns,
     Active
<1>3. ClosedIsQuiet'
  BY DEF MqttType, Released, ClosedIsQuiet, MessageArrives, CallbackReturns,
     Set
<1> QED BY <1>1, <1>2, <1>3

\* A handler runs only for a client that was connected; it subscribes the
\* topics in order.
LEMMA HandlerStep ==
  ASSUME MqttInv, NEW k \in Attempts, NEW h \in Handlers,
         SubscribeAcked(k, h) \/ SubscribeFails(k, h) \/ HandlerDone(k, h)
  PROVE  MqttInv'
<1> DEFINE n == subscriber[k][h]
<1>0. MqttType /\ OneAttempt /\ Released /\ ClosedIsQuiet /\ Subscribing
  BY DEF MqttInv
<1>1. /\ n \in 1..(NumTopics + 1)
      /\ UNCHANGED <<link, caller, callback, missed, forgotten>>
  BY MqttAssumption DEF SubscribeAcked, SubscribeFails, HandlerDone, Topics,
     AllSubscribed
<1>2. PICK m \in 0..(NumTopics + 1) :
        /\ subscriber' = [subscriber EXCEPT ![k][h] = m]
        /\ \/ SubscribeAcked(k, h) /\ m = n + 1
           \/ (SubscribeFails(k, h) \/ HandlerDone(k, h)) /\ m = 0
  <2>1. CASE SubscribeAcked(k, h)
    <3>1. n \in Topics /\ n + 1 \in 0..(NumTopics + 1)
      BY <2>1, MqttAssumption DEF SubscribeAcked, Topics
    <3>2. subscriber' = [subscriber EXCEPT ![k][h] = n + 1]
      BY <1>0, <2>1 DEF SubscribeAcked, MqttType
    <3> QED BY <2>1, <3>1, <3>2
  <2>2. CASE SubscribeFails(k, h) \/ HandlerDone(k, h)
    <3>1. subscriber' = [subscriber EXCEPT ![k][h] = 0]
      BY <2>2 DEF SubscribeFails, HandlerDone
    <3>2. 0 \in 0..(NumTopics + 1)
      BY MqttAssumption
    <3> QED BY <2>2, <3>1, <3>2
  <2> QED BY <2>1, <2>2
<1>3. /\ subscriber' \in [Attempts -> [Handlers -> 0..(NumTopics + 1)]]
      /\ subscriber'[k][h] = m
      /\ \A g \in Handlers : g # h => subscriber'[k][g] = subscriber[k][g]
      /\ \A j \in Attempts : j # k => subscriber'[j] = subscriber[j]
  <2>1. subscriber \in [Attempts -> [Handlers -> 0..(NumTopics + 1)]]
    BY <1>0 DEF MqttType
  <2> DEFINE row == [subscriber[k] EXCEPT ![h] = m]
  <2>2. /\ row \in [Handlers -> 0..(NumTopics + 1)] /\ row[h] = m
        /\ \A g \in Handlers : g # h => row[g] = subscriber[k][g]
    BY <2>1
  <2>3. subscriber' = [subscriber EXCEPT ![k] = row]
    BY <1>2, <2>1
  <2> HIDE DEF row
  <2> QED BY <2>1, <2>2, <2>3
<1>4. /\ session' \in [Attempts -> SUBSET Topics]
      /\ \A j \in Attempts : session[j] \subseteq session'[j]
      /\ SubscribeAcked(k, h) => n \in session'[k]
  <2>1. session \in [Attempts -> SUBSET Topics]
    BY <1>0 DEF MqttType
  <2>2. CASE SubscribeAcked(k, h)
    <3>1. /\ n \in Topics
          /\ session' = [session EXCEPT ![k] = session[k] \cup {n}]
      BY <2>2 DEF SubscribeAcked, Set
    <3>2. session[k] \cup {n} \in SUBSET Topics
      BY <2>1, <3>1
    <3> QED BY <2>1, <3>1, <3>2
  <2>3. CASE ~SubscribeAcked(k, h)
    BY <2>1, <2>3 DEF SubscribeFails, HandlerDone
  <2> QED BY <2>2, <2>3
<1>5. /\ initial' \in [Attempts -> {"none", "ok", "error"}]
      /\ \A j \in Attempts : j # k => initial'[j] = initial[j]
      /\ initial'[k] = "ok" => initial[k] = "ok" \/ HandlerDone(k, h)
  BY <1>0 DEF MqttType, SubscribeAcked, SubscribeFails, HandlerDone, Complete,
     Set
<1>6. MqttType'
  BY <1>0, <1>1, <1>3, <1>4, <1>5 DEF MqttType
<1>7. OneAttempt'
  <2>1. caller[k] # "none"
    BY <1>0, <1>1, MqttAssumption DEF OneAttempt, Idle
  <2> QED BY <1>0, <1>1, <1>3, <2>1 DEF OneAttempt, Active
<1>8. Released' /\ ClosedIsQuiet'
  BY <1>0, <1>1 DEF Released, ClosedIsQuiet
<1>9. Subscribing'
  <2> SUFFICES ASSUME NEW j \in Attempts, ~forgotten[j]
               PROVE  /\ \A g \in Handlers : \A t \in Topics :
                           t < subscriber'[j][g] => t \in session'[j]
                      /\ initial'[j] = "ok" \/ caller[j] = "connected"
                           => session'[j] = Topics
    BY <1>1 DEF Subscribing
  <2>1. /\ \A g \in Handlers : \A t \in Topics :
             t < subscriber[j][g] => t \in session[j]
        /\ initial[j] = "ok" \/ caller[j] = "connected" => session[j] = Topics
        /\ session'[j] \subseteq Topics
    BY <1>0, <1>4 DEF Subscribing
  <2>2. CASE j # k
    BY <1>3, <1>4, <1>5, <2>1, <2>2
  <2>3. CASE j = k
    <3>1. ASSUME NEW t \in Topics, t < m PROVE t \in session'[k]
      <4>1. SubscribeAcked(k, h) /\ m = n + 1
        BY <1>2, <3>1, MqttAssumption DEF Topics
      <4>2. t < n \/ t = n
        BY <1>1, <3>1, <4>1, MqttAssumption DEF Topics
      <4> QED BY <1>4, <2>1, <2>3, <4>1, <4>2
    <3>2. ASSUME HandlerDone(k, h) PROVE session'[k] = Topics
      <4>1. \A t \in Topics : t < n
        BY <3>2, MqttAssumption DEF HandlerDone, AllSubscribed, Topics
      <4> QED BY <1>4, <2>1, <2>3, <4>1
    <3> QED BY <1>3, <1>4, <1>5, <2>1, <2>3, <3>1, <3>2
  <2> QED BY <2>2, <2>3
<1> QED BY <1>6, <1>7, <1>8, <1>9 DEF MqttInv

LEMMA MqttStep == MqttInv /\ [MqttNext]_mqtt => MqttInv'
<1> SUFFICES ASSUME MqttInv, [MqttNext]_mqtt PROVE MqttInv'
  OBVIOUS
<1>1. CASE NoRoom \/ UNCHANGED mqtt
  BY <1>1 DEF NoRoom, mqtt, MqttInv, MqttType, OneAttempt, Released,
     ClosedIsQuiet, Subscribing, Active
<1>2. ASSUME NEW k \in Attempts, Setup(k) PROVE MqttInv'
  BY <1>2, WaitStep, CloseStep DEF Setup
<1>3. ASSUME NEW k \in Attempts, Background(k) PROVE MqttInv'
  BY <1>3, PahoStep, LostStep, MessageStep, HandlerStep DEF Background
<1> QED BY <1>1, <1>2, <1>3, ConnectStartStep, CloseStep, MessageStep
        DEF MqttNext

LEMMA MqttInvariant == MqttSpec => []MqttInv
  BY MqttInitial, MqttStep, PTL DEF MqttSpec

-----------------------------------------------------------------------------
(* The gauge                                                                *)

\* Connect is under way or has succeeded, and Close was not called.
Working(k) == caller[k] \in {"token", "giveup", "result", "connected"}

ReportType ==
  /\ losing \in [Attempts -> Nat]
  /\ old \in [Attempts -> SUBSET Handlers]

\* A running handler that is not an old one belongs to the connection that is
\* up, whose session still has the topics it has subscribed.
HandlersCurrent ==
  \A k \in Attempts, h \in Handlers :
    /\ h \in old[k] => subscriber[k][h] # 0
    /\ Working(k) /\ subscriber[k][h] # 0 /\ h \notin old[k]
         => /\ link[k] = "up"
            /\ \A t \in Topics : t < subscriber[k][h] => t \in session[k]

\* A gauge of 1 that is not stale was set by the client at work, whose
\* connection has not been lost since unless the handler of that loss is
\* still to run.
GaugeCurrent ==
  gauge /\ ~stale =>
    /\ \E k \in Attempts : Active(k)
    /\ \A k \in Attempts :
         Working(k) /\ losing[k] = 0 => link[k] = "up" /\ session[k] = Topics

StatusInv == MqttInv /\ ReportType /\ HandlersCurrent /\ GaugeCurrent

\* The gauge only watches the clients.
LEMMA StatusIsMqtt == StatusNext \/ UNCHANGED status => [MqttNext]_mqtt
  BY DEF StatusNext, status, MqttNext, ConnectAndReport, CloseAndReport,
     Unreported, LoseConnection, OnConnectionLost, HandleConnect, Background

LEMMA StatusInitial == StatusInit => StatusInv
<1> SUFFICES ASSUME StatusInit PROVE StatusInv
  OBVIOUS
<1>1. MqttInv
  BY MqttInitial DEF StatusInit
<1> QED BY <1>1 DEF StatusInit, MqttInit, StatusInv, ReportType,
           HandlersCurrent, GaugeCurrent, Each, Idle

LEMMA ConnectReportStep ==
  ASSUME StatusInv, MqttInv', NEW k \in Attempts,
         ConnectAndReport(k) \/ CloseAndReport(k)
  PROVE  ReportType' /\ HandlersCurrent' /\ GaugeCurrent'
<1>0. MqttType /\ OneAttempt /\ ReportType /\ HandlersCurrent /\ GaugeCurrent
  BY DEF StatusInv, MqttInv
<1>1. /\ ReportType' /\ UNCHANGED <<losing, old, subscriber>>
      /\ \A j \in Attempts : j # k => /\ caller'[j] = caller[j]
                                      /\ link'[j] = link[j]
                                      /\ session'[j] = session[j]
  BY <1>0 DEF MqttType, ReportType, ConnectAndReport, CloseAndReport, Setup,
     ConnectStart, TokenTimeout, TokenDone, InitialResult, InitialTimeout,
     GiveUp, CloseClient, CloseEffect, Set, Goto
<1>2. \/ ConnectStart(k) /\ UNCHANGED <<gauge, stale>>
      \/ /\ caller[k] \in {"token", "result"}
         /\ caller'[k] \in {"result", "connected"}
         /\ UNCHANGED <<gauge, stale, link, session>>
      \/ /\ gauge' = FALSE
         /\ Working(k)' => Working(k) /\ UNCHANGED <<link, session>>
  BY <1>0 DEF MqttType, ConnectAndReport, CloseAndReport, Setup, ConnectStart,
     TokenTimeout, TokenDone, InitialResult, InitialTimeout, GiveUp,
     CloseClient, Set, Goto, SetMQTTConnected, Working
<1>3. CASE ConnectStart(k) /\ UNCHANGED <<gauge, stale>>
  <2>1. \A j \in Attempts : ~Active(j)
    BY <1>3 DEF ConnectStart, BetweenAttempts, Active
  <2>2. \A h \in Handlers : subscriber[k][h] = 0
    BY <1>3 DEF ConnectStart, Reusable, Idle
  <2>3. HandlersCurrent'
    BY <1>0, <1>1, <2>2 DEF HandlersCurrent, Working
  <2>4. GaugeCurrent'
    BY <1>0, <1>3, <2>1 DEF GaugeCurrent
  <2> QED BY <1>1, <2>3, <2>4
<1>4. CASE /\ caller[k] \in {"token", "result"}
           /\ caller'[k] \in {"result", "connected"}
           /\ UNCHANGED <<gauge, stale, link, session>>
  BY <1>0, <1>1, <1>4 DEF HandlersCurrent, GaugeCurrent, Working, Active
<1>5. CASE /\ gauge' = FALSE
           /\ Working(k)' => Working(k) /\ UNCHANGED <<link, session>>
  BY <1>0, <1>1, <1>5 DEF HandlersCurrent, GaugeCurrent, Working
<1> QED BY <1>2, <1>3, <1>4, <1>5

LEMMA UnreportedStep ==
  ASSUME StatusInv, MqttInv', NEW k \in Attempts, Unreported(k)
  PROVE  ReportType' /\ HandlersCurrent' /\ GaugeCurrent'
<1>0. MqttType /\ OneAttempt /\ ReportType /\ HandlersCurrent /\ GaugeCurrent
  BY DEF StatusInv, MqttInv
<1>1. ReportType' /\ UNCHANGED <<gauge, losing, old, stale, caller>>
  BY <1>0 DEF ReportType, Unreported, reporting, PahoConnects,
     PahoConnectFails, PahoReconnects, MessageArrives, CallbackReturns,
     SubscribeAcked
<1>2. CASE PahoConnects(k) \/ PahoReconnects(k)
  <2>1. PICK h \in Handlers :
          /\ subscriber[k][h] = 0
          /\ subscriber' = [subscriber EXCEPT ![k][h] = 1]
    BY <1>2 DEF PahoConnects, PahoReconnects, StartHandler
  <2>2. /\ subscriber'[k][h] = 1
        /\ \A g \in Handlers : g # h => subscriber'[k][g] = subscriber[k][g]
        /\ \A j \in Attempts : j # k => subscriber'[j] = subscriber[j]
    BY <1>0, <2>1 DEF MqttType
  <2>3. /\ link[k] # "up" /\ link'[k] = "up" /\ UNCHANGED session
        /\ \A j \in Attempts : j # k => link'[j] = link[j]
    BY <1>0, <1>2 DEF MqttType, PahoConnects, PahoReconnects, Set
  <2>4. \A t \in Topics : ~(t < 1)
    BY MqttAssumption DEF Topics
  <2>5. HandlersCurrent'
    BY <1>0, <1>1, <2>1, <2>2, <2>3, <2>4 DEF HandlersCurrent, Working
  <2>6. GaugeCurrent'
    BY <1>0, <1>1, <2>3 DEF GaugeCurrent, Working, Active
  <2> QED BY <1>1, <2>5, <2>6
<1>3. CASE PahoConnectFails(k)
  BY <1>0, <1>1, <1>3 DEF MqttType, PahoConnectFails, Set, HandlersCurrent,
     GaugeCurrent, Working, Active
<1>4. CASE MessageArrives(k) \/ CallbackReturns(k)
  BY <1>0, <1>1, <1>4 DEF MessageArrives, CallbackReturns, HandlersCurrent,
     GaugeCurrent, Working, Active
<1>5. ASSUME NEW h \in Handlers, SubscribeAcked(k, h)
      PROVE  HandlersCurrent' /\ GaugeCurrent'
  <2> DEFINE n == subscriber[k][h]
  <2>1. /\ n \in Topics /\ UNCHANGED link
        /\ session' = [session EXCEPT ![k] = session[k] \cup {n}]
        /\ subscriber' = [subscriber EXCEPT ![k][h] = n + 1]
    BY <1>0, <1>5 DEF SubscribeAcked, Set, MqttType
  <2>2. /\ subscriber'[k][h] = n + 1 /\ n + 1 # 0 /\ n # 0
        /\ \A g \in Handlers : g # h => subscriber'[k][g] = subscriber[k][g]
        /\ \A j \in Attempts : j # k => subscriber'[j] = subscriber[j]
    BY <1>0, <2>1, MqttAssumption DEF MqttType, Topics
  <2>3. /\ session'[k] = session[k] \cup {n}
        /\ \A j \in Attempts : j # k => session'[j] = session[j]
    BY <1>0, <2>1 DEF MqttType
  <2>4. \A t \in Topics : t < n + 1 => t < n \/ t = n
    BY <2>1, MqttAssumption DEF Topics
  <2> HIDE DEF n
  <2>5. HandlersCurrent'
    BY <1>0, <1>1, <2>1, <2>2, <2>3, <2>4 DEF HandlersCurrent, Working, n
  <2>6. GaugeCurrent'
    BY <1>0, <1>1, <2>1, <2>3 DEF GaugeCurrent, Working, Active
  <2> QED BY <2>5, <2>6
<1> QED BY <1>1, <1>2, <1>3, <1>4, <1>5 DEF Unreported

LEMMA LoseStep ==
  ASSUME StatusInv, MqttInv', NEW k \in Attempts, LoseConnection(k)
  PROVE  ReportType' /\ HandlersCurrent' /\ GaugeCurrent'
<1>0. MqttType /\ ReportType /\ HandlersCurrent /\ GaugeCurrent
  BY DEF StatusInv, MqttInv
<1>1. /\ UNCHANGED <<gauge, stale, caller, subscriber>>
      /\ losing'[k] = losing[k] + 1 /\ losing'[k] # 0
      /\ old'[k] = {h \in Handlers : subscriber[k][h] # 0}
      /\ \A j \in Attempts : j # k => /\ losing'[j] = losing[j]
                                      /\ old'[j] = old[j]
                                      /\ link'[j] = link[j]
                                      /\ session'[j] = session[j]
  BY <1>0 DEF MqttType, ReportType, LoseConnection, ConnectionLost, Set
<1>2. ReportType'
  BY <1>0 DEF ReportType, LoseConnection, Set
<1> QED BY <1>0, <1>1, <1>2 DEF HandlersCurrent, GaugeCurrent, Working, Active

LEMMA LostHandlerStep ==
  ASSUME StatusInv, MqttInv', NEW k \in Attempts, OnConnectionLost(k)
  PROVE  ReportType' /\ HandlersCurrent' /\ GaugeCurrent'
<1>0. ReportType /\ HandlersCurrent
  BY DEF StatusInv
<1>1. ReportType'
  BY <1>0 DEF ReportType, OnConnectionLost, Set
<1>2. HandlersCurrent'
  BY <1>0 DEF HandlersCurrent, OnConnectionLost, mqtt, Working
<1>3. GaugeCurrent'
  BY DEF GaugeCurrent, OnConnectionLost, SetMQTTConnected
<1> QED BY <1>1, <1>2, <1>3

\* The handler that sets the gauge to 1, not being stale, is the one of the
\* connection that is up, of the only client at work.
LEMMA HandleConnectStep ==
  ASSUME StatusInv, MqttInv', NEW k \in Attempts, NEW h \in Handlers,
         HandleConnect(k, h)
  PROVE  ReportType' /\ HandlersCurrent' /\ GaugeCurrent'
<1>0. /\ MqttType /\ OneAttempt /\ ReportType /\ HandlersCurrent
      /\ GaugeCurrent
  BY DEF StatusInv, MqttInv
<1>1. /\ UNCHANGED <<losing, link, caller, session>>
      /\ subscriber[k][h] \in Topics \cup {AllSubscribed}
      /\ subscriber' = [subscriber EXCEPT ![k][h] = 0]
      /\ old' = [old EXCEPT ![k] = old[k] \ {h}]
  BY DEF HandleConnect, HandlerDone, SubscribeFails, Set
<1>2. subscriber[k][h] # 0
  BY <1>1, MqttAssumption DEF Topics, AllSubscribed
<1>3. /\ subscriber'[k][h] = 0
      /\ \A g \in Handlers : g # h => subscriber'[k][g] = subscriber[k][g]
      /\ \A j \in Attempts : j # k => subscriber'[j] = subscriber[j]
  BY <1>0, <1>1 DEF MqttType
<1>4. /\ old'[k] = old[k] \ {h}
      /\ \A j \in Attempts : j # k => old'[j] = old[j]
      /\ ReportType'
  BY <1>0, <1>1 DEF ReportType
<1>5. HandlersCurrent'
  BY <1>0, <1>1, <1>3, <1>4 DEF HandlersCurrent, Working
<1>6. GaugeCurrent'
  <2> SUFFICES ASSUME gauge', ~stale'
               PROVE  /\ Active(k)
                      /\ \A j \in Attempts :
                           Working(j) /\ losing[j] = 0
                             => link[j] = "up" /\ session[j] = Topics
    BY <1>1 DEF GaugeCurrent, Active, Working
  <2>1. HandlerDone(k, h) /\ ~GivenUp(k) /\ h \notin old[k]
    BY DEF HandleConnect, SetMQTTConnected
  <2>2. Active(k)
    <3>1. caller[k] # "none"
      BY <1>0, <1>2 DEF OneAttempt, Idle
    <3> QED BY <2>1, <3>1 DEF GivenUp, Active
  <2>3. ASSUME NEW j \in Attempts, Working(j)
        PROVE  link[j] = "up" /\ session[j] = Topics
    <3>1. j = k
      BY <1>0, <2>2, <2>3 DEF OneAttempt, Active, Working
    <3>2. /\ link[k] = "up"
          /\ \A t \in Topics : t < subscriber[k][h] => t \in session[k]
      BY <1>0, <1>2, <2>1, <2>3, <3>1 DEF HandlersCurrent
    <3>3. \A t \in Topics : t < subscriber[k][h]
      BY <2>1, MqttAssumption DEF HandlerDone, AllSubscribed, Topics
    <3>4. session[k] \subseteq Topics
      BY <1>0 DEF MqttType
    <3> QED BY <3>1, <3>2, <3>3, <3>4
  <2> QED BY <2>2, <2>3
<1> QED BY <1>4, <1>5, <1>6

LEMMA StatusStep == StatusInv /\ [StatusNext]_status => StatusInv'
<1> SUFFICES ASSUME StatusInv, [StatusNext]_status PROVE StatusInv'
  OBVIOUS
<1>1. MqttInv'
  BY StatusIsMqtt, MqttStep DEF StatusInv
<1>2. CASE (NoRoom /\ UNCHANGED reporting) \/ UNCHANGED status
  BY <1>1, <1>2 DEF NoRoom, reporting, status, mqtt, StatusInv, ReportType,
     HandlersCurrent, GaugeCurrent, Working, Active
<1>3. CASE StatusNext /\ ~(NoRoom /\ UNCHANGED reporting)
  <2>1. ReportType' /\ HandlersCurrent' /\ GaugeCurrent'
    BY <1>1, <1>3, ConnectReportStep, UnreportedStep, LoseStep,
       LostHandlerStep, HandleConnectStep DEF StatusNext
  <2> QED BY <1>1, <2>1 DEF StatusInv
<1> QED BY <1>2, <1>3

LEMMA StatusInvariant == StatusSpec => []StatusInv
  BY StatusInitial, StatusStep, PTL DEF StatusSpec

-----------------------------------------------------------------------------

\* Reporting changes nothing for the clients.
THEOREM StatusImplementsMqtt == StatusSpec => MqttSpec
<1>1. StatusInit => MqttInit
  BY DEF StatusInit
<1> QED BY <1>1, StatusIsMqtt, PTL DEF StatusSpec, MqttSpec

\* Two clients are connected at the same time only if Close missed one that
\* was given up, for any number of attempts.
THEOREM OneLiveClientCorrect == StatusSpec => []OneLiveClient
<1>1. MqttInv => OneLiveClient
  BY DEF MqttInv, OneAttempt, Released, OneLiveClient, Alive, Active, MqttType,
         Pcs
<1> QED BY <1>1, MqttInvariant, StatusImplementsMqtt, PTL

\* Connect reports success only after every topic was subscribed, unless the
\* broker has forgotten the session.
THEOREM ConnectResultHonestCorrect == StatusSpec => []ConnectResultHonest
<1>1. MqttInv => ConnectResultHonest
  BY DEF MqttInv, Subscribing, ConnectResultHonest
<1> QED BY <1>1, MqttInvariant, StatusImplementsMqtt, PTL

\* No callback runs for a client that Close has disconnected in time.
THEOREM ClosedIsQuietCorrect == StatusSpec => []ClosedIsQuiet
<1>1. MqttInv => ClosedIsQuiet
  BY DEF MqttInv
<1> QED BY <1>1, MqttInvariant, StatusImplementsMqtt, PTL

\* A gauge of 1 that is not stale tells the truth about the client in use.
THEOREM DeafIsVisibleCorrect == StatusSpec => []DeafIsVisible
<1>1. StatusInv => DeafIsVisible
  BY DEF StatusInv, GaugeCurrent, DeafIsVisible, Working
<1> QED BY <1>1, StatusInvariant, PTL
=============================================================================
