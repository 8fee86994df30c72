----------------------------- MODULE MqttStatus -----------------------------
(***************************************************************************)
(* The gauge mqtt_connection_status, the only outside sign of the state of *)
(* the MQTT clients of MqttClient: who writes it, and when it can be       *)
(* trusted.  Every goroutine of every client writes the same gauge.        *)
(*                                                                         *)
(* Paho, external, calls the connection-lost handler in a goroutine of its *)
(* own, so it may run after the reconnection, and after the next handler's *)
(* subscriptions.                                                          *)
(***************************************************************************)
EXTENDS MqttClient

VARIABLES
  gauge,   \* MQTTConnected is 1
  losing,  \* losing[k]: connection-lost handlers that have not run yet
  old,     \* old[k]: OnConnect handlers of an earlier connection still running
  stale    \* history: the last write was about an earlier connection or by a
           \* client that was given up

reporting == <<gauge, losing, old, stale>>
status    == <<mqtt, reporting>>

StatusInit ==
  /\ MqttInit
  /\ gauge = FALSE /\ stale = FALSE
  /\ losing = Each(0) /\ old = Each({})

GivenUp(k) == caller[k] = "failed"

\* metrics.SetMQTTConnected
SetMQTTConnected(v, outdated) == gauge' = v /\ stale' = outdated

\* ConnectStart writes nothing, Connect 0 with every error, and Close 0.
ConnectAndReport(k) ==
  /\ ConnectStart(k) \/ Setup(k)
  /\ IF caller'[k] \in {"giveup", "failed"} THEN SetMQTTConnected(FALSE, FALSE)
     ELSE UNCHANGED <<gauge, stale>>
  /\ UNCHANGED <<losing, old>>

CloseAndReport(k) ==
  /\ CloseClient(k)
  /\ SetMQTTConnected(FALSE, FALSE)
  /\ UNCHANGED <<losing, old>>

Unreported(k) ==
  /\ \/ PahoConnects(k) \/ PahoConnectFails(k) \/ PahoReconnects(k)
     \/ MessageArrives(k) \/ CallbackReturns(k)
     \/ \E h \in Handlers : SubscribeAcked(k, h)
  /\ UNCHANGED reporting

\* External: the connection is gone, its handler is started.
LoseConnection(k) ==
  /\ ConnectionLost(k)
  /\ losing' = Set(losing, k, losing[k] + 1)
  /\ old' = Set(old, k, {h \in Handlers : subscriber[k][h] # 0})
  /\ UNCHANGED <<gauge, stale>>

\* Mutant: the connection-lost handler only logs.
LostLogged(k) ==
  /\ losing[k] > 0
  /\ losing' = Set(losing, k, losing[k] - 1)
  /\ UNCHANGED <<mqtt, gauge, old, stale>>
\* The connection-lost handler.
OnConnectionLost(k) ==
  /\ losing[k] > 0
  /\ losing' = Set(losing, k, losing[k] - 1)
  /\ SetMQTTConnected(FALSE, GivenUp(k) \/ link[k] # "reconnecting")
  /\ UNCHANGED <<mqtt, old>>

\* handleConnect returns.
HandleConnect(k, h) ==
  /\ \/ HandlerDone(k, h) /\ SetMQTTConnected(TRUE, GivenUp(k) \/ h \in old[k])
     \/ SubscribeFails(k, h)
          /\ SetMQTTConnected(FALSE, GivenUp(k) \/ h \in old[k])
  /\ old' = Set(old, k, old[k] \ {h})
  /\ UNCHANGED losing

StatusNext ==
  \/ NoRoom /\ UNCHANGED reporting
  \/ \E k \in Attempts :
       \/ ConnectAndReport(k) \/ CloseAndReport(k) \/ Unreported(k)
       \/ LoseConnection(k) \/ OnConnectionLost(k)
       \/ \E h \in Handlers : HandleConnect(k, h)

\* The main goroutine runs and its timers fire; Paho and the broker need do
\* nothing.
StatusSpec ==
  /\ StatusInit /\ [][StatusNext]_status
  /\ \A k \in Attempts : WF_status(ConnectAndReport(k))

-----------------------------------------------------------------------------

\* A gateway that has gone deaf can be seen: once no connection-lost handler
\* is due, a gauge of 1 means that the connection of the client in use is up
\* and all its topics are subscribed, unless a handler of an earlier
\* connection, or a client that was given up, has written it since.
DeafIsVisible ==
  \A k \in Attempts :
    caller[k] = "connected" /\ losing[k] = 0 /\ gauge /\ ~stale
    => link[k] = "up" /\ session[k] = Topics
=============================================================================
