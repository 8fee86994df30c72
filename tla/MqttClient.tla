----------------------------- MODULE MqttClient -----------------------------
(***************************************************************************)
(* The receive-only MQTT clients of internal/mqtt/client.go.  The gateway  *)
(* makes a new client for every connection attempt, so several can exist   *)
(* at once: one in use and others whose attempt was given up.              *)
(*                                                                         *)
(* Paho is external: it connects in the background, whether or not anybody *)
(* still waits for the token, runs the OnConnect handler in a goroutine of *)
(* its own after every connection, and reconnects by itself until          *)
(* Disconnect is called.  The broker keeps a client's subscriptions while  *)
(* it is away (CleanSession is false) unless it loses the session.         *)
(***************************************************************************)
EXTENDS Naturals, FiniteSets

CONSTANTS
  Attempts,     \* bound: clients that may exist at the same time
  NumTopics,    \* len(config.Topics)
  Handlers,     \* bound: OnConnect handlers of one client running at once
  MaxLost       \* bound: connections lost

ASSUME MqttAssumption ==
  /\ NumTopics \in Nat \ {0}
  /\ Handlers # {} /\ MaxLost \in Nat

VARIABLES
  link,      \* link[k]: Paho's status: "none", "connecting", "up",
             \* "reconnecting", "down"
  caller,    \* caller[k]: how far setupMQTT is with client k
  subscriber,\* subscriber[k][h]: the handler's next topic, NumTopics + 1 when
             \* all are acknowledged, 0 when it is not running
  initial,   \* initial[k]: initialSubscriptionResult: "none", "ok", "error"
  session,   \* session[k]: topics the broker has for the client
  callback,  \* callback[k]: OnMessage is running
  missed,    \* history: Close found k not connected, or in a callback
  forgotten, \* history: the broker lost the session of k
  lost       \* number of connections lost

mqtt == <<link, caller, subscriber, initial, session, callback,
          missed, forgotten, lost>>

Topics == 1..NumTopics
AllSubscribed == NumTopics + 1

Each(v) == [k \in Attempts |-> v]
Idle    == [h \in Handlers |-> 0]

MqttInit ==
  /\ link = Each("none") /\ caller = Each("none") /\ initial = Each("none")
  /\ subscriber = Each(Idle) /\ session = Each({}) /\ callback = Each(FALSE)
  /\ missed = Each(FALSE) /\ forgotten = Each(FALSE)
  /\ lost = 0

\* The process has ended: no client is left.
MqttGone ==
  /\ link' = Each("none") /\ caller' = Each("none")
  /\ initial' = Each("none") /\ subscriber' = Each(Idle)
  /\ session' = Each({}) /\ callback' = Each(FALSE)
  /\ missed' = Each(FALSE) /\ forgotten' = Each(FALSE) /\ lost' = 0

Set(f, k, v) == [f EXCEPT ![k] = v]
Goto(k, pc) == caller' = Set(caller, k, pc)

-----------------------------------------------------------------------------
(* Connect, as called by setupMQTT                                          *)

\* A client given up for good makes room for the next attempt.
Reusable(k) ==
  /\ caller[k] \in {"none", "failed"}
  /\ link[k] \in {"none", "down"}
  /\ ~callback[k]
  /\ subscriber[k] = Idle

\* connectMQTTWithRetry makes one attempt at a time until one succeeds.
BetweenAttempts == \A k \in Attempts : caller[k] \in {"none", "failed"}

\* NewClient with a new client identifier, then pahoClient.Connect.  A
\* NewClient that fails leaves nothing behind and is simply retried.
ConnectStart(k) ==
  /\ BetweenAttempts
  /\ Reusable(k)
  /\ \A j \in Attempts : Reusable(j) => k <= j
  /\ link' = Set(link, k, "connecting")
  /\ initial' = Set(initial, k, "none")
  /\ session' = Set(session, k, {})
  /\ missed' = Set(missed, k, FALSE)
  /\ forgotten' = Set(forgotten, k, FALSE)
  /\ Goto(k, "token")
  /\ UNCHANGED <<subscriber, callback, lost>>

\* Mutant: Connect waits for the token without a time-out.
TokenNoTimeout(k) ==
  /\ caller[k] = "token"
  /\ link[k] = "down"
  /\ Goto(k, "giveup")
  /\ UNCHANGED <<link, subscriber, initial, session, callback, missed,
                 forgotten, lost>>
\* WaitTimeout: ten seconds are over, whatever the token is by now.
TokenTimeout(k) ==
  /\ caller[k] = "token"
  /\ Goto(k, "giveup")
  /\ UNCHANGED <<link, subscriber, initial, session, callback, missed,
                 forgotten, lost>>

\* The token completes when the attempt does, with an error if it failed.
TokenDone(k) ==
  /\ caller[k] = "token"
  /\ link[k] # "connecting"
  /\ Goto(k, IF link[k] = "down" THEN "giveup" ELSE "result")
  /\ UNCHANGED <<link, subscriber, initial, session, callback, missed,
                 forgotten, lost>>

\* The select: the result of the first subscription ...
InitialResult(k) ==
  /\ caller[k] = "result"
  /\ initial[k] # "none"
  /\ Goto(k, IF initial[k] = "ok" THEN "connected" ELSE "giveup")
  /\ UNCHANGED <<link, subscriber, initial, session, callback, missed,
                 forgotten, lost>>

\* ... or ten seconds.
InitialTimeout(k) ==
  /\ caller[k] = "result"
  /\ Goto(k, "giveup")
  /\ UNCHANGED <<link, subscriber, initial, session, callback, missed,
                 forgotten, lost>>

\* Mutant: Close only updates the metrics.
CloseMetricsOnly(k) == UNCHANGED <<link, missed>>
\* Close disconnects only a client whose connection is open; a callback that
\* is running may outlive the quiesce period.
CloseEffect(k) ==
  /\ link' = Set(link, k, IF link[k] = "up" THEN "down" ELSE link[k])
  /\ missed' = Set(missed, k, \/ missed[k]
                              \/ link[k] \in {"connecting", "reconnecting"}
                              \/ callback[k])

\* Mutant: setupMQTT returns the error without closing the client.
GiveUpUnclosed(k) ==
  /\ caller[k] = "giveup"
  /\ Goto(k, "failed")
  /\ UNCHANGED <<link, subscriber, initial, session, callback, missed,
                 forgotten, lost>>
\* Connect has returned an error: setupMQTT closes the client.
GiveUp(k) ==
  /\ caller[k] = "giveup"
  /\ CloseEffect(k)
  /\ Goto(k, "failed")
  /\ UNCHANGED <<subscriber, initial, session, callback, forgotten,
                 lost>>

\* The client in use is closed, at shutdown twice.
CloseClient(k) ==
  /\ caller[k] \in {"connected", "closed"}
  /\ CloseEffect(k)
  /\ Goto(k, "closed")
  /\ UNCHANGED <<subscriber, initial, session, callback, forgotten, lost>>

-----------------------------------------------------------------------------
(* Paho and the broker                                                      *)

StartHandler(k) ==
  \E h \in Handlers :
    /\ subscriber[k][h] = 0
    /\ subscriber' = [subscriber EXCEPT ![k][h] = 1]

\* The connection attempt succeeds: go OnConnect, and the token completes.
PahoConnects(k) ==
  /\ link[k] = "connecting"
  /\ link' = Set(link, k, "up")
  /\ StartHandler(k)
  /\ UNCHANGED <<caller, initial, session, callback, missed, forgotten, lost>>

PahoConnectFails(k) ==
  /\ link[k] = "connecting"
  /\ link' = Set(link, k, "down")
  /\ UNCHANGED <<caller, subscriber, initial, session, callback, missed,
                 forgotten, lost>>

\* The connection is lost and, if the broker restarted, the session too.
ConnectionLost(k) ==
  /\ link[k] = "up"
  /\ lost < MaxLost
  /\ lost' = lost + 1
  /\ link' = Set(link, k, "reconnecting")
  /\ \/ UNCHANGED <<session, forgotten>>
     \/ /\ session' = Set(session, k, {})
        /\ forgotten' = Set(forgotten, k, TRUE)
  /\ UNCHANGED <<caller, subscriber, initial, callback, missed>>

PahoReconnects(k) ==
  /\ link[k] = "reconnecting"
  /\ link' = Set(link, k, "up")
  /\ StartHandler(k)
  /\ UNCHANGED <<caller, initial, session, callback, missed,
                 forgotten, lost>>

MessageArrives(k) ==
  /\ link[k] = "up"
  /\ session[k] # {}
  /\ ~callback[k]
  /\ callback' = Set(callback, k, TRUE)
  /\ UNCHANGED <<link, caller, subscriber, initial, session, missed,
                 forgotten, lost>>

-----------------------------------------------------------------------------
(* handleConnect, run once per connection                                   *)

SubscribeAcked(k, h) ==
  /\ subscriber[k][h] \in Topics
  /\ link[k] = "up"
  /\ session' = Set(session, k, session[k] \cup {subscriber[k][h]})
  /\ subscriber' = [subscriber EXCEPT ![k][h] = @ + 1]
  /\ UNCHANGED <<link, caller, initial, callback, missed, forgotten,
                 lost>>

\* completeInitialSubscription: only the first result is delivered.
Complete(k, r) ==
  initial' = Set(initial, k, IF initial[k] = "none" THEN r ELSE initial[k])

\* Mutant: an error of Subscribe is logged and the next topic tried.
SubscribeSkips(k, h) ==
  /\ subscriber[k][h] \in Topics
  /\ subscriber' = [subscriber EXCEPT ![k][h] = @ + 1]
  /\ UNCHANGED <<link, caller, initial, session, callback, missed,
                 forgotten, lost>>
\* Subscribe fails or is not acknowledged within ten seconds.
SubscribeFails(k, h) ==
  /\ subscriber[k][h] \in Topics
  /\ Complete(k, "error")
  /\ subscriber' = [subscriber EXCEPT ![k][h] = 0]
  /\ UNCHANGED <<link, caller, session, callback, missed, forgotten,
                 lost>>

HandlerDone(k, h) ==
  /\ subscriber[k][h] = AllSubscribed
  /\ Complete(k, "ok")
  /\ subscriber' = [subscriber EXCEPT ![k][h] = 0]
  /\ UNCHANGED <<link, caller, session, callback, missed, forgotten,
                 lost>>

-----------------------------------------------------------------------------
(* RxHandler.OnMessage                                                      *)

\* What becomes of a message: metadata is ignored, a payload that is no
\* number or the timestamp zero is counted as dropped, the rest is added.
Disposition(kind) ==
  CASE kind = "meta" -> "ignored"
    [] kind \in {"unparsable", "zero"} -> "dropped"
    [] kind = "timestamp" -> "added"

MessageKinds == {"meta", "unparsable", "zero", "timestamp"}

CallbackReturns(k) ==
  /\ callback[k]
  /\ callback' = Set(callback, k, FALSE)
  /\ UNCHANGED <<link, caller, subscriber, initial, session, missed,
                 forgotten, lost>>

-----------------------------------------------------------------------------

\* The steps of setupMQTT between NewClient and its return.
Setup(k) ==
  \/ TokenTimeout(k) \/ TokenDone(k) \/ InitialResult(k) \/ InitialTimeout(k)
  \/ GiveUp(k)

Background(k) ==
  \/ PahoConnects(k) \/ PahoConnectFails(k) \/ ConnectionLost(k)
  \/ PahoReconnects(k) \/ MessageArrives(k)
  \/ \E h \in Handlers :
       SubscribeAcked(k, h) \/ SubscribeFails(k, h) \/ HandlerDone(k, h)

\* Bound: every client there is room for was given up and is still alive.
NoRoom ==
  /\ BetweenAttempts
  /\ \A k \in Attempts : ~Reusable(k)
  /\ UNCHANGED mqtt

MqttNext ==
  \/ NoRoom
  \/ \E k \in Attempts :
       \/ ConnectStart(k) \/ Setup(k) \/ CloseClient(k)
       \/ Background(k) \/ CallbackReturns(k)

MqttSpec == MqttInit /\ [][MqttNext]_mqtt

-----------------------------------------------------------------------------
(* Properties *)

Alive(k) == link[k] \in {"connecting", "up", "reconnecting"}

\* Retrying never leaves a second subscriber behind, which would deliver every
\* event twice, except a client that Close could not disconnect because its
\* connection was not open when the attempt was given up.
OneLiveClient ==
  \A j, k \in Attempts :
    Alive(j) /\ Alive(k) /\ j # k => missed[j] \/ missed[k]

\* Connect reports success only after every topic was subscribed, however
\* connections are lost and handlers of several connections overlap.
ConnectResultHonest ==
  \A k \in Attempts :
    caller[k] = "connected" => session[k] = Topics \/ forgotten[k]

\* No callback runs for a client that was given up or closed, unless Close
\* could not disconnect it or the callback outlived the quiesce period: this
\* is what closing the MQTT client before the collector relies on.
ClosedIsQuiet ==
  \A k \in Attempts :
    callback[k] /\ caller[k] \in {"failed", "closed"} => missed[k]

\* Connect returns, whatever the broker does: with a live subscription or,
\* after its time-outs, with an error.
ConnectReturns ==
  \A k \in Attempts :
    (caller[k] = "token") ~> (caller[k] \in {"connected", "failed"})
=============================================================================
