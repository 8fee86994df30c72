------------------------------ MODULE Gateway ------------------------------
(***************************************************************************)
(* The gateway process, cmd/entropy-tdc-gateway/main.go: run with its      *)
(* deferred calls, the start of its servers from the configuration, the    *)
(* MQTT retry loop, the cloud forwarder with its background connector, and *)
(* the shutdown sequence.                                                  *)
(*                                                                         *)
(* The MQTT clients are those of MqttClient, the batch collector is its    *)
(* abstract specification BatchStream, which BatchCollector implements.    *)
(* The gRPC client is an object that is open or closed; GrpcClient has its *)
(* inside.  Everything stops when the process ends.                        *)
(***************************************************************************)
EXTENDS MqttClient, Config, Sequences

CONSTANTS
  Environments, \* the process environments considered
  BatchSize,    \* events per batch, scaled down from config.Collector
  MaxEvents     \* bound: events accepted by the collector

\* A raw value, as Config has them.
IsRaw(v) == v = Raw(v.text, v.form)

ASSUME GatewayAssumption ==
  /\ BatchSize \in Nat \ {0} /\ MaxEvents \in Nat
  /\ \A e \in Environments : \A key \in DOMAIN e : IsRaw(e[key])

VARIABLES
  env,          \* the process environment, forgotten once nothing reads it
  main,         \* how far run is, or how the process ended
  defers,       \* the stack of deferred calls
  client,       \* mqttClient: the attempt in use, or 0
  metrics,      \* the metrics server: "off", "started", "stopped"
  entropy,      \* the entropy server: "off", "plain", "tls", "stopped"
  busy,         \* an entropy request is in flight at shutdown
  collector,    \* "none", "open", "closed" (its queue is closed)
  accepted,     \* BatchStream
  delivered,    \* BatchStream
  sending,      \* the send loop in SendBatch: "idle", "ingested", "cloud"
  timedOut,     \* Close of the collector gave up waiting
  late,         \* attempts whose callback called Add after Close
  pointer,      \* forwarder.client holds the gRPC client
  cloud,        \* the gRPC client: "none", "open", "closed"
  fromStart,    \* history: it was connected by run itself
  connector,    \* the connector: "off", "dial", "made", "wait", "done"
  released,     \* forwarder.Close has been called
  swapped,      \* forwarder.Close has taken the gRPC client and closes it
  offered       \* history: batches handed to the gRPC client

servers   == <<metrics, entropy, busy>>
stream    == <<accepted, delivered>>
batches   == <<collector, stream, sending, timedOut, late>>
forwarder == <<pointer, cloud, fromStart, connector, released, swapped,
               offered>>
gateway   == <<env, main, defers, client, servers, batches, forwarder>>
vars      == <<mqtt, gateway>>

Stream == INSTANCE BatchStream WITH MaxSize <- BatchSize,
            accepted <- accepted, delivered <- delivered

Ended == main \in {"exited", "killed", "panicked"}

Init ==
  /\ MqttInit
  /\ env \in Environments
  /\ main = "config" /\ defers = <<"cancelRoot">> /\ client = 0
  /\ metrics = "off" /\ entropy = "off" /\ busy = FALSE
  /\ collector = "none" /\ Stream!Init /\ sending = "idle"
  /\ timedOut = FALSE /\ late = {}
  /\ pointer = FALSE /\ cloud = "none" /\ fromStart = FALSE
  /\ connector = "off" /\ released = FALSE /\ swapped = FALSE
  /\ offered = {}

Defer(call) == defers' = Append(defers, call)

config == Configuration(env)

\* Nothing set: what is left of the environment once the last step that
\* reads the configuration is over.
NoEnv == [key \in {} |-> Empty]

\* run returns, its deferred calls next.
Return == main' = "unwind" /\ env' = NoEnv

-----------------------------------------------------------------------------
(* Which addresses the entropy server accepts                               *)

\* An address by its host: none at all (no host:port), an empty one, the
\* name in lower case or not, another name, a loopback or another IP.
Addrs == {"invalid", "nohost", "localhost", "LOCALHOST", "name", "loopback",
          "publicIP"}

ValidateEntropyAddr(a, allowPublic) ==
  /\ a # "invalid"
  /\ a \in {"localhost", "loopback"} \/ allowPublic

EnforceLoopbackAddr(a, allowPublic) ==
  /\ a \notin {"invalid", "nohost"}
  /\ a \in {"localhost", "LOCALHOST", "loopback"} \/ allowPublic

-----------------------------------------------------------------------------
(* run, up to the wait for a signal                                         *)

\* parseClientAuth
parseClientAuth(mode) ==
  IF mode = Str("require") THEN "RequireAndVerifyClientCert"
  ELSE IF mode = Str("request") THEN "RequestClientCert"
  ELSE "NoClientCert"

\* loadConfig; the metrics server starts in the background.
StartMetrics ==
  /\ main = "config"
  /\ Loads(env)
  /\ metrics' = "started"
  /\ Defer("metrics")
  /\ main' = "address"
  /\ UNCHANGED <<mqtt, env, client, entropy, busy, batches, forwarder>>

\* Bad flags, --help, or an environment that Load refuses.
ConfigInvalid ==
  /\ main = "config"
  /\ Return
  /\ UNCHANGED <<mqtt, defers, client, servers, batches, forwarder>>

\* validateEntropyAddr, then NewHTTPServer, which checks the address again.
AddressAccepted ==
  /\ ValidateEntropyAddr(config.pool.addr.text, config.pool.allowPublic)
  /\ EnforceLoopbackAddr(config.pool.addr.text, config.pool.allowPublic)

CheckAddress ==
  /\ main = "address"
  /\ IF AddressAccepted THEN main' = "listen" /\ UNCHANGED env ELSE Return
  /\ UNCHANGED <<mqtt, defers, client, servers, batches, forwarder>>

Serve(how) ==
  /\ entropy' = how
  /\ Defer("entropy")
  /\ main' = "cloud"
  /\ UNCHANGED <<mqtt, env, client, metrics, busy, batches, forwarder>>

\* entropyServer.Start
Start ==
  /\ main = "listen"
  /\ ~config.pool.tls.enabled
  /\ Serve("plain")

\* External: ConfigureServer of go-authx reads the certificate, the key and,
\* if one is named, the CA; only a path without white space or comment is
\* the path of a file.
IsFile(path) == path.form = "plain" /\ path # Empty
ConfigureServer(tls) ==
  IsFile(tls.cert) /\ IsFile(tls.key) /\ (tls.ca = Empty \/ IsFile(tls.ca))

\* entropyServer.StartTLS
StartTLS ==
  /\ main = "listen"
  /\ config.pool.tls.enabled
  /\ ConfigureServer(config.pool.tls)
  /\ Serve("tls")

\* Either fails: a file that cannot be loaded, or a port in use.
StartFails ==
  /\ main = "listen"
  /\ Return
  /\ UNCHANGED <<mqtt, defers, client, servers, batches, forwarder>>

\* config.CloudForwarder.Enabled is false ...
LocalOnly ==
  /\ main = "cloud"
  /\ ~config.cloud.enabled
  /\ main' = "collector" /\ env' = NoEnv
  /\ UNCHANGED <<mqtt, defers, client, servers, batches, forwarder>>

\* Mutant: the forwarder's Close is not deferred.
StartForwarderUndeferred ==
  /\ main = "cloud"
  /\ config.cloud.enabled
  /\ cloud' = "open" /\ pointer' = TRUE /\ fromStart' = TRUE
  /\ main' = "collector" /\ env' = NoEnv
  /\ UNCHANGED <<mqtt, defers, client, servers, batches, connector, released,
                 swapped, offered>>
\* ... or true: the forwarder, with a client at once or with a connector
\* that retries.
StartForwarder ==
  /\ main = "cloud"
  /\ config.cloud.enabled
  /\ \/ /\ cloud' = "open" /\ pointer' = TRUE /\ fromStart' = TRUE
        /\ UNCHANGED connector
     \/ connector' = "dial" /\ UNCHANGED <<cloud, pointer, fromStart>>
  /\ Defer("forwarder")
  /\ main' = "collector" /\ env' = NoEnv
  /\ UNCHANGED <<mqtt, client, servers, batches, released, swapped, offered>>

\* setupBatchCollector, in seconds: 184 events per second, whole seconds only.
flushInterval == config.collector.batchSize \div 184

StartCollector ==
  /\ main = "collector"
  /\ collector' = "open"
  /\ Defer("collector")
  /\ main' = "mqtt"
  /\ UNCHANGED <<env, mqtt, client, servers, stream, sending, timedOut, late,
                 forwarder>>

ConnectMQTT(k) ==
  /\ main = "mqtt"
  /\ ConnectStart(k) \/ Setup(k)
  /\ UNCHANGED gateway

Connected(k) ==
  /\ main = "mqtt"
  /\ caller[k] = "connected"
  /\ client' = k
  /\ Defer("mqtt")
  /\ main' = "serving"
  /\ UNCHANGED <<env, mqtt, servers, batches, forwarder>>

\* The process ends on the spot, its deferred calls and its memory included.
Killed ==
  /\ MqttGone
  /\ main' = "killed" /\ defers' = <<>> /\ client' = 0 /\ env' = NoEnv
  /\ metrics' = "off" /\ entropy' = "off" /\ busy' = FALSE
  /\ collector' = "none" /\ accepted' = 0 /\ delivered' = <<>>
  /\ sending' = "idle" /\ timedOut' = FALSE /\ late' = {}
  /\ pointer' = FALSE /\ cloud' = "none" /\ fromStart' = FALSE
  /\ connector' = "off" /\ released' = FALSE /\ swapped' = FALSE
  /\ offered' = {}

\* A signal before waitForShutdown has registered for it.
KilledEarly ==
  /\ main \in {"config", "address", "listen", "cloud", "collector", "mqtt"}
  /\ Killed

-----------------------------------------------------------------------------
(* waitForShutdown                                                          *)

\* The signal; a request may be in flight at that time.
Signal ==
  /\ main = "serving"
  /\ busy' \in BOOLEAN
  /\ main' = "closeMqtt"
  /\ UNCHANGED <<env, mqtt, defers, client, metrics, entropy, batches, forwarder>>

\* mqttClient.Close
CloseMqtt(next) ==
  /\ CloseClient(client)
  /\ main' = next
  /\ UNCHANGED <<env, client, servers, batches, forwarder>>

\* collector.Close, the flush and the closing of the queue.  A second Close
\* that finds late events in the buffer sends them on the closed queue.
CloseQueue(next) ==
  /\ collector' = "closed"
  /\ main' = IF late # {} THEN "panicked" ELSE next
  /\ UNCHANGED <<env, mqtt, client, servers, stream, sending, timedOut, late,
                 forwarder>>

\* Mutant: Close does not wait for the SendBatch in progress.
DrainedQueue == Stream!LastOf(delivered) = accepted
Drained == Stream!LastOf(delivered) = accepted /\ sending = "idle"

\* collector.Close, the wait of at most five seconds.
CollectorWait(next) ==
  /\ \/ Drained /\ UNCHANGED timedOut
     \/ timedOut' = TRUE
  /\ main' = next
  /\ UNCHANGED <<env, mqtt, defers, client, servers, collector, stream, sending,
                 late, forwarder>>

\* Mutant: waitForShutdown closes the collector before the MQTT client.
SignalCollectorFirst ==
  /\ main = "closeMqtt"
  /\ collector' = "closed"
  /\ main' = "waitCollector"
  /\ UNCHANGED <<env, mqtt, defers, client, servers, stream, sending, timedOut,
                 late, forwarder>>
SignalMqtt == main = "closeMqtt" /\ CloseMqtt("closeCollector")
              /\ UNCHANGED defers
SignalCollector == main = "closeCollector" /\ CloseQueue("waitCollector")
                   /\ UNCHANGED defers
SignalWait == main = "waitCollector" /\ CollectorWait("stopEntropy")

\* Shutdown of the entropy server stops it from accepting and waits for the
\* request in flight, at most ten seconds.
SignalEntropy ==
  /\ main = "stopEntropy"
  /\ entropy' = "stopped"
  /\ main' = "stopMetrics"
  /\ UNCHANGED <<env, mqtt, defers, client, metrics, busy, batches, forwarder>>

SignalMetrics ==
  /\ main = "stopMetrics"
  /\ metrics' = "stopped"
  /\ main' = "unwind"
  /\ UNCHANGED <<env, mqtt, defers, client, entropy, busy, batches, forwarder>>

-----------------------------------------------------------------------------
(* The deferred calls, last one first                                       *)

Pop(call) ==
  /\ main = "unwind"
  /\ defers # <<>>
  /\ defers[Len(defers)] = call
  /\ defers' = SubSeq(defers, 1, Len(defers) - 1)

DeferredMqtt == Pop("mqtt") /\ CloseMqtt("unwind")

DeferredCollector == Pop("collector") /\ CloseQueue("waitDeferred")

DeferredWait == main = "waitDeferred" /\ CollectorWait("unwind")

\* forwarder.Close: the Swap ...
DeferredForwarder ==
  /\ Pop("forwarder")
  /\ pointer' = FALSE
  /\ released' = TRUE
  /\ swapped' = pointer
  /\ main' = "closeCloud"
  /\ UNCHANGED <<env, mqtt, client, servers, batches, cloud, fromStart, connector,
                 offered>>

\* Mutant: Close waits for the connector, whose context is cancelled last.
CloseCloudJoins ==
  /\ main = "closeCloud"
  /\ connector \in {"off", "done"}
  /\ cloud' = IF swapped THEN "closed" ELSE cloud
  /\ main' = "unwind"
  /\ UNCHANGED <<env, mqtt, defers, client, servers, batches, pointer, fromStart,
                 connector, released, swapped, offered>>
\* ... and the Close of the client it has taken, if any.
CloseCloud ==
  /\ main = "closeCloud"
  /\ cloud' = IF swapped THEN "closed" ELSE cloud
  /\ main' = "unwind"
  /\ UNCHANGED <<env, mqtt, defers, client, servers, batches, pointer, fromStart,
                 connector, released, swapped, offered>>

\* Shutdown without a time-out: it waits for the request in flight.
DeferredEntropy ==
  /\ entropy' = "stopped"
  /\ ~busy
  /\ Pop("entropy")
  /\ UNCHANGED <<env, mqtt, main, client, metrics, busy, batches, forwarder>>

DeferredMetrics ==
  /\ Pop("metrics")
  /\ metrics' = "stopped"
  /\ UNCHANGED <<env, mqtt, main, client, entropy, busy, batches, forwarder>>

\* cancelRoot is the last one; run returns and main calls os.Exit.
DeferredCancel ==
  /\ Pop("cancelRoot")
  /\ main' = "return"
  /\ UNCHANGED <<env, mqtt, client, servers, batches, forwarder>>

Exit ==
  /\ main = "return"
  /\ main' = "exited"
  /\ UNCHANGED <<env, mqtt, defers, client, servers, batches, forwarder>>

-----------------------------------------------------------------------------
(* The other goroutines *)

\* The metrics goroutine: a bad address, a port in use or a serve error ends
\* the process on the spot (log.Fatalf), and no deferred call runs; the
\* goroutine may get to its check of the address only after a Shutdown.
MetricsFatal ==
  /\ metrics # "off"
  /\ Killed

RequestDone ==
  /\ busy
  /\ busy' = FALSE
  /\ UNCHANGED <<env, mqtt, main, defers, client, metrics, entropy, batches,
                 forwarder>>

MqttBackground(k) == Background(k) /\ UNCHANGED gateway

\* OnMessage with a timestamp: Add.  Once the queue is closed the event stays
\* in the buffer, or, as the last of a batch, is sent on the closed queue.
OnTimestamp(k, kind) ==
  /\ Disposition(kind) = "added"
  /\ CallbackReturns(k)
  /\ IF collector = "open"
     THEN /\ accepted < MaxEvents
          /\ Stream!Accept
          /\ UNCHANGED <<main, late>>
     ELSE /\ late' = late \cup {k}
          /\ main' \in {main, "panicked"}
          /\ UNCHANGED stream
  /\ UNCHANGED <<env, defers, client, servers, collector, sending, timedOut,
                 forwarder>>

\* Any other message is ignored or counted as dropped.
OnOther(k, kind) ==
  /\ Disposition(kind) # "added"
  /\ CallbackReturns(k)
  /\ UNCHANGED gateway

\* The send loop calls SendBatch: the batch goes into the pool first.
Ingest ==
  /\ sending = "idle"
  /\ Stream!Deliver
  /\ sending' = "ingested"
  /\ UNCHANGED <<env, mqtt, main, defers, client, servers, collector, timedOut,
                 late, forwarder>>

\* client.Load: without a client the batch is local only.
LoadClient ==
  /\ sending = "ingested"
  /\ sending' = IF pointer THEN "cloud" ELSE "idle"
  /\ UNCHANGED <<env, mqtt, main, defers, client, servers, collector, stream,
                 timedOut, late, forwarder>>

\* client.SendBatch, once per batch; an error is only logged.
SendToCloud ==
  /\ sending = "cloud"
  /\ offered' = offered \cup {Len(delivered)}
  /\ sending' = "idle"
  /\ UNCHANGED <<env, mqtt, main, defers, client, servers, collector, stream,
                 timedOut, late, pointer, cloud, fromStart, connector,
                 released, swapped>>

\* startGRPCConnector: NewClient ...
ConnectorDial ==
  /\ connector = "dial"
  /\ \/ connector' = "made" /\ cloud' = "open"
     \/ connector' = "wait" /\ UNCHANGED cloud
  /\ UNCHANGED <<env, mqtt, main, defers, client, servers, batches, pointer,
                 fromStart, released, swapped, offered>>

\* ... SetClient, whether or not the forwarder was closed meanwhile ...
ConnectorInstalls ==
  /\ connector = "made"
  /\ connector' = "done"
  /\ pointer' = TRUE
  /\ UNCHANGED <<env, mqtt, main, defers, client, servers, batches, cloud,
                 fromStart, released, swapped, offered>>

\* ... or the back-off, which the root context cuts short.
ConnectorWaits ==
  /\ connector = "wait"
  /\ \/ connector' = "dial"
     \/ connector' = "done" /\ main = "return"
  /\ UNCHANGED <<env, mqtt, main, defers, client, servers, batches, pointer,
                 cloud, fromStart, released, swapped, offered>>

-----------------------------------------------------------------------------

Main ==
  \/ StartMetrics \/ ConfigInvalid \/ CheckAddress
  \/ Start \/ StartTLS \/ StartFails
  \/ LocalOnly \/ StartForwarder \/ StartCollector
  \/ \E k \in Attempts : ConnectMQTT(k) \/ Connected(k)
  \/ SignalMqtt \/ SignalCollector \/ SignalWait \/ SignalEntropy
  \/ SignalMetrics
  \/ DeferredMqtt \/ DeferredCollector \/ DeferredWait
  \/ DeferredForwarder \/ CloseCloud \/ DeferredEntropy \/ DeferredMetrics
  \/ DeferredCancel \/ Exit

SendLoop == Ingest \/ LoadClient \/ SendToCloud

Connector == ConnectorDial \/ ConnectorInstalls \/ ConnectorWaits

Others ==
  \/ KilledEarly \/ Signal \/ MetricsFatal
  \/ RequestDone \/ SendLoop \/ Connector
  \/ \E k \in Attempts :
       \/ MqttBackground(k)
       \/ \E kind \in MessageKinds : OnTimestamp(k, kind) \/ OnOther(k, kind)

\* The process has ended.
Terminated == Ended /\ UNCHANGED vars

Next == (~Ended /\ (Main \/ Others)) \/ Terminated

Spec == Init /\ [][Next]_vars

\* The main goroutine runs, time-outs included, SendBatch returns (a stalled
\* one can keep the collector's Close from its time-out), and a request in
\* flight is answered.  Nothing is assumed of the broker and the connector.
FairSpec ==
  /\ Spec
  /\ WF_vars(~Ended /\ Main)
  /\ WF_vars(~Ended /\ SendLoop)
  /\ WF_vars(~Ended /\ RequestDone)

-----------------------------------------------------------------------------
(* Properties *)

\* What the environment asks for, whatever white space, comment or capital
\* letters it is written with.
Asks(key, words) == ToLower(Getenv(env, key)).text \in words
Yes == {"1", "true", "yes", "y", "on"}

\* The entropy server is reachable from outside only where the environment
\* allows it, and in production only with TLS: the checks are made in three
\* places (validate, validateEntropyAddr, enforceLoopbackAddr) that do not
\* read an address and a flag alike.
ExposureSafe ==
  [][entropy = "off" /\ entropy' # "off"
       /\ config.pool.addr.text \notin {"localhost", "LOCALHOST", "loopback"}
     => /\ Asks(<<"ALLOW", "PUBLIC_HTTP">>, Yes)
        /\ Asks(<<"", "ENVIRONMENT">>, {"prod", "production"})
             => entropy' = "tls"]_vars

\* The TLS settings of a component ask every client for a certificate and
\* verify it, if that is what the environment asks for.
Verifies(component, tls) ==
  /\ Asks(<<component, "TLS_ENABLED">>, Yes)
  /\ Asks(<<component, "TLS_CLIENT_AUTH">>, {"require"})
  => /\ parseClientAuth(tls.auth) = "RequireAndVerifyClientCert"
     /\ tls.enabled /\ tls.ca # Empty

\* A server whose environment asks for TLS with client certificates either
\* verifies them, against a CA, or is not started: no spelling of the mode,
\* which parseClientAuth would take for "none", and no missing file makes it
\* serve everyone.
ClientAuthHonoured ==
  [][/\ entropy = "off" /\ entropy' # "off"
          => /\ Verifies("ENTROPY", config.pool.tls)
             /\ config.pool.tls.enabled <=> entropy' = "tls"
     /\ metrics = "off" /\ metrics' = "started"
          => Verifies("METRICS", config.metrics.tls)]_vars

\* Whatever the variables hold, a configuration that Load accepts is one the
\* components work with: a pool with a reserve it can hold (WhitenedPool), a
\* limiter that admits (TokenBucket), batches and a flush interval that are
\* positive (BatchCollector), back-off delays that are positive and
\* credentials where they are needed (GrpcClient).
ConfigUsable ==
  main \in {"address", "listen", "cloud"} =>
    LET c == config IN
    /\ 0 < c.pool.min /\ c.pool.min <= c.pool.max
    /\ c.pool.rps > 0 /\ c.pool.burst > 0 /\ c.pool.retryAfter > 0
    /\ c.collector.batchSize > 0 /\ flushInterval > 0
    /\ c.mqtt.qos \in {0, 1} /\ c.mqtt.topics # Empty
    /\ c.cloud.reconnectDelay > 0 /\ c.cloud.maxReconnect > 0
    /\ c.cloud.enabled /\ c.cloud.oauth => c.cloud.secret # Empty

\* An event can reach the collector after its Close, where it is lost or
\* crashes the process, only through a client that Close did not disconnect
\* or whose callback outlived the quiesce period: the MQTT client is torn
\* down before the collector.
LateAddHasCause == \A k \in late : missed[k]

\* The forwarder is closed after the collector has drained: with a client
\* connected from the start, every batch is offered to the cloud, unless the
\* collector's Close gave up waiting.
MirrorComplete ==
  main = "exited" /\ fromStart /\ ~timedOut => offered = DOMAIN delivered

\* Whichever way run returns, it leaves no server running and no gRPC client
\* open, except one the connector finishes after the forwarder's Close.
NothingLeftOpen ==
  main = "exited" =>
    /\ entropy \in {"off", "stopped"} /\ metrics \in {"off", "stopped"}
    /\ cloud = "open" => released /\ (pointer \/ connector = "made")

\* A signal ends the process, even if the broker never answers and the cloud
\* never connects or acknowledges.  A batch in SendBatch has to be taken: with
\* a cloud that stops reading the collector's Close does not return.
ShutdownCompletes == (main = "closeMqtt") ~> Ended
=============================================================================
