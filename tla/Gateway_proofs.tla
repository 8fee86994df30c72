--------------------------- MODULE Gateway_proofs ---------------------------
(***************************************************************************)
(* Proofs about the gateway process, for every set of environments, every  *)
(* number of MQTT clients and batches: what Load guarantees of the         *)
(* configuration, who can reach the servers, and the shutdown sequence.    *)
(***************************************************************************)
EXTENDS Gateway, SequenceTheorems, TLAPS

-----------------------------------------------------------------------------
(* The configuration of an environment                                      *)

\* An environment maps names to raw values.
IsEnv(e) == \A key \in DOMAIN e : IsRaw(e[key])

LEMMA NumeralType == \A v : IsNumber(v) => Atoi(v) \in Int
<1>1. \A t \in DOMAIN Numeral : Numeral[t] \in Int
  BY DEF Numeral
<1> QED BY <1>1 DEF IsNumber, Atoi

LEMMA PositiveNumber ==
  ASSUME NEW e, NEW key, NEW n \in Nat \ {0}
  PROVE  ParsePositiveEnvInt(e, key, n) \in Nat \ {0}
<1> DEFINE v == cleanEnvValue(Getenv(e, key))
<1>1. ParsePositiveEnvInt(e, key, n)
        = IF IsNumber(v) /\ Atoi(v) > 0 THEN Atoi(v) ELSE n
  BY DEF ParsePositiveEnvInt
<1> HIDE DEF v
<1> QED BY <1>1, NumeralType

LEMMA ClampBounds ==
  ASSUME NEW n \in Int, NEW low \in Int, NEW high \in Int, low <= high
  PROVE  Clamp(n, low, high) \in low..high
  BY DEF Clamp

LEMMA RawFields ==
  /\ \A text, form : Raw(text, form).text = text /\ Raw(text, form).form = form
  /\ \A text, form : IsRaw(Raw(text, form))
  /\ IsRaw(Empty)
  BY DEF Empty, Str, Raw, IsRaw

LEMMA EmptyText == ToLower(Empty) = Empty /\ Empty.text = ""
  BY DEF ToLower, InLower, Empty, Str, Raw

LEMMA GetenvType ==
  ASSUME NEW e, IsEnv(e), NEW key
  PROVE  IsRaw(Getenv(e, key))
  BY RawFields DEF IsEnv, Getenv

\* Capital letters change the text, and nothing but the text decides how.
LEMMA ToLowerFields ==
  ASSUME NEW v, NEW w, IsRaw(v), IsRaw(w), v.text = w.text
  PROVE  /\ ToLower(v).text = ToLower(w).text
         /\ ToLower(v) = Raw(ToLower(v).text, v.form)
  BY DEF ToLower, IsRaw, Raw

\* A flag is on exactly if its text says so, whatever surrounds it.
LEMMA FlagOn ==
  ASSUME NEW e, IsEnv(e), NEW key
  PROVE  ParseBoolEnv(e, key, FALSE) <=> ToLower(Getenv(e, key)).text \in Yes
<1>1. /\ IsRaw(Getenv(e, key)) /\ IsRaw(cleanEnvValue(Getenv(e, key)))
      /\ cleanEnvValue(Getenv(e, key)).text = Getenv(e, key).text
  BY GetenvType, RawFields DEF cleanEnvValue, Str
<1>2. ToLower(cleanEnvValue(Getenv(e, key))).text = ToLower(Getenv(e, key)).text
  BY <1>1, ToLowerFields
<1> QED BY <1>2 DEF ParseBoolEnv, Yes

LEMMA TrimSpaceFields ==
  ASSUME NEW v, IsRaw(v)
  PROVE  IsRaw(TrimSpace(v)) /\ TrimSpace(v).text = v.text
  BY RawFields DEF TrimSpace, Str

\* An environment that says production is one, or it is refused.
LEMMA ProductionKnown ==
  ASSUME NEW e, IsEnv(e), applyEnvironmentEnvVars(e) \in {"dev", "prod"},
         ToLower(Getenv(e, <<"", "ENVIRONMENT">>)).text \in {"prod", "production"}
  PROVE  applyEnvironmentEnvVars(e) = "prod"
<1> DEFINE v == Getenv(e, <<"", "ENVIRONMENT">>)
           l == ToLower(TrimSpace(v))
<1>1. IsRaw(v) /\ IsRaw(TrimSpace(v)) /\ TrimSpace(v).text = v.text
  BY GetenvType, TrimSpaceFields
<1>2. l.text = ToLower(v).text
  BY <1>1, ToLowerFields
<1>3. l.text \in {"prod", "production"}
  BY <1>2
<1> HIDE DEF l
<1>4. l # Str("dev") /\ l # Str("development")
  <2>1. Str("dev").text = "dev" /\ Str("development").text = "development"
    BY DEF Str, Raw
  <2> QED BY <1>3, <2>1
<1>5. v # Empty
  <2>1. ToLower(v).text \in {"prod", "production"}
    OBVIOUS
  <2> QED BY <2>1, EmptyText
<1> HIDE DEF v
<1> QED BY <1>4, <1>5 DEF applyEnvironmentEnvVars, l, v

\* ENTROPY_POOL_* and the limiter's settings.
LEMMA PoolUsable ==
  ASSUME NEW e
  PROVE  LET p == applyEntropyPoolEnvVars(e) IN
         /\ 0 < p.min /\ p.min <= p.max
         /\ p.rps > 0 /\ p.burst > 0 /\ p.retryAfter > 0
<1> DEFINE p == applyEntropyPoolEnvVars(e)
           N(name, n) == ParsePositiveEnvInt(e, <<"ENTROPY", name>>, n)
<1>1. /\ p.min = N("POOL_MIN_BYTES", 512)
      /\ p.max = PoolMax(p.min, N("POOL_MAX_BYTES", 16384))
      /\ p.retryAfter = N("RETRY_AFTER_SEC", 1)
      /\ p.rps = N("RATE_LIMIT_RPS", 25)
      /\ p.burst = N("RATE_LIMIT_BURST", 25)
  BY DEF applyEntropyPoolEnvVars
<1>2. /\ N("POOL_MIN_BYTES", 512) \in Nat \ {0}
      /\ N("POOL_MAX_BYTES", 16384) \in Nat \ {0}
      /\ N("RETRY_AFTER_SEC", 1) \in Nat \ {0}
      /\ N("RATE_LIMIT_RPS", 25) \in Nat \ {0}
      /\ N("RATE_LIMIT_BURST", 25) \in Nat \ {0}
  BY PositiveNumber
<1> HIDE DEF p, N
<1>3. 0 < p.min /\ p.min <= p.max /\ p.rps > 0 /\ p.burst > 0 /\ p.retryAfter > 0
  BY <1>1, <1>2 DEF PoolMax
<1> QED BY <1>3 DEF p

\* Batches of 184 events per second, for at least ten seconds.
LEMMA CollectorUsable ==
  ASSUME NEW e
  PROVE  LET n == applyCollectorEnvVars(e).batchSize IN n > 0 /\ n \div 184 > 0
<1> DEFINE v == TrimSpace(Getenv(e, <<"COLLECTOR", "BATCH_SIZE">>))
           n == applyCollectorEnvVars(e).batchSize
<1>1. n = IF IsNumber(v) THEN Clamp(Atoi(v), minBatchSize, maxBatchSize)
          ELSE minBatchSize
  BY DEF applyCollectorEnvVars
<1> HIDE DEF v, n
<1>2. /\ minBatchSize \in Int /\ maxBatchSize \in Int
      /\ minBatchSize <= maxBatchSize /\ 1840 <= minBatchSize
  BY DEF minBatchSize, maxBatchSize
<1>3. n \in minBatchSize..maxBatchSize
  BY <1>1, <1>2, NumeralType, ClampBounds
<1>4. n \in Int /\ n >= 1840
  BY <1>2, <1>3
<1>5. \A k \in Int : k >= 1840 => k > 0 /\ k \div 184 > 0
  OBVIOUS
<1> QED BY <1>4, <1>5 DEF n

LEMMA QosUsable ==
  ASSUME NEW e
  PROVE  applyMQTTEnvVars(e).qos \in {0, 1}
<1> DEFINE q == cleanEnvValue(Getenv(e, <<"MQTT", "QOS">>))
<1>1. applyMQTTEnvVars(e).qos = IF IsNumber(q) THEN Clamp(Atoi(q), 0, 1) ELSE 0
  BY DEF applyMQTTEnvVars
<1> HIDE DEF q
<1>2. IsNumber(q) => Clamp(Atoi(q), 0, 1) \in 0..1
  <2>1. IsNumber(q) => Atoi(q) \in Int
    BY NumeralType
  <2>2. \A n \in Int : Clamp(n, 0, 1) \in 0..1
    BY DEF Clamp
  <2> QED BY <2>1, <2>2
<1>3. \A n \in 0..1 : n \in {0, 1}
  OBVIOUS
<1> QED BY <1>1, <1>2, <1>3

LEMMA ConfigurationUsable ==
  ASSUME NEW e, Loads(e)
  PROVE  LET c == Configuration(e) IN
         /\ 0 < c.pool.min /\ c.pool.min <= c.pool.max
         /\ c.pool.rps > 0 /\ c.pool.burst > 0 /\ c.pool.retryAfter > 0
         /\ c.collector.batchSize > 0 /\ c.collector.batchSize \div 184 > 0
         /\ c.mqtt.qos \in {0, 1} /\ c.mqtt.topics # Empty
         /\ c.cloud.reconnectDelay > 0 /\ c.cloud.maxReconnect > 0
         /\ c.cloud.enabled /\ c.cloud.oauth => c.cloud.secret # Empty
<1> DEFINE c == Configuration(e)
<1>1. /\ c.pool = applyEntropyPoolEnvVars(e)
      /\ c.collector = applyCollectorEnvVars(e)
      /\ c.mqtt = applyMQTTEnvVars(e)
      /\ c.cloud = applyCloudForwarderEnvVars(e)
  BY DEF Configuration
<1>2. validate(c)
  BY DEF Loads
<1> HIDE DEF c
<1>3. /\ 0 < c.pool.min /\ c.pool.min <= c.pool.max
      /\ c.pool.rps > 0 /\ c.pool.burst > 0 /\ c.pool.retryAfter > 0
  BY <1>1, PoolUsable
<1>4. c.collector.batchSize > 0 /\ c.collector.batchSize \div 184 > 0
  BY <1>1, CollectorUsable
<1>5. c.mqtt.qos \in {0, 1} /\ c.mqtt.topics # Empty
  BY <1>1, <1>2, QosUsable DEF validate
<1>6. c.cloud.reconnectDelay > 0 /\ c.cloud.maxReconnect > 0
  <2> DEFINE N(name, n) == ParsePositiveEnvInt(e, <<"CLOUD_FORWARDER", name>>, n)
  <2>1. /\ c.cloud.reconnectDelay = N("RECONNECT_DELAY", 5)
        /\ c.cloud.maxReconnect = N("MAX_RECONNECT", 60)
    BY <1>1 DEF applyCloudForwarderEnvVars
  <2>2. /\ N("RECONNECT_DELAY", 5) \in Nat \ {0}
        /\ N("MAX_RECONNECT", 60) \in Nat \ {0}
    BY PositiveNumber
  <2> HIDE DEF N
  <2> QED BY <2>1, <2>2
<1>7. c.cloud.enabled /\ c.cloud.oauth => c.cloud.secret # Empty
  BY <1>2 DEF validate, ValidCloudForwarder
<1> QED BY <1>3, <1>4, <1>5, <1>6, <1>7 DEF c

\* Client certificates that are asked for, in whatever spelling, are verified
\* against a CA, or the configuration is refused.
LEMMA ClientsVerified ==
  ASSUME NEW e, IsEnv(e), NEW component, ValidServerTLS(ServerTLS(e, component)),
         ToLower(Getenv(e, <<component, "TLS_ENABLED">>)).text \in Yes,
         ToLower(Getenv(e, <<component, "TLS_CLIENT_AUTH">>)).text = "require"
  PROVE  LET tls == ServerTLS(e, component) IN
         /\ parseClientAuth(tls.auth) = "RequireAndVerifyClientCert"
         /\ tls.enabled /\ tls.ca # Empty
<1> DEFINE tls == ServerTLS(e, component)
           v == Getenv(e, <<component, "TLS_CLIENT_AUTH">>)
<1>1. /\ tls.enabled = ParseBoolEnv(e, <<component, "TLS_ENABLED">>, FALSE)
      /\ tls.auth = ClientAuth(e, <<component, "TLS_CLIENT_AUTH">>)
  BY DEF ServerTLS
<1>2. ParseBoolEnv(e, <<component, "TLS_ENABLED">>, FALSE)
  BY FlagOn
<1>3. tls.enabled
  BY <1>1, <1>2
<1>4. /\ tls.auth \in {Str("none"), Str("request"), Str("require")}
      /\ tls.auth = Str("require") => tls.ca # Empty
  BY <1>3 DEF ValidServerTLS
<1> HIDE DEF tls
<1>5. v # Empty
  <2>1. ToLower(v).text = "require"
    OBVIOUS
  <2> QED BY <2>1, EmptyText
<1>6. tls.auth = ToLower(TrimSpace(v))
  BY <1>1, <1>5 DEF ClientAuth
<1>7. IsRaw(v) /\ IsRaw(TrimSpace(v)) /\ TrimSpace(v).text = v.text
  BY GetenvType, TrimSpaceFields
<1>8. ToLower(TrimSpace(v)).text = ToLower(v).text
  BY <1>7, ToLowerFields
<1>9. tls.auth.text = "require"
  BY <1>6, <1>8
<1>10. tls.auth = Str("require")
  <2>1. Str("none").text = "none" /\ Str("request").text = "request"
    BY DEF Str, Raw
  <2> QED BY <1>4, <1>9, <2>1
<1> QED BY <1>3, <1>4, <1>10 DEF parseClientAuth, tls

-----------------------------------------------------------------------------
(* What run reads of the environment                                        *)

\* The phases in which the configuration is still to be read.
Reads == {"address", "listen", "cloud"}

\* While run reads the configuration, it is one that Load has accepted.
ConfigInv ==
  /\ IsEnv(env)
  /\ main \in Reads => Loads(env)
  /\ main = "listen" => AddressAccepted
  /\ main \notin Reads \cup {"config", "panicked"} => env = NoEnv

LEMMA NoEnvReads ==
  /\ IsEnv(NoEnv)
  /\ \A key : Getenv(NoEnv, key) = Empty
  BY DEF IsEnv, NoEnv, Getenv

LEMMA NothingAsked ==
  /\ \A key : ToLower(Getenv(NoEnv, key)).text = ""
  /\ Configuration(NoEnv).pool.addr.text = "loopback"
  /\ ~Configuration(NoEnv).pool.tls.enabled
<1>1. \A key : ToLower(Getenv(NoEnv, key)).text = ""
  BY NoEnvReads, EmptyText, Zenon
<1> DEFINE addr == GetEnvDefault(NoEnv, <<"ENTROPY", "HTTP_ADDR">>, Str("loopback"))
           flag == ParseBoolEnv(NoEnv, <<"ENTROPY", "TLS_ENABLED">>, FALSE)
<1>2. Configuration(NoEnv).pool = applyEntropyPoolEnvVars(NoEnv)
  BY DEF Configuration
<1>3. /\ applyEntropyPoolEnvVars(NoEnv).addr = addr
      /\ applyEntropyPoolEnvVars(NoEnv).tls = ServerTLS(NoEnv, "ENTROPY")
  BY DEF applyEntropyPoolEnvVars
<1>4. ServerTLS(NoEnv, "ENTROPY").enabled = flag
  BY DEF ServerTLS
<1>5. addr = Str("loopback")
  <2>1. cleanEnvValue(Empty) = Empty
    BY EmptyText DEF cleanEnvValue, Empty
  <2> QED BY NoEnvReads, <2>1 DEF GetEnvDefault
<1>6. addr.text = "loopback"
  BY <1>5, RawFields DEF Str
<1>7. ~flag
  <2>1. "" \notin Yes
    BY DEF Yes
  <2>2. flag <=> ToLower(Getenv(NoEnv, <<"ENTROPY", "TLS_ENABLED">>)).text \in Yes
    BY NoEnvReads, FlagOn
  <2> QED BY <1>1, <2>1, <2>2, Zenon
<1> HIDE DEF addr, flag
<1> QED BY <1>1, <1>2, <1>3, <1>4, <1>6, <1>7

\* The steps that matter to what is read; any other step goes to a phase
\* that reads nothing, or stays where it is.
LEMMA WhoReads ==
  ASSUME [Next]_vars
  PROVE  \/ StartMetrics \/ CheckAddress \/ Start \/ StartTLS
         \/ main' \notin Reads \cup {"config"} /\ env' = NoEnv
         \/ main' = "panicked" /\ env' = env
         \/ main' = main /\ env' = env
         \/ /\ main' \notin Reads \cup {"config"} /\ env' = env
            /\ main \notin Reads \cup {"config", "panicked"}
<1>1. CASE ConfigInvalid \/ StartFails
  BY <1>1 DEF ConfigInvalid, StartFails, Return, Reads
<1>2. CASE LocalOnly \/ StartForwarder
  BY <1>2 DEF LocalOnly, StartForwarder, Reads
<1>3. CASE StartCollector \/ Signal \/ SignalEntropy \/ SignalMetrics
  BY <1>3 DEF StartCollector, Signal, SignalEntropy, SignalMetrics, Reads
<1>4. ASSUME NEW k \in Attempts, ConnectMQTT(k) \/ MqttBackground(k)
      PROVE  main' = main /\ env' = env
  BY <1>4 DEF ConnectMQTT, MqttBackground, gateway
<1>5. ASSUME NEW k \in Attempts, Connected(k)
      PROVE  main = "mqtt" /\ main' = "serving" /\ env' = env
  BY <1>5 DEF Connected
<1>6. CASE SignalMqtt \/ SignalCollector \/ SignalWait
  BY <1>6 DEF SignalMqtt, SignalCollector, SignalWait, CloseMqtt, CloseQueue,
              CollectorWait, Reads
<1>7. CASE DeferredMqtt \/ DeferredCollector \/ DeferredWait
  BY <1>7 DEF DeferredMqtt, DeferredCollector, DeferredWait, CloseMqtt,
              CloseQueue, CollectorWait, Pop, Reads
<1>8. CASE DeferredForwarder \/ CloseCloud \/ DeferredCancel \/ Exit
  BY <1>8 DEF DeferredForwarder, CloseCloud, DeferredCancel, Exit, Pop, Reads
<1>9. CASE DeferredEntropy \/ DeferredMetrics \/ RequestDone
  BY <1>9 DEF DeferredEntropy, DeferredMetrics, RequestDone
<1>10. CASE KilledEarly \/ MetricsFatal
  BY <1>10 DEF KilledEarly, MetricsFatal, Killed, Reads
<1>11. CASE SendLoop
  BY <1>11 DEF SendLoop, Ingest, LoadClient, SendToCloud
<1>12. CASE Connector
  BY <1>12 DEF Connector, ConnectorDial, ConnectorInstalls, ConnectorWaits
<1>13. ASSUME NEW k \in Attempts, NEW kind \in MessageKinds,
              OnTimestamp(k, kind) \/ OnOther(k, kind)
       PROVE  env' = env /\ main' \in {main, "panicked"}
  BY <1>13 DEF OnTimestamp, OnOther, gateway
<1>14. CASE UNCHANGED vars
  BY <1>14 DEF vars, gateway
<1> QED BY <1>1, <1>2, <1>3, <1>4, <1>5, <1>6, <1>7, <1>8, <1>9, <1>10, <1>11,
           <1>12, <1>13, <1>14 DEF Next, Main, Others, Terminated, Reads

LEMMA ConfigInitial == Init => ConfigInv
  BY GatewayAssumption DEF Init, ConfigInv, IsEnv, Reads

LEMMA ConfigStep == ConfigInv /\ [Next]_vars => ConfigInv'
<1> SUFFICES ASSUME ConfigInv, [Next]_vars PROVE ConfigInv'
  OBVIOUS
<1>1. CASE StartMetrics
  BY <1>1 DEF ConfigInv, StartMetrics, Reads
<1>2. CASE CheckAddress
  BY <1>2, NoEnvReads DEF ConfigInv, CheckAddress, Return, Reads, AddressAccepted,
                          config
<1>3. CASE Start \/ StartTLS
  BY <1>3 DEF ConfigInv, Start, StartTLS, Serve, Reads
<1>4. CASE env' = env /\ (main' = "panicked" \/ main' = main)
  BY <1>4 DEF ConfigInv, Reads, AddressAccepted, config
<1>5. CASE main' \notin Reads \cup {"config"} /\ env' = NoEnv
  BY <1>5, NoEnvReads DEF ConfigInv, Reads
<1>6. CASE /\ main' \notin Reads \cup {"config"} /\ env' = env
           /\ main \notin Reads \cup {"config", "panicked"}
  BY <1>6 DEF ConfigInv, Reads
<1> QED BY <1>1, <1>2, <1>3, <1>4, <1>5, <1>6, WhoReads

LEMMA ConfigInvariant == Spec => []ConfigInv
  BY ConfigInitial, ConfigStep, PTL DEF Spec

(***************************************************************************)
(* Any configuration with which run goes on is one the components work     *)
(* with.                                                                   *)
(***************************************************************************)
THEOREM ConfigUsableCorrect == Spec => []ConfigUsable
<1>1. ConfigInv => ConfigUsable
  BY ConfigurationUsable DEF ConfigInv, ConfigUsable, config, flushInterval, Reads
<1> QED BY <1>1, ConfigInvariant, PTL

\* Who starts a server: the step that Load or the address check has allowed.
\* A server is stopped only when run has read all it needs.
LEMMA WhoStarts ==
  ASSUME ConfigInv, [Next]_vars
  PROVE  /\ entropy = "off" /\ entropy' # "off" =>
              Start \/ StartTLS \/ (entropy' = "stopped" /\ env = NoEnv)
         /\ metrics = "off" /\ metrics' = "started" => StartMetrics
<1> DEFINE Same == entropy' = entropy /\ metrics' = metrics
           Goal == /\ entropy = "off" /\ entropy' # "off" =>
                        Start \/ StartTLS \/ (entropy' = "stopped" /\ env = NoEnv)
                   /\ metrics = "off" /\ metrics' = "started" => StartMetrics
<1>1. CASE StartMetrics
  BY <1>1 DEF StartMetrics
<1>2. CASE ConfigInvalid \/ StartFails \/ CheckAddress
  BY <1>2 DEF ConfigInvalid, StartFails, CheckAddress, servers
<1>3. CASE Start \/ StartTLS
  BY <1>3 DEF Start, StartTLS, Serve
<1>4. CASE LocalOnly \/ StartForwarder \/ StartCollector \/ Signal
  BY <1>4 DEF LocalOnly, StartForwarder, StartCollector, Signal, servers
<1>5. ASSUME NEW k \in Attempts,
             ConnectMQTT(k) \/ MqttBackground(k) \/ Connected(k)
      PROVE  Same
  BY <1>5 DEF ConnectMQTT, MqttBackground, Connected, gateway, servers
<1>6. CASE SignalMqtt \/ SignalCollector \/ SignalWait
  BY <1>6 DEF SignalMqtt, SignalCollector, SignalWait, CloseMqtt, CloseQueue,
              CollectorWait, servers
<1>7. CASE SignalEntropy
  BY <1>7 DEF SignalEntropy, ConfigInv, Reads
<1>8. CASE SignalMetrics \/ DeferredMetrics
  BY <1>8 DEF SignalMetrics, DeferredMetrics
<1>9. CASE DeferredMqtt \/ DeferredCollector \/ DeferredWait
  BY <1>9 DEF DeferredMqtt, DeferredCollector, DeferredWait, CloseMqtt,
              CloseQueue, CollectorWait, servers
<1>10. CASE DeferredForwarder \/ CloseCloud \/ DeferredCancel \/ Exit
  BY <1>10 DEF DeferredForwarder, CloseCloud, DeferredCancel, Exit, servers
<1>11. CASE DeferredEntropy
  BY <1>11 DEF DeferredEntropy, Pop, ConfigInv, Reads
<1>12. CASE KilledEarly \/ MetricsFatal
  BY <1>12 DEF KilledEarly, MetricsFatal, Killed
<1>13. CASE RequestDone
  BY <1>13 DEF RequestDone
<1>14. CASE SendLoop
  BY <1>14 DEF SendLoop, Ingest, LoadClient, SendToCloud, servers
<1>15. CASE Connector
  BY <1>15 DEF Connector, ConnectorDial, ConnectorInstalls, ConnectorWaits, servers
<1>16. ASSUME NEW k \in Attempts, NEW kind \in MessageKinds,
              OnTimestamp(k, kind) \/ OnOther(k, kind)
       PROVE  Same
  BY <1>16 DEF OnTimestamp, OnOther, gateway, servers
<1>17. CASE UNCHANGED vars
  BY <1>17 DEF vars, gateway, servers
<1>18. Same => Goal
  OBVIOUS
<1> QED BY <1>1, <1>2, <1>3, <1>4, <1>5, <1>6, <1>7, <1>8, <1>9, <1>10, <1>11,
           <1>12, <1>13, <1>14, <1>15, <1>16, <1>17, <1>18
           DEF Next, Main, Others, Terminated

(***************************************************************************)
(* The entropy server is reachable from outside only where the environment *)
(* allows it, in production only with TLS.                                 *)
(***************************************************************************)
THEOREM ExposureSafeCorrect == Spec => ExposureSafe
<1> DEFINE Exposed == entropy = "off" /\ entropy' # "off"
                        /\ config.pool.addr.text
                             \notin {"localhost", "LOCALHOST", "loopback"}
           Allowed == /\ Asks(<<"ALLOW", "PUBLIC_HTTP">>, Yes)
                      /\ Asks(<<"", "ENVIRONMENT">>, {"prod", "production"})
                           => entropy' = "tls"
<1>1. ASSUME ConfigInv, [Next]_vars, Exposed PROVE Allowed
  <2>1. Start \/ StartTLS
    <3>1. config = Configuration(env)
      BY DEF config
    <3>2. env # NoEnv
      BY <1>1, <3>1, NothingAsked
    <3> QED BY <1>1, <3>2, WhoStarts
  <2>2. main = "listen"
    BY <2>1 DEF Start, StartTLS
  <2>3. IsEnv(env) /\ Loads(env) /\ AddressAccepted
    BY <1>1, <2>2 DEF ConfigInv, Reads
  <2> DEFINE c == Configuration(env)
  <2>4. /\ c.pool.allowPublic = ParseBoolEnv(env, <<"ALLOW", "PUBLIC_HTTP">>, FALSE)
        /\ c.environment = applyEnvironmentEnvVars(env)
    <3>1. /\ c.pool = applyEntropyPoolEnvVars(env)
          /\ c.environment = applyEnvironmentEnvVars(env)
      BY DEF Configuration
    <3>2. applyEntropyPoolEnvVars(env).allowPublic
            = ParseBoolEnv(env, <<"ALLOW", "PUBLIC_HTTP">>, FALSE)
      BY DEF applyEntropyPoolEnvVars
    <3> QED BY <3>1, <3>2, Zenon
  <2>5. c.pool.allowPublic
    BY <1>1, <2>3 DEF AddressAccepted, EnforceLoopbackAddr, config
  <2>6. Asks(<<"ALLOW", "PUBLIC_HTTP">>, Yes)
    BY <2>3, <2>4, <2>5, FlagOn DEF Asks
  <2>7. ASSUME Asks(<<"", "ENVIRONMENT">>, {"prod", "production"})
        PROVE  entropy' = "tls"
    <3>1. validate(c)
      BY <2>3 DEF Loads
    <3>2. c.environment = "prod"
      BY <2>3, <2>4, <2>7, <3>1, ProductionKnown DEF Asks, validate
    <3>3. c.pool.tls.enabled
      BY <2>5, <3>1, <3>2 DEF validate, PublicAllowed, IsProduction
    <3> QED BY <2>1, <3>3 DEF Start, StartTLS, Serve, config
  <2> QED BY <2>6, <2>7
<1>2. ConfigInv /\ [Next]_vars => [Exposed => Allowed]_vars
  BY <1>1
<1> QED BY <1>2, ConfigInvariant, PTL DEF Spec, ExposureSafe

(***************************************************************************)
(* A server that is asked for client certificates verifies them, or is not *)
(* started.                                                                *)
(***************************************************************************)
THEOREM ClientAuthHonouredCorrect == Spec => ClientAuthHonoured
<1> DEFINE EntropyStarts == entropy = "off" /\ entropy' # "off"
           EntropyHonoured == /\ Verifies("ENTROPY", config.pool.tls)
                              /\ config.pool.tls.enabled <=> entropy' = "tls"
           MetricsStart == metrics = "off" /\ metrics' = "started"
           MetricsHonoured == Verifies("METRICS", config.metrics.tls)
<1>1. ASSUME IsEnv(env), Loads(env)
      PROVE  /\ Verifies("ENTROPY", config.pool.tls)
             /\ Verifies("METRICS", config.metrics.tls)
  <2> DEFINE c == Configuration(env)
  <2>1. validate(c) /\ config = c
    BY <1>1 DEF Loads, config
  <2>2. c.pool.tls = ServerTLS(env, "ENTROPY")
    BY DEF Configuration, applyEntropyPoolEnvVars
  <2>3. c.metrics.tls = ServerTLS(env, "METRICS")
    BY DEF Configuration, applyMetricsEnvVars
  <2>4. ValidServerTLS(c.pool.tls) /\ ValidServerTLS(c.metrics.tls)
    BY <2>1 DEF validate
  <2>5. Verifies("ENTROPY", ServerTLS(env, "ENTROPY"))
    BY <1>1, <2>2, <2>4, ClientsVerified DEF Verifies, Asks
  <2>6. Verifies("METRICS", ServerTLS(env, "METRICS"))
    BY <1>1, <2>3, <2>4, ClientsVerified DEF Verifies, Asks
  <2> QED BY <2>1, <2>2, <2>3, <2>5, <2>6, Zenon
<1>2. ASSUME ConfigInv, [Next]_vars, EntropyStarts PROVE EntropyHonoured
  <2>1. CASE Start \/ StartTLS
    <3>1. main = "listen"
      BY <2>1 DEF Start, StartTLS
    <3>2. IsEnv(env) /\ Loads(env)
      BY <1>2, <3>1 DEF ConfigInv, Reads
    <3>3. config.pool.tls.enabled <=> entropy' = "tls"
      BY <2>1 DEF Start, StartTLS, Serve
    <3> QED BY <1>1, <3>2, <3>3
  <2>2. CASE entropy' = "stopped" /\ env = NoEnv
    <3>1. "" \notin Yes
      BY DEF Yes
    <3>2. ~Asks(<<"ENTROPY", "TLS_ENABLED">>, Yes)
      BY <2>2, <3>1, NothingAsked DEF Asks
    <3>3. ~config.pool.tls.enabled
      BY <2>2, NothingAsked DEF config
    <3> QED BY <2>2, <3>2, <3>3 DEF Verifies
  <2> QED BY <1>2, <2>1, <2>2, WhoStarts
<1>3. ASSUME ConfigInv, [Next]_vars, MetricsStart PROVE MetricsHonoured
  <2>1. StartMetrics
    BY <1>3, WhoStarts
  <2> QED BY <1>1, <1>3, <2>1 DEF ConfigInv, StartMetrics
<1>4. ConfigInv /\ [Next]_vars => [/\ EntropyStarts => EntropyHonoured
                                   /\ MetricsStart => MetricsHonoured]_vars
  BY <1>2, <1>3
<1> QED BY <1>4, ConfigInvariant, PTL DEF Spec, ClientAuthHonoured

-----------------------------------------------------------------------------
(* Late events                                                              *)

\* The phases of the process: before and after the collector is made, and
\* after it is closed or run has given up before making one.
Starting     == {"config", "address", "listen", "cloud", "collector"}
Running      == {"mqtt", "serving", "closeMqtt", "closeCollector"}
AfterWait    == {"stopEntropy", "stopMetrics", "unwind", "waitDeferred",
                 "closeCloud", "return", "exited"}
ShuttingDown == AfterWait \cup {"waitCollector"}
Crashed      == {"killed", "panicked"}

\* The attempt that setupMQTT works on, or the client in use.
Active(k) == caller[k] \notin {"none", "failed"}

ClientType ==
  /\ link \in [Attempts -> {"none", "connecting", "up", "reconnecting", "down"}]
  /\ caller \in [Attempts -> {"none", "token", "giveup", "result", "connected",
                              "failed", "closed"}]
  /\ callback \in [Attempts -> BOOLEAN]
  /\ missed \in [Attempts -> BOOLEAN]

OneActive == \A j, k \in Attempts : Active(j) /\ Active(k) => j = k

\* A client that was never used, given up or closed has no connection and no
\* callback, unless Close has missed it.
Quiet ==
  \A k \in Attempts :
    /\ caller[k] = "none" => link[k] = "none" /\ ~callback[k]
    /\ caller[k] \in {"failed", "closed"} =>
         missed[k] \/ (link[k] \in {"none", "down"} /\ ~callback[k])

ClientsInv == ClientType /\ OneActive /\ Quiet

CollectorPhase ==
  /\ collector \in {"none", "open", "closed"}
  /\ main \in Starting \cup Running \cup ShuttingDown \cup Crashed
  /\ main \in Starting => collector = "none"
  /\ main \in Running => collector = "open"
  /\ main \in ShuttingDown => collector # "open"
  /\ main \in Starting \cup Running => late = {}

ClientPhase ==
  /\ main \in Starting => \A k \in Attempts : caller[k] = "none"
  /\ main \in {"serving", "closeMqtt"} =>
       client \in Attempts /\ caller[client] = "connected"
  /\ main \in ShuttingDown \cup {"closeCollector"} =>
       \A k \in Attempts : caller[k] \in {"none", "failed", "closed"}

\* In the phases in which the collector accepts no events every client is
\* quiet, or Close has missed it.
LateInv ==
  /\ ClientsInv /\ CollectorPhase /\ ClientPhase
  /\ late \subseteq Attempts /\ LateAddHasCause

LEMMA LateInitial == Init => LateInv
  BY DEF Init, MqttInit, Each, LateInv, ClientsInv, ClientType, OneActive,
         Active, Quiet, CollectorPhase, ClientPhase, LateAddHasCause,
         Starting, Running, ShuttingDown, AfterWait, Crashed

\* Connect starts an attempt, or goes on with it.
LEMMA SetupClients ==
  ASSUME ClientsInv, NEW k \in Attempts, ConnectStart(k) \/ Setup(k)
  PROVE  ClientsInv'
<1> USE DEF ClientsInv
<1>1. CASE ConnectStart(k)
  <2>1. ClientType'
    BY <1>1 DEF ClientType, ConnectStart, Set, Goto
  <2>2. OneActive'
    BY <1>1 DEF ClientType, ConnectStart, BetweenAttempts, Set, Goto,
                OneActive, Active
  <2>3. Quiet'
    BY <1>1 DEF ClientType, ConnectStart, Set, Goto, Quiet
  <2> QED BY <2>1, <2>2, <2>3
<1>2. CASE TokenTimeout(k) \/ TokenDone(k) \/ InitialResult(k) \/ InitialTimeout(k)
  <2>1. ClientType'
    BY <1>2 DEF ClientType, TokenTimeout, TokenDone, InitialResult,
                InitialTimeout, Set, Goto
  <2>2. /\ Active(k) /\ caller'[k] \notin {"none", "failed", "closed"}
        /\ \A j \in Attempts : j # k => caller'[j] = caller[j]
        /\ UNCHANGED <<link, callback, missed>>
    BY <1>2 DEF ClientType, TokenTimeout, TokenDone, InitialResult,
                InitialTimeout, Set, Goto, Active
  <2> QED BY <2>1, <2>2 DEF OneActive, Active, Quiet
<1>3. CASE GiveUp(k)
  <2>1. ClientType'
    BY <1>3 DEF ClientType, GiveUp, CloseEffect, Set, Goto
  <2>2. OneActive'
    BY <1>3 DEF ClientType, GiveUp, Set, Goto, OneActive, Active
  <2>3. Quiet'
    BY <1>3 DEF ClientType, GiveUp, CloseEffect, Set, Goto, Quiet
  <2> QED BY <2>1, <2>2, <2>3
<1> QED BY <1>1, <1>2, <1>3 DEF Setup

\* Close of the client in use, if there is one.
LEMMA CloseClients ==
  ASSUME ClientsInv, CloseClient(client)
  PROVE  /\ ClientsInv'
         /\ client \in Attempts => caller'[client] = "closed"
         /\ \A k \in Attempts : k # client => caller'[k] = caller[k]
         /\ \A k \in Attempts : missed[k] => missed'[k]
<1> USE DEF ClientsInv
<1>1. ClientType'
  BY DEF ClientType, CloseClient, CloseEffect, Set, Goto
<1>2. OneActive'
  BY DEF ClientType, CloseClient, Set, Goto, OneActive, Active
<1>3. Quiet'
  BY DEF ClientType, CloseClient, CloseEffect, Set, Goto, Quiet
<1>4. /\ client \in Attempts => caller'[client] = "closed"
      /\ \A k \in Attempts : k # client => caller'[k] = caller[k]
      /\ \A k \in Attempts : missed[k] => missed'[k]
  BY DEF ClientType, CloseClient, CloseEffect, Set, Goto
<1> QED BY <1>1, <1>2, <1>3, <1>4

\* Paho and the broker.
LEMMA BackgroundClients ==
  ASSUME ClientsInv, NEW k \in Attempts, Background(k)
  PROVE  ClientsInv' /\ UNCHANGED <<caller, missed>>
<1> USE DEF ClientsInv
<1>1. CASE PahoConnects(k) \/ PahoConnectFails(k) \/ PahoReconnects(k)
  BY <1>1 DEF ClientType, PahoConnects, PahoConnectFails, PahoReconnects, Set,
              OneActive, Active, Quiet
<1>2. CASE ConnectionLost(k)
  BY <1>2 DEF ClientType, ConnectionLost, Set, OneActive, Active, Quiet
<1>3. CASE MessageArrives(k)
  BY <1>3 DEF ClientType, MessageArrives, Set, OneActive, Active, Quiet
<1>4. ASSUME NEW h \in Handlers,
             SubscribeAcked(k, h) \/ SubscribeFails(k, h) \/ HandlerDone(k, h)
      PROVE  UNCHANGED <<link, caller, callback, missed>>
  BY <1>4 DEF SubscribeAcked, SubscribeFails, HandlerDone
<1>5. UNCHANGED <<link, caller, callback, missed>> => ClientsInv'
  BY DEF ClientType, OneActive, Active, Quiet
<1> QED BY <1>1, <1>2, <1>3, <1>4, <1>5 DEF Background

LEMMA CallbackClients ==
  ASSUME ClientsInv, NEW k \in Attempts, CallbackReturns(k)
  PROVE  ClientsInv' /\ callback[k] /\ UNCHANGED <<caller, missed>>
  BY DEF ClientsInv, ClientType, CallbackReturns, Set, OneActive, Active, Quiet

\* What a step leaves alone that touches neither a client nor the collector.
Undisturbed == UNCHANGED <<mqtt, client, collector, late>>

LEMMA UndisturbedClients ==
  ASSUME LateInv, Undisturbed
  PROVE  ClientsInv' /\ (late \subseteq Attempts)' /\ LateAddHasCause'
  BY DEF LateInv, ClientsInv, ClientType, OneActive, Active, Quiet, Undisturbed,
         mqtt, LateAddHasCause

\* Such a step may go on within a phase, or from one to another in which the
\* same holds of the collector and the clients.
LEMMA UndisturbedStep ==
  ASSUME LateInv, Undisturbed,
         \/ main' = main
         \/ main \in Starting /\ main' \in Starting \cup {"unwind"}
         \/ main = "serving" /\ main' = "closeMqtt"
         \/ main \in ShuttingDown /\ main' \in ShuttingDown
  PROVE  LateInv'
<1>1. CollectorPhase'
  BY DEF LateInv, CollectorPhase, Undisturbed, Starting, Running,
         ShuttingDown, AfterWait, Crashed
<1>2. ClientPhase'
  BY DEF LateInv, ClientPhase, Undisturbed, mqtt, Starting, ShuttingDown,
         AfterWait
<1> QED BY <1>1, <1>2, UndisturbedClients DEF LateInv

\* run, up to the wait for a signal.
LEMMA LateStartup ==
  ASSUME LateInv,
         \/ StartMetrics \/ ConfigInvalid \/ CheckAddress \/ Start \/ StartTLS
         \/ StartFails \/ LocalOnly \/ StartForwarder
  PROVE  LateInv'
<1>1. Undisturbed
  BY DEF StartMetrics, ConfigInvalid, CheckAddress, Start, StartTLS, Serve,
         StartFails, LocalOnly, StartForwarder, batches, Undisturbed
<1>2. main \in Starting /\ main' \in Starting \cup {"unwind"}
  BY DEF StartMetrics, ConfigInvalid, CheckAddress, Start, StartTLS, Serve,
         StartFails, LocalOnly, StartForwarder, Return, Starting
<1> QED BY <1>1, <1>2, UndisturbedStep

LEMMA LateCollector ==
  ASSUME LateInv, StartCollector
  PROVE  LateInv'
<1>1. /\ main = "collector" /\ main' = "mqtt" /\ collector' = "open"
      /\ UNCHANGED <<mqtt, client, late>>
  BY DEF StartCollector
<1>2. CollectorPhase' /\ ClientPhase'
  BY <1>1 DEF LateInv, CollectorPhase, ClientPhase, Starting, Running,
              ShuttingDown, AfterWait, Crashed
<1>3. ClientsInv' /\ LateAddHasCause' /\ (late \subseteq Attempts)'
  BY <1>1 DEF LateInv, ClientsInv, ClientType, OneActive, Active, Quiet, mqtt,
              LateAddHasCause
<1> QED BY <1>2, <1>3 DEF LateInv

LEMMA LateConnect ==
  ASSUME LateInv, NEW k \in Attempts, ConnectMQTT(k) \/ Connected(k)
  PROVE  LateInv'
<1>1. CASE ConnectMQTT(k)
  <2>1. ClientsInv'
    BY <1>1, SetupClients DEF LateInv, ConnectMQTT
  <2>2. main = "mqtt" /\ UNCHANGED <<main, collector, late>>
    BY <1>1 DEF ConnectMQTT, gateway, batches
  <2>3. CollectorPhase' /\ ClientPhase' /\ late' = {}
    BY <2>2 DEF LateInv, CollectorPhase, ClientPhase, Starting, Running,
                ShuttingDown, AfterWait
  <2> QED BY <2>1, <2>3 DEF LateInv, LateAddHasCause
<1>2. CASE Connected(k)
  <2>1. /\ main = "mqtt" /\ main' = "serving" /\ caller[k] = "connected"
        /\ client' = k /\ UNCHANGED <<mqtt, collector, late>>
    BY <1>2 DEF Connected, batches
  <2>2. CollectorPhase'
    BY <2>1 DEF LateInv, CollectorPhase, Starting, Running, ShuttingDown,
                AfterWait, Crashed
  <2>3. ClientPhase'
    BY <2>1 DEF ClientPhase, mqtt, Starting, ShuttingDown, AfterWait
  <2>4. ClientsInv' /\ LateAddHasCause' /\ (late \subseteq Attempts)'
    BY <2>1 DEF LateInv, ClientsInv, ClientType, OneActive, Active, Quiet, mqtt,
                LateAddHasCause
  <2> QED BY <2>2, <2>3, <2>4 DEF LateInv
<1> QED BY <1>1, <1>2

\* A killed process has no client and no collector.
LEMMA LateKilled ==
  ASSUME Killed
  PROVE  LateInv'
<1>1. /\ main' = "killed" /\ late' = {} /\ collector' = "none"
      /\ link' = Each("none") /\ caller' = Each("none")
      /\ callback' = Each(FALSE) /\ missed' = Each(FALSE)
  BY DEF Killed, MqttGone
<1>2. ClientsInv'
  BY <1>1 DEF ClientsInv, ClientType, OneActive, Active, Quiet, Each
<1>3. CollectorPhase' /\ ClientPhase' /\ LateAddHasCause' /\ (late \subseteq Attempts)'
  BY <1>1 DEF CollectorPhase, ClientPhase, LateAddHasCause, Starting, Running,
              ShuttingDown, AfterWait, Crashed
<1> QED BY <1>2, <1>3 DEF LateInv

\* The client in use is closed, then the collector: no other client is active.
LEMMA LateClose ==
  ASSUME LateInv, SignalMqtt \/ DeferredMqtt
  PROVE  LateInv'
<1>1. /\ CloseClient(client) /\ UNCHANGED <<client, collector, late>>
      /\ \/ main = "closeMqtt" /\ main' = "closeCollector"
         \/ main = "unwind" /\ main' = "unwind"
  BY DEF SignalMqtt, DeferredMqtt, CloseMqtt, Pop, batches
<1>2. /\ ClientsInv' /\ ClientsInv
      /\ client \in Attempts => caller'[client] = "closed"
      /\ \A k \in Attempts : k # client => caller'[k] = caller[k]
      /\ \A k \in Attempts : missed[k] => missed'[k]
  BY <1>1, CloseClients DEF LateInv
<1>3. LateAddHasCause' /\ (late \subseteq Attempts)'
  BY <1>1, <1>2 DEF LateInv, LateAddHasCause
<1>4. CollectorPhase'
  BY <1>1 DEF LateInv, CollectorPhase, Starting, Running, ShuttingDown,
              AfterWait, Crashed
<1>5. ClientPhase'
  <2>1. ASSUME main = "closeMqtt", NEW k \in Attempts
        PROVE  caller'[k] \in {"none", "failed", "closed"}
    <3>1. client \in Attempts /\ caller[client] = "connected"
      BY <2>1 DEF LateInv, ClientPhase
    <3>2. k # client => caller[k] \in {"none", "failed"}
      BY <1>2, <3>1 DEF ClientsInv, OneActive, Active
    <3> QED BY <1>2, <3>1, <3>2
  <2>2. ASSUME main = "unwind", NEW k \in Attempts
        PROVE  caller'[k] \in {"none", "failed", "closed"}
    <3>1. caller[k] \in {"none", "failed", "closed"}
      BY <2>2 DEF LateInv, ClientPhase, ShuttingDown, AfterWait
    <3> QED BY <1>2, <3>1
  <2> QED BY <1>1, <2>1, <2>2 DEF ClientPhase, Starting
<1> QED BY <1>2, <1>3, <1>4, <1>5 DEF LateInv

LEMMA LateCloseQueue ==
  ASSUME LateInv, SignalCollector \/ DeferredCollector
  PROVE  LateInv'
<1>1. /\ collector' = "closed" /\ UNCHANGED <<mqtt, client, late>>
      /\ main \in ShuttingDown \cup {"closeCollector"}
      /\ main' \in ShuttingDown \cup {"panicked"}
  BY DEF SignalCollector, DeferredCollector, CloseQueue, Pop, ShuttingDown,
         AfterWait
<1>2. CollectorPhase'
  BY <1>1 DEF CollectorPhase, Starting, Running, ShuttingDown, AfterWait, Crashed
<1>3. ClientPhase'
  BY <1>1 DEF LateInv, ClientPhase, mqtt, Starting, ShuttingDown, AfterWait
<1>4. ClientsInv' /\ LateAddHasCause' /\ (late \subseteq Attempts)'
  BY <1>1 DEF LateInv, ClientsInv, ClientType, OneActive, Active, Quiet, mqtt,
              LateAddHasCause
<1> QED BY <1>2, <1>3, <1>4 DEF LateInv

\* The rest of the shutdown, and the goroutines that know no client.
LEMMA LateShutdown ==
  ASSUME LateInv,
         \/ Signal \/ SignalWait \/ SignalEntropy \/ SignalMetrics
         \/ DeferredWait \/ DeferredForwarder \/ CloseCloud \/ DeferredEntropy
         \/ DeferredMetrics \/ DeferredCancel \/ Exit
         \/ RequestDone \/ SendLoop \/ Connector
  PROVE  LateInv'
<1>1. CASE Signal \/ SignalWait \/ SignalEntropy \/ SignalMetrics \/ DeferredWait
  <2>1. Undisturbed
    BY <1>1 DEF Signal, SignalWait, SignalEntropy, SignalMetrics, DeferredWait,
                CollectorWait, batches, Undisturbed
  <2>2. \/ main = "serving" /\ main' = "closeMqtt"
        \/ main \in ShuttingDown /\ main' \in ShuttingDown
    BY <1>1 DEF Signal, SignalWait, SignalEntropy, SignalMetrics, DeferredWait,
                CollectorWait, ShuttingDown, AfterWait
  <2> QED BY <2>1, <2>2, UndisturbedStep
<1>2. CASE \/ DeferredForwarder \/ CloseCloud \/ DeferredEntropy
           \/ DeferredMetrics \/ DeferredCancel \/ Exit
  <2>1. Undisturbed
    BY <1>2 DEF DeferredForwarder, CloseCloud, DeferredEntropy,
                DeferredMetrics, DeferredCancel, Exit, batches, Undisturbed
  <2>2. main' = main \/ (main \in ShuttingDown /\ main' \in ShuttingDown)
    BY <1>2 DEF DeferredForwarder, CloseCloud, DeferredEntropy,
                DeferredMetrics, DeferredCancel, Exit, Pop, ShuttingDown, AfterWait
  <2> QED BY <2>1, <2>2, UndisturbedStep
<1>3. CASE RequestDone \/ SendLoop
  <2>1. Undisturbed /\ main' = main
    BY <1>3 DEF RequestDone, SendLoop, Ingest, LoadClient, SendToCloud, batches,
                Undisturbed
  <2> QED BY <2>1, UndisturbedStep
<1>4. CASE Connector
  <2>1. Undisturbed /\ main' = main
    BY <1>4 DEF Connector, ConnectorDial, ConnectorInstalls, ConnectorWaits,
                batches, Undisturbed
  <2> QED BY <2>1, UndisturbedStep
<1> QED BY <1>1, <1>2, <1>3, <1>4

LEMMA LateBackground ==
  ASSUME LateInv, NEW k \in Attempts, MqttBackground(k)
  PROVE  LateInv'
<1>1. Background(k) /\ UNCHANGED <<main, client, collector, late>>
  BY DEF MqttBackground, gateway, batches
<1>2. ClientsInv' /\ UNCHANGED <<caller, missed>>
  BY <1>1, BackgroundClients DEF LateInv
<1> QED BY <1>1, <1>2 DEF LateInv, CollectorPhase, ClientPhase, LateAddHasCause

\* A callback that finds the collector closed is one that Close has missed.
LEMMA LateMessage ==
  ASSUME LateInv, ~Ended, NEW k \in Attempts, NEW kind \in MessageKinds,
         OnTimestamp(k, kind) \/ OnOther(k, kind)
  PROVE  LateInv'
<1>1. /\ CallbackReturns(k) /\ UNCHANGED <<client, collector>>
      /\ \/ UNCHANGED <<main, late>>
         \/ /\ collector # "open" /\ late' = late \cup {k}
            /\ main' \in {main, "panicked"}
  BY DEF OnTimestamp, OnOther, gateway, batches
<1>2. ClientsInv' /\ ClientsInv /\ callback[k] /\ UNCHANGED <<caller, missed>>
  BY <1>1, CallbackClients DEF LateInv
<1>3. CASE UNCHANGED <<main, late>>
  BY <1>1, <1>2, <1>3 DEF LateInv, CollectorPhase, ClientPhase, LateAddHasCause
<1>4. CASE /\ collector # "open" /\ late' = late \cup {k}
           /\ main' \in {main, "panicked"}
  <2>1. main \in ShuttingDown
    <3>1. caller[k] # "none"
      BY <1>2 DEF ClientsInv, Quiet
    <3>2. main \notin Starting /\ main \notin Running
      BY <1>4, <3>1 DEF LateInv, CollectorPhase, ClientPhase
    <3> QED BY <3>2 DEF LateInv, CollectorPhase, Ended, Crashed
  <2>2. missed[k]
    <3>1. caller[k] \in {"failed", "closed"}
      BY <1>2, <2>1 DEF LateInv, ClientPhase, ClientsInv, Quiet
    <3> QED BY <1>2, <3>1 DEF ClientsInv, Quiet
  <2>3. LateAddHasCause' /\ (late \subseteq Attempts)'
    BY <1>2, <1>4, <2>2 DEF LateInv, LateAddHasCause
  <2>4. CollectorPhase'
    BY <1>1, <1>4, <2>1 DEF LateInv, CollectorPhase, Starting, Running,
                            ShuttingDown, AfterWait, Crashed
  <2>5. ClientPhase'
    BY <1>1, <1>2, <1>4 DEF LateInv, ClientPhase, Starting, ShuttingDown, AfterWait
  <2> QED BY <1>2, <2>3, <2>4, <2>5 DEF LateInv
<1> QED BY <1>1, <1>3, <1>4

LEMMA LateStep == LateInv /\ [Next]_vars => LateInv'
<1> SUFFICES ASSUME LateInv, [Next]_vars PROVE LateInv'
  OBVIOUS
<1>1. CASE ~Ended /\ Main
  BY <1>1, LateStartup, LateCollector, LateConnect, LateClose, LateCloseQueue,
     LateShutdown DEF Main
<1>2. CASE ~Ended /\ Others
  BY <1>2, LateKilled, LateShutdown, LateBackground, LateMessage
     DEF Others, KilledEarly, MetricsFatal
<1>3. CASE UNCHANGED vars
  <2>1. Undisturbed /\ main' = main
    BY <1>3 DEF vars, gateway, batches, Undisturbed
  <2> QED BY <2>1, UndisturbedStep
<1> QED BY <1>1, <1>2, <1>3 DEF Next, Terminated

LEMMA LateInvariant == Spec => []LateInv
  BY LateInitial, LateStep, PTL DEF Spec

(***************************************************************************)
(* An event reaches a closed collector only through a client that Close    *)
(* did not disconnect, or whose callback outlived the quiesce period.      *)
(***************************************************************************)
THEOREM LateAddHasCauseCorrect == Spec => []LateAddHasCause
<1>1. LateInv => LateAddHasCause
  BY DEF LateInv
<1> QED BY <1>1, LateInvariant, PTL

-----------------------------------------------------------------------------
(* The mirror in the cloud                                                  *)

StreamType ==
  /\ accepted \in Nat /\ delivered \in Seq(Seq(Nat))
  /\ Stream!LastOf(delivered) \in Nat
  /\ sending \in {"idle", "ingested", "cloud"}
  /\ sending # "idle" => Len(delivered) >= 1

\* Without a collector there are no batches; once its Close is over it has
\* drained or given up, and only then is the forwarder closed.
StreamPhase ==
  /\ collector = "none" => /\ accepted = 0 /\ delivered = <<>>
                           /\ sending = "idle" /\ offered = {}
  /\ main \in {"config", "address", "listen", "cloud"} => ~fromStart
  /\ main \in ShuttingDown /\ fromStart => collector = "closed"
  /\ main \in AfterWait /\ collector = "closed" => timedOut \/ Drained
  /\ released => main \in AfterWait \cup Crashed

\* As long as the forwarder holds the client it was started with, every
\* batch but the one in SendBatch has been offered.
Offered ==
  fromStart /\ ~timedOut =>
    /\ ~released => pointer
    /\ offered = 1..(IF sending = "idle" THEN Len(delivered)
                     ELSE Len(delivered) - 1)

MirrorInv == StreamType /\ StreamPhase /\ Offered

LEMMA EmptyStream == Stream!LastOf(<<>>) = 0
  BY DEF Stream!LastOf

LEMMA MirrorInitial == Init => MirrorInv
  BY EmptyStream DEF Init, Stream!Init, MirrorInv, StreamType, StreamPhase,
     Offered, ShuttingDown, AfterWait

\* What a step leaves alone that concerns neither batches nor forwarder.
MirrorSame ==
  UNCHANGED <<collector, accepted, delivered, sending, timedOut, pointer,
              fromStart, released, offered>>

LEMMA MirrorSameStep ==
  ASSUME LateInv, MirrorInv, MirrorSame,
         \/ main' = main
         \/ /\ main \in {"config", "address", "listen"}
            /\ main' \in {"address", "listen", "cloud", "unwind"}
         \/ /\ main \in Starting \cup Running
            /\ main' \in Running \cup {"collector"}
         \/ main \in AfterWait /\ main' \in AfterWait
         \/ main' = "panicked"
  PROVE  MirrorInv'
<1>1. StreamType'
  BY DEF MirrorInv, MirrorSame, StreamType
<1>2. Offered'
  BY DEF MirrorInv, MirrorSame, Offered
<1>3. Drained' = Drained
  BY DEF MirrorSame, Drained
<1>4. StreamPhase'
  BY <1>3 DEF LateInv, CollectorPhase, MirrorInv, MirrorSame, StreamPhase, Starting,
              Running, ShuttingDown, AfterWait, Crashed
<1> QED BY <1>1, <1>2, <1>4 DEF MirrorInv

LEMMA MirrorStartup ==
  ASSUME LateInv, MirrorInv,
         \/ StartMetrics \/ ConfigInvalid \/ CheckAddress \/ Start \/ StartTLS
         \/ StartFails \/ LocalOnly
  PROVE  MirrorInv'
<1>1. MirrorSame
  BY DEF StartMetrics, ConfigInvalid, CheckAddress, Start, StartTLS, Serve,
         StartFails, LocalOnly, batches, stream, forwarder, MirrorSame
<1>2. \/ /\ main \in {"config", "address", "listen"}
         /\ main' \in {"address", "listen", "cloud", "unwind"}
      \/ main = "cloud" /\ main' = "collector"
  BY DEF StartMetrics, ConfigInvalid, CheckAddress, Start, StartTLS, Serve,
         StartFails, LocalOnly, Return
<1> QED BY <1>1, <1>2, MirrorSameStep DEF Starting

\* The forwarder is started when no batch has been made.
LEMMA MirrorForwarder ==
  ASSUME LateInv, MirrorInv, StartForwarder
  PROVE  MirrorInv'
<1>1. /\ main = "cloud" /\ main' = "collector"
      /\ \/ pointer' = TRUE /\ fromStart' = TRUE
         \/ UNCHANGED <<pointer, fromStart>>
      /\ UNCHANGED <<collector, accepted, delivered, sending, timedOut,
                     released, offered>>
  BY DEF StartForwarder, batches, stream
<1>2. /\ collector = "none" /\ ~fromStart /\ ~released
  BY <1>1 DEF LateInv, CollectorPhase, MirrorInv, StreamPhase, Starting,
              AfterWait, Crashed
<1>3. sending = "idle" /\ offered = 1..Len(delivered)
  <2>1. sending = "idle" /\ offered = {} /\ delivered = <<>>
    BY <1>2 DEF MirrorInv, StreamPhase
  <2>2. 1..Len(<<>>) = {}
    OBVIOUS
  <2> QED BY <2>1, <2>2
<1>4. StreamType'
  BY <1>1 DEF MirrorInv, StreamType
<1>5. StreamPhase'
  BY <1>1, <1>2 DEF MirrorInv, StreamPhase, ShuttingDown, AfterWait, Crashed
<1>6. Offered'
  BY <1>1, <1>2, <1>3 DEF Offered
<1> QED BY <1>4, <1>5, <1>6 DEF MirrorInv

\* The collector is made, and its queue closed.
LEMMA MirrorCollector ==
  ASSUME LateInv, MirrorInv, StartCollector \/ SignalCollector
  PROVE  MirrorInv'
<1>1. /\ main \in {"collector", "closeCollector"}
      /\ \/ collector' = "open" /\ main' = "mqtt"
         \/ collector' = "closed" /\ main' \in {"waitCollector", "panicked"}
      /\ UNCHANGED <<accepted, delivered, sending, timedOut, pointer, fromStart,
                     released, offered>>
  BY DEF StartCollector, SignalCollector, CloseQueue, stream, forwarder
<1>2. ~released
  BY <1>1 DEF MirrorInv, StreamPhase, AfterWait, Crashed
<1>3. StreamType' /\ Offered'
  BY <1>1 DEF MirrorInv, StreamType, Offered
<1>4. StreamPhase'
  BY <1>1, <1>2 DEF StreamPhase, ShuttingDown, AfterWait
<1> QED BY <1>3, <1>4 DEF MirrorInv

\* A second Close finds the collector as the first one left it.
LEMMA MirrorDeferredCollector ==
  ASSUME LateInv, MirrorInv, DeferredCollector
  PROVE  MirrorInv'
<1>1. /\ main = "unwind" /\ main' \in {"waitDeferred", "panicked"}
      /\ collector' = "closed"
      /\ UNCHANGED <<accepted, delivered, sending, timedOut, pointer, fromStart,
                     released, offered>>
  BY DEF DeferredCollector, Pop, CloseQueue, stream, forwarder
<1>2. StreamType' /\ Offered'
  BY <1>1 DEF MirrorInv, StreamType, Offered
<1>3. timedOut \/ Drained
  <2>1. CASE collector = "none"
    BY <2>1, EmptyStream DEF MirrorInv, StreamPhase, Drained
  <2>2. CASE collector = "closed"
    BY <1>1, <2>2 DEF MirrorInv, StreamPhase, AfterWait
  <2>3. collector \in {"none", "closed"}
    BY <1>1 DEF LateInv, CollectorPhase, ShuttingDown, AfterWait
  <2> QED BY <2>1, <2>2, <2>3
<1>4. Drained' = Drained
  BY <1>1 DEF Drained
<1>5. StreamPhase'
  BY <1>1, <1>3, <1>4 DEF StreamPhase, ShuttingDown, AfterWait, Crashed
<1> QED BY <1>2, <1>5 DEF MirrorInv

\* Close waits until the collector has drained, or gives up.
LEMMA MirrorWait ==
  ASSUME LateInv, MirrorInv, SignalWait \/ DeferredWait
  PROVE  MirrorInv'
<1>1. /\ main \in ShuttingDown /\ main' \in {"stopEntropy", "unwind"}
      /\ (Drained /\ UNCHANGED timedOut) \/ timedOut' = TRUE
      /\ UNCHANGED <<collector, accepted, delivered, sending, pointer, fromStart,
                     released, offered>>
  BY DEF SignalWait, DeferredWait, CollectorWait, stream, forwarder,
         ShuttingDown, AfterWait
<1>2. StreamType' /\ Offered'
  BY <1>1 DEF MirrorInv, StreamType, Offered
<1>3. Drained' = Drained
  BY <1>1 DEF Drained
<1>4. StreamPhase'
  BY <1>1, <1>3 DEF MirrorInv, StreamPhase, ShuttingDown, AfterWait
<1> QED BY <1>2, <1>4 DEF MirrorInv

LEMMA MirrorRelease ==
  ASSUME LateInv, MirrorInv, DeferredForwarder
  PROVE  MirrorInv'
<1>1. /\ main = "unwind" /\ main' = "closeCloud" /\ released' = TRUE
      /\ UNCHANGED <<collector, accepted, delivered, sending, timedOut,
                     fromStart, offered>>
  BY DEF DeferredForwarder, Pop, batches, stream
<1>2. StreamType' /\ Offered'
  BY <1>1 DEF MirrorInv, StreamType, Offered
<1>3. Drained' = Drained
  BY <1>1 DEF Drained
<1>4. StreamPhase'
  BY <1>1, <1>3 DEF MirrorInv, StreamPhase, ShuttingDown, AfterWait
<1> QED BY <1>2, <1>4 DEF MirrorInv

LEMMA MirrorKilled ==
  ASSUME Killed
  PROVE  MirrorInv'
<1>1. /\ main' = "killed" /\ collector' = "none" /\ accepted' = 0
      /\ delivered' = <<>> /\ sending' = "idle" /\ timedOut' = FALSE
      /\ fromStart' = FALSE /\ released' = FALSE /\ offered' = {}
  BY DEF Killed
<1> QED BY <1>1, EmptyStream DEF MirrorInv, StreamType, StreamPhase, Offered,
        ShuttingDown, AfterWait

\* Shutdown and connection steps that have nothing to do with a batch.
LEMMA MirrorOther ==
  ASSUME LateInv, MirrorInv,
         \/ Signal \/ SignalMqtt \/ SignalEntropy \/ SignalMetrics
         \/ DeferredMqtt \/ CloseCloud \/ DeferredEntropy \/ DeferredMetrics
         \/ DeferredCancel \/ Exit \/ RequestDone
  PROVE  MirrorInv'
<1>1. CASE Signal \/ SignalMqtt \/ SignalEntropy \/ SignalMetrics \/ DeferredMqtt
  <2>1. MirrorSame
    BY <1>1 DEF Signal, SignalMqtt, SignalEntropy, SignalMetrics, DeferredMqtt,
                CloseMqtt, batches, stream, forwarder, MirrorSame
  <2>2. \/ main \in Running /\ main' \in Running
        \/ main \in AfterWait /\ main' \in AfterWait
    BY <1>1 DEF Signal, SignalMqtt, SignalEntropy, SignalMetrics, DeferredMqtt,
                CloseMqtt, Pop, Running, AfterWait
  <2> QED BY <2>1, <2>2, MirrorSameStep
<1>2. CASE \/ CloseCloud \/ DeferredEntropy \/ DeferredMetrics \/ DeferredCancel
           \/ Exit \/ RequestDone
  <2>1. MirrorSame
    BY <1>2 DEF CloseCloud, DeferredEntropy, DeferredMetrics, DeferredCancel, Exit,
                RequestDone, batches, stream, forwarder, MirrorSame
  <2>2. main' = main \/ (main \in AfterWait /\ main' \in AfterWait)
    BY <1>2 DEF CloseCloud, DeferredEntropy, DeferredMetrics, DeferredCancel, Exit,
                RequestDone, Pop, AfterWait
  <2> QED BY <2>1, <2>2, MirrorSameStep
<1> QED BY <1>1, <1>2

LEMMA MirrorClients ==
  ASSUME LateInv, MirrorInv, NEW k \in Attempts,
         ConnectMQTT(k) \/ Connected(k) \/ MqttBackground(k)
  PROVE  MirrorInv'
<1>1. MirrorSame
  BY DEF ConnectMQTT, Connected, MqttBackground, gateway, batches, stream,
         forwarder, MirrorSame
<1>2. main' = main \/ (main \in Running /\ main' \in Running)
  BY DEF ConnectMQTT, Connected, MqttBackground, gateway, Running
<1> QED BY <1>1, <1>2, MirrorSameStep

\* The collector accepts an event only while the process is running.
LEMMA MirrorMessage ==
  ASSUME LateInv, ~Ended, MirrorInv, NEW k \in Attempts, NEW kind \in MessageKinds,
         OnTimestamp(k, kind) \/ OnOther(k, kind)
  PROVE  MirrorInv'
<1>1. \/ MirrorSame /\ (main' = main \/ main' = "panicked")
      \/ /\ collector = "open" /\ accepted' = accepted + 1
         /\ UNCHANGED <<main, collector, delivered, sending, timedOut, pointer,
                        fromStart, released, offered>>
  BY DEF OnTimestamp, OnOther, gateway, batches, stream, forwarder,
         Stream!Accept, MirrorSame
<1>2. CASE /\ collector = "open" /\ accepted' = accepted + 1
           /\ UNCHANGED <<main, collector, delivered, sending, timedOut, pointer,
                          fromStart, released, offered>>
  <2>1. main \notin ShuttingDown
    BY <1>2 DEF LateInv, CollectorPhase
  <2>2. StreamType'
    BY <1>2 DEF MirrorInv, StreamType
  <2>3. StreamPhase'
    BY <1>2, <2>1 DEF MirrorInv, StreamPhase, ShuttingDown
  <2>4. Offered'
    BY <1>2 DEF MirrorInv, Offered
  <2> QED BY <2>2, <2>3, <2>4 DEF MirrorInv
<1> QED BY <1>1, <1>2, MirrorSameStep

LEMMA MirrorConnector ==
  ASSUME LateInv, MirrorInv, Connector
  PROVE  MirrorInv'
<1>1. /\ pointer' = pointer \/ pointer' = TRUE
      /\ UNCHANGED <<main, collector, accepted, delivered, sending, timedOut,
                     fromStart, released, offered>>
  BY DEF Connector, ConnectorDial, ConnectorInstalls, ConnectorWaits, batches,
         stream
<1>2. StreamType' /\ Offered'
  BY <1>1 DEF MirrorInv, StreamType, Offered
<1>3. Drained' = Drained
  BY <1>1 DEF Drained
<1>4. StreamPhase'
  BY <1>1, <1>3 DEF MirrorInv, StreamPhase
<1> QED BY <1>2, <1>4 DEF MirrorInv

-----------------------------------------------------------------------------
(* The send loop                                                            *)

LEMMA MirrorIngest ==
  ASSUME LateInv, MirrorInv, Ingest
  PROVE  MirrorInv'
<1> DEFINE last == Stream!LastOf(delivered)
<1>1. PICK n \in 1..BatchSize :
        /\ last + n <= accepted
        /\ delivered' = Append(delivered, [i \in 1..n |-> last + i])
        /\ UNCHANGED accepted
  BY DEF Ingest, Stream!Deliver
<1>2. /\ sending = "idle" /\ sending' = "ingested"
      /\ UNCHANGED <<main, collector, timedOut, pointer, fromStart, released,
                     offered>>
  BY DEF Ingest, forwarder
<1>3. n \in Nat /\ n >= 1 /\ last \in Nat /\ accepted \in Nat
      /\ delivered \in Seq(Seq(Nat))
  BY <1>1, GatewayAssumption DEF MirrorInv, StreamType
<1>4. last # accepted /\ accepted # 0
  BY <1>1, <1>3
<1>5. ~Drained /\ collector # "none"
  BY <1>4 DEF Drained, MirrorInv, StreamPhase
<1> DEFINE b == [i \in 1..n |-> last + i]
<1> HIDE DEF last
<1>6. b \in Seq(Nat) /\ Len(b) = n /\ b[n] = last + n
  BY <1>3
<1> HIDE DEF b
<1>7. /\ delivered' \in Seq(Seq(Nat)) /\ Len(delivered') = Len(delivered) + 1
      /\ delivered'[Len(delivered')] = b
  BY <1>1, <1>3, <1>6 DEF b
<1>8. Stream!LastOf(delivered)' = last + n
  BY <1>6, <1>7 DEF Stream!LastOf
<1>9. StreamType'
  BY <1>1, <1>2, <1>3, <1>7, <1>8 DEF StreamType
<1>10. StreamPhase'
  BY <1>2, <1>5 DEF MirrorInv, StreamPhase
<1>11. Offered'
  <2>1. Len(delivered') - 1 = Len(delivered)
    BY <1>3, <1>7
  <2> QED BY <1>2, <2>1 DEF MirrorInv, Offered
<1> QED BY <1>9, <1>10, <1>11 DEF MirrorInv

\* With a client from the start the batch is not kept from the cloud: the
\* forwarder is closed only after the collector has drained.
LEMMA MirrorLoad ==
  ASSUME LateInv, ~Ended, MirrorInv, LoadClient
  PROVE  MirrorInv'
<1>1. /\ sending = "ingested" /\ sending' = IF pointer THEN "cloud" ELSE "idle"
      /\ UNCHANGED <<main, collector, accepted, delivered, timedOut, pointer,
                     fromStart, released, offered>>
  BY DEF LoadClient, stream, forwarder
<1>2. StreamType'
  BY <1>1 DEF MirrorInv, StreamType
<1>3. ~Drained /\ collector # "none"
  BY <1>1 DEF Drained, MirrorInv, StreamPhase
<1>4. StreamPhase'
  BY <1>1, <1>3 DEF MirrorInv, StreamPhase
<1>5. fromStart /\ ~timedOut => pointer
  <2> SUFFICES ASSUME fromStart, ~timedOut PROVE pointer
    OBVIOUS
  <2>1. ~released
    <3> SUFFICES ASSUME released PROVE FALSE
      OBVIOUS
    <3>1. main \in AfterWait
      BY DEF MirrorInv, StreamPhase, Ended, Crashed
    <3>2. collector = "closed"
      BY <3>1 DEF MirrorInv, StreamPhase, ShuttingDown
    <3> QED BY <1>3, <3>1, <3>2 DEF MirrorInv, StreamPhase
  <2> QED BY <2>1 DEF MirrorInv, Offered
<1>6. Offered'
  BY <1>1, <1>5 DEF MirrorInv, Offered
<1> QED BY <1>2, <1>4, <1>6 DEF MirrorInv

LEMMA MirrorSend ==
  ASSUME LateInv, MirrorInv, SendToCloud
  PROVE  MirrorInv'
<1>1. /\ sending = "cloud" /\ sending' = "idle"
      /\ offered' = offered \cup {Len(delivered)}
      /\ UNCHANGED <<main, collector, accepted, delivered, timedOut, pointer,
                     fromStart, released>>
  BY DEF SendToCloud, stream
<1>2. StreamType'
  BY <1>1 DEF MirrorInv, StreamType
<1>3. ~Drained /\ collector # "none"
  BY <1>1 DEF Drained, MirrorInv, StreamPhase
<1>4. StreamPhase'
  BY <1>1, <1>3 DEF MirrorInv, StreamPhase
<1>5. (1..(Len(delivered) - 1)) \cup {Len(delivered)} = 1..Len(delivered)
  <2>1. Len(delivered) \in Nat /\ Len(delivered) >= 1
    BY <1>1 DEF MirrorInv, StreamType
  <2>2. \A m \in Nat : m >= 1 => (1..(m - 1)) \cup {m} = 1..m
    OBVIOUS
  <2> QED BY <2>1, <2>2
<1>6. Offered'
  BY <1>1, <1>5 DEF MirrorInv, Offered
<1> QED BY <1>2, <1>4, <1>6 DEF MirrorInv

LEMMA MirrorStep == LateInv /\ MirrorInv /\ [Next]_vars => MirrorInv'
<1> SUFFICES ASSUME LateInv, MirrorInv, [Next]_vars PROVE MirrorInv'
  OBVIOUS
<1>1. CASE ~Ended /\ Main
  BY <1>1, MirrorStartup, MirrorForwarder, MirrorCollector, MirrorClients,
     MirrorDeferredCollector, MirrorWait, MirrorRelease, MirrorOther DEF Main
<1>2. CASE ~Ended /\ Others
  BY <1>2, MirrorKilled, MirrorOther, MirrorClients, MirrorMessage,
     MirrorConnector, MirrorIngest, MirrorLoad, MirrorSend
     DEF Others, KilledEarly, MetricsFatal, SendLoop
<1>3. CASE UNCHANGED vars
  <2>1. MirrorSame /\ main' = main
    BY <1>3 DEF vars, gateway, batches, stream, forwarder, MirrorSame
  <2> QED BY <2>1, MirrorSameStep
<1> QED BY <1>1, <1>2, <1>3 DEF Next, Terminated

LEMMA MirrorInvariant == Spec => []MirrorInv
  BY LateInvariant, MirrorInitial, MirrorStep, PTL DEF Spec

(***************************************************************************)
(* With a client connected from the start every batch has been offered to  *)
(* the cloud when the process exits, unless Close gave up waiting.         *)
(***************************************************************************)
THEOREM MirrorCompleteCorrect == Spec => []MirrorComplete
<1>1. MirrorInv => MirrorComplete
  <2> SUFFICES ASSUME MirrorInv, main = "exited", fromStart, ~timedOut
               PROVE  offered = DOMAIN delivered
    BY DEF MirrorComplete
  <2>1. main \in AfterWait /\ main \in ShuttingDown
    BY DEF AfterWait, ShuttingDown
  <2>2. sending = "idle"
    BY <2>1 DEF MirrorInv, StreamPhase, Drained
  <2>3. offered = 1..Len(delivered) /\ delivered \in Seq(Seq(Nat))
    BY <2>2 DEF MirrorInv, Offered, StreamType
  <2> QED BY <2>3
<1> QED BY <1>1, MirrorInvariant, PTL

-----------------------------------------------------------------------------
(* What the deferred calls leave open                                       *)

Calls == {"cancelRoot", "metrics", "entropy", "forwarder", "collector", "mqtt"}

\* A stack of deferred calls; cancelRoot is at its bottom and nowhere else.
IsStack(s) ==
  /\ s \in Seq(Calls)
  /\ \A i \in 1..Len(s) : s[i] = "cancelRoot" <=> i = 1

Holds(s, call) == \E i \in 1..Len(s) : s[i] = call

LEMMA PushStack ==
  ASSUME NEW s, IsStack(s), s # <<>>, NEW call \in Calls, call # "cancelRoot"
  PROVE  LET t == Append(s, call) IN
         /\ IsStack(t) /\ t # <<>> /\ Holds(t, call)
         /\ \A c : Holds(s, c) => Holds(t, c)
<1> DEFINE t == Append(s, call)
<1>1. s \in Seq(Calls) /\ Len(s) \in Nat /\ Len(s) >= 1
  BY EmptySeq, LenProperties DEF IsStack
<1>2. /\ t \in Seq(Calls) /\ Len(t) = Len(s) + 1 /\ t[Len(s) + 1] = call
      /\ \A i \in 1..Len(s) : t[i] = s[i]
  BY <1>1
<1> HIDE DEF t
<1>3. \A i \in 1..Len(t) : i \in 1..Len(s) \/ i = Len(s) + 1
  BY <1>1, <1>2
<1>4. /\ \A i \in 1..Len(s) : i \in 1..Len(t)
      /\ Len(s) + 1 \in 1..Len(t) /\ Len(s) + 1 # 1 /\ Len(t) # 0
  BY <1>1, <1>2
<1>5. IsStack(t)
  BY <1>2, <1>3, <1>4 DEF IsStack
<1>6. Holds(t, call) /\ \A c : Holds(s, c) => Holds(t, c)
  BY <1>2, <1>4 DEF Holds
<1>7. t # <<>>
  BY <1>4
<1> QED BY <1>5, <1>6, <1>7 DEF t

LEMMA PopStack ==
  ASSUME NEW s, IsStack(s), s # <<>>
  PROVE  LET t == SubSeq(s, 1, Len(s) - 1) IN
         /\ IsStack(t)
         /\ s[Len(s)] = "cancelRoot" => t = <<>>
         /\ \A c : Holds(s, c) /\ c # s[Len(s)] => Holds(t, c)
<1> DEFINE t == SubSeq(s, 1, Len(s) - 1)
<1>1. s \in Seq(Calls) /\ Len(s) \in Nat /\ Len(s) >= 1
  BY EmptySeq, LenProperties DEF IsStack
<1>2. /\ t \in Seq(Calls) /\ Len(t) = Len(s) - 1
      /\ \A i \in 1..(Len(s) - 1) : t[i] = s[i]
  <2> DEFINE m == Len(s) - 1
  <2>1. m \in Nat /\ \A i \in 1..m : s[i] \in Calls
    BY <1>1
  <2> HIDE DEF m
  <2>2. /\ SubSeq(s, 1, m) \in Seq(Calls)
        /\ Len(SubSeq(s, 1, m)) = IF 1 <= m THEN m - 1 + 1 ELSE 0
        /\ \A i \in 1..(m - 1 + 1) : SubSeq(s, 1, m)[i] = s[1 + i - 1]
    BY <2>1, SubSeqProperties
  <2>3. m - 1 + 1 = m /\ \A i \in 1..m : 1 + i - 1 = i
    BY <2>1
  <2>4. Len(SubSeq(s, 1, m)) = m /\ \A i \in 1..m : SubSeq(s, 1, m)[i] = s[i]
    BY <2>1, <2>2, <2>3
  <2> QED BY <2>2, <2>4 DEF m
<1> HIDE DEF t
<1>3. /\ \A i \in 1..Len(t) : i \in 1..Len(s) /\ t[i] = s[i]
      /\ \A i \in 1..Len(s) : i \in 1..Len(t) \/ i = Len(s)
      /\ Len(s) \in 1..Len(s)
  BY <1>1, <1>2
<1>4. IsStack(t)
  BY <1>2, <1>3 DEF IsStack
<1>5. s[Len(s)] = "cancelRoot" => t = <<>>
  <2>1. s[Len(s)] = "cancelRoot" => Len(s) = 1
    BY <1>3 DEF IsStack
  <2>2. Len(s) = 1 => Len(t) = 0
    BY <1>2
  <2>3. Len(t) = 0 => t = <<>>
    BY <1>2, EmptySeq
  <2> QED BY <2>1, <2>2, <2>3
<1>6. \A c : Holds(s, c) /\ c # s[Len(s)] => Holds(t, c)
  BY <1>3 DEF Holds
<1> QED BY <1>4, <1>5, <1>6 DEF t

StackInv ==
  /\ IsStack(defers)
  /\ main \in Starting \cup Running => defers # <<>>
  /\ main \in {"return", "exited"} => defers = <<>>

\* A server that was started is on the stack until it is stopped.
ServersDeferred ==
  /\ metrics \in {"off", "started", "stopped"}
  /\ entropy \in {"off", "plain", "tls", "stopped"}
  /\ metrics = "started" => Holds(defers, "metrics")
  /\ entropy \in {"plain", "tls"} => Holds(defers, "entropy")

\* The phases before the forwarder is made.
Early == {"config", "address", "listen", "cloud"}

\* The same for the forwarder; a client that is open is the connector's, or
\* the forwarder's, or the one its Close has taken.
CloudDeferred ==
  /\ main \in Early => cloud = "none" /\ connector = "off"
  /\ cloud = "open" \/ connector # "off" => released \/ Holds(defers, "forwarder")
  /\ cloud = "open" =>
       \/ connector = "made" \/ pointer
       \/ main \in {"closeCloud", "panicked"} /\ swapped

OpenInv == StackInv /\ ServersDeferred /\ CloudDeferred

LEMMA OpenInitial == Init => OpenInv
<1> SUFFICES ASSUME Init PROVE OpenInv
  OBVIOUS
<1>1. IsStack(<<"cancelRoot">>) /\ <<"cancelRoot">> # <<>>
  BY DEF IsStack, Calls
<1> QED BY <1>1 DEF Init, OpenInv, StackInv, ServersDeferred, CloudDeferred

\* A call is deferred, or the one on top is made.
LEMMA StackGrows ==
  ASSUME StackInv, main \in Starting \cup Running, NEW call \in Calls,
         call # "cancelRoot", Defer(call), main' \notin {"return", "exited"}
  PROVE  /\ StackInv' /\ Holds(defers', call)
         /\ \A c : Holds(defers, c) => Holds(defers', c)
<1>1. IsStack(defers) /\ defers # <<>> /\ defers' = Append(defers, call)
  BY DEF StackInv, Defer
<1>2. /\ IsStack(defers') /\ defers' # <<>> /\ Holds(defers', call)
      /\ \A c : Holds(defers, c) => Holds(defers', c)
  BY <1>1, PushStack
<1> QED BY <1>2 DEF StackInv

LEMMA StackShrinks ==
  ASSUME StackInv, NEW call, Pop(call), main' \notin Starting \cup Running,
         main' \in {"return", "exited"} => call = "cancelRoot"
  PROVE  /\ StackInv'
         /\ \A c : Holds(defers, c) /\ c # call => Holds(defers', c)
<1>1. /\ IsStack(defers) /\ defers # <<>> /\ defers[Len(defers)] = call
      /\ defers' = SubSeq(defers, 1, Len(defers) - 1)
  BY DEF StackInv, Pop
<1>2. /\ IsStack(defers')
      /\ call = "cancelRoot" => defers' = <<>>
      /\ \A c : Holds(defers, c) /\ c # call => Holds(defers', c)
  BY <1>1, PopStack
<1> QED BY <1>2 DEF StackInv

\* What a step leaves alone that neither starts nor stops anything.
Resources == <<metrics, entropy, pointer, cloud, connector, released, swapped>>

LEMMA OpenSameStep ==
  ASSUME OpenInv, UNCHANGED <<defers, Resources>>,
         \/ main' = main
         \/ main' = "panicked"
         \/ /\ main \notin {"closeCloud", "panicked"}
            /\ main' \in {"return", "exited"} => defers = <<>>
            /\ main' \in Starting \cup Running => defers # <<>>
            /\ main' \in Early => main \in Early
  PROVE  OpenInv'
<1>1. StackInv'
  BY DEF OpenInv, StackInv, Starting, Running
<1>2. ServersDeferred'
  BY DEF OpenInv, Resources, ServersDeferred
<1>3. CloudDeferred'
  BY DEF OpenInv, Resources, CloudDeferred, Early
<1> QED BY <1>1, <1>2, <1>3 DEF OpenInv

\* The same with the stack: what is on it stays there, up to one call that
\* has stopped what it is there for.
LEMMA OpenStackStep ==
  ASSUME OpenInv, StackInv', UNCHANGED Resources,
         main \notin {"closeCloud", "panicked"}, main' \notin Early,
         \A c : Holds(defers, c) /\ c \notin {"cancelRoot", "collector", "mqtt"}
                  => Holds(defers', c)
  PROVE  OpenInv'
<1>1. ServersDeferred'
  BY DEF OpenInv, Resources, ServersDeferred
<1>2. CloudDeferred'
  BY DEF OpenInv, Resources, CloudDeferred, Early
<1> QED BY <1>1, <1>2 DEF OpenInv

LEMMA OpenStartup ==
  ASSUME OpenInv,
         \/ ConfigInvalid \/ CheckAddress \/ StartFails \/ LocalOnly \/ Signal
  PROVE  OpenInv'
<1>1. UNCHANGED <<defers, Resources>>
  BY DEF ConfigInvalid, CheckAddress, StartFails, LocalOnly, Signal, servers,
         forwarder, Resources
<1>2. /\ main \in Starting \cup Running
      /\ main' \notin {"return", "exited"}
      /\ main' \in Early => main \in Early
  BY DEF ConfigInvalid, CheckAddress, StartFails, LocalOnly, Signal, Return,
         Starting, Running, Early
<1>3. main \notin {"closeCloud", "panicked"} /\ defers # <<>>
  BY <1>2 DEF OpenInv, StackInv, Starting, Running
<1> QED BY <1>1, <1>2, <1>3, OpenSameStep

LEMMA OpenServers ==
  ASSUME OpenInv, StartMetrics \/ Start \/ StartTLS
  PROVE  OpenInv'
<1>1. CASE StartMetrics
  <2>1. /\ main = "config" /\ main' = "address" /\ metrics' = "started"
        /\ Defer("metrics")
        /\ UNCHANGED <<entropy, pointer, cloud, connector, released, swapped>>
    BY <1>1 DEF StartMetrics, forwarder
  <2>2. /\ StackInv' /\ Holds(defers', "metrics")
        /\ \A c : Holds(defers, c) => Holds(defers', c)
    BY <2>1, StackGrows DEF OpenInv, Calls, Starting
  <2>3. ServersDeferred'
    BY <2>1, <2>2 DEF OpenInv, ServersDeferred
  <2>4. CloudDeferred'
    BY <2>1, <2>2 DEF OpenInv, CloudDeferred, Early
  <2> QED BY <2>2, <2>3, <2>4 DEF OpenInv
<1>2. CASE Start \/ StartTLS
  <2>1. /\ main = "listen" /\ main' = "cloud" /\ entropy' \in {"plain", "tls"}
        /\ Defer("entropy")
        /\ UNCHANGED <<metrics, pointer, cloud, connector, released, swapped>>
    BY <1>2 DEF Start, StartTLS, Serve, forwarder
  <2>2. /\ StackInv' /\ Holds(defers', "entropy")
        /\ \A c : Holds(defers, c) => Holds(defers', c)
    BY <2>1, StackGrows DEF OpenInv, Calls, Starting
  <2>3. ServersDeferred'
    BY <2>1, <2>2 DEF OpenInv, ServersDeferred
  <2>4. CloudDeferred'
    BY <2>1, <2>2 DEF OpenInv, CloudDeferred, Early
  <2> QED BY <2>2, <2>3, <2>4 DEF OpenInv
<1> QED BY <1>1, <1>2

LEMMA OpenForwarder ==
  ASSUME OpenInv, StartForwarder
  PROVE  OpenInv'
<1>1. /\ main = "cloud" /\ main' = "collector" /\ Defer("forwarder")
      /\ UNCHANGED <<metrics, entropy>>
      /\ pointer' = TRUE \/ UNCHANGED <<pointer, cloud>>
  BY DEF StartForwarder, servers
<1>2. connector' = connector \/ (connector' = "dial" /\ UNCHANGED <<pointer, cloud>>)
  BY DEF StartForwarder
<1>3. /\ StackInv' /\ Holds(defers', "forwarder")
      /\ \A c : Holds(defers, c) => Holds(defers', c)
  BY <1>1, StackGrows DEF OpenInv, Calls, Starting
<1>4. ServersDeferred'
  BY <1>1, <1>3 DEF OpenInv, ServersDeferred
<1>5. CloudDeferred'
  <2>1. cloud' = "open" => connector' = "made" \/ pointer'
    BY <1>1, <1>2 DEF OpenInv, CloudDeferred, Early
  <2> QED BY <1>1, <1>3, <2>1 DEF CloudDeferred, Early
<1> QED BY <1>3, <1>4, <1>5 DEF OpenInv

\* The collector and the client in use.
LEMMA OpenCollector ==
  ASSUME OpenInv,
         StartCollector \/ \E k \in Attempts : Connected(k)
  PROVE  OpenInv'
<1>1. PICK call \in {"collector", "mqtt"} :
        /\ main \in Starting \cup Running /\ main' \in {"mqtt", "serving"}
        /\ Defer(call) /\ UNCHANGED Resources
  BY DEF StartCollector, Connected, servers, forwarder, Resources, Starting,
         Running
<1>2. StackInv' /\ \A c : Holds(defers, c) => Holds(defers', c)
  BY <1>1, StackGrows DEF OpenInv, Calls
<1> QED BY <1>1, <1>2, OpenStackStep DEF Starting, Running, Early

LEMMA OpenConnect ==
  ASSUME OpenInv, NEW k \in Attempts,
         \/ ConnectMQTT(k) \/ MqttBackground(k)
         \/ \E kind \in MessageKinds : OnTimestamp(k, kind) \/ OnOther(k, kind)
  PROVE  OpenInv'
<1>1. UNCHANGED <<defers, Resources>> /\ main' \in {main, "panicked"}
  BY DEF ConnectMQTT, MqttBackground, OnTimestamp, OnOther, gateway, servers,
         forwarder, Resources
<1> QED BY <1>1, OpenSameStep

LEMMA OpenKilled ==
  ASSUME Killed
  PROVE  OpenInv'
<1>1. /\ main' = "killed" /\ defers' = <<>> /\ metrics' = "off"
      /\ entropy' = "off" /\ cloud' = "none" /\ connector' = "off"
  BY DEF Killed
<1>2. IsStack(<<>>)
  BY DEF IsStack
<1> QED BY <1>1, <1>2 DEF OpenInv, StackInv, ServersDeferred, CloudDeferred,
        Starting, Running, Early

\* The shutdown sequence, which defers and makes no call ...
LEMMA OpenSignal ==
  ASSUME OpenInv,
         \/ SignalMqtt \/ SignalCollector \/ SignalWait \/ SignalEntropy
         \/ SignalMetrics \/ DeferredWait \/ Exit
  PROVE  OpenInv'
<1>1. CASE SignalMqtt \/ SignalCollector \/ SignalWait \/ DeferredWait \/ Exit
  <2>1. UNCHANGED <<defers, Resources>>
    BY <1>1 DEF SignalMqtt, SignalCollector, SignalWait, DeferredWait, Exit,
                CloseMqtt, CloseQueue, CollectorWait, servers, forwarder, Resources
  <2>2. \/ main' = "panicked"
        \/ main = "return" /\ main' = "exited"
        \/ main = "closeMqtt" /\ main' = "closeCollector"
        \/ /\ main \in {"closeCollector", "waitCollector", "waitDeferred"}
           /\ main' \in {"waitCollector", "stopEntropy", "unwind"}
    BY <1>1 DEF SignalMqtt, SignalCollector, SignalWait, DeferredWait, Exit,
                CloseMqtt, CloseQueue, CollectorWait
  <2>3. /\ main = "return" => defers = <<>>
        /\ main = "closeMqtt" => defers # <<>>
    BY DEF OpenInv, StackInv, Running
  <2> QED BY <2>1, <2>2, <2>3, OpenSameStep DEF Starting, Running, Early
<1>2. CASE SignalEntropy \/ SignalMetrics
  <2>1. /\ main \in {"stopEntropy", "stopMetrics"}
        /\ main' \in {"stopMetrics", "unwind"}
        /\ \/ metrics' = metrics /\ entropy' = "stopped"
           \/ metrics' = "stopped" /\ entropy' = entropy
        /\ UNCHANGED <<defers, pointer, cloud, connector, released, swapped>>
    BY <1>2 DEF SignalEntropy, SignalMetrics, forwarder
  <2>2. StackInv'
    BY <2>1 DEF OpenInv, StackInv, Starting, Running
  <2>3. ServersDeferred'
    BY <2>1 DEF OpenInv, ServersDeferred
  <2>4. CloudDeferred'
    BY <2>1 DEF OpenInv, CloudDeferred, Early
  <2> QED BY <2>2, <2>3, <2>4 DEF OpenInv
<1> QED BY <1>1, <1>2

\* ... and the deferred calls: those with nothing to stop,
LEMMA OpenUnwind ==
  ASSUME OpenInv, DeferredMqtt \/ DeferredCollector \/ DeferredCancel
  PROVE  OpenInv'
<1>1. PICK call \in {"cancelRoot", "collector", "mqtt"} :
        /\ main = "unwind" /\ Pop(call) /\ UNCHANGED Resources
        /\ main' \in {"unwind", "waitDeferred", "panicked", "return"}
        /\ main' = "return" => call = "cancelRoot"
  BY DEF DeferredMqtt, DeferredCollector, DeferredCancel, CloseMqtt, CloseQueue,
         Pop, servers, forwarder, Resources
<1>2. /\ StackInv'
      /\ \A c : Holds(defers, c) /\ c # call => Holds(defers', c)
  BY <1>1, StackShrinks DEF OpenInv, Starting, Running
<1> QED BY <1>1, <1>2, OpenStackStep DEF Early

\* the servers,
LEMMA OpenStop ==
  ASSUME OpenInv, DeferredEntropy \/ DeferredMetrics
  PROVE  OpenInv'
<1>1. PICK call \in {"metrics", "entropy"} :
        /\ main = "unwind" /\ main' = main /\ Pop(call)
        /\ \/ call = "entropy" /\ entropy' = "stopped" /\ metrics' = metrics
           \/ call = "metrics" /\ metrics' = "stopped" /\ entropy' = entropy
        /\ UNCHANGED <<pointer, cloud, connector, released, swapped>>
  BY DEF DeferredEntropy, DeferredMetrics, Pop, forwarder
<1>2. /\ StackInv'
      /\ \A c : Holds(defers, c) /\ c # call => Holds(defers', c)
  BY <1>1, StackShrinks DEF OpenInv, Starting, Running
<1>3. ServersDeferred'
  BY <1>1, <1>2 DEF OpenInv, ServersDeferred
<1>4. CloudDeferred'
  BY <1>1, <1>2 DEF OpenInv, CloudDeferred, Early
<1> QED BY <1>2, <1>3, <1>4 DEF OpenInv

\* and the forwarder.
LEMMA OpenRelease ==
  ASSUME OpenInv, DeferredForwarder \/ CloseCloud
  PROVE  OpenInv'
<1>1. CASE DeferredForwarder
  <2>1. /\ main = "unwind" /\ main' = "closeCloud" /\ Pop("forwarder")
        /\ released' = TRUE /\ swapped' = pointer
        /\ UNCHANGED <<metrics, entropy, cloud, connector>>
    BY <1>1 DEF DeferredForwarder, Pop, servers
  <2>2. /\ StackInv'
        /\ \A c : Holds(defers, c) /\ c # "forwarder" => Holds(defers', c)
    BY <2>1, StackShrinks DEF OpenInv, Starting, Running
  <2>3. ServersDeferred'
    BY <2>1, <2>2 DEF OpenInv, ServersDeferred
  <2>4. CloudDeferred'
    BY <2>1 DEF OpenInv, CloudDeferred, Early
  <2> QED BY <2>2, <2>3, <2>4 DEF OpenInv
<1>2. CASE CloseCloud
  <2>1. /\ main = "closeCloud" /\ main' = "unwind"
        /\ cloud' = IF swapped THEN "closed" ELSE cloud
        /\ UNCHANGED <<defers, metrics, entropy, pointer, connector, released,
                       swapped>>
    BY <1>2 DEF CloseCloud, servers
  <2>2. StackInv'
    BY <2>1 DEF OpenInv, StackInv, Starting, Running
  <2>3. ServersDeferred'
    BY <2>1 DEF OpenInv, ServersDeferred
  <2>4. CloudDeferred'
    BY <2>1 DEF OpenInv, CloudDeferred, Early
  <2> QED BY <2>2, <2>3, <2>4 DEF OpenInv
<1> QED BY <1>1, <1>2

\* A client the connector makes is installed, or still to be installed.
LEMMA OpenConnector ==
  ASSUME OpenInv, Connector
  PROVE  OpenInv'
<1>1. /\ connector # "off"
      /\ \/ connector' = "made" /\ pointer' = pointer
         \/ pointer' = TRUE /\ cloud' = cloud
         \/ connector # "made" /\ UNCHANGED <<cloud, pointer>>
      /\ UNCHANGED <<main, defers, metrics, entropy, released, swapped>>
  BY DEF Connector, ConnectorDial, ConnectorInstalls, ConnectorWaits, servers
<1>2. StackInv' /\ ServersDeferred'
  BY <1>1 DEF OpenInv, StackInv, ServersDeferred
<1>3. CloudDeferred'
  BY <1>1 DEF OpenInv, CloudDeferred, Early
<1> QED BY <1>2, <1>3 DEF OpenInv

LEMMA OpenStep == OpenInv /\ [Next]_vars => OpenInv'
<1> SUFFICES ASSUME OpenInv, [Next]_vars PROVE OpenInv'
  OBVIOUS
<1>1. CASE ~Ended /\ Main
  BY <1>1, OpenStartup, OpenServers, OpenForwarder, OpenCollector, OpenConnect,
     OpenSignal, OpenUnwind, OpenStop, OpenRelease DEF Main
<1>2. CASE RequestDone \/ SendLoop \/ UNCHANGED vars
  <2>1. UNCHANGED <<defers, Resources>> /\ main' = main
    BY <1>2 DEF RequestDone, SendLoop, Ingest, LoadClient, SendToCloud, vars,
                gateway, servers, forwarder, Resources
  <2> QED BY <2>1, OpenSameStep
<1>3. CASE ~Ended /\ Others
  BY <1>2, <1>3, OpenKilled, OpenStartup, OpenConnect, OpenConnector
     DEF Others, KilledEarly, MetricsFatal
<1> QED BY <1>1, <1>2, <1>3 DEF Next, Terminated

LEMMA OpenInvariant == Spec => []OpenInv
  BY OpenInitial, OpenStep, PTL DEF Spec

(***************************************************************************)
(* Whichever way run returns, it leaves no server running and no gRPC      *)
(* client open, except one the connector finishes after the forwarder's    *)
(* Close.                                                                  *)
(***************************************************************************)
THEOREM NothingLeftOpenCorrect == Spec => []NothingLeftOpen
<1>1. OpenInv => NothingLeftOpen
  <2> SUFFICES ASSUME OpenInv, main = "exited"
               PROVE  /\ entropy \in {"off", "stopped"}
                      /\ metrics \in {"off", "stopped"}
                      /\ cloud = "open" => released /\ (pointer \/ connector = "made")
    BY DEF NothingLeftOpen
  <2>1. \A c : ~Holds(defers, c)
    BY DEF OpenInv, StackInv, Holds
  <2> QED BY <2>1 DEF OpenInv, ServersDeferred, CloudDeferred
<1> QED BY <1>1, OpenInvariant, PTL
=============================================================================
