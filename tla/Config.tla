------------------------------- MODULE Config -------------------------------
(***************************************************************************)
(* The configuration of internal/config/config.go: what Load makes of the  *)
(* process environment and which environments it refuses.                  *)
(*                                                                         *)
(* An environment maps the names of the variables that are set to their    *)
(* raw values; the variable PREFIX_NAME is the pair <<"PREFIX", "NAME">>.  *)
(* A raw value is its text together with what surrounds it: nothing,       *)
(* white space, or an inline comment ("text # comment").  The source has   *)
(* three ways of reading one and they clean it differently, so the form is *)
(* kept in the configuration.  An address is the class of its host (Gateway *)
(* has them).  The order of the checks only chooses the message and is     *)
(* left out.                                                               *)
(***************************************************************************)
EXTENDS Integers

Raw(text, form) == [text |-> text, form |-> form]
Str(text) == Raw(text, "plain")

\* The empty string, which no reader tells from a variable that is not set.
Empty == Str("")

Getenv(env, key) == IF key \in DOMAIN env THEN env[key] ELSE Empty

TrimSpace(v) == IF v.form = "padded" THEN Str(v.text) ELSE v

cleanEnvValue(v) == Str(v.text)

\* if v := os.Getenv(key); v != "" { field = v }
Override(env, key, field) ==
  IF Getenv(env, key) = Empty THEN field ELSE Getenv(env, key)

GetEnvDefault(env, key, fallback) ==
  LET v == cleanEnvValue(Getenv(env, key)) IN IF v = Empty THEN fallback ELSE v

-----------------------------------------------------------------------------
(* Numbers, durations and words.  A text stands for itself; the tables give *)
(* the meaning of those used, any other is no number, duration or word.     *)

Numeral ==
  [t \in {"-1", "0", "1", "2", "600", "1839", "1841", "20000", "184001"} |->
     CASE t = "-1" -> -1 [] t = "0" -> 0 [] t = "1" -> 1 [] t = "2" -> 2
       [] t = "600" -> 600 [] t = "1839" -> 1839 [] t = "1841" -> 1841
       [] t = "20000" -> 20000 [] t = "184001" -> 184001]

\* strconv.Atoi accepts neither white space nor a comment.
IsNumber(v) == v.form = "plain" /\ v.text \in DOMAIN Numeral
Atoi(v) == Numeral[v.text]

ParsePositiveEnvInt(env, key, fallback) ==
  LET v == cleanEnvValue(Getenv(env, key)) IN
  IF IsNumber(v) /\ Atoi(v) > 0 THEN Atoi(v) ELSE fallback

\* In seconds.  "30" is missing its unit, which the source insists on.
Duration ==
  [t \in {"0s", "30s", "-5s"} |->
     CASE t = "0s" -> 0 [] t = "30s" -> 30 [] t = "-5s" -> -5]

ParseDurationEnv(env, key, fallback) ==
  LET t == cleanEnvValue(Getenv(env, key)).text IN
  IF t \in DOMAIN Duration /\ Duration[t] >= 0 THEN Duration[t] ELSE fallback

InLower ==
  [t \in {"TRUE", "PROD", "Require"} |->
     CASE t = "TRUE" -> "true" [] t = "PROD" -> "prod"
       [] t = "Require" -> "require"]
ToLower(v) == IF v.text \in DOMAIN InLower
              THEN [v EXCEPT !.text = InLower[v.text]] ELSE v

ParseBoolEnv(env, key, fallback) ==
  LET t == ToLower(cleanEnvValue(Getenv(env, key))).text IN
  \/ t \in {"1", "true", "yes", "y", "on"}
  \/ fallback /\ t \notin {"0", "false", "no", "n", "off"}

\* The secret files that exist, with what they hold once trimmed.  The path
\* is used as it is, white space and comment included.
SecretFile ==
  [t \in {"/run/secret", "/run/blank"} |->
     CASE t = "/run/secret" -> "s3cret" [] t = "/run/blank" -> ""]
CanRead(path) == path.form = "plain" /\ path.text \in DOMAIN SecretFile

\* A secret comes from its variable, and from its file if one is named; a
\* file that cannot be read makes Load fail.
SecretLoads(env, file) ==
  Getenv(env, file) # Empty => CanRead(Getenv(env, file))
Secret(env, key, file) ==
  IF Getenv(env, file) # Empty /\ CanRead(Getenv(env, file))
  THEN Str(SecretFile[Getenv(env, file).text])
  ELSE Getenv(env, key)

-----------------------------------------------------------------------------
(* The apply*EnvVars functions, each over its part of the defaults *)

QosLoads(env) ==
  LET v == Getenv(env, <<"MQTT", "QOS">>) IN
  v # Empty => IsNumber(cleanEnvValue(v))

Clamp(n, low, high) == IF n < low THEN low ELSE IF n > high THEN high ELSE n

\* Topics are split at commas, and one may hold a # of its own: a list of
\* nothing but commas and white space leaves the default.
applyMQTTEnvVars(env) ==
  LET v == Getenv(env, <<"MQTT", "TOPICS">>)
      q == cleanEnvValue(Getenv(env, <<"MQTT", "QOS">>))
  IN [broker   |-> Override(env, <<"MQTT", "BROKER_URL">>,
                            Str("tcp://127.0.0.1:1883")),
      clientID |-> Getenv(env, <<"MQTT", "CLIENT_ID">>),
      topics   |-> IF v.text \in {"", ","} /\ v.form # "commented"
                   THEN Str("timestamps/channel/#") ELSE TrimSpace(v),
      qos      |-> IF IsNumber(q) THEN Clamp(Atoi(q), 0, 1) ELSE 0,
      username |-> Getenv(env, <<"MQTT", "USERNAME">>),
      password |-> Secret(env, <<"MQTT", "PASSWORD">>,
                          <<"MQTT", "PASSWORD_FILE">>),
      caFile   |-> Getenv(env, <<"MQTT", "TLS_CA_FILE">>)]

\* The mode is trimmed and put in lower case, a comment stays.
ClientAuth(env, key) ==
  IF Getenv(env, key) = Empty THEN Str("none")
  ELSE ToLower(TrimSpace(Getenv(env, key)))

\* A file of the component, or else the shared TLS_* file as it is.
TLSFile(env, component, file) ==
  GetEnvDefault(env, <<component, file>>, Getenv(env, <<"", file>>))

\* The TLS fields of the entropy and of the metrics server.
ServerTLS(env, component) ==
  [enabled |-> ParseBoolEnv(env, <<component, "TLS_ENABLED">>, FALSE),
   cert    |-> TLSFile(env, component, "TLS_CERT_FILE"),
   key     |-> TLSFile(env, component, "TLS_KEY_FILE"),
   ca      |-> TLSFile(env, component, "TLS_CA_FILE"),
   auth    |-> ClientAuth(env, <<component, "TLS_CLIENT_AUTH">>)]

\* Mutant: a maximum below the minimum is kept.
PoolMaxAsGiven(min, max) == max
PoolMax(min, max) == IF max < min THEN min ELSE max

applyEntropyPoolEnvVars(env) ==
  LET Number(name, fallback) ==
        ParsePositiveEnvInt(env, <<"ENTROPY", name>>, fallback)
      min == Number("POOL_MIN_BYTES", 512)
  IN [min         |-> min,
      max         |-> PoolMax(min, Number("POOL_MAX_BYTES", 16384)),
      ready       |-> Number("READY_MIN_BYTES", 1024),
      addr        |-> GetEnvDefault(env, <<"ENTROPY", "HTTP_ADDR">>,
                                    Str("loopback")),
      retryAfter  |-> Number("RETRY_AFTER_SEC", 1),
      allowPublic |-> ParseBoolEnv(env, <<"ALLOW", "PUBLIC_HTTP">>, FALSE),
      rps         |-> Number("RATE_LIMIT_RPS", 25),
      burst       |-> Number("RATE_LIMIT_BURST", 25),
      tls         |-> ServerTLS(env, "ENTROPY")]

minBatchSize == 1840
maxBatchSize == 184000

\* COLLECTOR_BATCH_SIZE is trimmed; with a comment it is no number, and the
\* default is the minimum.
applyCollectorEnvVars(env) ==
  LET v == TrimSpace(Getenv(env, <<"COLLECTOR", "BATCH_SIZE">>)) IN
  [batchSize |-> IF IsNumber(v) THEN Clamp(Atoi(v), minBatchSize, maxBatchSize)
                 ELSE minBatchSize]

applyMetricsEnvVars(env) ==
  [port    |-> ParsePositiveEnvInt(env, <<"METRICS", "PORT">>, 8000),
   bind    |-> GetEnvDefault(env, <<"METRICS", "BIND">>, Str("loopback")),
   enabled |-> ParseBoolEnv(env, <<"METRICS", "ENABLED">>, TRUE),
   tls     |-> ServerTLS(env, "METRICS")]

applyEntropyEnvVars(env) ==
  [bind |-> GetEnvDefault(env, <<"ENTROPY", "BIND">>, Str("loopback"))]

\* The gRPC server's files have no shared fallback and are not cleaned.
applyGRPCEnvVars(env) ==
  [enabled |-> ParseBoolEnv(env, <<"GRPC", "ENABLED">>, FALSE),
   bind    |-> GetEnvDefault(env, <<"GRPC", "BIND">>, Str("loopback")),
   tls     |-> [enabled |-> ParseBoolEnv(env, <<"GRPC", "TLS_ENABLED">>, FALSE),
                cert    |-> Getenv(env, <<"GRPC", "TLS_CERT_FILE">>),
                key     |-> Getenv(env, <<"GRPC", "TLS_KEY_FILE">>),
                ca      |-> Getenv(env, <<"GRPC", "TLS_CA_FILE">>),
                auth    |-> ClientAuth(env, <<"GRPC", "TLS_CLIENT_AUTH">>)]]

applyCloudForwarderEnvVars(env) ==
  LET key(name) == <<"CLOUD_FORWARDER", name>> IN
  [enabled        |-> ParseBoolEnv(env, key("ENABLED"), FALSE),
   addr           |-> GetEnvDefault(env, key("SERVER_ADDR"), Empty),
   tls            |-> ParseBoolEnv(env, key("TLS_ENABLED"), FALSE),
   ca             |-> TLSFile(env, "CLOUD_FORWARDER", "TLS_CA_FILE"),
   cert           |-> TLSFile(env, "CLOUD_FORWARDER", "TLS_CERT_FILE"),
   key            |-> TLSFile(env, "CLOUD_FORWARDER", "TLS_KEY_FILE"),
   serverName     |-> Getenv(env, key("TLS_SERVER_NAME")),
   connectTimeout |-> ParsePositiveEnvInt(env, key("CONNECT_TIMEOUT"), 10),
   reconnectDelay |-> ParsePositiveEnvInt(env, key("RECONNECT_DELAY"), 5),
   maxReconnect   |-> ParsePositiveEnvInt(env, key("MAX_RECONNECT"), 60),
   rotate         |-> ParseDurationEnv(env, key("STREAM_ROTATE_INTERVAL"), 0),
   oauth          |-> ParseBoolEnv(env, key("OAUTH2_ENABLED"), FALSE),
   tokenURL       |-> Getenv(env, key("OAUTH2_TOKEN_URL")),
   clientID       |-> Getenv(env, key("OAUTH2_CLIENT_ID")),
   secret         |-> Secret(env, key("OAUTH2_CLIENT_SECRET"),
                             key("OAUTH2_CLIENT_SECRET_FILE")),
   scopes         |-> Getenv(env, key("OAUTH2_SCOPES"))]

\* ENVIRONMENT is trimmed and put in lower case; "invalid" is an error.
applyEnvironmentEnvVars(env) ==
  LET v == Getenv(env, <<"", "ENVIRONMENT">>)
      e == ToLower(TrimSpace(v))
  IN IF v = Empty \/ e \in {Str("dev"), Str("development")} THEN "dev"
     ELSE IF e \in {Str("prod"), Str("production")} THEN "prod"
     ELSE "invalid"

-----------------------------------------------------------------------------
(* Load *)

Configuration(env) ==
  [mqtt        |-> applyMQTTEnvVars(env),
   pool        |-> applyEntropyPoolEnvVars(env),
   collector   |-> applyCollectorEnvVars(env),
   metrics     |-> applyMetricsEnvVars(env),
   entropy     |-> applyEntropyEnvVars(env),
   grpc        |-> applyGRPCEnvVars(env),
   cloud       |-> applyCloudForwarderEnvVars(env),
   environment |-> applyEnvironmentEnvVars(env)]

IsProduction(c) == c.environment = "prod"

\* Mutant: an unknown client authentication mode is accepted.
ValidServerTLSAnyMode(tls) ==
  tls.enabled =>
    /\ tls.cert # Empty /\ tls.key # Empty
    /\ tls.auth = Str("require") => tls.ca # Empty
ValidServerTLS(tls) ==
  tls.enabled =>
    /\ tls.cert # Empty /\ tls.key # Empty
    /\ tls.auth \in {Str("none"), Str("request"), Str("require")}
    /\ tls.auth = Str("require") => tls.ca # Empty

\* Mutant: the check is made in development instead of production.
PublicAllowedSwapped(c) ==
  c.pool.allowPublic /\ ~c.pool.tls.enabled => IsProduction(c)
\* Public plain HTTP is refused in production, and only warned of otherwise.
PublicAllowed(c) ==
  c.pool.allowPublic /\ ~c.pool.tls.enabled => ~IsProduction(c)

ValidCloudForwarder(cloud) ==
  cloud.enabled =>
    /\ cloud.addr # Empty
    /\ cloud.tls => /\ cloud.ca # Empty
                    /\ (cloud.cert # Empty) <=> (cloud.key # Empty)
    /\ cloud.oauth => Empty \notin {cloud.tokenURL, cloud.clientID, cloud.secret}

validate(c) ==
  /\ c.mqtt.broker # Empty /\ c.mqtt.topics # Empty
  /\ c.environment \in {"dev", "prod"}
  /\ ValidServerTLS(c.pool.tls)
  /\ PublicAllowed(c)
  /\ ValidServerTLS(c.metrics.tls)
  /\ c.grpc.enabled => ValidServerTLS(c.grpc.tls)
  /\ ValidCloudForwarder(c.cloud)

\* Load returns a configuration, Configuration(env), rather than an error.
Loads(env) ==
  /\ QosLoads(env)
  /\ SecretLoads(env, <<"MQTT", "PASSWORD_FILE">>)
  /\ SecretLoads(env, <<"CLOUD_FORWARDER", "OAUTH2_CLIENT_SECRET_FILE">>)
  /\ validate(Configuration(env))
=============================================================================
