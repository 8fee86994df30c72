----------------------------- MODULE MCGateway -----------------------------
(***************************************************************************)
(* The environments Gateway is checked with.  Each set varies the variables*)
(* of one question and leaves the others unset: who can reach the entropy  *)
(* server, how each server is protected, how the cloud is reached, and     *)
(* which sizes are used.                                                   *)
(***************************************************************************)
EXTENDS Gateway, TLC

CommentOnly == Raw("", "commented")
Blank == Raw("", "padded")
File == Str("/etc/file")
Commented(text) == Raw(text, "commented")

Exposure ==
  { (<<"ENTROPY", "HTTP_ADDR">> :> addr) @@ (<<"ALLOW", "PUBLIC_HTTP">> :> public)
    @@ (<<"", "ENVIRONMENT">> :> kind) @@ (<<"ENTROPY", "TLS_ENABLED">> :> tls)
    @@ (<<"", "TLS_CERT_FILE">> :> cert) @@ (<<"", "TLS_KEY_FILE">> :> File) :
      addr \in {Str(a) : a \in Addrs} \cup {Empty, Commented("publicIP")},
      public \in {Empty, Str("true"), Commented("TRUE"), Str("maybe")},
      kind \in {Empty, Blank, Str("dev"), Str("production"),
                Raw("PROD", "padded"), Commented("prod")},
      tls \in {Empty, Str("true")},
      cert \in {Empty, File, CommentOnly} }

\* component is one of the three that have TLS settings of a server.
Protection(component) ==
  { (<<component, "TLS_ENABLED">> :> tls) @@ (<<component, "TLS_CERT_FILE">> :> own)
    @@ (<<"", "TLS_CERT_FILE">> :> shared) @@ (<<component, "TLS_KEY_FILE">> :> key)
    @@ (<<component, "TLS_CA_FILE">> :> ca) @@ (<<"", "TLS_CA_FILE">> :> sharedCA)
    @@ (<<component, "TLS_CLIENT_AUTH">> :> auth)
    @@ (<<"GRPC", "ENABLED">> :> Str("true")) :
      tls \in {Empty, Commented("TRUE")},
      own \in {Empty, Commented("/etc/file"), CommentOnly},
      shared \in {Empty, File},
      key \in {Empty, File},
      ca \in {Empty, File},
      sharedCA \in {Empty, Blank},
      auth \in {Empty, Str("require"), Raw("Require", "padded"),
                Commented("require"), Str("request"), Str("other")} }

CloudKey(name) == <<"CLOUD_FORWARDER", name>>

Cloud ==
  { (CloudKey("ENABLED") :> on) @@ (CloudKey("SERVER_ADDR") :> addr)
    @@ (CloudKey("TLS_ENABLED") :> tls) @@ (<<"", "TLS_CA_FILE">> :> ca)
    @@ (CloudKey("TLS_CERT_FILE") :> cert) @@ (CloudKey("TLS_KEY_FILE") :> key)
    @@ (CloudKey("OAUTH2_ENABLED") :> oauth) @@ (CloudKey("OAUTH2_TOKEN_URL") :> url)
    @@ (CloudKey("OAUTH2_CLIENT_ID") :> Str("id"))
    @@ (CloudKey("OAUTH2_CLIENT_SECRET") :> secret)
    @@ (CloudKey("OAUTH2_CLIENT_SECRET_FILE") :> file) :
      on \in {Empty, Str("yes")}, addr \in {Empty, Str("host")},
      tls \in {Empty, Str("1")}, ca \in {Empty, File},
      cert \in {Empty, File}, key \in {Empty, File},
      oauth \in {Empty, Str("on")}, url \in {Empty, Str("url")},
      secret \in {Empty, Str("s")},
      file \in {Empty, Blank, Str("/run/secret"), Str("/run/blank"),
                Commented("/run/secret")} }

PoolSizes ==
  { (<<"ENTROPY", "POOL_MIN_BYTES">> :> min) @@ (<<"ENTROPY", "POOL_MAX_BYTES">> :> max)
    @@ (<<"ENTROPY", "RATE_LIMIT_RPS">> :> rps) :
      min \in {Empty, Str("0"), Commented("600"), Str("20000")},
      max \in {Empty, Str("-1"), Str("1"), Str("many")},
      rps \in {Empty, Str("0"), Str("1")} }

BatchSizes ==
  { (<<"COLLECTOR", "BATCH_SIZE">> :> batch) @@ (<<"MQTT", "QOS">> :> qos)
    @@ (<<"MQTT", "TOPICS">> :> topics)
    @@ (CloudKey("STREAM_ROTATE_INTERVAL") :> rotate) :
      batch \in {Empty, Blank, Str("-1"), Raw("1839", "padded"), Str("1841"),
                 Commented("1841"), Str("184001")},
      qos \in {Empty, Blank, Str("-1"), Commented("2"), Str("one")},
      topics \in {Empty, Str(","), Str("a,b")},
      rotate \in {Str("30"), Str("30s"), Str("-5s")} }

MCEnvironments ==
  Exposure \cup Cloud \cup PoolSizes \cup BatchSizes
  \cup Protection("ENTROPY") \cup Protection("METRICS") \cup Protection("GRPC")
=============================================================================
