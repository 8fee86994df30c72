--------------------------- MODULE EntropyServer ---------------------------
(***************************************************************************)
(* The HTTP handlers of internal/entropy/http_entropy_server.go over the   *)
(* rate limiter (TokenBucket) and the pool (WhitenedPool) they share.      *)
(*                                                                         *)
(* net/http runs every request in a goroutine of its own; a client here is *)
(* such a goroutine, reused for the next request.  A handler takes the     *)
(* limiter's and the pool's lock once per call, so it is split at those    *)
(* calls and other requests, ingestion and time run in between.  The pool  *)
(* and the limiter always exist: Start refuses a nil pool.                 *)
(***************************************************************************)
EXTENDS TokenBucket

CONSTANTS
  Clients,         \* concurrent request goroutines
  MaxRequest,      \* maxRequestBytes (4096)
  ReadyThreshold,  \* s.readyThreshold
  MinSize, MaxSize, DefaultMin, Multiplier, MaxRawEvents, RctCutoff,
  AptCutoff, AptWindow, DigestSize, Byte, BatchSizes, Requests, MaxProduced

VARIABLES
  rawEvents, whitened, rct, apt, rawTotal, produced, released,
  rctMark, aptMark, aptRejected,
  pc,        \* pc[c]: the next shared step of the handler
  want,      \* want[c]: local variable requestBytes
  seen,      \* seen[c]: local variable available, or PoolStatus in /health
  answer,    \* the answer a handler gave last
  lookedAt,  \* history: lookedAt[c]: Len(released) when c looked at the pool
  received   \* history: received[c]: the bytes c was given, by identity

pool    == <<rawEvents, whitened, rct, apt, rawTotal, produced, released,
             rctMark, aptMark, aptRejected>>
limiter == vars
handler == <<pc, want, seen, answer, lookedAt, received>>
server  == <<pool, limiter, handler>>

Pool == INSTANCE WhitenedPool

ASSUME ServerAssumption ==
  /\ MaxRequest \in Nat \ {0} /\ ReadyThreshold \in Int
  /\ Pool!PoolAssumption

\* An answer: the endpoint, the status, the bytes requested, the bytes told
\* to be available and, for /health, to be in the pool.  History: whether a
\* health test failed, and whether others were served since the handler
\* looked at the pool.
Reply(endpoint, status, n, available, bytes) ==
  [endpoint |-> endpoint, status |-> status, want |-> n,
   available |-> available, whitened |-> bytes,
   faulty |-> FALSE, overtaken |-> FALSE]

ServerInit ==
  /\ Pool!Init
  /\ Init
  /\ pc = [c \in Clients |-> "idle"]
  /\ want = [c \in Clients |-> 0]
  /\ seen = [c \in Clients |-> 0]
  /\ lookedAt = [c \in Clients |-> 0]
  /\ answer = Reply("none", 0, 0, 0, 0)
  /\ received = [c \in Clients |-> <<>>]

Goto(c, label) == pc' = [pc EXCEPT ![c] = label]

\* The handler answers and returns.
Respond(c, reply) ==
  /\ answer' = reply
  /\ want' = [want EXCEPT ![c] = 0]
  /\ seen' = [seen EXCEPT ![c] = 0]
  /\ lookedAt' = [lookedAt EXCEPT ![c] = 0]
  /\ Goto(c, "idle")

-----------------------------------------------------------------------------
(* handleEntropy for n bytes.  A value that is no number is answered like a *)
(* number out of range; no parameter means defaultRequestBytes, a member of *)
(* Requests like the others.                                                *)

InRange(n) == n >= 1 /\ n <= MaxRequest

BadRequest(c, n) ==
  /\ pc[c] = "idle"
  /\ ~InRange(n)
  /\ Respond(c, Reply("badRequest", 400, n, 0, 0))
  /\ UNCHANGED <<pool, limiter, received>>

RateLimited(c, n) ==
  /\ pc[c] = "idle"
  /\ InRange(n)
  /\ AllowRejects
  /\ Respond(c, Reply("rateLimited", 503, n, 0, 0))
  /\ UNCHANGED <<pool, received>>

\* Mutant: the handler goes on when the limiter has rejected the request.
AdmitIgnoringLimiter(c, n) ==
  /\ pc[c] = "idle"
  /\ InRange(n)
  /\ AllowAdmits \/ AllowRejects
  /\ want' = [want EXCEPT ![c] = n]
  /\ Goto(c, "read")
  /\ UNCHANGED <<pool, seen, answer, lookedAt, received>>
Admit(c, n) ==
  /\ pc[c] = "idle"
  /\ InRange(n)
  /\ AllowAdmits
  /\ want' = [want EXCEPT ![c] = n]
  /\ Goto(c, "read")
  /\ UNCHANGED <<pool, seen, answer, lookedAt, received>>

ReadAvailable(c) ==
  /\ pc[c] = "read"
  /\ seen' = [seen EXCEPT ![c] = Pool!AvailableEntropy]
  /\ lookedAt' = [lookedAt EXCEPT ![c] = Len(released)]
  /\ Goto(c, "extract")
  /\ UNCHANGED <<pool, limiter, want, answer, received>>

Ids(s) == [i \in 1..Len(s) |-> s[i].id]

ServeEntropy(c) ==
  /\ pc[c] = "extract"
  /\ Pool!ExtractOk(want[c])
  /\ received' = [received EXCEPT ![c] = @ \o Ids(Pool!Output(want[c]))]
  /\ Respond(c, Reply("entropy", 200, want[c], seen[c], 0))
  /\ UNCHANGED limiter

\* ExtractEntropy returns false, for whatever reason.
Insufficient(c) ==
  /\ pc[c] = "extract"
  /\ \/ Pool!ExtractRefused(want[c])
     \/ Pool!ExtractRctFail(want[c])
     \/ Pool!ExtractAptFail(want[c])
  /\ Respond(c, [Reply("entropy", 503, want[c], seen[c], 0) EXCEPT
                   !.faulty = Pool!Extractable(want[c]),
                   !.overtaken = Len(released) > lookedAt[c]])
  /\ UNCHANGED <<limiter, received>>

HandleEntropy(c) ==
  \/ \E n \in Requests : BadRequest(c, n) \/ RateLimited(c, n) \/ Admit(c, n)
  \/ ReadAvailable(c) \/ ServeEntropy(c) \/ Insufficient(c)

-----------------------------------------------------------------------------
(* handleHealth and handleReady *)

HealthReadsStatus(c) ==
  /\ pc[c] = "idle"
  /\ seen' = [seen EXCEPT ![c] = Pool!PoolStatus[2]]
  /\ Goto(c, "health")
  /\ UNCHANGED <<pool, limiter, want, answer, lookedAt, received>>

HealthReports(c) ==
  /\ pc[c] = "health"
  /\ Respond(c, Reply("health", 200, 0, Pool!AvailableEntropy, seen[c]))
  /\ UNCHANGED <<pool, limiter, received>>

\* NewHTTPServer replaces a negative threshold.
Threshold == IF ReadyThreshold < 0 THEN 0 ELSE ReadyThreshold

HandleReady(c) ==
  /\ pc[c] = "idle"
  /\ LET available == Pool!AvailableEntropy IN
       Respond(c, Reply("ready", IF available < Threshold THEN 503 ELSE 200,
                        0, available, 0))
  /\ UNCHANGED <<pool, limiter, received>>

-----------------------------------------------------------------------------

\* The collector's send loop feeds the pool.
Ingest ==
  /\ \E n \in BatchSizes : Pool!AddBatch(n)
  /\ UNCHANGED <<limiter, handler>>

TimePasses == Tick /\ UNCHANGED <<pool, handler>>

ServerNext ==
  \/ \E c \in Clients : \/ HandleEntropy(c) \/ HealthReadsStatus(c)
                        \/ HealthReports(c) \/ HandleReady(c)
  \/ Ingest
  \/ TimePasses

ServerSpec == ServerInit /\ [][ServerNext]_server

-----------------------------------------------------------------------------
(* Properties *)

\* Two clients are never given the same byte, and no client one byte twice,
\* although every handler looks at the pool twice and ingestion trims it in
\* between.
ClientsShareNothing ==
  \A c, d \in Clients :
    \A i \in 1..Len(received[c]), j \in 1..Len(received[d]) :
      received[c][i] = received[d][j] => c = d /\ i = j

\* The entropy that leaves the gateway is bounded by the limiter and by the
\* largest request, whatever number of requests is in flight: every block
\* was paid for with a token.
EntropyRateBounded ==
  Len(released) * One <= MaxRequest * (Capacity + Refill * now)

\* An answer 503 that quotes enough available bytes has a cause the client
\* cannot see: a health test failed, or another request was served after the
\* handler looked.  Ingestion and trimming in between are no cause.
RefusalHasCause ==
  answer.endpoint = "entropy" /\ answer.status = 503
    /\ answer.available >= answer.want
    => answer.faulty \/ answer.overtaken
=============================================================================
