# A TLA+ verification of entropy-tdc-gateway

The gateway receives timestamps of radioactive decays over MQTT, groups them in
batches, whitens the batches into a pool of random bytes served over HTTP, and
optionally mirrors the batches to a cloud service over a gRPC stream. This
directory holds TLA+ models of its core, TLC configurations that check them on
small instances, and TLAPS proofs for every value of the constants.

## 1. Inventory

| part | state | operations | hard behaviour | what makes it correct |
|---|---|---|---|---|
| batch collector (`internal/collector`) | event buffer, sequence number, bounded send queue, wait groups | `Add`, `flush`, `autoFlush`, `Close`, `runSendLoop` | three kinds of goroutines flush, the channel send blocks under the mutex, `Close` closes the channel | each event sent exactly once and in order, no send on the closed channel, `Close` delivers and returns |
| health tests (`internal/validation/continuous_health_tests.go`) | repetition counter, window counters | `Test`, `TestBlock`, `Reset` | boundaries of cutoff and window, blocks cut anywhere | the verdict is the one SP 800-90B defines on the stream |
| whitened pool (`internal/entropy/pool.go`) | raw event history, whitened bytes, the two tests | `AddBatch`, `ExtractEntropy`, reads | trimming and extraction at the same end, a rejected block stays in the pool | no byte leaves twice, released bytes satisfy the health tests |
| rate limiter (`http_entropy_server.go`) | tokens, time of last refill | `Allow`, `setRetryAfter` | fractional refill, rounding of the waiting time | admitted rate bounded, `Retry-After` honoured |
| entropy HTTP server (`http_entropy_server.go`) | the requests in flight | `/entropy/binary`, `/health`, `/ready`, start, shutdown | a handler looks at limiter and pool in separate critical sections | clients share no byte, output rate bounded, refusals have a cause |
| gRPC client (`internal/grpc`) | connection, stream, flags, timers, receivers | `SendBatch`, `receiveAcks`, rotation, `reconnect`, `connect`, `Close` | most fields are written outside the lock; old receivers outlive their stream | one live connection, one reconnect loop, recovery, no leak |
| MQTT client and handler (`internal/mqtt`) | Paho client, first-subscription result, status gauge | `Connect`, `handleConnect`, `OnMessage`, `Close` | time-outs racing late connects, failed resubscription, handlers out of order | every valid event added once, a deaf client can be seen |
| gateway process (`cmd/entropy-tdc-gateway`) | forwarder's client pointer, set of running parts | `run`, `waitForShutdown`, `cloudAwareForwarder`, connector | shutdown order, connector finishing after the close | producers stop before the collector closes; nothing left open |
| whitening, quick tests, estimators (`whitening.go`, `quick_tests.go`, `min_entropy.go`) | none | pure functions | bit counts, byte boundaries, clamped counters | equal to their definition |
| configuration (`internal/config`) | none | `Load`: the `apply*EnvVars` functions and `validate` | three ways to clean a value, fall-backs per field, checks that depend on each other | what loads is usable and does not expose more than asked |
| metrics (`internal/metrics`) | gauges and counters of a library, an HTTP server | `Start`, `StartTLS`, `Shutdown`, setters | a failed start ends the process; gauges written by many goroutines | partly modelled (section 7) |
| clock, generated code, API description | - | - | - | not modelled (section 7) |

Interaction: Paho's callback calls `RxHandler.OnMessage`, which calls
`BatchCollector.Add`. The collector's send loop calls `SendBatch` of the
forwarder, which feeds `WhitenedPool.AddBatch` and then `Client.SendBatch`. HTTP
handlers call the limiter and the pool. The parts share no memory except through
these calls; every shared object has its own mutex. `run` reads the configuration
once, at the start, and hands each part its section.

## 2. Modules and how they correspond to the code

* **BatchStream** is the abstract specification of the collector: events are
  accepted, and delivered as a stream of non-empty batches, in order.
* **BatchCollector** (`collector.go`). One action per critical section of each
  goroutine. Nothing under `bc.mu` blocks except the channel send at the end of
  `flush`, so `mu` is either free or held by the goroutine waiting in that send;
  `EnqueueBatch` completes it. `SendOnClosed` is Go's panic. `CloseTimeout` is
  the five-second timer, which may fire at any time once `Close` waits.
  `LateAdds` says whether callers may call `Add` after a `Close` has begun;
  `SeqMax` stands for 2^32 - 1. **MCBatchCollector** names the instances.
  `BatchStream` is implemented under the mapping `accepted <- added`,
  `delivered <-` the batches handed to `SendBatch`.
* **HealthTests** has both tests as operators on records with the fields of the
  Go structs. `TestBlock` is a recursive function over the block.
* **Validation** (`quick_tests.go`, `min_entropy.go`) and **Whitening**
  (`whitening.go`, and the serialisation in `AddBatch`) have the pure functions as
  operators. A float is an exact fraction, a p-value the statistic inside its
  `erfc(sqrt(.))`, an estimate of h bits the fraction 2^h. The iteration order of a Go map
  is a set of possible results. Words and bit counters have their width as a constant.
* **HealthMonitor** calls all of these in any order: it feeds the two tests arbitrary
  blocks and remembers the stream, and remembers the last call of a pure function with
  its result.
* **WhitenedPool** (`pool.go`). Each method runs under the pool's lock and is one
  action; `ExtractEntropy` is split by outcome. A byte is a pair of identity
  (its position in everything ever whitened) and value. The digest of a batch is
  an arbitrary sequence of `DigestSize` values; every batch is large enough for
  one, since an event has eight bytes.
* **TokenBucket** (`tokenBucket`). Time in ticks, tokens in units such that a
  tick refills a whole number of units; the arithmetic is exact. The bucket is
  given the integral rate and burst `NewHTTPServer` passes, at least one each.
* **EntropyServer** composes WhitenedPool (`INSTANCE`) and TokenBucket (`EXTENDS`). A
  handler is split where it enters the limiter and the pool, so other requests,
  ingestion and time run in between.
* **GrpcClient** (`client.go`). `connect` is split at each write of a shared
  field, because it holds no lock; `SendBatch` holds `c.mu` during `Send`.
  A receiver re-reads `c.stream` for each acknowledgement, so it can move to a
  newer stream. A connection and its stream have one number; numbers are reused
  when nothing refers to them, so behaviours of any length are covered. The
  outcomes of the transport (`Fails`, `StreamBreaks`, failed dials) are external.
* **MqttClient** (`mqtt/client.go`, `setupMQTT` and the retry loop of `main.go`).
  Every attempt makes a client of its own, and `link` follows Paho's status of each.
  `caller` is `Connect` and the code around it, `subscriber` the `handleConnect`
  goroutines, `initial` the result channel guarded by the `sync.Once`. Paho and the
  broker are external: Paho goes on connecting after a time-out, and reconnects,
  until `Disconnect`; the broker keeps the session of an absent client or loses it.
  `missed` remembers that `Close` found the connection not open, or a callback
  running. `Disposition` is `RxHandler.OnMessage`.
* **MqttStatus** EXTENDS MqttClient with the gauge `mqtt_connection_status` and the
  handlers that write it. Each action of MqttClient is taken together with its write;
  the connection-lost handler runs in a goroutine that Paho starts, hence later than
  the loss and perhaps later than the reconnection. `stale` remembers that the last write
  was about an earlier connection or by a client that was given up.
* **Config** (`config.go`): an environment is a function from names to raw values, a raw
  value its text and what surrounds it (nothing, white space, an inline comment), because
  `os.Getenv`, `TrimSpace` and `cleanEnvValue` differ exactly there. `Configuration(env)`
  is what `Load` builds and `Loads(env)` says that it returns it. Texts stand for
  themselves; small tables give numbers, durations and secret files.
* **Gateway** (`main.go`) EXTENDS MqttClient and Config and uses BatchStream for the
  collector. It starts in an arbitrary environment of `Environments`, which **MCGateway**
  enumerates: one family for each question (exposure, protection of each server, cloud,
  sizes), some six thousand in all. `env` is forgotten after the last step that reads it.
  `main` is the main goroutine, `defers` the stack of deferred calls that `Pop` takes
  from; start-up can fail at every step that can fail in `run`. `pointer` and `cloud`
  are the forwarder's atomic pointer and the gRPC client, `connector` the background
  goroutine. `SendBatch` is split at the ingestion, the load of the pointer and the
  call of the client. `killed` is an end without deferred calls: `log.Fatalf` of the
  metrics goroutine, or a signal before `signal.Notify`. `CheckAddress` applies the two
  checks of the entropy address to every kind of host.

The modules `..._proofs` hold the theorems, each about the module it is named after;
`HealthTests_proofs` has the lemmas on `TestBlock` that the pool and the monitor share, and
the limiter's theorems are in `EntropyServer_proofs`. Definitions introduced by a comment "Mutant:" are plausible bugs; each
checked property is refuted when one of them takes the place of the definition
that follows it.

## 3. Runs

| run | module | checks | bounds |
|---|---|---|---|
| collector_concurrent | MCBatchCollector | `TypeOK`, `InOrder`, `PendingAccounting`, `ImplementsStream` | 2 adders, 2 closers, batches of 4, queue of 2, 9 events, numbers modulo 3 |
| collector_shutdown | MCBatchCollector | `NoPanic`, `CloseDeliversAll`, `EventuallyDelivered`, `CloseReturns` | 1 adder, 2 closers, batches of 2, queue of 1, 6 events, no `Add` after `Close`, fair |
| collector_stalled_sender | MCBatchCollector | `CloseReturns` is violated when `SendBatch` need not return | the same with 1 closer |
| health | HealthMonitor | `RctDetectsRuns`, `AptJudgesWindows`, `StatisticsMatchDefinition`, `ConditioningMatchesDefinition` | 2 values, streams of 8, blocks of 3, cutoffs 0-4, windows 0-4; blocks and batches as in `health.cfg` |
| pool | WhitenedPool | `NoByteReused`, `RawHistoryNewest`, `NoStuckRunBetweenFaults`, `RctCountsReleased`, `AptWindowsPass` | pool of 3, digest of 2, cutoffs 3, window 4, 8 bytes |
| pool_stuck_run | WhitenedPool | `StuckRunNeverReleased` is violated | 8 bytes |
| server | EntropyServer | `RateConformance`, `RetryAfterHonoured`, `ClientsShareNothing`, `EntropyRateBounded`, `RefusalHasCause` | 2 clients, pool of 3 with reserve 2, burst 1, two thirds of a token per tick, 3 ticks, 4 bytes |
| grpc_close | GrpcClient | `OneLiveConnection`, `SingleFlight`, `NoLeakAfterClose` | 3 connection numbers, 2 loop slots, 1 waiting reconnect, 1 fault |
| grpc_recovery | GrpcClient | `ReconnectScheduled`, `Recovers`, `CloseReturns` | 2 connection numbers, 1 loop slot, 1 fault, fair |
| grpc_lost_recovery | GrpcClient | `RecoveryUnderWay` is violated without rotation | 3 connection numbers, 1 fault |
| mqtt | MqttStatus | `OneLiveClient`, `ConnectResultHonest`, `ClosedIsQuiet`, `DeafIsVisible`, `ConnectReturns` | 2 clients alive at once, 2 topics, 2 handlers each, 1 lost connection |
| gateway | MCGateway | `LateAddHasCause`, `MirrorComplete`, `NothingLeftOpen`, `ConfigUsable`, `ShutdownCompletes`, `ExposureSafe`, `ClientAuthHonoured` | 1 MQTT client, 1 lost connection, 2 events in batches of at most 2, the environments of MCGateway |

Why the bounds are enough. Collector: the queue fills, a sender blocks with the
mutex while both closers and the timer wait, a third batch exists beside one in
`SendBatch`, and the sequence number wraps. Health: streams hold two complete
windows and runs beyond every cutoff, and blocks straddle windows; the cutoff and
window 0 exercise the defaults; the blocks analysed include every short one over the
extreme and the alternating bytes and long ones at the limits of the two bit tests, and
the counter width is small enough for a batch to exceed it. Pool: trimming cuts through a digest, both tests
fail, and a request empties the pool. Server: the refill per tick is a fraction
of a token, so fractions are carried from one call of the limiter to the next, and the
promised second passes (the proofs cover every rate and time); the
second request is admitted only after a refill, while the first may still be
between its look at the pool and its extraction; a third byte of one value or a
biased window makes a health test fail. gRPC: with
three numbers the old, the current and the next connection coexist; two loop
slots let a second reconnect loop appear if the flag did not prevent it; numbers
are recycled, so rotations are unbounded. Faults are bounded by one because each
further one repeats the same kind of restart. MQTT: an abandoned client and its
successor coexist, and after a lost connection two handlers of one client overlap;
clients that are down are recycled, so retries are unbounded. Gateway: one MQTT client
is enough to be reconnecting, or in a callback, when it is closed; two events make a
batch in the sender and one behind it. The environments vary together the variables
that are read together, each unset, blank, plain, padded, commented and, where it has a
range, below, in and above it; variables of different families meet only in conjuncts of
`validate`.

### What the violations say

* **pool_stuck_run.** A block that fails the repetition count test stays at the
  head of the pool while the test is reset, so the run it detected is released by
  the next requests (`docs/architecture.md:87` says bytes are served only if the
  tests pass). `NoStuckRunBetweenFaults` is what does hold.
* **grpc_lost_recovery.** `reconnect` drops a request while another loop is about
  to return. When the old receiver's failure report arrives there, the client
  stays disconnected; only rotation, if configured, brings it back
  (`Recovers`).
* **collector_stalled_sender.** `flush` sends on the bounded queue with `bc.mu` held. When
  the sender does not return (`stream.Send` blocks under flow control for as long as the
  cloud does not read, and its context is cancelled only by the forwarder's `Close`, which
  comes later) and the queue is full, `Close` waits for the mutex for ever, before the
  time-out that `collector.go:177-178` promises is started. `CloseReturns` holds when every
  `SendBatch` returns.

Further differences between text and code, seen while modelling and not given a
run of their own:

* "All methods are safe for concurrent use" (`collector.go:40`), yet an `Add` that
  completes a batch after `Close` has closed the queue panics. `NoPanic` holds only if
  no `Add` follows `Close` (`~LateAdds`). The gateway means to ensure that by closing
  the MQTT client first, and `LateAddHasCause` says when it does not: `Close` does
  nothing while Paho is reconnecting (`mqtt/client.go:240`), so a signal during an
  outage of the broker leaves a client that comes back and adds to the closed
  collector; so does a client abandoned at the connection time-out.
Smaller ones: an extraction may take the pool below its reserve
(`docs/architecture.md:154`, `pool_test.go:225`); `X-Entropy-Available` is read
before the extraction, not after it (`api/openapi.yaml:57`); `/health` combines
two reads; `grpc.Client.Close` does not wait for reconnect goroutines
(`client.go:292`) and leaves `IsConnected` true; rotation closes the old connection with
unacknowledged batches.

Met while modelling the configuration, the statistics and the gauge: the shared `TLS_*`
files are used as they are while the files of a component are stripped of comments, so a
commented `TLS_CERT_FILE` passes `validate` and fails at start-up; a client
authentication mode with a comment is refused, not stripped. `METRICS_ENABLED` and the
settings of the gRPC server are read and validated and then ignored.
`ENTROPY_READY_MIN_BYTES` above the difference of the pool's bounds is accepted and `/ready`
never answers 200. The p-value of the frequency test is computed from half the usual
statistic (`quick_tests.go:107-112`). `toBitCount` clamps at 536870911 bytes, whose bit
count would still fit. `batches_sent_total` also counts batches that were only added to the
local pool. The gauge can be wrong for good after a late connection-lost handler or a
write of an abandoned client: the two exceptions `DeafIsVisible` names.

## 4. Fairness

A runnable goroutine runs (weak fairness on its steps). Go's mutex hands over to a
waiter that has starved for a millisecond, and `select` chooses among ready cases
at random: steps that need a lock or compete in a `select` get strong fairness.
Timers fire. No caller is obliged to call `Add`, `SendBatch` or `Close`, and no
server to acknowledge. `StalledSpec` of
BatchCollector stops there; `FairSpec` adds that `SendBatch` returns (in the gateway it
feeds the pool and hands the batch to a stream, which is true of a cloud that reads). In
GrpcClient a `Send` in progress returns and a dial succeeds in
the end, because faults are bounded. `grpc_recovery` also assumes `LongInterval`:
the rotation interval outlasts the few instructions between arming the timer and
the return of `reconnect`. Without it the timer's request is dropped like the
others; the safety run does not assume it. MqttStatus assumes only that the main
goroutine runs and its timers fire; Paho and the broker need do nothing. Gateway adds
that `SendBatch` returns and that a request in flight is answered (the server's write
time-out sees to it); the connector may fail for ever.

## 5. Proofs

| theorem | says, for every value of the constants |
|---|---|
| `TypeCorrect`, `PendingCorrect` | types, capacities and the wait group's value, in every reachable state |
| `InOrderCorrect` | every accepted event is in the pipeline or in the buffer, once and in order, with consecutive numbers |
| `NoPanicCorrect`, `CloseDeliversAllCorrect` | if no `Add` follows `Close`: no panic, and a successful `Close` has delivered everything |
| `Refinement` | BatchCollector implements BatchStream |
| `RctDetectsRunsCorrect`, `AptJudgesWindowsCorrect` | the two tests give the verdict defined on the stream, however it is cut into blocks |
| `StatisticsCorrect` | the statistics of a block are those of its bits and bytes; the estimates agree |
| `ConditioningCorrect` | the conditioning loses one byte before SHA-256, debiases to at most half and counts without wrapping |
| `NoByteReusedCorrect`, `RawHistoryCorrect`, `StorageTypeCorrect` | the pool is a window on the newest bytes, nothing leaves twice, the bounds hold |
| `NoStuckRunCorrect`, `RctCountsCorrect`, `AptWindowsCorrect` | what the tests guarantee of the bytes that leave the pool, between two failures |
| `BucketTypeCorrect`, `RateConformanceCorrect`, `RetryAfterCorrect` | the limiter's promises for every rate, burst and tick |
| `ServerImplementsParts`, `HealthyBytesServed` | the server implements the pool and the limiter, and so inherits what they guarantee |
| `ClientsShareNothingCorrect`, `EntropyRateBoundedCorrect`, `RefusalHasCauseCorrect` | any number of concurrent clients: no shared byte, bounded output, refusals with a cause |
| `OneLiveConnectionCorrect`, `SingleFlightCorrect`, `NoLeakAfterCloseCorrect` | the gRPC client's connections and its reconnect loop |
| `ReconnectScheduledCorrect` | with rotation, a reconnect is always pending, running or scheduled |
| `StatusImplementsMqtt` | MqttStatus implements MqttClient |
| `OneLiveClientCorrect`, `ConnectResultHonestCorrect`, `ClosedIsQuietCorrect`, `DeafIsVisibleCorrect` | the MQTT clients and their gauge, for any number of attempts, topics and handlers |
| `ConfigUsableCorrect`, `ExposureSafeCorrect`, `ClientAuthHonouredCorrect` | what a configuration lets the servers do, for every environment and not only those enumerated |
| `LateAddHasCauseCorrect`, `MirrorCompleteCorrect`, `NothingLeftOpenCorrect` | the order of the shutdown |

Assumptions: only the named `ASSUME`s on the constants (positive sizes, disjoint
sets of goroutines, environments whose values are raw values), and `~LateAdds` where
stated. The tables of Config (which texts are numbers, words in capitals, durations,
files) are part of the model and not assumptions; a text outside them is no number and
has no capitals.

The arguments.

*Collector.* Capacity of the channel depends on who holds the mutex, and
the wait group can only be bounded by counting, so `TypeInv` is `TypeOK` together
with `PendingAccounting`. `InOrder` over `Pipeline == sent \o sendQueue
\o outgoing` is nearly inductive, since a request moves along the pipeline without
changing it; `OrderInv` adds that no batch exceeds `MaxSize`. A closer
past its flush has left the buffer empty and no other goroutine holds the mutex,
because flushing an empty buffer sends nothing; `ShutdownInv` says so for each
phase of each closer and is where `~LateAdds` is used. In the refinement `Receive` is
the only step that delivers, and `InOrder` gives the batch's contents.

*Health tests.* What `TestBlock` leaves in the records is stated of the stream: the
counter is the length of the run the stream ends with, the window counters count the
samples of the unfinished window. A block of any length is handled by its first
counterexample: the set of prefixes for which the statement fails has a least element
(`WFMin` of the library), which is neither the empty prefix nor one sample longer than a
good one.

*Statistics and conditioning.* `StatisticsMatchDefinition` and
`ConditioningMatchesDefinition` speak of the last call alone, so they are inductive as they
stand; the work is in what one call computes. Each loop of the source is a recursive
function; `LoopExists` says that such a function has the values its body gives, and an
invariant of the loop is carried from position to position: the ones so far, the
changes of bit so far (`RunsAre`), the values seen and the first repeated byte
(`CollisionAt`), the longest run and the run at the end (`RctAt`), the bytes of the events
so far (`RawBytesAre`), the sum of a word's bytes (`WordGivesBack`). The complement of a
block has the remaining ones and the same changes. Folding twice with one byte is the
identity (`XorCancels`), hence the fold can be undone (`UnfoldFolded`). The prover knows nothing of
powers with a symbolic exponent: `PowerStep` derives 2^(n+1) = 2 * 2^n from the number of
subsets of a finite set, which the library has. The proof needs words of two bytes or
more, now an assumption of Whitening: the fold of a single byte is empty, so with one-byte
words a batch of one event would give no digest. The source has eight.

*Pool.* `NoByteReused` is stated by position, as the identity of the i-th stored byte, which
makes it inductive together with the types (`StorageInv`). `HealthInv` relates the two
tests to the bytes released since the last failure: `rctMark` and `aptMark` say where the
tests were reset, and a block that passes extends the stream by exactly what was released;
a block that the second test rejects has already been counted by the first, which is the
exception the properties name.

*Server.* `RateConformance` follows
from `Balance`, which relates the level of the bucket to each admission so far;
Retry-After is at least a second, and a second refills at least one token; `RetryInv`
carries the promise across the rejections in between, which move `lastRefill` without
losing a fraction of a token. Every step of a handler is a step of the pool, of the
limiter or of neither, so `StorageInv` and `BucketInv` carry over (`ServerImplementsParts`).
`HandlerInv` adds what a handler between two critical sections may rely on: its admission
is paid for and not yet used (`Paid`), and the bytes it has seen are still there unless
another client took them or a test failed (`StillThere`).

*gRPC client.* `ClientInv` follows the one goroutine past the flag through `connect`: it
enters with nothing connected, so a dial never makes a second live connection
(`Connecting`), and after `Close` only the connection it is working on can be live
(`Closing`). `Scheduled` adds why the loop may end: it has armed a timer.

*MQTT.* `MqttInv`: one attempt is active, a client given up is disconnected or missed, and
a handler at its n-th topic has subscribed those before it, unless the broker forgot the
session. `StatusInv` adds which connection each handler that can still write the gauge is
about.

*Configuration.* `ConfigInv`: from `Load` to the last step that reads it the configuration
is one that `validate` accepted, and the server is started only with an address that was
accepted. The rest are lemmas on Config: a flag, a mode and an environment name are read
alike by the code that enforces them and by the property (`FlagOn`, `ProductionKnown`,
`ClientsVerified`).

*Shutdown.* `LateInv`: a client given up or closed is quiet or missed, and from the closing of
the collector on there are no others; with it, `NoPanic` is known to depend on `missed`
clients alone. `MirrorInv`: every batch but the one in `SendBatch` was offered; a
forwarder that is closed implies a collector that drained or gave up. `OpenInv`: what was
started is on the stack of deferred calls until it is stopped, and `cancelRoot` is at the
bottom, so the stack is empty when `run` has returned.

Each inductive invariant was run through TLC as an invariant of the model before it was proved.

## 6. Only model-checked

Liveness (`EventuallyDelivered`, `CloseReturns`, `Recovers`, `ConnectReturns`,
`ShutdownCompletes`), since the prover does not handle fairness. Every other property of a
passing run is also a theorem. The tables of Config are finite; a text they do not have
stands for all others.

## 7. Not modelled

SHA-256 (only the size of its result), and rounding of floating point in the limiter and in
the statistics. Metrics other than the MQTT gauge: they are registered with a library and
nothing in the program reads them; the gauge of the gRPC client is written next to
`connected`, which GrpcClient has. The check of the metrics server's address is one of the
causes of `MetricsFatal`, which may happen whenever the goroutine runs. The clock is a counter or a
timer that may fire. TLS handshakes, certificates and OAuth2 tokens are external; a file
exists when its path is plain. Generated protocol buffers, the conversion of events to them and the OpenAPI endpoint have no state and no decision in them. The Go memory model's weaker
outcomes for the unlocked writes of `connect`: each write is one step. In GrpcClient the
misuse of a wait group whose `Add` races `Wait` has no outcome of its own, and `Send`
returns; the sender that stalls is in BatchCollector. Two MQTT clients with one fixed
`MQTT_CLIENT_ID` evict each other at the broker; MqttClient has clients with generated
identifiers.

## 8. Plan

Modelled in this order: collector, pool and health tests, limiter, HTTP handlers, gRPC
client, MQTT client, gateway process, statistics and conditioning, configuration, status
gauge. The safety properties of every component are proved. Left: the composition of the
collector with the gateway, that BatchCollector, called as Gateway calls it, satisfies
`~LateAdds` when no client is `missed`. Now this is read off `LateAddHasCauseCorrect` and
`NoPanicCorrect` together.
