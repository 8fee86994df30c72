---------------------------- MODULE TokenBucket ----------------------------
(***************************************************************************)
(* The rate limiter of internal/entropy/http_entropy_server.go.            *)
(*                                                                         *)
(* Time is a number of clock ticks and the bucket's level a number of      *)
(* units, One units making a token, so that a tick refills a whole number  *)
(* of units: the rate is Refill * TicksPerSecond / One tokens per second.  *)
(* Floating-point rounding is not modelled.                                *)
(***************************************************************************)
EXTENDS Integers, Sequences

CONSTANTS
  One,             \* units per token
  Refill,          \* units refilled per tick
  TicksPerSecond,
  Burst,           \* rateLimitBurst, in tokens
  RetryAfterSec,   \* s.retryAfterSeconds
  MaxTime          \* bound: ticks in a behaviour

\* NewHTTPServer passes an integral rate of at least one token per second and
\* an integral burst of at least one token.
ASSUME BucketAssumption ==
  /\ One \in Nat \ {0} /\ Refill \in Nat \ {0} /\ TicksPerSecond \in Nat \ {0}
  /\ Burst \in Nat \ {0} /\ RetryAfterSec \in Nat \ {0}
  /\ Refill * TicksPerSecond >= One
  /\ MaxTime \in Nat

VARIABLES
  tokens,      \* b.tokens, in units
  lastRefill,  \* b.lastRefill
  now,         \* b.clock.Now(), monotonic
  admitted,    \* history: when each admitted request was admitted
  retryAt      \* history: the time until which the first client rejected
               \* since the last admission was told to wait, 0 if none was

vars == <<tokens, lastRefill, now, admitted, retryAt>>

Capacity == Burst * One
MinInt(a, b) == IF a < b THEN a ELSE b
MaxInt(a, b) == IF a > b THEN a ELSE b

Init ==
  /\ tokens = Capacity
  /\ lastRefill = 0
  /\ now = 0
  /\ admitted = <<>>
  /\ retryAt = 0

Tick ==
  /\ now < MaxTime
  /\ now' = now + 1
  /\ UNCHANGED <<tokens, lastRefill, admitted, retryAt>>

-----------------------------------------------------------------------------
(* Allow *)

\* Mutant: the bucket has no capacity.
RefilledUncapped == tokens + (now - lastRefill) * Refill
\* Mutant: only whole tokens are refilled, fractions are lost.
RefilledWhole ==
  MinInt(Capacity, tokens + (((now - lastRefill) * Refill) \div One) * One)
\* The level after the refill; nothing is added when no time has passed.
Refilled == MinInt(Capacity, tokens + (now - lastRefill) * Refill)

Ceil(a, b) == (a + b - 1) \div b

\* How long a rejected client has to wait, in ticks: at least a second.
WaitTicks == MaxInt(TicksPerSecond, (One - Refilled) \div Refill)

\* setRetryAfter: whole seconds, at least the configured number of them.
RetryAfter(wait) == MaxInt(RetryAfterSec, Ceil(wait, TicksPerSecond))

AllowAdmits ==
  /\ Refilled >= One
  /\ tokens' = Refilled - One
  /\ lastRefill' = now
  /\ admitted' = Append(admitted, now)
  /\ retryAt' = 0
  /\ UNCHANGED now

AllowRejects ==
  /\ Refilled < One
  /\ tokens' = Refilled
  /\ lastRefill' = now
  /\ retryAt' = IF retryAt # 0 THEN retryAt
                ELSE now + RetryAfter(WaitTicks) * TicksPerSecond
  /\ UNCHANGED <<now, admitted>>

Next == Tick \/ AllowAdmits \/ AllowRejects

Spec == Init /\ [][Next]_vars

-----------------------------------------------------------------------------
(* Properties *)

\* Types of the variables; the bucket is never over full and never in debt.
TypeOK ==
  /\ tokens \in 0..Capacity
  /\ now \in Nat
  /\ lastRefill \in 0..now
  /\ admitted \in Seq(Nat)
  /\ retryAt \in Nat

\* Rate conformance: the requests admitted between any two moments of a
\* behaviour are at most the burst plus what the rate refills in between,
\* however admissions, rejections and idle periods alternate.
RateConformance ==
  \A i, j \in 1..Len(admitted) :
    i <= j => (j - i + 1) * One
                <= Capacity + Refill * (admitted[j] - admitted[i])

\* A client that waits as long as Retry-After told it is admitted, provided
\* no other request was admitted meanwhile: the requests rejected in between,
\* each of which refills a fraction of a token, cannot delay it.
RetryAfterHonoured ==
  retryAt # 0 /\ now >= retryAt => Refilled >= One
=============================================================================
