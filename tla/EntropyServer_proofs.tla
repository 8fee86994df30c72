------------------------ MODULE EntropyServer_proofs ------------------------
(***************************************************************************)
(* Proofs about the rate limiter, for every rate, burst and tick length,   *)
(* and about the HTTP server, for every number of clients, pool and limit. *)
(***************************************************************************)
EXTENDS EntropyServer, SequenceTheorems, FiniteSetTheorems, TLAPS

-----------------------------------------------------------------------------
(* The rate limiter *)

LEMMA CapacityType == Capacity \in Nat /\ Capacity >= One
<1>1. \A a, b \in Nat \ {0} : a * b \in Nat /\ a * b >= b
  OBVIOUS
<1> QED BY <1>1, BucketAssumption DEF Capacity

\* Multiplication by the refill rate: what the arithmetic below needs of it.
LEMMA RefillTimes ==
  /\ \A d \in Int : Refill * d \in Int /\ d * Refill = Refill * d
  /\ \A d \in Nat : Refill * d \in Nat
  /\ \A d, e \in Int : Refill * (d + e) = Refill * d + Refill * e
  /\ \A d, e \in Int : d <= e => Refill * d <= Refill * e
<1>0. Refill \in Nat
  BY BucketAssumption
<1>1. \A r \in Nat : \A d \in Int : r * d \in Int /\ d * r = r * d
  OBVIOUS
<1>2. \A r \in Nat : \A d \in Nat : r * d \in Nat
  OBVIOUS
<1>3. \A r \in Nat : \A d, e \in Int : r * (d + e) = r * d + r * e
  OBVIOUS
<1>4. \A r \in Nat : \A d, e \in Int : d <= e => r * d <= r * e
  OBVIOUS
<1> QED BY <1>0, <1>1, <1>2, <1>3, <1>4

LEMMA OneTimes ==
  /\ \A k \in Int : k * One \in Int /\ (k + 1) * One = k * One + One
  /\ 1 * One = One
<1>0. One \in Nat
  BY BucketAssumption
<1>1. \A r \in Nat : \A k \in Int : k * r \in Int /\ (k + 1) * r = k * r + r
  OBVIOUS
<1> QED BY <1>0, <1>1

\* The level after a refill.
LEMMA RefilledBounds ==
  ASSUME TypeOK
  PROVE  /\ Refilled \in 0..Capacity
         /\ Refilled <= tokens + Refill * (now - lastRefill)
<1>1. /\ tokens \in 0..Capacity /\ now - lastRefill \in Nat
      /\ now - lastRefill \in Int
  BY CapacityType DEF TypeOK
<1>2. /\ (now - lastRefill) * Refill = Refill * (now - lastRefill)
      /\ Refill * (now - lastRefill) \in Nat
  BY <1>1, RefillTimes
<1> QED BY <1>1, <1>2, CapacityType DEF Refilled, MinInt

\* A rejected client is told to wait for a second at least.
LEMMA RetryAfterSecond ==
  ASSUME TypeOK
  PROVE  /\ RetryAfter(WaitTicks) * TicksPerSecond \in Nat
         /\ RetryAfter(WaitTicks) * TicksPerSecond >= TicksPerSecond
<1>1. Refilled \in Int /\ One \in Int /\ Refill \in Nat \ {0}
  BY RefilledBounds, CapacityType, BucketAssumption
<1>2. (One - Refilled) \div Refill \in Int
  BY <1>1
<1>3. WaitTicks \in Int
  BY <1>2, BucketAssumption DEF WaitTicks, MaxInt
<1>4. Ceil(WaitTicks, TicksPerSecond) \in Int
  BY <1>3, BucketAssumption DEF Ceil
<1>5. RetryAfter(WaitTicks) \in Nat \ {0}
  BY <1>4, BucketAssumption DEF RetryAfter, MaxInt
<1>6. \A a, b \in Nat \ {0} : a * b \in Nat /\ a * b >= b
  OBVIOUS
<1> QED BY <1>5, <1>6, BucketAssumption

(***************************************************************************)
(* RateConformance speaks of the moments of admission only; what makes it  *)
(* inductive is the balance of the bucket against the i-th admission: the  *)
(* tokens taken since then and those still in the bucket are covered by    *)
(* the capacity and by what was refilled since then.                       *)
(***************************************************************************)
Balance ==
  \A i \in 1..Len(admitted) :
    /\ admitted[i] <= lastRefill
    /\ (Len(admitted) - i + 1) * One + tokens
         <= Capacity + Refill * (lastRefill - admitted[i])

\* Until the promised time the bucket collects the token that is missing,
\* whatever part of it earlier rejections have refilled already.
RetryInv ==
  retryAt # 0 => /\ retryAt >= lastRefill
                 /\ tokens + Refill * (retryAt - lastRefill) >= One

BucketInv == TypeOK /\ Balance /\ RateConformance /\ RetryInv

\* Letting the bucket refill until now keeps it balanced.
LEMMA RefillBalance ==
  ASSUME TypeOK, Balance, NEW i \in 1..Len(admitted)
  PROVE  /\ admitted[i] <= now /\ admitted[i] \in Nat
         /\ (Len(admitted) - i + 1) * One + Refilled
              <= Capacity + Refill * (now - admitted[i])
<1>1. /\ admitted[i] \in Nat /\ now \in Nat /\ lastRefill \in Nat
      /\ lastRefill <= now /\ tokens \in Nat /\ Len(admitted) \in Nat
      /\ i \in Int
  BY CapacityType DEF TypeOK
<1>2. /\ admitted[i] <= lastRefill
      /\ (Len(admitted) - i + 1) * One + tokens
           <= Capacity + Refill * (lastRefill - admitted[i])
  BY DEF Balance
<1> DEFINE a == lastRefill - admitted[i]
           b == now - lastRefill
           k == (Len(admitted) - i + 1) * One
<1>3. a \in Int /\ b \in Int /\ now - admitted[i] = a + b
  BY <1>1
<1>4. /\ Refill * (now - admitted[i]) = Refill * a + Refill * b
      /\ Refill * a \in Int /\ Refill * b \in Int
  BY <1>3, RefillTimes, ZenonT(40)
<1>5. Refilled \in Int /\ Refilled <= tokens + Refill * b
  BY RefilledBounds, CapacityType
<1>6. k \in Int
  BY <1>1, OneTimes
<1>7. k + tokens <= Capacity + Refill * a
  BY <1>2
<1> HIDE DEF a, b, k
<1>8. k + Refilled <= Capacity + (Refill * a + Refill * b)
  BY <1>1, <1>4, <1>5, <1>6, <1>7, CapacityType
<1> QED BY <1>1, <1>2, <1>4, <1>8 DEF k

LEMMA AdmitStep ==
  ASSUME BucketInv, AllowAdmits
  PROVE  BucketInv'
<1>0. TypeOK /\ Balance /\ RateConformance
  BY DEF BucketInv
<1>1. /\ now \in Nat /\ admitted \in Seq(Nat) /\ Len(admitted) \in Nat
      /\ Refilled \in 0..Capacity /\ Capacity \in Nat /\ One \in Nat
  BY <1>0, RefilledBounds, CapacityType, BucketAssumption DEF TypeOK
<1>2. /\ Refilled >= One /\ tokens' = Refilled - One /\ lastRefill' = now
      /\ admitted' = Append(admitted, now) /\ retryAt' = 0 /\ now' = now
  BY DEF AllowAdmits
<1>3. /\ admitted' \in Seq(Nat) /\ Len(admitted') = Len(admitted) + 1
      /\ admitted'[Len(admitted) + 1] = now
      /\ \A i \in 1..Len(admitted) : admitted'[i] = admitted[i]
  BY <1>1, <1>2
<1>4. TypeOK'
  BY <1>1, <1>2, <1>3 DEF TypeOK, Capacity
<1>5. ASSUME NEW i \in 1..Len(admitted')
      PROVE  /\ admitted'[i] <= lastRefill' /\ admitted'[i] \in Nat
             /\ (Len(admitted') - i + 1) * One + tokens'
                  <= Capacity + Refill * (lastRefill' - admitted'[i])
  <2>1. CASE i = Len(admitted) + 1
    <3>1. admitted'[i] = now /\ Len(admitted') - i + 1 = 1
      BY <1>1, <1>3, <2>1
    <3>2. Refill * (lastRefill' - admitted'[i]) \in Nat
      BY <1>1, <1>2, <3>1, RefillTimes
    <3>3. (Len(admitted') - i + 1) * One = One
      BY <3>1, OneTimes
    <3> QED BY <1>1, <1>2, <3>1, <3>2, <3>3
  <2>2. CASE i \in 1..Len(admitted)
    <3> DEFINE m == Len(admitted) - i + 1
               g == Refill * (now - admitted[i])
    <3>1. /\ admitted[i] <= now /\ admitted[i] \in Nat
          /\ m * One + Refilled <= Capacity + g
      BY <1>0, <2>2, RefillBalance
    <3>2. admitted'[i] = admitted[i] /\ Len(admitted') - i + 1 = m + 1
          /\ m \in Int
      BY <1>1, <1>3, <2>2
    <3>3. (m + 1) * One = m * One + One /\ m * One \in Int
      BY <3>2, OneTimes
    <3>4. g \in Int /\ Refill * (lastRefill' - admitted'[i]) = g
      <4>1. lastRefill' - admitted'[i] = now - admitted[i]
        BY <1>2, <3>2
      <4>2. now - admitted[i] \in Int
        BY <1>1, <3>1
      <4>3. g \in Int
        BY <4>2, RefillTimes
      <4> QED BY <4>1, <4>3
    <3>5. (Len(admitted') - i + 1) * One = m * One + One
      BY <3>2, <3>3
    <3> DEFINE p == m * One
               q == (Len(admitted') - i + 1) * One
    <3>6. /\ p \in Int /\ g \in Int /\ q = p + One
          /\ p + Refilled <= Capacity + g
      BY <3>1, <3>3, <3>4, <3>5
    <3> HIDE DEF p, q, g
    <3>7. q + tokens' <= Capacity + g
      BY <1>1, <1>2, <3>6
    <3> QED BY <1>2, <3>1, <3>2, <3>4, <3>7 DEF q
  <2>3. i = Len(admitted) + 1 \/ i \in 1..Len(admitted)
    BY <1>1, <1>3
  <2> QED BY <2>1, <2>2, <2>3
<1>6. Balance'
  BY <1>5 DEF Balance, Capacity
<1>7. RateConformance'
  <2> SUFFICES ASSUME NEW i \in 1..Len(admitted'), NEW j \in 1..Len(admitted'),
                      i <= j
               PROVE  (j - i + 1) * One
                        <= Capacity + Refill * (admitted'[j] - admitted'[i])
    BY DEF RateConformance, Capacity
  <2>1. CASE j = Len(admitted) + 1
    <3>1. admitted'[j] = lastRefill' /\ j = Len(admitted')
      BY <1>2, <1>3, <2>1
    <3>2. (j - i + 1) * One + tokens'
            <= Capacity + Refill * (admitted'[j] - admitted'[i])
      BY <1>5, <3>1
    <3>3. /\ (j - i + 1) * One \in Int /\ tokens' \in Nat
          /\ Refill * (admitted'[j] - admitted'[i]) \in Int
      <4>1. j - i + 1 \in Int /\ admitted'[j] - admitted'[i] \in Int
        BY <1>1, <1>3, <1>5
      <4>2. /\ (j - i + 1) * One \in Int
            /\ Refill * (admitted'[j] - admitted'[i]) \in Int
        BY <4>1, OneTimes, RefillTimes
      <4>3. tokens' \in Nat
        BY <1>1, <1>2
      <4> QED BY <4>2, <4>3
    <3> QED BY <1>1, <3>2, <3>3
  <2>2. CASE j \in 1..Len(admitted)
    <3>1. i \in 1..Len(admitted)
      BY <1>1, <1>3, <2>2
    <3>2. (j - i + 1) * One <= Capacity + Refill * (admitted[j] - admitted[i])
      BY <1>0, <2>2, <3>1 DEF RateConformance
    <3> QED BY <1>3, <2>2, <3>1, <3>2
  <2>3. j = Len(admitted) + 1 \/ j \in 1..Len(admitted)
    BY <1>1, <1>3
  <2> QED BY <2>1, <2>2, <2>3
<1>8. RetryInv'
  BY <1>2 DEF RetryInv
<1> QED BY <1>4, <1>6, <1>7, <1>8 DEF BucketInv

\* Once the promised time has come, the bucket holds a token.
LEMMA PromiseKept ==
  ASSUME TypeOK, RetryInv, retryAt # 0, now >= retryAt
  PROVE  Refilled >= One
<1>1. /\ now \in Nat /\ lastRefill \in Nat /\ retryAt \in Nat
      /\ tokens \in 0..Capacity /\ lastRefill <= now /\ One \in Nat
      /\ Capacity \in Nat /\ Capacity >= One
  BY CapacityType, BucketAssumption DEF TypeOK
<1>2. /\ now - lastRefill \in Int /\ retryAt - lastRefill \in Int
      /\ retryAt - lastRefill <= now - lastRefill
  BY <1>1
<1>3. /\ Refill * (retryAt - lastRefill) <= Refill * (now - lastRefill)
      /\ (now - lastRefill) * Refill = Refill * (now - lastRefill)
      /\ Refill * (now - lastRefill) \in Int
      /\ Refill * (retryAt - lastRefill) \in Int
  BY <1>2, RefillTimes
<1>4. tokens + Refill * (retryAt - lastRefill) >= One
  BY DEF RetryInv
<1>5. tokens + (now - lastRefill) * Refill >= One
  BY <1>1, <1>3, <1>4
<1> QED BY <1>1, <1>3, <1>5 DEF Refilled, MinInt

LEMMA RejectStep ==
  ASSUME BucketInv, AllowRejects
  PROVE  BucketInv'
<1>0. TypeOK /\ Balance /\ RateConformance /\ RetryInv
  BY DEF BucketInv
<1>1. /\ tokens' = Refilled /\ lastRefill' = now /\ Refilled < One
      /\ admitted' = admitted /\ now' = now
      /\ retryAt' = IF retryAt # 0 THEN retryAt
                    ELSE now + RetryAfter(WaitTicks) * TicksPerSecond
  BY DEF AllowRejects
<1>2. /\ now \in Nat /\ Refilled \in 0..Capacity /\ retryAt \in Nat
      /\ lastRefill \in Nat /\ lastRefill <= now /\ tokens \in Nat
      /\ One \in Nat /\ Capacity \in Nat /\ Capacity >= One
  BY <1>0, RefilledBounds, CapacityType, BucketAssumption DEF TypeOK
<1>3. ASSUME retryAt = 0 PROVE RetryInv'
  <2> DEFINE w == RetryAfter(WaitTicks) * TicksPerSecond
  <2>1. w \in Nat /\ w >= TicksPerSecond /\ retryAt' = now + w
    BY <1>0, <1>1, <1>3, RetryAfterSecond
  <2>2. retryAt' - lastRefill' = w
    BY <1>1, <1>2, <2>1
  <2>3. Refill * TicksPerSecond <= Refill * w /\ Refill * w \in Int
    BY <2>1, RefillTimes, BucketAssumption
  <2>4. Refill * w >= One
    BY <2>3, BucketAssumption
  <2> HIDE DEF w
  <2> QED BY <1>1, <1>2, <2>1, <2>2, <2>3, <2>4 DEF RetryInv
<1>4. ASSUME retryAt # 0 PROVE RetryInv'
  <2>1. now < retryAt /\ retryAt' = retryAt
    BY <1>0, <1>1, <1>2, <1>4, PromiseKept
  <2>2. /\ now - lastRefill \in Int /\ retryAt - now \in Int
        /\ retryAt - lastRefill = (now - lastRefill) + (retryAt - now)
    BY <1>2
  <2>3. /\ Refill * (retryAt - lastRefill)
             = Refill * (now - lastRefill) + Refill * (retryAt - now)
        /\ (now - lastRefill) * Refill = Refill * (now - lastRefill)
        /\ Refill * (now - lastRefill) \in Int
        /\ Refill * (retryAt - now) \in Int
    BY <2>2, RefillTimes
  <2>4. Refilled = tokens + Refill * (now - lastRefill)
    BY <1>1, <1>2, <2>3 DEF Refilled, MinInt
  <2>5. tokens + Refill * (retryAt - lastRefill) >= One
    BY <1>0, <1>4 DEF RetryInv
  <2>6. tokens' + Refill * (retryAt - now) >= One
    BY <1>1, <1>2, <2>3, <2>4, <2>5
  <2> QED BY <1>1, <1>2, <2>1, <2>6 DEF RetryInv
<1>5. RetryInv'
  BY <1>3, <1>4
<1>6. retryAt' \in Nat
  BY <1>0, <1>1, <1>2, RetryAfterSecond
<1>7. TypeOK'
  BY <1>0, <1>1, <1>2, <1>6 DEF TypeOK, Capacity
<1>8. Balance'
  BY <1>0, <1>1, RefillBalance DEF Balance, Capacity
<1>9. RateConformance'
  BY <1>0, <1>1 DEF RateConformance, Capacity
<1> QED BY <1>5, <1>7, <1>8, <1>9 DEF BucketInv

LEMMA BucketStep == BucketInv /\ [Next]_vars => BucketInv'
<1> SUFFICES ASSUME BucketInv, [Next]_vars
             PROVE  BucketInv'
  OBVIOUS
<1>1. CASE Tick \/ UNCHANGED vars
  <2>1. /\ UNCHANGED <<tokens, lastRefill, admitted, retryAt>>
        /\ now' \in Nat /\ now' >= now
    BY <1>1 DEF Tick, vars, BucketInv, TypeOK
  <2>2. TypeOK'
    BY <2>1 DEF BucketInv, TypeOK, Capacity
  <2>3. Balance' /\ RateConformance' /\ RetryInv'
    BY <2>1 DEF BucketInv, Balance, RateConformance, RetryInv, Capacity
  <2> QED BY <2>2, <2>3 DEF BucketInv
<1> QED BY <1>1, AdmitStep, RejectStep DEF Next

LEMMA BucketInit == Init => BucketInv
<1> SUFFICES ASSUME Init PROVE BucketInv
  OBVIOUS
<1>1. TypeOK
  BY CapacityType DEF Init, TypeOK
<1>2. Balance /\ RateConformance /\ RetryInv
  BY DEF Init, Balance, RateConformance, RetryInv
<1> QED BY <1>1, <1>2 DEF BucketInv

\* The bucket is never over full, never in debt.
THEOREM BucketTypeCorrect == Spec => []TypeOK
<1>1. BucketInv => TypeOK
  BY DEF BucketInv
<1> QED BY <1>1, BucketInit, BucketStep, PTL DEF Spec

\* For every rate, burst and schedule of requests, Allow never admits more
\* requests in an interval than the burst plus what the rate allows in it.
THEOREM RateConformanceCorrect == Spec => []RateConformance
<1>1. BucketInv => RateConformance
  BY DEF BucketInv
<1> QED BY <1>1, BucketInit, BucketStep, PTL DEF Spec

\* A client that waits for Retry-After seconds is admitted if nobody else was
\* meanwhile, for every rate of at least one request per second.
THEOREM RetryAfterCorrect == Spec => []RetryAfterHonoured
<1>1. BucketInv => RetryAfterHonoured
  BY PromiseKept DEF BucketInv, RetryAfterHonoured
<1> QED BY <1>1, BucketInit, BucketStep, PTL DEF Spec

\* What the tokens were spent on: each admission took one, and the refill
\* since the start covers those beyond the burst.
Spent == Len(admitted) * One + tokens <= Capacity + Refill * lastRefill

LEMMA SpentStep ==
  ASSUME TypeOK, Spent, [Next]_vars
  PROVE  Spent'
<1>1. /\ now \in Nat /\ lastRefill \in Nat /\ now - lastRefill \in Int
      /\ tokens \in Nat /\ Len(admitted) \in Nat /\ One \in Nat
      /\ admitted \in Seq(Nat) /\ Capacity \in Nat
      /\ Refilled \in Nat /\ Refilled <= tokens + Refill * (now - lastRefill)
  BY CapacityType, RefilledBounds, BucketAssumption DEF TypeOK
<1>2. /\ Refill * now = Refill * lastRefill + Refill * (now - lastRefill)
      /\ Refill * lastRefill \in Int /\ Refill * (now - lastRefill) \in Int
  <2>1. now = lastRefill + (now - lastRefill)
    BY <1>1
  <2>2. /\ Refill * (lastRefill + (now - lastRefill))
             = Refill * lastRefill + Refill * (now - lastRefill)
        /\ Refill * lastRefill \in Int /\ Refill * (now - lastRefill) \in Int
    <3>1. lastRefill \in Int /\ now - lastRefill \in Int
      BY <1>1
    <3> HIDE <1>1, <2>1
    <3> QED BY <3>1, RefillTimes
  <2> QED BY <2>1, <2>2
<1> DEFINE A == Len(admitted) * One
           R == Refill * lastRefill
           D == Refill * (now - lastRefill)
<1>3. /\ A \in Int /\ R \in Int /\ D \in Int
      /\ (Len(admitted) + 1) * One = A + One
      /\ A + tokens <= Capacity + R /\ Refilled <= tokens + D
      /\ Refill * now = R + D
  BY <1>1, <1>2, OneTimes DEF Spent
<1> HIDE DEF A, R, D
<1>4. CASE AllowAdmits
  <2>1. /\ tokens' = Refilled - One /\ lastRefill' = now
        /\ Len(admitted') = Len(admitted) + 1
    BY <1>1, <1>4 DEF AllowAdmits
  <2>2. Len(admitted') * One = A + One /\ Refill * lastRefill' = R + D
    BY <1>3, <2>1
  <2>3. (A + One) + tokens' <= Capacity + (R + D)
    BY <1>1, <1>3, <2>1
  <2> QED BY <2>2, <2>3 DEF Spent, Capacity
<1>5. CASE AllowRejects
  <2>1. tokens' = Refilled /\ lastRefill' = now /\ admitted' = admitted
    BY <1>5 DEF AllowRejects
  <2>2. Len(admitted') * One = A /\ Refill * lastRefill' = R + D
    BY <1>3, <2>1 DEF A
  <2>3. A + tokens' <= Capacity + (R + D)
    BY <1>1, <1>3, <2>1
  <2> QED BY <2>2, <2>3 DEF Spent, Capacity
<1>6. CASE Tick \/ UNCHANGED vars
  BY <1>6 DEF Tick, vars, Spent, Capacity
<1> QED BY <1>4, <1>5, <1>6 DEF Next

-----------------------------------------------------------------------------
(* The pool.  Its invariants are proved in WhitenedPool_proofs, instantiated *)
(* here as Proved: the two instances are the same pool.                      *)

Proved == INSTANCE WhitenedPool_proofs

LEMMA SameInit == Pool!Init => Proved!Init
  BY DEF Pool!Init, Proved!Init, Pool!NewRepetitionCountTest,
         Proved!NewRepetitionCountTest, Pool!NewAdaptiveProportionTest,
         Proved!NewAdaptiveProportionTest

LEMMA SameBounds ==
  /\ Pool!MinPool = Proved!MinPool /\ Pool!MaxPool = Proved!MaxPool
  BY DEF Pool!MaxPool, Proved!MaxPool, Pool!MinPool, Proved!MinPool

LEMMA SameAddBatch ==
  ASSUME NEW n, Pool!AddBatch(n) PROVE Proved!AddBatch(n)
  BY SameBounds DEF Pool!AddBatch, Proved!AddBatch, Pool!marks, Proved!marks,
     Pool!Trim, Proved!Trim, Pool!Digest, Proved!Digest

LEMMA SameTests ==
  ASSUME NEW t, NEW s
  PROVE  /\ Pool!RctTestBlock(t, s) = Proved!RctTestBlock(t, s)
         /\ Pool!AptTestBlock(t, s) = Proved!AptTestBlock(t, s)
<1>1. Pool!RctTestBlock(t, s) = Proved!RctTestBlock(t, s)
  BY Zenon DEF Pool!RctTestBlock, Proved!RctTestBlock, Pool!RctTest,
     Proved!RctTest, Pool!RctObserve, Proved!RctObserve, Pool!RctReached,
     Proved!RctReached
<1>2. Pool!AptTestBlock(t, s) = Proved!AptTestBlock(t, s)
  BY Zenon DEF Pool!AptTestBlock, Proved!AptTestBlock, Pool!AptTest,
     Proved!AptTest, Pool!AptObserve, Proved!AptObserve,
     Pool!AptWindowComplete, Proved!AptWindowComplete
<1> QED BY <1>1, <1>2

LEMMA SameOutput ==
  ASSUME NEW n
  PROVE  /\ Pool!Extractable(n) <=> Proved!Extractable(n)
         /\ Pool!Output(n) = Proved!Output(n)
         /\ Pool!Vals(Pool!Output(n)) = Proved!Vals(Proved!Output(n))
  BY SameBounds DEF Pool!Extractable, Proved!Extractable, Pool!Output,
     Proved!Output, Pool!Vals, Proved!Vals

LEMMA SameExtract ==
  ASSUME NEW n, Pool!ExtractEntropy(n) PROVE Proved!ExtractEntropy(n)
<1>1. CASE Pool!ExtractOk(n)
  BY <1>1, SameTests, SameOutput
     DEF Pool!ExtractOk, Proved!ExtractOk, Pool!Remaining, Proved!Remaining,
         Pool!marks, Proved!marks, Proved!ExtractEntropy
<1>2. CASE Pool!ExtractRefused(n)
  BY <1>2, SameOutput
     DEF Pool!ExtractRefused, Proved!ExtractRefused, Pool!vars, Proved!vars,
         Pool!marks, Proved!marks, Pool!storage, Proved!storage,
         Proved!ExtractEntropy
<1>3. CASE Pool!ExtractRctFail(n)
  BY <1>3, SameTests, SameOutput
     DEF Pool!ExtractRctFail, Proved!ExtractRctFail, Pool!RctReset,
         Proved!RctReset, Pool!storage, Proved!storage, Proved!ExtractEntropy
<1>4. CASE Pool!ExtractAptFail(n)
  BY <1>4, SameTests, SameOutput
     DEF Pool!ExtractAptFail, Proved!ExtractAptFail, Pool!AptReset,
         Proved!AptReset, Pool!storage, Proved!storage, Proved!ExtractEntropy
<1> QED BY <1>1, <1>2, <1>3, <1>4 DEF Pool!ExtractEntropy

LEMMA SameStep == [Pool!Next]_(Pool!vars) => [Proved!Next]_(Proved!vars)
<1> SUFFICES ASSUME [Pool!Next]_(Pool!vars)
             PROVE  [Proved!Next]_(Proved!vars)
  OBVIOUS
<1>1. CASE UNCHANGED Pool!vars
  BY <1>1 DEF Pool!vars, Proved!vars, Pool!marks, Proved!marks,
     Pool!storage, Proved!storage
<1>2. CASE Pool!AddEmptyBatch
  BY <1>2 DEF Pool!AddEmptyBatch, Pool!vars, Proved!vars, Pool!marks,
     Proved!marks, Pool!storage, Proved!storage
<1>3. CASE \E n \in BatchSizes : Pool!AddBatch(n)
  BY <1>3, SameAddBatch DEF Proved!Next
<1>4. CASE \E n \in Requests : Pool!ExtractEntropy(n)
  BY <1>4, SameExtract DEF Proved!Next
<1> QED BY <1>1, <1>2, <1>3, <1>4 DEF Pool!Next

\* The invariant of the pool's storage, said of the server's pool.
StorageOK == Proved!StorageInv

LEMMA StorageHolds ==
  /\ Pool!Init => StorageOK
  /\ StorageOK /\ [Pool!Next]_(Pool!vars) => StorageOK'
<1>1. Proved!Init => Proved!StorageInv
  BY ServerAssumption, Proved!StorageInit DEF Pool!PoolAssumption
<1>2. Proved!StorageInv /\ [Proved!Next]_(Proved!vars) => Proved!StorageInv'
  BY ServerAssumption, Proved!StorageStep DEF Pool!PoolAssumption
<1> QED BY <1>1, <1>2, SameInit, SameStep DEF StorageOK

\* What the handlers rely on.
LEMMA StorageFacts ==
  ASSUME StorageOK
  PROVE  /\ whitened \in Seq([id : Nat \ {0}, val : Byte])
         /\ released \in Seq([id : Nat \ {0}, val : Byte])
         /\ Len(whitened) \in Nat /\ Len(released) \in Nat
         /\ Len(rawEvents) \in Nat
         /\ produced \in Nat /\ Len(whitened) <= Pool!MaxPool
         /\ \A i \in 1..Len(whitened) :
              whitened[i].id = produced - Len(whitened) + i
         /\ Pool!MinPool \in Nat \ {0} /\ Pool!MaxPool \in Nat
<1>1. Proved!MinPool \in Nat \ {0} /\ Proved!MaxPool \in Nat
  BY ServerAssumption, Proved!BoundsNormalised DEF Pool!PoolAssumption
<1>2. Proved!StorageType /\ Proved!NoByteReused
  BY DEF StorageOK, Proved!StorageInv
<1> QED BY <1>1, <1>2, SameBounds
     DEF Proved!StorageType, Proved!StoredByte, Proved!NoByteReused

-----------------------------------------------------------------------------
(* The handlers *)

\* The requests that were admitted and not answered yet.
InFlight == {c \in Clients : pc[c] \in {"read", "extract"}}

HandlerType ==
  /\ pc \in [Clients -> {"idle", "read", "extract", "health"}]
  /\ want \in [Clients -> Int]
  /\ seen \in [Clients -> Nat]
  /\ lookedAt \in [Clients -> Nat]
  /\ received \in [Clients -> Seq(Nat)]
  /\ \A c \in InFlight : want[c] \in Requests /\ InRange(want[c])

\* Every handler's step is a step of the pool, and one of the limiter.
LEMMA StepsOfParts ==
  ASSUME HandlerType, [ServerNext]_server
  PROVE  [Pool!Next]_(Pool!vars) /\ [Next]_vars
<1>0. ASSUME UNCHANGED pool PROVE UNCHANGED Pool!vars
  BY <1>0 DEF pool, Pool!vars, Pool!storage, Pool!marks
<1>1. CASE UNCHANGED server
  BY <1>0, <1>1 DEF server, limiter
<1>2. CASE Ingest
  BY <1>2 DEF Ingest, limiter, Pool!Next
<1>3. CASE TimePasses
  BY <1>0, <1>3 DEF TimePasses, Next
<1>4. ASSUME NEW c \in Clients, HandleEntropy(c)
      PROVE  [Pool!Next]_(Pool!vars) /\ [Next]_vars
  <2>1. ASSUME NEW n \in Requests, BadRequest(c, n) \/ RateLimited(c, n)
                                    \/ Admit(c, n)
        PROVE  [Pool!Next]_(Pool!vars) /\ [Next]_vars
    BY <1>0, <2>1 DEF BadRequest, RateLimited, Admit, limiter, Next
  <2>2. CASE ReadAvailable(c)
    BY <1>0, <2>2 DEF ReadAvailable, limiter
  <2>3. ASSUME pc[c] = "extract" PROVE want[c] \in Requests
    BY <2>3 DEF HandlerType, InFlight
  <2>4. CASE ServeEntropy(c)
    BY <2>3, <2>4 DEF ServeEntropy, limiter, Pool!Next, Pool!ExtractEntropy
  <2>5. CASE Insufficient(c)
    BY <2>3, <2>5 DEF Insufficient, limiter, Pool!Next, Pool!ExtractEntropy
  <2> QED BY <1>4, <2>1, <2>2, <2>4, <2>5 DEF HandleEntropy
<1>5. ASSUME NEW c \in Clients, HealthReadsStatus(c) \/ HealthReports(c)
                                  \/ HandleReady(c)
      PROVE  [Pool!Next]_(Pool!vars) /\ [Next]_vars
  BY <1>0, <1>5 DEF HealthReadsStatus, HealthReports, HandleReady, limiter
<1> QED BY <1>1, <1>2, <1>3, <1>4, <1>5 DEF ServerNext

(***************************************************************************)
(* ClientsShareNothing: everything handed out is older than what the pool  *)
(* holds.                                                                  *)
(***************************************************************************)
HandedOut ==
  \A c \in Clients : \A i \in 1..Len(received[c]) :
    received[c][i] <= produced - Len(whitened)

(***************************************************************************)
(* RefusalHasCause: as long as nothing was released since the handler      *)
(* looked, the pool holds at least what the handler saw.                   *)
(***************************************************************************)
StillThere ==
  \A c \in Clients : pc[c] = "extract" =>
    /\ lookedAt[c] <= Len(released)
    /\ lookedAt[c] = Len(released) =>
         seen[c] = 0 \/ seen[c] + Pool!MinPool <= Len(whitened)

(***************************************************************************)
(* EntropyRateBounded: every answered request that was admitted has taken  *)
(* at most MaxRequest bytes.                                               *)
(***************************************************************************)
Paid ==
  /\ IsFiniteSet(InFlight)
  /\ Len(released) <= MaxRequest * (Len(admitted) - Cardinality(InFlight))

HandlerInv ==
  /\ HandlerType
  /\ HandedOut /\ ClientsShareNothing
  /\ StillThere /\ RefusalHasCause
  /\ Paid

ServerInv == StorageOK /\ BucketInv /\ Spent /\ HandlerInv

LEMMA RequestTimes ==
  /\ MaxRequest \in Nat \ {0}
  /\ \A k \in Int : /\ MaxRequest * k \in Int
                    /\ MaxRequest * (k + 1) = MaxRequest * k + MaxRequest
  /\ \A j, k \in Int : j <= k => MaxRequest * j <= MaxRequest * k
<1>1. \A m \in Nat : \A k \in Int : m * k \in Int /\ m * (k + 1) = m * k + m
  OBVIOUS
<1>2. \A m \in Nat : \A j, k \in Int : j <= k => m * j <= m * k
  OBVIOUS
<1> QED BY <1>1, <1>2, ServerAssumption

\* A handler that has no admitted request answers.
LEMMA AnswersIdle ==
  ASSUME HandlerInv, NEW c \in Clients, c \notin InFlight, NEW reply,
         Respond(c, reply), reply.endpoint # "entropy",
         UNCHANGED <<pool, admitted, received>>
  PROVE  HandlerInv'
<1>1. /\ answer' = reply
      /\ want' = [want EXCEPT ![c] = 0] /\ seen' = [seen EXCEPT ![c] = 0]
      /\ lookedAt' = [lookedAt EXCEPT ![c] = 0]
      /\ pc' = [pc EXCEPT ![c] = "idle"]
      /\ received' = received /\ admitted' = admitted
      /\ produced' = produced /\ whitened' = whitened /\ released' = released
  BY DEF Respond, Goto, pool
<1>2. InFlight' = InFlight
  BY <1>1 DEF HandlerInv, HandlerType, InFlight
<1>3. HandlerType'
  BY <1>1, <1>2 DEF HandlerInv, HandlerType, InFlight, InRange
<1>4. HandedOut' /\ ClientsShareNothing'
  BY <1>1 DEF HandlerInv, HandedOut, ClientsShareNothing
<1>5. StillThere'
  BY <1>1 DEF HandlerInv, HandlerType, StillThere, Pool!MinPool
<1>6. RefusalHasCause'
  BY <1>1 DEF RefusalHasCause
<1>7. Paid'
  BY <1>1, <1>2 DEF HandlerInv, Paid
<1> QED BY <1>3, <1>4, <1>5, <1>6, <1>7 DEF HandlerInv

LEMMA AdmitKeeps ==
  ASSUME HandlerInv, TypeOK, StorageOK, NEW c \in Clients, NEW n \in Requests,
         Admit(c, n)
  PROVE  HandlerInv'
<1>1. /\ pc[c] = "idle" /\ InRange(n)
      /\ want' = [want EXCEPT ![c] = n] /\ pc' = [pc EXCEPT ![c] = "read"]
      /\ seen' = seen /\ lookedAt' = lookedAt /\ answer' = answer
      /\ received' = received /\ admitted' = Append(admitted, now)
      /\ produced' = produced /\ whitened' = whitened /\ released' = released
  BY DEF Admit, Goto, pool, AllowAdmits
<1>2. InFlight' = InFlight \cup {c} /\ c \notin InFlight
  BY <1>1 DEF HandlerInv, HandlerType, InFlight
<1>3. HandlerType'
  <2>1. Requests \subseteq Int
    BY ServerAssumption DEF Pool!PoolAssumption
  <2>2. \A d \in InFlight' : want'[d] \in Requests /\ InRange(want'[d])
    BY <1>1, <1>2 DEF HandlerInv, HandlerType, InFlight
  <2> QED BY <1>1, <2>1, <2>2 DEF HandlerInv, HandlerType, InRange
<1>4. HandedOut' /\ ClientsShareNothing'
  BY <1>1 DEF HandlerInv, HandedOut, ClientsShareNothing
<1>5. StillThere'
  BY <1>1 DEF HandlerInv, HandlerType, StillThere, Pool!MinPool
<1>6. RefusalHasCause'
  BY <1>1 DEF HandlerInv, RefusalHasCause
<1>7. Paid'
  <2>1. /\ IsFiniteSet(InFlight') /\ Cardinality(InFlight) \in Nat
        /\ Cardinality(InFlight') = Cardinality(InFlight) + 1
    BY <1>2, FS_AddElement, FS_CardinalityType DEF HandlerInv, Paid
  <2>2. Len(admitted) \in Nat /\ Len(admitted') = Len(admitted) + 1
    BY <1>1 DEF TypeOK
  <2>3. Len(admitted') - Cardinality(InFlight')
          = Len(admitted) - Cardinality(InFlight)
    BY <2>1, <2>2
  <2> QED BY <1>1, <2>1, <2>3 DEF HandlerInv, Paid
<1> QED BY <1>3, <1>4, <1>5, <1>6, <1>7 DEF HandlerInv

LEMMA ReadKeeps ==
  ASSUME HandlerInv, StorageOK, NEW c \in Clients, ReadAvailable(c)
  PROVE  HandlerInv'
<1>1. /\ pc[c] = "read"
      /\ seen' = [seen EXCEPT ![c] = Pool!AvailableEntropy]
      /\ lookedAt' = [lookedAt EXCEPT ![c] = Len(released)]
      /\ pc' = [pc EXCEPT ![c] = "extract"]
      /\ want' = want /\ answer' = answer
      /\ received' = received /\ admitted' = admitted
      /\ produced' = produced /\ whitened' = whitened /\ released' = released
  BY DEF ReadAvailable, Goto, pool, limiter, vars
<1>2. InFlight' = InFlight
  BY <1>1 DEF HandlerInv, HandlerType, InFlight
<1>3. /\ Len(released) \in Nat /\ Pool!AvailableEntropy \in Nat
      /\ \/ Pool!AvailableEntropy = 0
         \/ Pool!AvailableEntropy + Pool!MinPool <= Len(whitened)
  BY StorageFacts DEF Pool!AvailableEntropy
<1>4. HandlerType'
  BY <1>1, <1>2, <1>3 DEF HandlerInv, HandlerType, InRange
<1>5. HandedOut' /\ ClientsShareNothing'
  BY <1>1 DEF HandlerInv, HandedOut, ClientsShareNothing
<1>6. StillThere'
  BY <1>1, <1>3 DEF HandlerInv, HandlerType, StillThere, Pool!MinPool
<1>7. RefusalHasCause'
  BY <1>1 DEF HandlerInv, RefusalHasCause
<1>8. Paid'
  BY <1>1, <1>2 DEF HandlerInv, Paid
<1> QED BY <1>4, <1>5, <1>6, <1>7, <1>8 DEF HandlerInv

LEMMA HealthReadsKeeps ==
  ASSUME HandlerInv, StorageOK, NEW c \in Clients, HealthReadsStatus(c)
  PROVE  HandlerInv'
<1>1. /\ pc[c] = "idle"
      /\ seen' = [seen EXCEPT ![c] = Len(whitened)]
      /\ pc' = [pc EXCEPT ![c] = "health"]
      /\ lookedAt' = lookedAt /\ want' = want /\ answer' = answer
      /\ received' = received /\ admitted' = admitted
      /\ produced' = produced /\ whitened' = whitened /\ released' = released
  BY DEF HealthReadsStatus, Goto, pool, limiter, vars, Pool!PoolStatus
<1>2. InFlight' = InFlight
  BY <1>1 DEF HandlerInv, HandlerType, InFlight
<1>3. HandlerType'
  BY <1>1, <1>2, StorageFacts DEF HandlerInv, HandlerType, InRange
<1>4. HandedOut' /\ ClientsShareNothing'
  BY <1>1 DEF HandlerInv, HandedOut, ClientsShareNothing
<1>5. StillThere'
  BY <1>1 DEF HandlerInv, HandlerType, StillThere, Pool!MinPool
<1>6. RefusalHasCause'
  BY <1>1 DEF HandlerInv, RefusalHasCause
<1>7. Paid'
  BY <1>1, <1>2 DEF HandlerInv, Paid
<1> QED BY <1>3, <1>4, <1>5, <1>6, <1>7 DEF HandlerInv

\* What is common to the two answers of a handler with an admitted request.
LEMMA AnswersAdmitted ==
  ASSUME HandlerInv, TypeOK, NEW c \in Clients, pc[c] = "extract", NEW reply,
         Respond(c, reply), UNCHANGED admitted, received' \in [Clients -> Seq(Nat)]
  PROVE  /\ HandlerType'
         /\ IsFiniteSet(InFlight')
         /\ Len(admitted') - Cardinality(InFlight')
              = (Len(admitted) - Cardinality(InFlight)) + 1
         /\ Len(admitted) - Cardinality(InFlight) \in Int
<1>1. /\ want' = [want EXCEPT ![c] = 0] /\ seen' = [seen EXCEPT ![c] = 0]
      /\ lookedAt' = [lookedAt EXCEPT ![c] = 0]
      /\ pc' = [pc EXCEPT ![c] = "idle"]
  BY DEF Respond, Goto
<1>2. InFlight' = InFlight \ {c} /\ c \in InFlight
  BY <1>1 DEF HandlerInv, HandlerType, InFlight
<1>3. \A d \in InFlight' : want'[d] \in Requests /\ InRange(want'[d])
  BY <1>1, <1>2 DEF HandlerInv, HandlerType, InFlight
<1>4. HandlerType'
  BY <1>1, <1>3 DEF HandlerInv, HandlerType, InRange
<1>5. /\ IsFiniteSet(InFlight') /\ Cardinality(InFlight) \in Nat
      /\ Cardinality(InFlight') = Cardinality(InFlight) - 1
  BY <1>2, FS_RemoveElement, FS_CardinalityType DEF HandlerInv, Paid
<1>6. Len(admitted) \in Nat
  BY DEF TypeOK
<1> QED BY <1>4, <1>5, <1>6

LEMMA InsufficientKeeps ==
  ASSUME HandlerInv, TypeOK, StorageOK, NEW c \in Clients, Insufficient(c)
  PROVE  HandlerInv'
<1> DEFINE reply == [Reply("entropy", 503, want[c], seen[c], 0) EXCEPT
                       !.faulty = Pool!Extractable(want[c]),
                       !.overtaken = Len(released) > lookedAt[c]]
<1>1. /\ pc[c] = "extract" /\ Respond(c, reply)
      /\ received' = received /\ admitted' = admitted
  BY DEF Insufficient, limiter, vars
<1>2. produced' = produced /\ whitened' = whitened /\ released' = released
  BY DEF Insufficient, Pool!ExtractRefused, Pool!ExtractRctFail,
     Pool!ExtractAptFail, Pool!storage, Pool!vars
<1>3. /\ reply.want = want[c] /\ reply.available = seen[c]
      /\ reply.faulty = Pool!Extractable(want[c])
      /\ reply.overtaken = (Len(released) > lookedAt[c])
  <2> DEFINE r(f, o) == [Reply("entropy", 503, want[c], seen[c], 0) EXCEPT
                           !.faulty = f, !.overtaken = o]
             Fields(f, o) == /\ r(f, o).want = want[c]
                             /\ r(f, o).available = seen[c]
                             /\ r(f, o).faulty = f /\ r(f, o).overtaken = o
  <2>1. \A f, o : Fields(f, o)
    BY DEF Reply
  <2> HIDE DEF Fields
  <2>2. Fields(Pool!Extractable(want[c]), Len(released) > lookedAt[c])
    BY <2>1, Zenon
  <2> QED BY <2>2, Zenon DEF Fields
<1>4. /\ answer' = reply
      /\ pc' = [pc EXCEPT ![c] = "idle"] /\ seen' = [seen EXCEPT ![c] = 0]
      /\ lookedAt' = [lookedAt EXCEPT ![c] = 0]
  BY <1>1 DEF Respond, Goto
<1> HIDE DEF reply
<1>5. /\ HandlerType' /\ IsFiniteSet(InFlight')
      /\ Len(admitted') - Cardinality(InFlight')
           = (Len(admitted) - Cardinality(InFlight)) + 1
      /\ Len(admitted) - Cardinality(InFlight) \in Int
  BY <1>1, AnswersAdmitted DEF HandlerInv, HandlerType
<1>6. HandedOut' /\ ClientsShareNothing'
  BY <1>1, <1>2 DEF HandlerInv, HandedOut, ClientsShareNothing
<1>7. StillThere'
  BY <1>2, <1>4 DEF HandlerInv, HandlerType, StillThere, Pool!MinPool
<1>8. RefusalHasCause'
  <2> SUFFICES ASSUME seen[c] >= want[c], ~Pool!Extractable(want[c]),
                      ~(Len(released) > lookedAt[c])
               PROVE  FALSE
    BY <1>3, <1>4 DEF RefusalHasCause
  <2>1. /\ want[c] \in Int /\ want[c] >= 1 /\ seen[c] \in Nat
        /\ lookedAt[c] \in Nat
    BY <1>1 DEF HandlerInv, HandlerType, InFlight, InRange
  <2>2. lookedAt[c] = Len(released) /\ seen[c] # 0
    BY <1>1, <2>1, StorageFacts DEF HandlerInv, StillThere
  <2>3. seen[c] + Pool!MinPool <= Len(whitened)
    BY <1>1, <2>2 DEF HandlerInv, StillThere
  <2>4. Pool!MinPool \in Nat /\ Len(whitened) \in Nat
    BY StorageFacts
  <2>5. /\ want[c] > 0 /\ Len(whitened) >= want[c]
        /\ Len(whitened) >= Pool!MinPool
    BY <2>1, <2>3, <2>4
  <2> QED BY <2>5, Zenon DEF Pool!Extractable
<1>9. Paid'
  <2> DEFINE k == Len(admitted) - Cardinality(InFlight)
  <2>1. Len(released) \in Nat /\ Len(released) <= MaxRequest * k /\ k \in Int
    BY <1>5, StorageFacts DEF HandlerInv, Paid
  <2>2. Len(admitted') - Cardinality(InFlight') = k + 1
    BY <1>5
  <2> HIDE DEF k
  <2>3. Len(released) <= MaxRequest * (k + 1)
    BY <2>1, RequestTimes
  <2> QED BY <1>2, <1>5, <2>2, <2>3 DEF Paid
<1> QED BY <1>5, <1>6, <1>7, <1>8, <1>9 DEF HandlerInv

\* The bytes handed to a client: the oldest ones of the pool, by identity.
LEMMA ServedIds ==
  ASSUME StorageOK, NEW n \in Int, n >= 1, n <= Len(whitened)
  PROVE  /\ Ids(Pool!Output(n)) \in Seq(Nat)
         /\ Len(Ids(Pool!Output(n))) = n
         /\ \A i \in 1..n :
              Ids(Pool!Output(n))[i] = produced - Len(whitened) + i
         /\ Pool!Output(n) \in Seq([id : Nat \ {0}, val : Byte])
         /\ Len(Pool!Output(n)) = n
         /\ Len(Pool!Remaining(n)) = Len(whitened) - n
<1> DEFINE T == [id : Nat \ {0}, val : Byte]
<1>1. whitened \in Seq(T) /\ Len(whitened) \in Nat
      /\ \A i \in 1..Len(whitened) :
           whitened[i].id = produced - Len(whitened) + i
  BY StorageFacts
<1> HIDE DEF T
<1>2. /\ Pool!Output(n) \in Seq(T) /\ Len(Pool!Output(n)) = n
      /\ \A i \in 1..n : Pool!Output(n)[i] = whitened[i]
  <2>1. \A i \in 1..n : whitened[i] \in T
    BY <1>1
  <2> QED BY <2>1, SubSeqProperties DEF Pool!Output
<1>3. \A i \in 1..n : Pool!Output(n)[i].id \in Nat
  <2>1. \A i \in 1..n : Pool!Output(n)[i] \in T
    BY <1>1, <1>2
  <2> QED BY <2>1 DEF T
<1>4. /\ Ids(Pool!Output(n)) = [i \in 1..n |-> Pool!Output(n)[i].id]
      /\ n \in Nat
  BY <1>2 DEF Ids
<1>5. Ids(Pool!Output(n)) \in Seq(Nat) /\ Len(Ids(Pool!Output(n))) = n
  BY <1>3, <1>4
<1>6. \A i \in 1..n : Ids(Pool!Output(n))[i] = produced - Len(whitened) + i
  BY <1>1, <1>2, <1>4
<1>7. Len(Pool!Remaining(n)) = Len(whitened) - n
  <2>1. \A i \in (n + 1)..Len(whitened) : whitened[i] \in T
    BY <1>1
  <2> QED BY <1>1, <2>1, SubSeqProperties DEF Pool!Remaining
<1> QED BY <1>2, <1>5, <1>6, <1>7 DEF T

LEMMA ServeKeeps ==
  ASSUME HandlerInv, TypeOK, StorageOK, NEW c \in Clients, ServeEntropy(c)
  PROVE  HandlerInv'
<1> DEFINE n == want[c]
           new == Ids(Pool!Output(n))
           base == produced - Len(whitened)
           reply == Reply("entropy", 200, n, seen[c], 0)
<1>1. /\ pc[c] = "extract" /\ Respond(c, reply) /\ admitted' = admitted
      /\ received' = [received EXCEPT ![c] = @ \o new]
      /\ Pool!Extractable(n) /\ produced' = produced
      /\ released' = released \o Pool!Output(n)
      /\ whitened' = Pool!Remaining(n)
  BY DEF ServeEntropy, limiter, vars, Pool!ExtractOk
<1>2. n \in Int /\ n >= 1 /\ n <= Len(whitened) /\ n <= MaxRequest
  BY <1>1 DEF Pool!Extractable, HandlerInv, HandlerType, InFlight, InRange
<1>3. /\ new \in Seq(Nat) /\ Len(new) = n
      /\ \A i \in 1..n : new[i] = base + i
      /\ Len(whitened') = Len(whitened) - n
      /\ Len(released') = Len(released) + n
      /\ Len(whitened) \in Nat /\ Len(released) \in Nat /\ base \in Int
  <2> DEFINE T == [id : Nat \ {0}, val : Byte]
  <2>1. /\ new \in Seq(Nat) /\ Len(new) = n
        /\ \A i \in 1..n : new[i] = base + i
        /\ Pool!Output(n) \in Seq(T) /\ Len(Pool!Output(n)) = n
        /\ Len(Pool!Remaining(n)) = Len(whitened) - n
    BY <1>2, ServedIds
  <2>2. /\ released \in Seq(T) /\ Len(whitened) \in Nat
        /\ Len(released) \in Nat /\ base \in Int
    BY StorageFacts
  <2> HIDE DEF T, n, new, base
  <2>3. Len(released \o Pool!Output(n)) = Len(released) + n
    <3>1. released \in Seq(T) /\ Pool!Output(n) \in Seq(T)
      BY <2>1, <2>2
    <3>2. Len(released \o Pool!Output(n)) = Len(released) + Len(Pool!Output(n))
      BY <3>1, ConcatProperties
    <3> QED BY <2>1, <3>2
  <2> QED BY <1>1, <2>1, <2>2, <2>3
<1>4. /\ answer'.status = 200
      /\ pc' = [pc EXCEPT ![c] = "idle"] /\ seen' = [seen EXCEPT ![c] = 0]
      /\ lookedAt' = [lookedAt EXCEPT ![c] = 0]
  BY <1>1 DEF Respond, Goto, Reply
<1> HIDE DEF new, reply
<1>5. /\ received \in [Clients -> Seq(Nat)]
      /\ received' \in [Clients -> Seq(Nat)]
      /\ received'[c] = received[c] \o new
      /\ \A d \in Clients \ {c} : received'[d] = received[d]
  <2>1. received \in [Clients -> Seq(Nat)]
    BY DEF HandlerInv, HandlerType
  <2>2. new \in Seq(Nat) /\ received' = [received EXCEPT ![c] = @ \o new]
    BY <1>1, <1>3
  <2>3. received[c] \o new \in Seq(Nat)
    BY <2>1, <2>2, ConcatProperties
  <2> QED BY <2>1, <2>2, <2>3
<1>6. /\ HandlerType' /\ IsFiniteSet(InFlight')
      /\ Len(admitted') - Cardinality(InFlight')
           = (Len(admitted) - Cardinality(InFlight)) + 1
      /\ Len(admitted) - Cardinality(InFlight) \in Int
  BY <1>1, <1>5, AnswersAdmitted
<1>7. /\ Len(received[c]) \in Nat
      /\ Len(received'[c]) = Len(received[c]) + n
      /\ \A i \in 1..Len(received[c]) : received'[c][i] = received[c][i]
      /\ \A i \in 1..Len(received'[c]) : i > Len(received[c]) =>
           /\ i - Len(received[c]) \in 1..n
           /\ received'[c][i] = base + (i - Len(received[c]))
  <2> HIDE DEF base, n
  <2>1. received[c] \in Seq(Nat) /\ Len(received[c]) \in Nat
    BY <1>5
  <2>2. /\ Len(received[c] \o new) = Len(received[c]) + n
        /\ \A i \in 1..(Len(received[c]) + n) :
             (received[c] \o new)[i] = IF i <= Len(received[c])
                                       THEN received[c][i]
                                       ELSE new[i - Len(received[c])]
    BY <1>3, <2>1, ConcatProperties
  <2>3. /\ Len(received'[c]) = Len(received[c]) + n /\ n \in Nat
        /\ \A i \in 1..n : new[i] = base + i
    BY <1>2, <1>3, <1>5, <2>2
  <2>4. ASSUME NEW i \in 1..Len(received[c])
        PROVE  received'[c][i] = received[c][i]
    <3>1. i \in 1..(Len(received[c]) + n) /\ i <= Len(received[c])
      BY <2>1, <2>3
    <3> QED BY <1>5, <2>2, <3>1
  <2>5. ASSUME NEW i \in 1..Len(received'[c]), i > Len(received[c])
        PROVE  /\ i - Len(received[c]) \in 1..n
               /\ received'[c][i] = base + (i - Len(received[c]))
    <3>1. /\ i \in 1..(Len(received[c]) + n) /\ ~(i <= Len(received[c]))
          /\ i - Len(received[c]) \in 1..n
      BY <2>1, <2>3, <2>5
    <3>2. received'[c][i] = new[i - Len(received[c])]
      BY <1>5, <2>2, <3>1
    <3> QED BY <2>3, <3>1, <3>2
  <2> QED BY <2>1, <2>3, <2>4, <2>5
\* The bytes a client had are below base, the new ones above.
<1>8. ASSUME NEW d \in Clients, NEW i \in 1..Len(received'[d])
      PROVE  \/ /\ i \in 1..Len(received[d])
                /\ received'[d][i] = received[d][i]
                /\ received'[d][i] <= base
             \/ /\ d = c /\ i > Len(received[c])
                /\ i - Len(received[c]) \in 1..n
                /\ received'[d][i] = base + (i - Len(received[c]))
  <2>1. \A k \in 1..Len(received[d]) : received[d][k] <= base
    BY DEF HandlerInv, HandedOut
  <2>2. CASE d # c
    BY <1>5, <1>8, <2>1, <2>2
  <2>3. CASE d = c /\ i <= Len(received[c])
    BY <1>7, <1>8, <2>1, <2>3
  <2>4. CASE d = c /\ i > Len(received[c])
    BY <1>7, <1>8, <2>4
  <2> QED BY <1>7, <1>8, <2>2, <2>3, <2>4
<1>9. \A d \in Clients : \A i \in 1..Len(received'[d]) : received'[d][i] \in Nat
  BY <1>5
\* x is above b, by at most m.
<1> DEFINE Above(x, b, m) == ~(x <= b) /\ x <= b + m
<1>0. /\ \A x, b, m, p, l \in Int :
           p - l \in 1..m /\ x = b + (p - l) => Above(x, b, m)
      /\ \A x, b, m \in Int : x <= b /\ m >= 1 => x <= b + m
      /\ \A b, p, q, l \in Int : b + (p - l) = b + (q - l) => p = q
  OBVIOUS
<1> HIDE DEF Above
<1>10. HandedOut'
  <2>1. produced' - Len(whitened') = base + n
    <3>1. /\ produced \in Nat /\ Len(whitened) \in Nat
          /\ produced' = produced /\ Len(whitened') = Len(whitened) - n
          /\ base = produced - Len(whitened) /\ n \in Int
      <4>1. produced \in Nat
        BY StorageFacts
      <4> QED BY <1>1, <1>2, <1>3, <4>1, Zenon
    <3> HIDE DEF base, n
    <3> QED BY <3>1
  <2> HIDE DEF base, n
  <2> SUFFICES ASSUME NEW d \in Clients, NEW i \in 1..Len(received'[d])
               PROVE  received'[d][i] <= base + n
    BY <2>1 DEF HandedOut
  <2>2. received'[d][i] \in Nat /\ base \in Int /\ n \in Int /\ n >= 1
    BY <1>2, <1>3, <1>9
  <2>3. \/ received'[d][i] <= base
        \/ /\ i - Len(received[c]) \in 1..n
           /\ received'[d][i] = base + (i - Len(received[c]))
    BY <1>8
  <2>4. CASE received'[d][i] <= base
    BY <1>0, <2>2, <2>4
  <2>5. CASE /\ i - Len(received[c]) \in 1..n
             /\ received'[d][i] = base + (i - Len(received[c]))
    <3>1. received'[d][i] \in Int /\ i \in Int /\ Len(received[c]) \in Int
      BY <1>7, <2>2
    <3>2. Above(received'[d][i], base, n)
      BY <1>0, <2>2, <2>5, <3>1, Zenon
    <3> QED BY <3>2 DEF Above
  <2> QED BY <2>3, <2>4, <2>5
<1>11. ClientsShareNothing'
  <2> SUFFICES ASSUME NEW d \in Clients, NEW e \in Clients,
                      NEW i \in 1..Len(received'[d]),
                      NEW j \in 1..Len(received'[e]),
                      received'[d][i] = received'[e][j]
               PROVE  d = e /\ i = j
    BY DEF ClientsShareNothing
  <2> HIDE DEF base, n
  <2>0. /\ base \in Int /\ n \in Int /\ Len(received[c]) \in Int
        /\ i \in Int /\ j \in Int
        /\ received'[d][i] \in Int /\ received'[e][j] \in Int
        /\ \/ received'[d][i] <= base
           \/ /\ d = c /\ i - Len(received[c]) \in 1..n
              /\ received'[d][i] = base + (i - Len(received[c]))
        /\ \/ received'[e][j] <= base
           \/ /\ e = c /\ j - Len(received[c]) \in 1..n
              /\ received'[e][j] = base + (j - Len(received[c]))
    <3>1. /\ base \in Int /\ n \in Int /\ Len(received[c]) \in Int
          /\ i \in Int /\ j \in Int
      BY <1>2, <1>3, <1>7
    <3>2. received'[d][i] \in Int /\ received'[e][j] \in Int
      BY <1>9
    <3> QED BY <1>8, <3>1, <3>2, Zenon
  <2>1. CASE /\ i \in 1..Len(received[d]) /\ received'[d][i] = received[d][i]
             /\ j \in 1..Len(received[e]) /\ received'[e][j] = received[e][j]
    <3>1. received[d][i] = received[e][j]
      BY <2>1
    <3> QED BY <2>1, <3>1 DEF HandlerInv, ClientsShareNothing
  <2>2. CASE ~(i \in 1..Len(received[d]) /\ received'[d][i] = received[d][i])
    <3>1. d = c /\ i - Len(received[c]) \in 1..n /\ i \in Int
          /\ received'[d][i] = base + (i - Len(received[c]))
      BY <1>8, <2>0, <2>2, Zenon
    <3>2. e = c /\ received'[e][j] = base + (j - Len(received[c]))
      <4>1. Above(received'[d][i], base, n)
        BY <1>0, <2>0, <3>1, Zenon
      <4>2. ~(received'[e][j] <= base)
        BY <4>1 DEF Above
      <4> QED BY <2>0, <4>2
    <3>3. base + (i - Len(received[c])) = base + (j - Len(received[c]))
      BY <3>1, <3>2
    <3> QED BY <1>0, <2>0, <3>1, <3>2, <3>3
  <2>3. CASE ~(j \in 1..Len(received[e]) /\ received'[e][j] = received[e][j])
    <3>1. e = c /\ j - Len(received[c]) \in 1..n /\ j \in Int
          /\ received'[e][j] = base + (j - Len(received[c]))
      BY <1>8, <2>0, <2>3, Zenon
    <3>2. d = c /\ received'[d][i] = base + (i - Len(received[c]))
      <4>1. Above(received'[e][j], base, n)
        BY <1>0, <2>0, <3>1, Zenon
      <4>2. ~(received'[d][i] <= base)
        BY <4>1 DEF Above
      <4> QED BY <2>0, <4>2
    <3>3. base + (i - Len(received[c])) = base + (j - Len(received[c]))
      BY <3>1, <3>2
    <3> QED BY <1>0, <2>0, <3>1, <3>2, <3>3
  <2> QED BY <2>1, <2>2, <2>3
<1>12. StillThere'
  <2> SUFFICES ASSUME NEW d \in Clients, pc'[d] = "extract"
               PROVE  lookedAt'[d] < Len(released')
    <3>1. Len(released') \in Int /\ \A d \in Clients : lookedAt'[d] \in Int
      BY <1>2, <1>3, <1>6 DEF HandlerType
    <3> HIDE DEF n, base
    <3> QED BY <3>1 DEF StillThere
  <2>1. pc[d] = "extract" /\ lookedAt'[d] = lookedAt[d] /\ lookedAt[d] \in Nat
    BY <1>4 DEF HandlerInv, HandlerType
  <2>2. lookedAt[d] <= Len(released)
    BY <2>1 DEF HandlerInv, StillThere
  <2> QED BY <1>2, <1>3, <2>1, <2>2
<1>13. RefusalHasCause'
  BY <1>4 DEF RefusalHasCause
<1>14. Paid'
  <2> DEFINE k == Len(admitted) - Cardinality(InFlight)
  <2>1. Len(released) <= MaxRequest * k /\ k \in Int
    BY <1>6 DEF HandlerInv, Paid
  <2>2. Len(admitted') - Cardinality(InFlight') = k + 1
    BY <1>6
  <2> HIDE DEF k, n
  <2>3. Len(released') <= MaxRequest * (k + 1)
    BY <1>2, <1>3, <2>1, RequestTimes
  <2> QED BY <1>6, <2>2, <2>3 DEF Paid
<1> QED BY <1>6, <1>10, <1>11, <1>12, <1>13, <1>14 DEF HandlerInv

\* Ingestion drops old bytes, but never below what the pool held.
LEMMA IngestKeeps ==
  ASSUME HandlerInv, StorageOK, Ingest
  PROVE  HandlerInv'
<1>1. PICK n \in BatchSizes : Pool!AddBatch(n)
  BY DEF Ingest
<1>2. /\ pc' = pc /\ want' = want /\ seen' = seen /\ answer' = answer
      /\ lookedAt' = lookedAt /\ received' = received /\ admitted' = admitted
      /\ released' = released /\ produced' = produced + DigestSize
  BY <1>1 DEF Ingest, limiter, vars, handler, Pool!AddBatch
<1>3. PICK values \in [1..DigestSize -> Byte] :
        whitened' = Pool!Trim(whitened \o Pool!Digest(values), Pool!MaxPool)
  BY <1>1 DEF Pool!AddBatch
<1> DEFINE T == [id : Nat \ {0}, val : Byte]
           all == whitened \o Pool!Digest(values)
<1>4. /\ DigestSize \in Nat \ {0} /\ whitened \in Seq(T) /\ produced \in Nat
      /\ Len(whitened) \in Nat /\ Len(whitened) <= Pool!MaxPool
      /\ Pool!MaxPool \in Nat /\ Byte \subseteq Nat
  BY ServerAssumption, StorageFacts DEF Pool!PoolAssumption
<1>5. Pool!Digest(values) \in Seq(T) /\ Len(Pool!Digest(values)) = DigestSize
  BY <1>4 DEF Pool!Digest
<1>6. all \in Seq(T) /\ Len(all) = Len(whitened) + DigestSize
  BY <1>4, <1>5, ConcatProperties
<1> HIDE DEF all
<1>7. Len(whitened') = IF Len(all) > Pool!MaxPool THEN Pool!MaxPool ELSE Len(all)
  <2> DEFINE m == Len(all) - Pool!MaxPool + 1
  <2> HIDE DEF T
  <2>1. CASE Len(all) > Pool!MaxPool
    <3>1. whitened' = SubSeq(all, m, Len(all))
      BY <1>3, <2>1 DEF Pool!Trim, all
    <3>2. /\ m \in 1..(Len(all) + 1) /\ Len(all) \in 0..Len(all)
          /\ Len(all) - m + 1 = Pool!MaxPool /\ m \in Int /\ Len(all) \in Int
          /\ m <= Len(all) + 1 /\ 1 <= m
      BY <1>4, <1>6, <2>1
    <3> HIDE DEF m
    <3>3. Len(SubSeq(all, m, Len(all)))
            = IF m <= Len(all) THEN Len(all) - m + 1 ELSE 0
      <4>1. \A i \in m..Len(all) : all[i] \in T
        BY <1>6, <3>2
      <4> QED BY <3>2, <4>1, SubSeqProperties
    <3> QED BY <1>4, <2>1, <3>1, <3>2, <3>3
  <2>2. CASE ~(Len(all) > Pool!MaxPool)
    BY <1>3, <2>2 DEF Pool!Trim, all
  <2> QED BY <2>1, <2>2
<1>8. /\ Len(whitened') >= Len(whitened) /\ Len(whitened') \in Nat
      /\ produced' - Len(whitened') >= produced - Len(whitened)
  BY <1>2, <1>4, <1>6, <1>7
<1>9. HandlerType' /\ InFlight' = InFlight
  BY <1>2 DEF HandlerInv, HandlerType, InFlight, InRange
<1>10. HandedOut'
  <2> SUFFICES ASSUME NEW c \in Clients, NEW i \in 1..Len(received[c])
               PROVE  received[c][i] <= produced' - Len(whitened')
    BY <1>2 DEF HandedOut
  <2>1. received[c][i] \in Nat /\ received[c][i] <= produced - Len(whitened)
    BY DEF HandlerInv, HandlerType, HandedOut
  <2> QED BY <1>2, <1>4, <1>8, <2>1
<1>11. StillThere'
  <2> SUFFICES ASSUME NEW c \in Clients, pc[c] = "extract"
               PROVE  /\ lookedAt[c] <= Len(released)
                      /\ lookedAt[c] = Len(released) =>
                           seen[c] = 0 \/ seen[c] + Pool!MinPool <= Len(whitened')
    BY <1>2 DEF StillThere, Pool!MinPool
  <2>1. seen[c] \in Nat /\ Pool!MinPool \in Nat
    BY StorageFacts DEF HandlerInv, HandlerType
  <2> QED BY <1>4, <1>8, <2>1 DEF HandlerInv, StillThere
<1>12. ClientsShareNothing' /\ RefusalHasCause' /\ Paid'
  BY <1>2, <1>9 DEF HandlerInv, ClientsShareNothing, RefusalHasCause, Paid
<1> QED BY <1>9, <1>10, <1>11, <1>12 DEF HandlerInv

LEMMA HandlerStep ==
  ASSUME HandlerInv, TypeOK, StorageOK, [ServerNext]_server
  PROVE  HandlerInv'
<1>1. CASE Ingest
  BY <1>1, IngestKeeps
<1>2. CASE TimePasses \/ UNCHANGED server
  <2>1. /\ UNCHANGED <<pool, handler, admitted>>
    BY <1>2 DEF TimePasses, Tick, server, limiter, vars
  <2>2. /\ pc' = pc /\ want' = want /\ seen' = seen /\ answer' = answer
        /\ lookedAt' = lookedAt /\ received' = received /\ admitted' = admitted
        /\ produced' = produced /\ whitened' = whitened /\ released' = released
    BY <2>1 DEF pool, handler
  <2>3. HandlerType' /\ InFlight' = InFlight
    BY <2>2 DEF HandlerInv, HandlerType, InFlight, InRange
  <2>4. HandedOut' /\ ClientsShareNothing' /\ StillThere' /\ RefusalHasCause'
    BY <2>2 DEF HandlerInv, HandedOut, ClientsShareNothing, StillThere,
       RefusalHasCause, Pool!MinPool
  <2>5. Paid'
    BY <2>2, <2>3 DEF HandlerInv, Paid
  <2> QED BY <2>3, <2>4, <2>5 DEF HandlerInv
<1>3. ASSUME NEW c \in Clients, HandleEntropy(c)
      PROVE  HandlerInv'
  <2>1. ASSUME NEW n \in Requests, BadRequest(c, n) PROVE HandlerInv'
    <3>1. c \notin InFlight /\ UNCHANGED <<pool, admitted, received>>
      BY <2>1 DEF BadRequest, InFlight, limiter, vars
    <3>2. /\ Respond(c, Reply("badRequest", 400, n, 0, 0))
          /\ Reply("badRequest", 400, n, 0, 0).endpoint # "entropy"
      BY <2>1 DEF BadRequest, Reply
    <3> QED BY <3>1, <3>2, AnswersIdle
  <2>2. ASSUME NEW n \in Requests, RateLimited(c, n) PROVE HandlerInv'
    <3>1. c \notin InFlight /\ UNCHANGED <<pool, admitted, received>>
      BY <2>2 DEF RateLimited, InFlight, AllowRejects
    <3>2. /\ Respond(c, Reply("rateLimited", 503, n, 0, 0))
          /\ Reply("rateLimited", 503, n, 0, 0).endpoint # "entropy"
      BY <2>2 DEF RateLimited, Reply
    <3> QED BY <3>1, <3>2, AnswersIdle
  <2>3. ASSUME NEW n \in Requests, Admit(c, n) PROVE HandlerInv'
    BY <2>3, AdmitKeeps
  <2> QED BY <1>3, <2>1, <2>2, <2>3, ReadKeeps, ServeKeeps, InsufficientKeeps
          DEF HandleEntropy
<1>4. ASSUME NEW c \in Clients, HealthReports(c)
      PROVE  HandlerInv'
  <2>1. c \notin InFlight /\ UNCHANGED <<pool, admitted, received>>
    BY <1>4 DEF HealthReports, InFlight, limiter, vars
  <2>2. /\ Respond(c, Reply("health", 200, 0, Pool!AvailableEntropy, seen[c]))
        /\ Reply("health", 200, 0, Pool!AvailableEntropy, seen[c]).endpoint
             # "entropy"
    BY <1>4 DEF HealthReports, Reply
  <2> QED BY <2>1, <2>2, AnswersIdle
<1>5. ASSUME NEW c \in Clients, HandleReady(c)
      PROVE  HandlerInv'
  <2> DEFINE a == Pool!AvailableEntropy
             reply == Reply("ready", IF a < Threshold THEN 503 ELSE 200, 0, a, 0)
  <2>1. c \notin InFlight /\ UNCHANGED <<pool, admitted, received>>
    BY <1>5 DEF HandleReady, InFlight, limiter, vars
  <2>2. Respond(c, reply) /\ reply.endpoint # "entropy"
    BY <1>5 DEF HandleReady, Reply
  <2> HIDE DEF reply
  <2> QED BY <2>1, <2>2, AnswersIdle
<1> QED BY <1>1, <1>2, <1>3, <1>4, <1>5, HealthReadsKeeps DEF ServerNext

LEMMA ServerStep == ServerInv /\ [ServerNext]_server => ServerInv'
<1> SUFFICES ASSUME ServerInv, [ServerNext]_server PROVE ServerInv'
  OBVIOUS
<1>1. /\ StorageOK /\ BucketInv /\ TypeOK /\ Spent /\ HandlerInv
      /\ HandlerType
  BY DEF ServerInv, BucketInv, HandlerInv
<1>2. [Pool!Next]_(Pool!vars) /\ [Next]_vars
  BY <1>1, StepsOfParts
<1>3. StorageOK' /\ BucketInv' /\ Spent'
  BY <1>1, <1>2, StorageHolds, BucketStep, SpentStep
<1>4. HandlerInv'
  BY <1>1, HandlerStep
<1> QED BY <1>3, <1>4 DEF ServerInv

LEMMA ServerInitInv == ServerInit => ServerInv
<1> SUFFICES ASSUME ServerInit PROVE ServerInv
  OBVIOUS
<1>1. StorageOK /\ BucketInv
  BY StorageHolds, BucketInit DEF ServerInit
<1>2. /\ pc = [c \in Clients |-> "idle"] /\ want = [c \in Clients |-> 0]
      /\ seen = [c \in Clients |-> 0] /\ lookedAt = [c \in Clients |-> 0]
      /\ received = [c \in Clients |-> <<>>]
      /\ answer.endpoint = "none"
  BY DEF ServerInit, Reply
<1>3. /\ released = <<>> /\ admitted = <<>> /\ tokens = Capacity
      /\ lastRefill = 0
  BY DEF ServerInit, Init, Pool!Init
<1>4. Spent
  <2>1. 0 * One = 0 /\ Refill * 0 = 0 /\ Capacity \in Nat
    BY CapacityType, BucketAssumption
  <2> QED BY <1>3, <2>1 DEF Spent
<1>5. InFlight = {}
  BY <1>2 DEF InFlight
<1>6. HandlerType
  BY <1>2, <1>5 DEF HandlerType
<1>7. HandedOut /\ ClientsShareNothing /\ StillThere /\ RefusalHasCause
  BY <1>2 DEF HandedOut, ClientsShareNothing, StillThere, RefusalHasCause
<1>8. Paid
  <2>1. Len(admitted) - Cardinality(InFlight) = 0 /\ Len(released) = 0
    BY <1>3, <1>5, FS_EmptySet
  <2>2. MaxRequest * 0 = 0
    BY RequestTimes
  <2> QED BY <1>5, <2>1, <2>2, FS_EmptySet DEF Paid
<1> QED BY <1>1, <1>4, <1>6, <1>7, <1>8 DEF ServerInv, HandlerInv

\* Every block of entropy was paid for with a token.
LEMMA PaidBounds == ServerInv => EntropyRateBounded
<1> SUFFICES ASSUME ServerInv PROVE EntropyRateBounded
  OBVIOUS
<1>0. TypeOK /\ Spent /\ Paid /\ StorageOK
  BY DEF ServerInv, BucketInv, HandlerInv
<1> DEFINE A == Len(admitted)
           L == Len(released)
           F == A - Cardinality(InFlight)
           B == Capacity + Refill * now
<1>1. /\ A \in Nat /\ L \in Nat /\ F \in Int /\ F <= A
      /\ L <= MaxRequest * F
  BY <1>0, StorageFacts, FS_CardinalityType DEF TypeOK, Paid
<1>2. A * One <= B /\ B \in Int /\ A * One \in Int
  <2>1. /\ now \in Int /\ lastRefill \in Int /\ lastRefill <= now
        /\ tokens \in Nat /\ Capacity \in Nat
    BY <1>0, CapacityType DEF TypeOK
  <2>2. /\ Refill * lastRefill <= Refill * now
        /\ Refill * lastRefill \in Int /\ Refill * now \in Int
    BY <2>1, RefillTimes
  <2>3. A * One \in Int
    BY <1>1, OneTimes
  <2> QED BY <1>0, <2>1, <2>2, <2>3 DEF Spent
<1> HIDE DEF A, L, F, B
<1>3. MaxRequest * F <= MaxRequest * A /\ MaxRequest * A \in Int
      /\ MaxRequest * F \in Int
  BY <1>1, RequestTimes
<1>4. L <= MaxRequest * A
  BY <1>1, <1>3
<1>5. \A x, y \in Int : \A o \in Nat : x <= y => x * o <= y * o
  OBVIOUS
<1>6. One \in Nat /\ MaxRequest \in Nat
  BY BucketAssumption, ServerAssumption
<1>7. L * One <= (MaxRequest * A) * One
  BY <1>1, <1>3, <1>4, <1>5, <1>6
<1>8. \A x, y, z \in Nat : (x * y) * z = x * (y * z)
  OBVIOUS
<1>9. (MaxRequest * A) * One = MaxRequest * (A * One)
  BY <1>1, <1>6, <1>8
<1>10. MaxRequest * (A * One) <= MaxRequest * B
  BY <1>2, RequestTimes
<1>11. /\ L * One \in Int /\ MaxRequest * (A * One) \in Int
       /\ MaxRequest * B \in Int
  BY <1>1, <1>2, <1>6, RequestTimes, OneTimes
<1> QED BY <1>7, <1>9, <1>10, <1>11 DEF EntropyRateBounded, L, B

-----------------------------------------------------------------------------
(* Theorems about the server *)

\* For every number of concurrent clients, no byte is handed out twice: the
\* two looks a handler takes at the pool never make two handlers share bytes.
THEOREM ClientsShareNothingCorrect == ServerSpec => []ClientsShareNothing
<1>1. ServerInv => ClientsShareNothing
  BY DEF ServerInv, HandlerInv
<1> QED BY <1>1, ServerInitInv, ServerStep, PTL DEF ServerSpec

\* For every rate, burst and request limit, whatever number of requests is in
\* flight, the entropy that has left the gateway is bounded by the limiter.
THEOREM EntropyRateBoundedCorrect == ServerSpec => []EntropyRateBounded
  BY ServerInitInv, ServerStep, PaidBounds, PTL DEF ServerSpec

\* For every pool, an answer 503 that quotes enough available bytes has a
\* cause other than ingestion and trimming.
THEOREM RefusalHasCauseCorrect == ServerSpec => []RefusalHasCause
<1>1. ServerInv => RefusalHasCause
  BY DEF ServerInv, HandlerInv
<1> QED BY <1>1, ServerInitInv, ServerStep, PTL DEF ServerSpec

\* The handlers, concurrent as they are, use the pool only through its
\* methods and the limiter only through Allow: the server implements both
\* specifications.
THEOREM ServerImplementsParts == ServerSpec => Pool!Spec /\ Spec
<1>1. ServerInit => Pool!Init /\ Init
  BY DEF ServerInit
<1>2. ServerInv /\ [ServerNext]_server => [Pool!Next]_(Pool!vars) /\ [Next]_vars
  BY StepsOfParts DEF ServerInv, HandlerInv
<1> QED BY <1>1, <1>2, ServerInitInv, ServerStep, PTL
        DEF ServerSpec, Spec, Pool!Spec

\* What the pool guarantees of its bytes when it is used by one caller at a
\* time it guarantees under the server: between two health test failures no
\* run as long as the RCT's cutoff leaves the gateway, and every complete
\* window passes the APT, whichever clients the bytes go to.
THEOREM HealthyBytesServed ==
  ServerSpec => [](Pool!NoStuckRunBetweenFaults /\ Pool!AptWindowsPass)
<1>1. Pool!Init => Proved!PoolInv
  <2>1. Proved!Init => Proved!PoolInv
    BY ServerAssumption, Proved!PoolInit DEF Pool!PoolAssumption
  <2> QED BY <2>1, SameInit
<1>2. Proved!PoolInv /\ [Pool!Next]_(Pool!vars) => Proved!PoolInv'
  <2>1. Proved!PoolInv /\ [Proved!Next]_(Proved!vars) => Proved!PoolInv'
    BY ServerAssumption, Proved!PoolStep DEF Pool!PoolAssumption
  <2> QED BY <2>1, SameStep
<1>3. Proved!PoolInv => Pool!NoStuckRunBetweenFaults
  <2>1. Proved!PoolInv => Proved!NoStuckRunBetweenFaults
    BY ServerAssumption, Proved!PoolNoStuckRun DEF Pool!PoolAssumption
  <2>2. Proved!NoStuckRunBetweenFaults => Pool!NoStuckRunBetweenFaults
    BY DEF Proved!NoStuckRunBetweenFaults, Pool!NoStuckRunBetweenFaults,
       Proved!HasRun, Pool!HasRun, Proved!IsRun, Pool!IsRun, Proved!Vals,
       Pool!Vals
  <2> QED BY <2>1, <2>2
<1>4. Proved!PoolInv => Pool!AptWindowsPass
  <2>1. Proved!PoolInv => Proved!AptWindowsPass
    BY ServerAssumption, Proved!PoolAptWindows DEF Pool!PoolAssumption
  <2>2. Proved!AptWindowsPass => Pool!AptWindowsPass
    BY Zenon DEF Proved!AptWindowsPass, Pool!AptWindowsPass,
       Proved!WindowMatches, Pool!WindowMatches, Proved!Vals, Pool!Vals,
       Proved!Cardinality, Pool!Cardinality
  <2> QED BY <2>1, <2>2
<1> QED BY <1>1, <1>2, <1>3, <1>4, ServerImplementsParts, PTL DEF Pool!Spec
=============================================================================
