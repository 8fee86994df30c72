----------------------------- MODULE Validation -----------------------------
(***************************************************************************)
(* The statistics of internal/validation/quick_tests.go and min_entropy.go *)
(* over a block of bytes.                                                  *)
(*                                                                         *)
(* Floating point is replaced by exact fractions, pairs <<a, b>> for a/b.  *)
(* A min-entropy estimate h, a logarithm in the source, is the fraction    *)
(* 2^h: <<1, 1>> is 0 bits and <<256, 1>> is 8 bits.  A p-value is the     *)
(* statistic x of its erfc(sqrt(x)), which it decreases with.  Maps and    *)
(* loops that only count are sets; a loop that carries state from byte to  *)
(* byte is a recursive function of the position.                           *)
(***************************************************************************)
EXTENDS Integers, Sequences, FiniteSets

\* Bit k of a block, the most significant bit of the first byte being 1.
BitAt(data, k) ==
  (data[(k - 1) \div 8 + 1] \div 2^(7 - ((k - 1) % 8))) % 2

Abs(n) == IF n < 0 THEN -n ELSE n

Largest(set) == CHOOSE n \in set : \A m \in set : m <= n

\* Positions of a value in a block.
Positions(data, value) == {i \in 1..Len(data) : data[i] = value}
Values(data) == {data[i] : i \in 1..Len(data)}

-----------------------------------------------------------------------------
(* quick_tests.go *)

OnesCount8(b) == Cardinality({i \in 0..7 : (b \div 2^i) % 2 = 1})

\* The loop over the bytes.
Ones(data) ==
  LET sum[i \in 0..Len(data)] ==
        IF i = 0 THEN 0 ELSE sum[i - 1] + OnesCount8(data[i])
  IN  sum[Len(data)]

\* [ratio, passed]; between 45 % and 55 %, inclusive.
FrequencyTest(data) ==
  IF data = <<>> THEN [ratio |-> <<0, 1>>, passed |-> FALSE]
  ELSE LET ones == Ones(data)
           total == Len(data) * 8
       IN [ratio  |-> <<ones, total>>,
           passed |-> 45 * total <= 100 * ones /\ 100 * ones <= 55 * total]

\* Mutant: the last bit is forgotten at the start of every byte.
RunsPerByte(data) ==
  LET scan[k \in 1..(8 * Len(data))] ==
        IF k = 1 THEN [runs |-> 1, last |-> BitAt(data, 1)]
        ELSE LET before == scan[k - 1] IN
             IF k % 8 = 1 \/ BitAt(data, k) # before.last
             THEN [runs |-> before.runs + 1, last |-> BitAt(data, k)]
             ELSE before
  IN  scan[8 * Len(data)].runs
\* The loop over the bits: the runs so far and the last bit.
Runs(data) ==
  LET scan[k \in 1..(8 * Len(data))] ==
        IF k = 1 THEN [runs |-> 1, last |-> BitAt(data, 1)]
        ELSE LET before == scan[k - 1] IN
             IF BitAt(data, k) # before.last
             THEN [runs |-> before.runs + 1, last |-> BitAt(data, k)]
             ELSE before
  IN  scan[8 * Len(data)].runs

\* [count, passed]; less than 10 % away from half of the bits.
RunsTest(data) ==
  IF data = <<>> THEN [count |-> 0, passed |-> FALSE]
  ELSE LET runs == Runs(data)
           expected == 4 * Len(data)
       IN [count |-> runs, passed |-> 10 * Abs(runs - expected) < expected]

\* chiSq / 2 with chiSq = (ones - n/2)^2 / (n/2)
computeFrequencyPValue(data, ratio) ==
  LET n == Len(data) * 8
      ones == (ratio[1] * n) \div ratio[2]
  IN  <<(2 * ones - n) * (2 * ones - n), 4 * n>>

\* z^2 / 2 with z = |runs - n/2| / sqrt(n/4)
computeRunsPValue(data, runs) ==
  LET n == Len(data) * 8 IN <<(2 * runs - n) * (2 * runs - n), 2 * n>>

\* The part of a block a window covers.
Windowed(data, window) ==
  SubSeq(data, 1, IF window < Len(data) THEN window ELSE Len(data))

\* The loop over the window: longest run so far, current run.
computeRCTStat(data, window) ==
  IF data = <<>> \/ window = 0 THEN 0
  ELSE LET d == Windowed(data, window)
           scan[i \in 1..Len(d)] ==
             IF i = 1 THEN [max |-> 1, current |-> 1]
             ELSE LET before == scan[i - 1] IN
                  IF d[i] # d[i - 1] THEN [before EXCEPT !.current = 1]
                  ELSE [max |-> Largest({before.max, before.current + 1}),
                        current |-> before.current + 1]
       IN  scan[Len(d)].max

MaxCount(data) ==
  Largest({0} \cup {Cardinality(Positions(data, v)) : v \in Values(data)})

computeAPTStat(data, window) ==
  IF data = <<>> \/ window = 0 THEN <<0, 1>>
  ELSE <<MaxCount(Windowed(data, window)), Len(Windowed(data, window))>>

ComputeTestSummary(data, rctWindow, aptWindow) ==
  IF data = <<>> THEN [freq |-> <<0, 1>>, runs |-> <<0, 1>>, rct |-> 0,
                       apt |-> <<0, 1>>]
  ELSE [freq |-> computeFrequencyPValue(data, FrequencyTest(data).ratio),
        runs |-> computeRunsPValue(data, RunsTest(data).count),
        rct  |-> computeRCTStat(data, rctWindow),
        apt  |-> computeAPTStat(data, aptWindow)]

-----------------------------------------------------------------------------
(* min_entropy.go *)

\* 1/pmax, and 0 bits for a block of one value.
EstimateMCV(data) ==
  IF data = <<>> THEN <<1, 1>> ELSE <<Len(data), MaxCount(data)>>

\* The most common value is the first one of the map with the largest count,
\* and Go iterates over a map in any order.
EstimateMCVWithStats(data) ==
  IF data = <<>> THEN {[h |-> <<1, 1>>, value |-> 0, count |-> 0, unique |-> 0]}
  ELSE {[h |-> EstimateMCV(data), value |-> v, count |-> MaxCount(data),
         unique |-> Cardinality(Values(data))] :
          v \in {w \in Values(data) :
                   Cardinality(Positions(data, w)) = MaxCount(data)}}

\* The loop: the values seen, and the position of the first repeated one, 0
\* when there is none.
Collision(data) ==
  LET scan[i \in 0..Len(data)] ==
        IF i = 0 THEN [seen |-> {}, t |-> 0]
        ELSE LET before == scan[i - 1] IN
             IF before.t # 0 THEN before
             ELSE IF data[i] \in before.seen THEN [before EXCEPT !.t = i]
             ELSE [before EXCEPT !.seen = @ \cup {data[i]}]
  IN  scan[Len(data)]

\* t, at most 8 bits.
EstimateCollision(data) ==
  IF data = <<>> THEN <<1, 1>>
  ELSE LET t == Collision(data).t IN
       IF Len(data) = 1 \/ t = 0 \/ t > 256 THEN <<256, 1>> ELSE <<t, 1>>

EstimateCollisionWithStats(data) ==
  LET c == Collision(data) IN
  [h      |-> EstimateCollision(data),
   time   |-> c.t,
   value  |-> IF Len(data) = 1 THEN data[1] ELSE IF c.t = 0 THEN 0 ELSE data[c.t],
   unique |-> Cardinality(c.seen)]

Less(p, q) == p[1] * q[2] < q[1] * p[2]

EstimateMinEntropyConservative(data) ==
  IF Less(EstimateMCV(data), EstimateCollision(data))
  THEN EstimateMCV(data) ELSE EstimateCollision(data)
=============================================================================
