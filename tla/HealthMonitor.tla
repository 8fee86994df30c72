--------------------------- MODULE HealthMonitor ---------------------------
(***************************************************************************)
(* Package validation and the conditioning, called in any order: the two   *)
(* health tests fed with an arbitrary stream of samples, one block         *)
(* (TestBlock) at a time, and reset at arbitrary moments; the statistics   *)
(* of a block; the conditioning of a batch.  Each is checked against its   *)
(* definition in terms of the stream, the block or the batch.              *)
(*                                                                         *)
(* The tests share no state: a behaviour feeds one of them at a time, from *)
(* a reset on.  The other calls keep no state and are made at that time.   *)
(***************************************************************************)
EXTENDS HealthTests, Validation, Whitening

CONSTANTS Byte,         \* sample values
          RctCutoffs,   \* cutoffs the constructor may be called with
          AptCutoffs,
          AptWindows,
          MaxBlock,     \* bound: longest block
          MaxStream,    \* bound: samples fed since the last reset
          AnalysedBytes,  \* values of the blocks analysed
          MaxAnalysed,    \* bound: length of a block analysed
          EdgeBytes,      \* values of longer blocks, at the tests' limits
          EdgeLength,     \* their length
          Windows,        \* windows of ComputeTestSummary
          Timestamps,     \* timestamps of the batches conditioned
          MaxBatch        \* bound: events of a batch conditioned

ASSUME MonitorAssumption ==
  /\ Byte \subseteq Nat /\ 0 \in Byte
  /\ RctCutoffs \subseteq Int /\ AptCutoffs \subseteq Int
  /\ AptWindows \subseteq Int
  /\ MaxBlock \in Nat /\ MaxStream \in Nat
  /\ AnalysedBytes \cup EdgeBytes \subseteq 0..255
  /\ MaxAnalysed \in Nat /\ EdgeLength \in Nat /\ Windows \subseteq Nat
  /\ Timestamps \subseteq 0..(2^(8 * WordBytes) - 1) /\ MaxBatch \in Nat

VARIABLES rct, apt,       \* the tests
          rctFed, aptFed, \* samples each test has seen since its last reset
          rctOk, aptOk,   \* verdict of the last block
          call            \* the last call without state: its input and result

vars == <<rct, apt, rctFed, aptFed, rctOk, aptOk, call>>

NoCall == [op |-> "none"]

Blocks == UNION {[1..n -> Byte] : n \in 1..MaxBlock}

Init ==
  /\ \E c \in RctCutoffs : rct = NewRepetitionCountTest(c)
  /\ \E c \in AptCutoffs, w \in AptWindows :
       apt = NewAdaptiveProportionTest(c, w)
  /\ rctFed = <<>> /\ aptFed = <<>>
  /\ rctOk = TRUE /\ aptOk = TRUE
  /\ call = NoCall

\* The samples of block that a test which reports ok has looked at: all of
\* them, or those up to the first failure.
Seen(test(_, _), t, block) ==
  LET fails == {i \in 1..Len(block) : ~test(t, SubSeq(block, 1, i)).ok} IN
  IF fails = {} THEN block
  ELSE SubSeq(block, 1, CHOOSE i \in fails : \A j \in fails : i <= j)

TestRct(block) ==
  /\ aptFed = <<>>
  /\ Len(rctFed) + Len(block) <= MaxStream
  /\ rct' = RctTestBlock(rct, block).st
  /\ rctOk' = RctTestBlock(rct, block).ok
  /\ rctFed' = rctFed \o Seen(RctTestBlock, rct, block)
  /\ call' = NoCall
  /\ UNCHANGED <<apt, aptFed, aptOk>>

TestApt(block) ==
  /\ rctFed = <<>>
  /\ Len(aptFed) + Len(block) <= MaxStream
  /\ apt' = AptTestBlock(apt, block).st
  /\ aptOk' = AptTestBlock(apt, block).ok
  /\ aptFed' = aptFed \o Seen(AptTestBlock, apt, block)
  /\ call' = NoCall
  /\ UNCHANGED <<rct, rctFed, rctOk>>

ResetRct ==
  /\ rct' = RctReset(rct) /\ rctFed' = <<>> /\ rctOk' = TRUE
  /\ call' = NoCall
  /\ UNCHANGED <<apt, aptFed, aptOk>>

ResetApt ==
  /\ apt' = AptReset(apt) /\ aptFed' = <<>> /\ aptOk' = TRUE
  /\ call' = NoCall
  /\ UNCHANGED <<rct, rctFed, rctOk>>

Idle == rctFed = <<>> /\ aptFed = <<>> /\ call = NoCall

Analysed ==
  (UNION {[1..n -> AnalysedBytes] : n \in 0..MaxAnalysed})
    \cup [1..EdgeLength -> EdgeBytes]

\* The statistics AddBatch records of the conditioned bytes, and those the
\* package offers beside them.
Analyse(block, window) ==
  /\ Idle
  /\ \E mcv \in EstimateMCVWithStats(block) :
       call' = [op |-> "analyse", data |-> block, window |-> window,
                frequency |-> FrequencyTest(block), runs |-> RunsTest(block),
                mcv |-> mcv, collision |-> EstimateCollisionWithStats(block),
                conservative |-> EstimateMinEntropyConservative(block),
                summary |-> ComputeTestSummary(block, window, window)]
  /\ UNCHANGED <<rct, apt, rctFed, aptFed, rctOk, aptOk>>

Batches == UNION {[1..n -> Timestamps] : n \in 0..MaxBatch}

\* AddBatch conditions the timestamps of a batch.
Condition(events) ==
  /\ Idle
  /\ LET raw == RawBytes(events)
         size == DualStageWhiteningSize(raw)
     IN call' = [op |-> "condition", data |-> events, raw |-> raw,
                 folded |-> ParityPreprocess(raw), size |-> size,
                 debiased |-> VonNeumannExtractor(raw),
                 stats |-> ComputeWhiteningStats(Len(raw), size)]
  /\ UNCHANGED <<rct, apt, rctFed, aptFed, rctOk, aptOk>>

Next ==
  \/ \E block \in Blocks : TestRct(block) \/ TestApt(block)
  \/ ResetRct
  \/ ResetApt
  \/ \E block \in Analysed, window \in Windows : Analyse(block, window)
  \/ \E events \in Batches : Condition(events)

Spec == Init /\ [][Next]_vars

-----------------------------------------------------------------------------

TrailingRun(s) ==
  {n \in 1..Len(s) : IsRun(s, Len(s) - n + 1, n)}

\* TestBlock fails exactly when the stream since the last reset ends in a run
\* of cutoff equal samples, however the stream was cut into blocks and
\* whatever the failures before.  The first sample of a stream never fails,
\* so a cutoff of 1 acts like 2.
RctDetectsRuns ==
  rctFed # <<>> =>
    LET need == IF rct.cutoff < 2 THEN 2 ELSE rct.cutoff IN
    ~rctOk <=> need \in TrailingRun(rctFed)

\* TestBlock fails exactly when the stream since the last reset ends with a
\* complete window in which the window's first sample occurs cutoff times or
\* more; windows are counted through failures and across blocks.
AptJudgesWindows ==
  LET w == Len(aptFed) \div apt.windowSize IN
  ~aptOk <=> /\ aptFed # <<>>
             /\ Len(aptFed) % apt.windowSize = 0
             /\ Cardinality(WindowMatches(aptFed, apt.windowSize, w))
                  >= apt.cutoff

\* What is recorded of a block is what the block's bits and bytes say: the
\* runs are the changes of bit, across bytes too, plus one, and both bit
\* tests see a block and its complement alike; the first collision is the
\* first byte with an equal before it, all bytes before it being different;
\* the most common value is one whichever order the map is read in; and the
\* conservative estimate is above neither of the two.
StatisticsMatchDefinition ==
  call.op = "analyse" /\ call.data # <<>> =>
    LET d == call.data
        n == 8 * Len(d)
        bits == [k \in 1..n |-> BitAt(d, k)]
        flipped == [i \in 1..Len(d) |-> 255 - d[i]]
        repeated == {i \in 1..Len(d) : \E j \in 1..(i - 1) : d[j] = d[i]}
        w == Windowed(d, call.window)
    IN
    /\ call.frequency.ratio = <<Cardinality({k \in 1..n : bits[k] = 1}), n>>
    /\ call.frequency.passed = FrequencyTest(flipped).passed
    /\ call.runs.count = 1 + Cardinality({k \in 2..n : bits[k] # bits[k - 1]})
    /\ call.runs = RunsTest(flipped)
    /\ IF repeated = {} THEN call.collision.time = 0
       ELSE /\ call.collision.time \in repeated
            /\ \A i \in repeated : call.collision.time <= i
            /\ call.collision.unique = call.collision.time - 1
    /\ \A v \in Values(d) : Cardinality(Positions(d, v))
                               <= Cardinality(Positions(d, call.mcv.value))
    /\ call.mcv.count > 1 <=> call.collision.time > 0
    /\ ~Less(call.mcv.h, call.conservative)
    /\ ~Less(call.collision.h, call.conservative)
    /\ w # <<>> => /\ HasRun(w, call.summary.rct)
                   /\ ~HasRun(w, call.summary.rct + 1)

\* The bytes that fold to folded, given the first of them.
Unfold(first, folded) ==
  LET out[i \in 1..(Len(folded) + 1)] ==
        IF i = 1 THEN first ELSE Xor(out[i - 1], folded[i - 1])
  IN  out

\* The value of the e-th word of bytes, least significant byte first.
WordAt(bytes, e) ==
  LET sum[i \in 0..WordBytes] ==
        IF i = 0 THEN 0
        ELSE sum[i - 1] + bytes[(e - 1) * WordBytes + i] * 2^(8 * (i - 1))
  IN  sum[WordBytes]

\* The conditioning loses nothing but the batch's first byte before SHA-256:
\* with that byte the fold gives back every timestamp of the batch, in
\* order.  The debiased bits are at most half of the input, the counters
\* never wrap, and a batch gives a digest or, when empty, nothing.
ConditioningMatchesDefinition ==
  call.op = "condition" =>
    LET raw == call.raw IN
    /\ Len(raw) = WordBytes * Len(call.data)
    /\ \A e \in 1..Len(call.data) :
         WordAt(Unfold(raw[1], call.folded), e) = call.data[e]
    /\ call.size = IF call.data = <<>> THEN 0 ELSE DigestBytes
    /\ 2 * Len(call.debiased) <= Len(raw) + 1
    /\ call.stats.input \in {8 * Len(raw), MaxUint}
    /\ call.stats.input <= 8 * Len(raw) + 7
=============================================================================
