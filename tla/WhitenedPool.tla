---------------------------- MODULE WhitenedPool ----------------------------
(***************************************************************************)
(* The whitened entropy pool of internal/entropy/pool.go.                  *)
(*                                                                         *)
(* Every method runs under pool.mu (whitening, done before the lock, reads *)
(* no shared state), so a method is one action.  A stored byte carries its *)
(* identity, its position in everything the whitener ever produced, beside *)
(* its value: two equal bytes are still different bytes.                   *)
(***************************************************************************)
EXTENDS HealthTests, FiniteSets

CONSTANTS
  MinSize, MaxSize,  \* arguments of NewWhitenedPoolWithBounds
  DefaultMin,        \* defaultMinWhitenedBytes (32)
  Multiplier,        \* whitenedBufferMultiplier (4)
  MaxRawEvents,      \* defaultMaxRawEventsStored (4096)
  RctCutoff,         \* 40
  AptCutoff,         \* 605
  AptWindow,         \* 4096
  DigestSize,        \* bytes DualStageWhitening makes of a batch (32)
  Byte,              \* byte values
  BatchSizes,        \* sizes of the batches handed to AddBatch
  Requests,          \* arguments of ExtractEntropy
  MaxProduced        \* bound: bytes whitened in a behaviour

ASSUME PoolAssumption ==
  /\ MinSize \in Int /\ MaxSize \in Int
  /\ DefaultMin \in Nat \ {0} /\ Multiplier \in Nat \ {0}
  /\ MaxRawEvents \in Nat \ {0}
  /\ RctCutoff \in Nat /\ RctCutoff >= 2
  /\ AptCutoff \in Nat \ {0} /\ AptWindow \in Nat \ {0}
  /\ DigestSize \in Nat \ {0}
  /\ Byte \subseteq Nat /\ 0 \in Byte
  /\ BatchSizes \subseteq Nat
  /\ Requests \subseteq Int
  /\ MaxProduced \in Nat

VARIABLES
  rawEvents,   \* pool.rawEvents; an event is its number
  whitened,    \* pool.whitened
  rct, apt,    \* pool.rct, pool.apt
  rawTotal,    \* history: events ingested
  produced,    \* history: bytes the whitener has produced
  released,    \* history: the bytes returned by ExtractEntropy
  rctMark,     \* history: Len(released) at the last RCT failure
  aptMark,     \* history: Len(released) at the last APT failure
  aptRejected  \* history: APT has failed since the last RCT failure

storage == <<rawEvents, whitened>>
marks   == <<rctMark, aptMark, aptRejected>>
vars    == <<storage, rct, apt, rawTotal, produced, released, marks>>

\* NewWhitenedPoolWithBounds: unusable bounds are replaced.
MinPool == IF MinSize <= 0 THEN DefaultMin ELSE MinSize
MaxPool ==
  LET given == IF MaxSize <= 0 THEN MinPool * Multiplier ELSE MaxSize IN
  IF given < MinPool THEN MinPool ELSE given

Init ==
  /\ rawEvents = <<>>
  /\ whitened = <<>>
  /\ rct = NewRepetitionCountTest(RctCutoff)
  /\ apt = NewAdaptiveProportionTest(AptCutoff, AptWindow)
  /\ rawTotal = 0
  /\ produced = 0
  /\ released = <<>>
  /\ rctMark = 0
  /\ aptMark = 0
  /\ aptRejected = FALSE

-----------------------------------------------------------------------------
(* AddBatch *)

\* Mutant: the overflow is cut off the end, so the oldest elements stay.
DropNewest(s, max) == SubSeq(s, 1, IF Len(s) > max THEN max ELSE Len(s))
\* Drop the oldest elements above the bound.
Trim(s, max) ==
  IF Len(s) > max THEN SubSeq(s, Len(s) - max + 1, Len(s)) ELSE s

\* The digest of a batch: DigestSize new bytes of arbitrary values.
Digest(values) ==
  [i \in 1..DigestSize |-> [id |-> produced + i, val |-> values[i]]]

AddEmptyBatch == 0 \in BatchSizes /\ UNCHANGED vars

AddBatch(n) ==
  /\ n > 0
  /\ produced + DigestSize <= MaxProduced
  /\ rawEvents' = Trim(rawEvents \o [i \in 1..n |-> rawTotal + i],
                       MaxRawEvents)
  /\ rawTotal' = rawTotal + n
  /\ \E values \in [1..DigestSize -> Byte] :
       whitened' = Trim(whitened \o Digest(values), MaxPool)
  /\ produced' = produced + DigestSize
  /\ UNCHANGED <<rct, apt, released, marks>>

-----------------------------------------------------------------------------
(* ExtractEntropy(n) *)

Extractable(n) ==
  /\ n > 0
  /\ Len(whitened) >= MinPool
  /\ Len(whitened) >= n

Output(n) == SubSeq(whitened, 1, n)
Vals(s) == [i \in 1..Len(s) |-> s[i].val]

\* Mutant: the bytes are served but stay in the pool.
NotRemoved(n) == whitened
Remaining(n) == SubSeq(whitened, n + 1, Len(whitened))

ExtractRefused(n) == ~Extractable(n) /\ UNCHANGED vars

\* The block repeats a byte too often: the block stays in the pool.
ExtractRctFail(n) ==
  /\ Extractable(n)
  /\ LET r == RctTestBlock(rct, Vals(Output(n))) IN
       /\ ~r.ok
       /\ rct' = RctReset(r.st)
  /\ rctMark' = Len(released)
  /\ aptRejected' = FALSE
  /\ UNCHANGED <<storage, apt, rawTotal, produced, released, aptMark>>

\* The block passes RCT, which keeps what it has counted, and fails APT.
ExtractAptFail(n) ==
  /\ Extractable(n)
  /\ LET r == RctTestBlock(rct, Vals(Output(n)))
         a == AptTestBlock(apt, Vals(Output(n))) IN
       /\ r.ok /\ ~a.ok
       /\ rct' = r.st
       /\ apt' = AptReset(a.st)
  /\ aptMark' = Len(released)
  /\ aptRejected' = TRUE
  /\ UNCHANGED <<storage, rawTotal, produced, released, rctMark>>

\* Mutant: APT restarts with every block, so windows never span two blocks.
ExtractRestartingApt(n) ==
  /\ Extractable(n)
  /\ LET r == RctTestBlock(rct, Vals(Output(n)))
         a == AptTestBlock(AptReset(apt), Vals(Output(n))) IN
       /\ r.ok /\ a.ok
       /\ rct' = r.st
       /\ apt' = a.st
  /\ released' = released \o Output(n)
  /\ whitened' = Remaining(n)
  /\ UNCHANGED <<rawEvents, rawTotal, produced, marks>>

\* Mutant: RCT restarts with every block.
ExtractRestartingRct(n) ==
  /\ Extractable(n)
  /\ LET r == RctTestBlock(RctReset(rct), Vals(Output(n)))
         a == AptTestBlock(apt, Vals(Output(n))) IN
       /\ r.ok /\ a.ok
       /\ rct' = r.st
       /\ apt' = a.st
  /\ released' = released \o Output(n)
  /\ whitened' = Remaining(n)
  /\ UNCHANGED <<rawEvents, rawTotal, produced, marks>>

ExtractOk(n) ==
  /\ Extractable(n)
  /\ LET r == RctTestBlock(rct, Vals(Output(n)))
         a == AptTestBlock(apt, Vals(Output(n))) IN
       /\ r.ok /\ a.ok
       /\ rct' = r.st
       /\ apt' = a.st
  /\ released' = released \o Output(n)
  /\ whitened' = Remaining(n)
  /\ UNCHANGED <<rawEvents, rawTotal, produced, marks>>

ExtractEntropy(n) ==
  \/ ExtractRefused(n)
  \/ ExtractRctFail(n)
  \/ ExtractAptFail(n)
  \/ ExtractOk(n)

-----------------------------------------------------------------------------

Next ==
  \/ AddEmptyBatch
  \/ \E n \in BatchSizes : AddBatch(n)
  \/ \E n \in Requests : ExtractEntropy(n)

Spec == Init /\ [][Next]_vars

\* Mutant: the reserve is forgotten.
AvailableTotal == Len(whitened)
\* What the read-only methods report.
AvailableEntropy ==
  IF Len(whitened) <= MinPool THEN 0 ELSE Len(whitened) - MinPool
PoolStatus == <<Len(rawEvents), Len(whitened)>>

-----------------------------------------------------------------------------
(* Properties *)

StoredByte == [id : Nat \ {0}, val : Byte]

\* Types of what the pool stores, and its upper bounds.
StorageType ==
  /\ rawEvents \in Seq(Nat) /\ Len(rawEvents) <= MaxRawEvents
  /\ whitened \in Seq(StoredByte) /\ Len(whitened) <= MaxPool
  /\ rawTotal \in Nat
  /\ produced \in Nat
  /\ released \in Seq(StoredByte)

\* The pool holds exactly the newest bytes in order of production, after
\* everything it has released: trimming never leaves a hole, and no byte is
\* released twice or out of order, however extractions, rejections and trims
\* of AddBatch alternate.
NoByteReused ==
  /\ \A i \in 1..Len(whitened) :
       whitened[i].id = produced - Len(whitened) + i
  /\ \A i, j \in 1..Len(released) : i < j => released[i].id < released[j].id
  /\ \A i \in 1..Len(released) :
       released[i].id <= produced - Len(whitened)

\* The raw event history holds exactly the newest events.
RawHistoryNewest ==
  \A i \in 1..Len(rawEvents) :
    rawEvents[i] = rawTotal - Len(rawEvents) + i

\* Between two health test failures, the bytes handed out contain no run of
\* cutoff equal bytes, across any number of extractions, although trimming
\* removes bytes in between.
NoStuckRunBetweenFaults ==
  LET mark == IF rctMark > aptMark THEN rctMark ELSE aptMark IN
  ~HasRun(Vals(SubSeq(released, mark + 1, Len(released))), RctCutoff)

\* As long as APT has rejected nothing since the last RCT failure, RCT has
\* counted exactly the bytes released since then: the length of their last
\* run, so that it neither forgets bytes nor counts one twice.
RctCountsReleased ==
  ~aptRejected =>
    LET since == Vals(SubSeq(released, rctMark + 1, Len(released)))
        n == rct.repeatCount IN
    IF since = <<>> THEN n = 0
    ELSE /\ n >= 1 /\ IsRun(since, Len(since) - n + 1, n)
         /\ n < Len(since) => since[Len(since) - n] # rct.lastSample

\* In every complete window of the bytes released since the last APT failure
\* the window's first byte occurs fewer than cutoff times, wherever the
\* windows fall in the extracted blocks and whatever RCT rejected meanwhile.
AptWindowsPass ==
  LET since == Vals(SubSeq(released, aptMark + 1, Len(released))) IN
  \A w \in 1..(Len(since) \div AptWindow) :
    Cardinality(WindowMatches(since, AptWindow, w)) < AptCutoff

\* "Serves extracted bytes only if [...] health tests pass": the released
\* bytes as a whole never contain a run that the RCT is there to detect.
StuckRunNeverReleased == ~HasRun(Vals(released), RctCutoff)
=============================================================================
