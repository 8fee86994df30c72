------------------------ MODULE HealthMonitor_proofs ------------------------
(***************************************************************************)
(* Proofs that the two health tests decide what they should, for every     *)
(* sample set, cutoff, window and stream, however it is cut into blocks;   *)
(* that the conditioning loses nothing but a byte, for every word size and *)
(* batch; and that the statistics are what a block's bits and bytes say,   *)
(* for every block.                                                        *)
(*                                                                         *)
(* Most of it is about loops.  A loop of the source is a recursive         *)
(* function of the position; LoopExists gives its value at each position,  *)
(* and an invariant of the loop is proved from position to position with   *)
(* IntervalInduction.                                                      *)
(***************************************************************************)
EXTENDS HealthMonitor, HealthTests_proofs, SequenceTheorems, TLAPS

-----------------------------------------------------------------------------
(* The health tests *)

RctFedInv ==
  /\ rctFed \in Seq(Nat)
  /\ RctSaw(rct, rctFed, Len(rctFed))
  /\ RctSawOnly(rct, rctFed, Len(rctFed))
  /\ rctFed # <<>> => RctVerdict(rct, rctOk, rctFed, Len(rctFed), TRUE)

AptFedInv ==
  /\ aptFed \in Seq(Nat)
  /\ \E w : AptSaw(apt, aptFed, Len(aptFed), w)
  /\ aptFed # <<>> => \E w : AptVerdict(apt, aptOk, aptFed, Len(aptFed), w)
  /\ aptFed = <<>> => aptOk

MonitorInv == RctFedInv /\ AptFedInv

\* Blocks hold samples and are not empty.
LEMMA BlockType ==
  ASSUME NEW block \in Blocks
  PROVE  block \in Seq(Nat) /\ block # <<>> /\ Len(block) \in Nat \ {0}
<1>1. PICK n \in 1..MaxBlock : block \in [1..n -> Byte]
  BY DEF Blocks
<1>2. n \in Nat \ {0} /\ Byte \subseteq Nat
  <2>1. MaxBlock \in Nat /\ Byte \subseteq Nat
    BY MonitorAssumption, Zenon
  <2> QED BY <2>1
<1>3. block \in Seq(Nat) /\ Len(block) = n
  <2>1. block \in [1..n -> Nat]
    BY <1>1, <1>2
  <2> QED BY <1>2, <2>1
<1> QED BY <1>2, <1>3

\* Appending the first j samples of a block to a stream.
LEMMA PrefixAppended ==
  ASSUME NEW u \in Seq(Nat), NEW s \in Seq(Nat), NEW j \in 1..Len(s)
  PROVE  LET v == u \o s
             x == u \o SubSeq(s, 1, j) IN
         /\ x \in Seq(Nat) /\ x # <<>>
         /\ Len(x) = Len(u) + j
         /\ Len(u) \in Nat
         /\ \A i \in 1..(Len(u) + j) : v[i] = x[i]
         /\ \A i \in 1..Len(u) : u[i] = v[i]
         /\ \A i \in 1..Len(s) : v[Len(u) + i] = s[i]
<1>1. Len(u) \in Nat /\ Len(s) \in Nat /\ j \in Nat
  OBVIOUS
<1> DEFINE b == SubSeq(s, 1, j)
           v == u \o s
           x == u \o b
<1>2. b \in Seq(Nat) /\ Len(b) = j /\ \A i \in 1..j : b[i] = s[i]
  BY <1>1
<1> HIDE DEF b
<1>3. /\ v \in Seq(Nat) /\ Len(v) = Len(u) + Len(s)
      /\ \A i \in 1..(Len(u) + Len(s)) :
           v[i] = IF i <= Len(u) THEN u[i] ELSE s[i - Len(u)]
  BY ConcatProperties
<1>4. /\ x \in Seq(Nat) /\ Len(x) = Len(u) + Len(b)
      /\ \A i \in 1..(Len(u) + Len(b)) :
           x[i] = IF i <= Len(u) THEN u[i] ELSE b[i - Len(u)]
  BY <1>2, ConcatProperties
<1> HIDE DEF v, x
<1>5. \A i \in 1..(Len(u) + j) : v[i] = x[i]
  <2> SUFFICES ASSUME NEW i \in 1..(Len(u) + j) PROVE v[i] = x[i]
    OBVIOUS
  <2>1. i \in 1..(Len(u) + Len(s)) /\ i \in 1..(Len(u) + Len(b))
    BY <1>1, <1>2
  <2>2. CASE i <= Len(u)
    BY <1>3, <1>4, <2>1, <2>2
  <2>3. CASE ~(i <= Len(u))
    <3>1. i - Len(u) \in 1..j
      BY <1>1, <2>3
    <3> QED BY <1>2, <1>3, <1>4, <2>1, <2>3, <3>1
  <2> QED BY <2>2, <2>3
<1>6. ASSUME NEW i \in 1..Len(u) PROVE u[i] = v[i]
  <2>1. i \in 1..(Len(u) + Len(s)) /\ i <= Len(u)
    BY <1>1
  <2> QED BY <1>3, <2>1
<1>7. ASSUME NEW i \in 1..Len(s) PROVE v[Len(u) + i] = s[i]
  <2>1. /\ Len(u) + i \in 1..(Len(u) + Len(s)) /\ ~(Len(u) + i <= Len(u))
        /\ (Len(u) + i) - Len(u) = i
    BY <1>1
  <2> QED BY <1>3, <2>1
<1>8. x # <<>>
  BY <1>1, <1>2, <1>4
<1> QED BY <1>1, <1>2, <1>4, <1>5, <1>6, <1>7, <1>8 DEF v, x, b

\* What a test that reports ok has seen of a block: everything up to sample j,
\* the first on which the block's beginnings fail.
LEMMA RctSeen ==
  ASSUME NEW t, NEW s \in Seq(Nat), NEW j \in 1..Len(s),
         \/ /\ j = Len(s)
            /\ \A i \in 1..Len(s) : RctTestBlock(t, SubSeq(s, 1, i)).ok
         \/ /\ ~RctTestBlock(t, SubSeq(s, 1, j)).ok
            /\ \A i \in 1..Len(s) :
                 ~RctTestBlock(t, SubSeq(s, 1, i)).ok => j <= i
  PROVE  Seen(RctTestBlock, t, s) = SubSeq(s, 1, j)
<1> DEFINE fails == {i \in 1..Len(s) : ~RctTestBlock(t, SubSeq(s, 1, i)).ok}
<1>1. Seen(RctTestBlock, t, s) =
        IF fails = {} THEN s
        ELSE SubSeq(s, 1, CHOOSE i \in fails : \A k \in fails : i <= k)
  BY DEF Seen
<1>2. CASE /\ j = Len(s)
           /\ \A i \in 1..Len(s) : RctTestBlock(t, SubSeq(s, 1, i)).ok
  <2>1. fails = {} /\ SubSeq(s, 1, j) = s
    BY <1>2
  <2> QED BY <1>1, <2>1
<1>3. CASE /\ ~RctTestBlock(t, SubSeq(s, 1, j)).ok
           /\ \A i \in 1..Len(s) :
                ~RctTestBlock(t, SubSeq(s, 1, i)).ok => j <= i
  <2>1. j \in fails /\ \A i \in fails : j <= i
    BY <1>3
  <2>2. fails \subseteq Nat
    OBVIOUS
  <2> HIDE DEF fails
  <2> DEFINE k == CHOOSE i \in fails : \A l \in fails : i <= l
  <2>3. k \in fails /\ \A l \in fails : k <= l
    BY <2>1
  <2> HIDE DEF k
  <2>4. k = j
    BY <2>1, <2>2, <2>3
  <2> QED BY <1>1, <2>1, <2>4 DEF k
<1> QED BY <1>2, <1>3
LEMMA AptSeen ==
  ASSUME NEW t, NEW s \in Seq(Nat), NEW j \in 1..Len(s),
         \/ /\ j = Len(s)
            /\ \A i \in 1..Len(s) : AptTestBlock(t, SubSeq(s, 1, i)).ok
         \/ /\ ~AptTestBlock(t, SubSeq(s, 1, j)).ok
            /\ \A i \in 1..Len(s) :
                 ~AptTestBlock(t, SubSeq(s, 1, i)).ok => j <= i
  PROVE  Seen(AptTestBlock, t, s) = SubSeq(s, 1, j)
<1> DEFINE fails == {i \in 1..Len(s) : ~AptTestBlock(t, SubSeq(s, 1, i)).ok}
<1>1. Seen(AptTestBlock, t, s) =
        IF fails = {} THEN s
        ELSE SubSeq(s, 1, CHOOSE i \in fails : \A k \in fails : i <= k)
  BY DEF Seen
<1>2. CASE /\ j = Len(s)
           /\ \A i \in 1..Len(s) : AptTestBlock(t, SubSeq(s, 1, i)).ok
  <2>1. fails = {} /\ SubSeq(s, 1, j) = s
    BY <1>2
  <2> QED BY <1>1, <2>1
<1>3. CASE /\ ~AptTestBlock(t, SubSeq(s, 1, j)).ok
           /\ \A i \in 1..Len(s) :
                ~AptTestBlock(t, SubSeq(s, 1, i)).ok => j <= i
  <2>1. j \in fails /\ \A i \in fails : j <= i
    BY <1>3
  <2>2. fails \subseteq Nat
    OBVIOUS
  <2> HIDE DEF fails
  <2> DEFINE k == CHOOSE i \in fails : \A l \in fails : i <= l
  <2>3. k \in fails /\ \A l \in fails : k <= l
    BY <2>1
  <2> HIDE DEF k
  <2>4. k = j
    BY <2>1, <2>2, <2>3
  <2> QED BY <1>1, <2>1, <2>4 DEF k
<1> QED BY <1>2, <1>3

LEMMA TestRctStep ==
  ASSUME MonitorInv, NEW block \in Blocks, TestRct(block)
  PROVE  MonitorInv'
<1> DEFINE r == RctTestBlock(rct, block)
           u == rctFed
           v == u \o block
           N == Len(u)
<1>1. /\ rct' = r.st /\ rctOk' = r.ok
      /\ rctFed' = u \o Seen(RctTestBlock, rct, block)
      /\ apt' = apt /\ aptFed' = aptFed /\ aptOk' = aptOk
  BY DEF TestRct
<1>2. u \in Seq(Nat) /\ RctSaw(rct, u, N) /\ RctSawOnly(rct, u, N)
  BY DEF MonitorInv, RctFedInv
<1>3. block \in Seq(Nat) /\ block # <<>> /\ Len(block) \in Nat \ {0}
  BY BlockType
<1> HIDE DEF u
<1>4. /\ N \in Nat
      /\ \A i \in 1..N : u[i] = v[i]
      /\ \A i \in 1..Len(block) : v[N + i] = block[i]
  <2>1. Len(block) \in 1..Len(block)
    BY <1>3
  <2> QED BY <1>2, <1>3, <2>1, PrefixAppended
<1> HIDE DEF v, N
<1>5. RctSaw(rct, v, N) /\ RctSawOnly(rct, v, N)
  BY <1>2, <1>4, RctAgree
<1>6. PICK j \in 1..Len(block) :
        /\ r.st.cutoff = rct.cutoff
        /\ RctVerdict(r.st, r.ok, v, N + j, RctSawOnly(rct, v, N))
        /\ r.ok => /\ j = Len(block)
                   /\ \A i \in 1..Len(block) :
                        RctTestBlock(rct, SubSeq(block, 1, i)).ok
        /\ ~r.ok => /\ ~RctTestBlock(rct, SubSeq(block, 1, j)).ok
                    /\ \A i \in 1..Len(block) :
                         ~RctTestBlock(rct, SubSeq(block, 1, i)).ok => j <= i
  BY <1>3, <1>4, <1>5, RctJudged
<1>7. Seen(RctTestBlock, rct, block) = SubSeq(block, 1, j)
  BY <1>3, <1>6, RctSeen
<1> HIDE DEF r
<1> DEFINE x == u \o SubSeq(block, 1, j)
<1>8. /\ x \in Seq(Nat) /\ x # <<>> /\ Len(x) = N + j /\ N + j \in Nat
      /\ \A i \in 1..(N + j) : v[i] = x[i]
  BY <1>2, <1>3, <1>4, PrefixAppended DEF v, N
<1>9. rctFed' = x
  BY <1>1, <1>7
<1> HIDE DEF x
<1>10. RctVerdict(r.st, r.ok, v, N + j, TRUE)
  BY <1>5, <1>6 DEF RctVerdict
<1>11. RctVerdict(r.st, r.ok, x, N + j, TRUE)
  <2>1. RctSaw(r.st, v, N + j) /\ RctSawOnly(r.st, v, N + j)
    BY <1>10 DEF RctVerdict
  <2>2. /\ RctSaw(r.st, x, N + j) /\ RctSawOnly(r.st, x, N + j)
        /\ \A m \in 1..(N + j) : \A a \in 1..m :
             EqualFrom(v, a, m) <=> EqualFrom(x, a, m)
    BY <1>8, <2>1, RctAgree
  <2>3. N + j \in 1..(N + j)
    BY <1>4
  <2>4. \A a \in 1..(N + j) : EqualFrom(v, a, N + j) <=> EqualFrom(x, a, N + j)
    BY <2>2, <2>3
  <2> QED BY <1>10, <2>2, <2>4 DEF RctVerdict
<1>12. RctFedInv'
  BY <1>1, <1>8, <1>9, <1>11 DEF RctFedInv, RctVerdict
<1>13. AptFedInv'
  BY <1>1 DEF MonitorInv, AptFedInv
<1> QED BY <1>12, <1>13 DEF MonitorInv

LEMMA TestAptStep ==
  ASSUME MonitorInv, NEW block \in Blocks, TestApt(block)
  PROVE  MonitorInv'
<1> DEFINE r == AptTestBlock(apt, block)
           u == aptFed
           v == u \o block
           N == Len(u)
<1>1. /\ apt' = r.st /\ aptOk' = r.ok
      /\ aptFed' = u \o Seen(AptTestBlock, apt, block)
      /\ rct' = rct /\ rctFed' = rctFed /\ rctOk' = rctOk
  BY DEF TestApt
<1>2. u \in Seq(Nat)
  BY DEF MonitorInv, AptFedInv
<1>0. PICK w : AptSaw(apt, u, N, w)
  BY DEF MonitorInv, AptFedInv
<1>3. block \in Seq(Nat) /\ block # <<>> /\ Len(block) \in Nat \ {0}
  BY BlockType
<1> HIDE DEF u
<1>4. /\ N \in Nat
      /\ \A i \in 1..N : u[i] = v[i]
      /\ \A i \in 1..Len(block) : v[N + i] = block[i]
  <2>1. Len(block) \in 1..Len(block)
    BY <1>3
  <2> QED BY <1>2, <1>3, <2>1, PrefixAppended
<1> HIDE DEF v, N
<1>5. AptSaw(apt, v, N, w)
  BY <1>0, <1>4, AptAgree
<1>6. PICK j \in 1..Len(block) :
        /\ r.st.cutoff = apt.cutoff /\ r.st.windowSize = apt.windowSize
        /\ \E y : AptVerdict(r.st, r.ok, v, N + j, y)
        /\ r.ok => /\ j = Len(block)
                   /\ \A i \in 1..Len(block) :
                        AptTestBlock(apt, SubSeq(block, 1, i)).ok
        /\ ~r.ok => /\ ~AptTestBlock(apt, SubSeq(block, 1, j)).ok
                    /\ \A i \in 1..Len(block) :
                         ~AptTestBlock(apt, SubSeq(block, 1, i)).ok => j <= i
  BY <1>3, <1>4, <1>5, AptJudged
<1>7. Seen(AptTestBlock, apt, block) = SubSeq(block, 1, j)
  BY <1>3, <1>6, AptSeen
<1> HIDE DEF r
<1> DEFINE x == u \o SubSeq(block, 1, j)
<1>8. /\ x \in Seq(Nat) /\ x # <<>> /\ Len(x) = N + j /\ N + j \in Nat
      /\ \A i \in 1..(N + j) : v[i] = x[i]
  BY <1>2, <1>3, <1>4, PrefixAppended DEF v, N
<1>9. aptFed' = x
  BY <1>1, <1>7
<1> HIDE DEF x
<1>10. PICK y : AptVerdict(r.st, r.ok, v, N + j, y)
  BY <1>6
<1>11. AptVerdict(r.st, r.ok, x, N + j, y)
  BY <1>8, <1>10, AptVerdictAgrees
<1>12. AptFedInv'
  BY <1>1, <1>8, <1>9, <1>11 DEF AptFedInv, AptVerdict
<1>13. RctFedInv'
  BY <1>1 DEF MonitorInv, RctFedInv
<1> QED BY <1>12, <1>13 DEF MonitorInv

LEMMA MonitorInit == Init => MonitorInv
<1> SUFFICES ASSUME Init PROVE MonitorInv
  OBVIOUS
<1>0. RctCutoffs \subseteq Int /\ AptCutoffs \subseteq Int /\ AptWindows \subseteq Int
  BY MonitorAssumption, Zenon
<1>1. rctFed = <<>> /\ aptFed = <<>> /\ aptOk = TRUE
  BY DEF Init
<1>2. RctFedInv
  <2>1. PICK c \in RctCutoffs : rct = NewRepetitionCountTest(c)
    BY DEF Init
  <2>2. rct \in RctState /\ RctSawOnly(rct, <<>>, 0)
    BY <1>0, <2>1, RctNew
  <2>3. RctSaw(rct, <<>>, 0)
    BY <2>2, RctFresh
  <2> QED BY <1>1, <2>2, <2>3 DEF RctFedInv
<1>3. AptFedInv
  <2>1. PICK c \in AptCutoffs, w \in AptWindows :
          apt = NewAdaptiveProportionTest(c, w)
    BY DEF Init
  <2>2. c \in Int /\ w \in Int
    BY <1>0
  <2>3. AptSaw(apt, <<>>, 0, 0)
    BY <2>1, <2>2, AptNew
  <2> QED BY <1>1, <2>3 DEF AptFedInv
<1> QED BY <1>2, <1>3 DEF MonitorInv

LEMMA MonitorStep == MonitorInv /\ [Next]_vars => MonitorInv'
<1> SUFFICES ASSUME MonitorInv, [Next]_vars
             PROVE  MonitorInv'
  OBVIOUS
<1>1. CASE ResetRct
  <2>1. /\ rct' = RctReset(rct) /\ rctFed' = <<>>
        /\ apt' = apt /\ aptFed' = aptFed /\ aptOk' = aptOk
    BY <1>1 DEF ResetRct
  <2>2. rct \in RctState
    BY DEF MonitorInv, RctFedInv, RctSaw
  <2>3. rct' \in RctState /\ RctSawOnly(rct', <<>>, 0)
    BY <2>1, <2>2, RctFresh
  <2>4. RctSaw(rct', <<>>, 0)
    BY <2>3, RctFresh
  <2>5. RctFedInv'
    BY <2>1, <2>3, <2>4 DEF RctFedInv
  <2>6. AptFedInv'
    BY <2>1 DEF MonitorInv, AptFedInv
  <2> QED BY <2>5, <2>6 DEF MonitorInv
<1>2. CASE ResetApt
  <2>1. /\ apt' = AptReset(apt) /\ aptFed' = <<>> /\ aptOk' = TRUE
        /\ rct' = rct /\ rctFed' = rctFed /\ rctOk' = rctOk
    BY <1>2 DEF ResetApt
  <2>2. apt \in AptState
    BY DEF MonitorInv, AptFedInv, AptSaw
  <2>3. AptSaw(apt', <<>>, 0, 0)
    BY <2>1, <2>2, AptFresh
  <2>4. AptFedInv'
    BY <2>1, <2>3 DEF AptFedInv
  <2>5. RctFedInv'
    BY <2>1 DEF MonitorInv, RctFedInv
  <2> QED BY <2>4, <2>5 DEF MonitorInv
<1>3. ASSUME UNCHANGED <<rct, apt, rctFed, aptFed, rctOk, aptOk>>
      PROVE  MonitorInv'
  BY <1>3 DEF MonitorInv, RctFedInv, AptFedInv
<1>4. CASE \E block \in Analysed, window \in Windows : Analyse(block, window)
  BY <1>3, <1>4 DEF Analyse
<1>5. CASE \E events \in Batches : Condition(events)
  BY <1>3, <1>5 DEF Condition
<1>6. CASE UNCHANGED vars
  BY <1>3, <1>6 DEF vars
<1> QED BY <1>1, <1>2, <1>4, <1>5, <1>6, TestRctStep, TestAptStep DEF Next

LEMMA RctVerdictIsRun == MonitorInv => RctDetectsRuns
<1> SUFFICES ASSUME MonitorInv, rctFed # <<>>
             PROVE  LET need == IF rct.cutoff < 2 THEN 2 ELSE rct.cutoff IN
                    ~rctOk <=> need \in TrailingRun(rctFed)
  BY DEF RctDetectsRuns
<1> DEFINE s == rctFed
           N == Len(s)
           c == rct.repeatCount
           need == IF rct.cutoff < 2 THEN 2 ELSE rct.cutoff
<1>1. s \in Seq(Nat) /\ RctVerdict(rct, rctOk, s, N, TRUE)
  BY DEF MonitorInv, RctFedInv
<1>2. /\ N \in Nat /\ c \in Nat /\ c <= N /\ rct.cutoff \in Nat \ {0}
      /\ need \in Nat /\ need >= 2
      /\ ~rctOk <=> c >= need
  BY <1>1, SMTT(30) DEF RctVerdict, RctSaw, RctSawOnly, RctState
<1>3. /\ \A a \in 1..N : EqualFrom(s, a, N) => N - a + 1 <= c
      /\ \A k \in (N - c + 1)..N : s[k] = s[N]
  BY <1>1 DEF RctVerdict, RctSaw, RctSawOnly, EqualFrom
<1> HIDE DEF s, N, c, need
<1>4. ASSUME need \in 1..N, IsRun(s, N - need + 1, need)
      PROVE  c >= need
  <2>1. N - need + 1 \in 1..N /\ EqualFrom(s, N - need + 1, N)
    BY <1>2, <1>4 DEF IsRun, EqualFrom
  <2>2. N - (N - need + 1) + 1 <= c
    BY <1>3, <2>1
  <2> QED BY <1>2, <2>2
<1>5. ASSUME c >= need
      PROVE  need \in 1..N /\ IsRun(s, N - need + 1, need)
  BY <1>2, <1>3, <1>5 DEF IsRun
<1>6. need \in TrailingRun(s) <=> c >= need
  BY <1>4, <1>5 DEF TrailingRun, N
<1> QED BY <1>2, <1>6 DEF s, need

LEMMA AptVerdictIsWindow == MonitorInv => AptJudgesWindows
<1> SUFFICES ASSUME MonitorInv PROVE AptJudgesWindows
  OBVIOUS
<1> DEFINE s == aptFed
           N == Len(s)
           W == apt.windowSize
           n == apt.sampleCount
<1>1. s \in Seq(Nat) /\ N \in Nat
  BY DEF MonitorInv, AptFedInv
<1>2. apt \in AptState
  BY DEF MonitorInv, AptFedInv, AptSaw
<1>3. W \in Nat \ {0} /\ n \in Nat /\ apt.cutoff \in Nat
  BY <1>2 DEF AptState
<1>4. CASE s = <<>>
  BY <1>4 DEF MonitorInv, AptFedInv, AptJudgesWindows
<1>5. CASE s # <<>>
  <2>1. PICK w : AptVerdict(apt, aptOk, s, N, w)
    BY <1>5 DEF MonitorInv, AptFedInv
  <2>2. w \in Nat /\ N = W * w + n /\ n < W
    BY <2>1 DEF AptVerdict, AptSaw
  <2> DEFINE card == Cardinality(WindowMatches(s, W, w))
  <2>3. /\ n > 0 => aptOk
        /\ n = 0 => w > 0 /\ (aptOk <=> card < apt.cutoff)
    BY <2>1 DEF AptVerdict
  <2> HIDE DEF s, N, W, n
  <2>4. N \div W = w /\ N % W = n
    BY <1>1, <1>3, <2>2, DivMod
  <2>5. n = 0 => card \in Nat
    <3> SUFFICES ASSUME n = 0 PROVE card \in Nat
      OBVIOUS
    <3> DEFINE a == W * (w - 1) + 1
               m == a + W - 1
    <3>1. w - 1 \in Nat /\ a \in Nat /\ m \in Nat
      BY <1>3, <2>2, <2>3
    <3>2. WindowMatches(s, W, w) = Matches(s, a, m)
      BY DEF WindowMatches, Matches
    <3> HIDE DEF a, m
    <3>3. Cardinality(Matches(s, a, m)) \in Nat
      BY <3>1, MatchesGrow
    <3> QED BY <3>2, <3>3
  <2> HIDE DEF card
  <2>6. ~aptOk <=> n = 0 /\ card >= apt.cutoff
    <3>1. CASE n = 0
      BY <1>3, <2>3, <2>5, <3>1
    <3>2. CASE n > 0
      BY <2>3, <3>2
    <3> QED BY <1>3, <3>1, <3>2
  <2>7. ~aptOk <=> /\ s # <<>> /\ N % W = 0
                   /\ Cardinality(WindowMatches(s, W, N \div W)) >= apt.cutoff
    BY <1>5, <2>4, <2>6 DEF card
  <2> QED BY <2>7 DEF AptJudgesWindows, s, N, W
<1> QED BY <1>4, <1>5

\* For every stream, cutoff and cut into blocks: RCT's TestBlock fails exactly
\* when the stream since the last reset ends in a run of cutoff samples.
THEOREM RctDetectsRunsCorrect == Spec => []RctDetectsRuns
  BY MonitorInit, MonitorStep, RctVerdictIsRun, PTL DEF Spec

\* For every stream, cutoff, window and cut into blocks: APT's TestBlock fails
\* exactly when the stream since the last reset ends with a complete window
\* in which the window's first sample is too common.
THEOREM AptJudgesWindowsCorrect == Spec => []AptJudgesWindows
  BY MonitorInit, MonitorStep, AptVerdictIsWindow, PTL DEF Spec

-----------------------------------------------------------------------------
(* Powers of two: the prover knows nothing of exponents, but the library    *)
(* counts the subsets of a finite set.                                      *)

LEMMA PowerType ==
  ASSUME NEW n \in Nat
  PROVE  2^n \in Nat \ {0}
<1>1. IsFiniteSet(1..n) /\ Cardinality(1..n) = n
  BY FS_Interval
<1>2. IsFiniteSet(SUBSET (1..n)) /\ Cardinality(SUBSET (1..n)) = 2^n
  BY <1>1, FS_SUBSET
<1>3. Cardinality(SUBSET (1..n)) \in Nat
  BY <1>2, FS_CardinalityType
<1>4. SUBSET (1..n) # {}
  OBVIOUS
<1>5. Cardinality(SUBSET (1..n)) # 0
  BY <1>2, <1>4, FS_EmptySet
<1> QED BY <1>2, <1>3, <1>5

\* A subset of 1..(n + 1) is one of 1..n, with n + 1 or without it.
LEMMA PowerStep ==
  ASSUME NEW n \in Nat
  PROVE  2^(n + 1) = 2 * 2^n
<1> DEFINE S == SUBSET (1..n)
           T == SUBSET (1..(n + 1))
           f == [p \in S \X {0, 1} |->
                   IF p[2] = 0 THEN p[1] ELSE p[1] \cup {n + 1}]
<1>1. /\ IsFiniteSet(1..n) /\ Cardinality(1..n) = n
      /\ IsFiniteSet(1..(n + 1)) /\ Cardinality(1..(n + 1)) = n + 1
  BY FS_Interval
<1>2. IsFiniteSet(S) /\ Cardinality(S) = 2^n
  BY <1>1, FS_SUBSET
<1>3. IsFiniteSet(T) /\ Cardinality(T) = 2^(n + 1)
  BY <1>1, FS_SUBSET
<1>4. IsFiniteSet({0, 1}) /\ Cardinality({0, 1}) = 2
  <2>0. \A x : IsFiniteSet({x}) /\ Cardinality({x}) = 1
    BY FS_Singleton, Zenon
  <2>1. IsFiniteSet({0}) /\ Cardinality({0}) = 1 /\ 1 \notin {0}
    BY <2>0
  <2>2. IsFiniteSet({0} \cup {1}) /\ Cardinality({0} \cup {1}) = 2
    BY <2>1, FS_AddElement
  <2>3. {0, 1} = {0} \cup {1}
    OBVIOUS
  <2> QED BY <2>2, <2>3, Zenon
<1>5. IsFiniteSet(S \X {0, 1}) /\ Cardinality(S \X {0, 1}) = 2^n * 2
  <2> HIDE DEF S
  <2> QED BY <1>2, <1>4, FS_Product, ZenonT(60)
<1>6. f \in Bijection(S \X {0, 1}, T)
  <2>1. f \in [S \X {0, 1} -> T]
    OBVIOUS
  <2>2. ASSUME NEW p \in S \X {0, 1}, NEW q \in S \X {0, 1}, f[p] = f[q]
        PROVE  p = q
    <3>1. n + 1 \notin p[1] /\ n + 1 \notin q[1]
      OBVIOUS
    <3>2. p[2] = q[2]
      BY <2>2, <3>1
    <3>3. p[1] = q[1]
      BY <2>2, <3>1, <3>2
    <3> QED BY <3>2, <3>3
  <2>3. ASSUME NEW t \in T PROVE \E p \in S \X {0, 1} : f[p] = t
    <3>1. CASE n + 1 \in t
      <4>1. t \ {n + 1} \in S
        OBVIOUS
      <4>2. <<t \ {n + 1}, 1>> \in S \X {0, 1}
        BY <4>1
      <4>3. f[<<t \ {n + 1}, 1>>] = t
        BY <4>2, <3>1
      <4> QED BY <4>2, <4>3
    <3>2. CASE n + 1 \notin t
      <4>1. t \in S
        BY <3>2
      <4>2. <<t, 0>> \in S \X {0, 1} /\ f[<<t, 0>>] = t
        BY <4>1
      <4> QED BY <4>2
    <3> QED BY <3>1, <3>2
  <2> HIDE DEF f, S, T
  <2> QED BY <2>1, <2>2, <2>3 DEF Bijection, Injection, Surjection, IsInjective
<1>7. ExistsBijection(S \X {0, 1}, T)
  BY <1>6 DEF ExistsBijection
<1>8. Cardinality(T) = Cardinality(S \X {0, 1})
  <2> HIDE DEF S, T
  <2> QED BY <1>5, <1>7, FS_Bijection
<1>9. 2^n \in Nat
  BY PowerType
<1> QED BY <1>3, <1>5, <1>8, <1>9

LEMMA PowerOfByte ==
  ASSUME NEW k \in Nat
  PROVE  2^(8 * (k + 1)) = 256 * 2^(8 * k)
<1> DEFINE m == 8 * k
<1>0. m \in Nat /\ 8 * (k + 1) = m + 8
  OBVIOUS
<1> HIDE DEF m
<1>1. 2^m \in Nat
  BY <1>0, PowerType
<1>2. /\ 2^(m + 1) = 2 * 2^m
      /\ 2^(m + 2) = 2 * 2^(m + 1)
      /\ 2^(m + 3) = 2 * 2^(m + 2)
      /\ 2^(m + 4) = 2 * 2^(m + 3)
  <2>1. /\ m + 1 \in Nat /\ m + 2 \in Nat /\ m + 3 \in Nat
        /\ (m + 1) + 1 = m + 2 /\ (m + 2) + 1 = m + 3 /\ (m + 3) + 1 = m + 4
    BY <1>0
  <2> QED BY <1>0, <2>1, PowerStep, Zenon
<1>3. /\ 2^(m + 5) = 2 * 2^(m + 4)
      /\ 2^(m + 6) = 2 * 2^(m + 5)
      /\ 2^(m + 7) = 2 * 2^(m + 6)
      /\ 2^(m + 8) = 2 * 2^(m + 7)
  <2>1. /\ m + 4 \in Nat /\ m + 5 \in Nat /\ m + 6 \in Nat /\ m + 7 \in Nat
        /\ (m + 4) + 1 = m + 5 /\ (m + 5) + 1 = m + 6 /\ (m + 6) + 1 = m + 7
        /\ (m + 7) + 1 = m + 8
    BY <1>0
  <2> QED BY <1>0, <2>1, PowerStep, Zenon
<1>4. 2^(m + 8) = 256 * 2^m
  BY <1>1, <1>2, <1>3
<1> QED BY <1>0, <1>4 DEF m

-----------------------------------------------------------------------------
(* A loop over a..n as a recursive function: it exists whenever the steps   *)
(* stay in some set D.                                                      *)

\* h[i] is the body of the loop for i, f[i] the value after it.
StaysIn(D, h, a, n) == \A i \in (a + 1)..n : \A x \in D : h[i][x] \in D

Loop(f, D, z, h, a, n) ==
  /\ f \in [a..n -> D] /\ f[a] = z
  /\ \A i \in (a + 1)..n : f[i] = h[i][f[i - 1]]

LEMMA LoopExists ==
  ASSUME NEW a \in Int, NEW n \in Int, a <= n, NEW D, NEW z \in D, NEW h,
         StaysIn(D, h, a, n)
  PROVE  \E f : Loop(f, D, z, h, a, n)
<1> DEFINE P(f, k) == /\ f \in [a..(a + k) -> D] /\ f[a] = z
                      /\ \A i \in (a + 1)..(a + k) : f[i] = h[i][f[i - 1]]
           T == {k \in 0..(n - a) : \E f : P(f, k)}
           N == n - a
<1>0. N \in Nat
  OBVIOUS
<1>1. 0 \in T
  <2> DEFINE f == [i \in a..(a + 0) |-> z]
  <2>1. P(f, 0)
    OBVIOUS
  <2> QED BY <2>1
<1>2. \A k \in 0..N : k < N /\ k \in T => k + 1 \in T
  <2> SUFFICES ASSUME NEW k \in 0..N, k < N, k \in T PROVE k + 1 \in T
    OBVIOUS
  <2>1. PICK f : P(f, k)
    OBVIOUS
  <2> DEFINE b == a + k
             y == h[b + 1][f[b]]
             g == [i \in a..(a + (k + 1)) |-> IF i = b + 1 THEN y ELSE f[i]]
  <2>2. /\ b + 1 \in (a + 1)..n /\ a + (k + 1) = b + 1 /\ b \in a..(a + k)
        /\ b \in Int
    OBVIOUS
  <2>3. y \in D
    BY <2>1, <2>2 DEF StaysIn
  <2> HIDE DEF y
  <2>4. g \in [a..(a + (k + 1)) -> D] /\ g[a] = z
    BY <2>1, <2>3
  <2>5. ASSUME NEW i \in (a + 1)..(a + (k + 1)) PROVE g[i] = h[i][g[i - 1]]
    <3>1. CASE i = b + 1
      <4>1. g[i] = y /\ g[i - 1] = f[b]
        <5>1. /\ i \in a..(a + (k + 1)) /\ i - 1 \in a..(a + (k + 1))
              /\ i - 1 = b /\ i - 1 # b + 1
          BY <2>2, <3>1
        <5> HIDE DEF b
        <5> QED BY <3>1, <5>1
      <4> QED BY <3>1, <4>1 DEF y
    <3>2. CASE i # b + 1
      <4>1. i \in (a + 1)..(a + k) /\ g[i] = f[i] /\ g[i - 1] = f[i - 1]
        <5>1. /\ i \in (a + 1)..(a + k) /\ i \in a..(a + (k + 1))
              /\ i - 1 \in a..(a + (k + 1)) /\ i # b + 1 /\ i - 1 # b + 1
          BY <3>2
        <5> QED BY <5>1
      <4> QED BY <2>1, <4>1
    <3> QED BY <3>1, <3>2
  <2>6. P(g, k + 1)
    BY <2>4, <2>5
  <2>7. k + 1 \in 0..(n - a) /\ \E f_1 : P(f_1, k + 1)
    <3> HIDE DEF g, P
    <3> QED BY <2>6
  <2> QED BY <2>7
<1>3. N \in T
  <2> HIDE DEF T, N
  <2>1. \A k \in 0..N : k \in T
    BY <1>0, <1>1, <1>2, IntervalInduction
  <2> QED BY <1>0, <2>1
<1>4. a + N = n
  OBVIOUS
<1> QED BY <1>3, <1>4 DEF Loop

-----------------------------------------------------------------------------
(* Bytes and their bits *)

Octets == 0..255

LEMMA BitType ==
  ASSUME NEW b \in Nat, NEW i \in Nat
  PROVE  Bit(b, i) \in {0, 1}
<1>1. 2^i \in Nat \ {0}
  BY PowerType
<1>2. b \div 2^i \in Int
  BY <1>1
<1> HIDE <1>1
<1>3. \A q \in Int : q % 2 \in {0, 1}
  OBVIOUS
<1> QED BY <1>2, <1>3 DEF Bit

LEMMA ByteOfSum ==
  ASSUME NEW bits, \A i \in 0..7 : bits[i] \in {0, 1}
  PROVE  ByteOf(bits) = bits[0] + 2 * bits[1] + 4 * bits[2] + 8 * bits[3]
                        + 16 * bits[4] + 32 * bits[5] + 64 * bits[6]
                        + 128 * bits[7]
<1> DEFINE h == [i \in 0..7 |-> [x \in Nat |-> x + bits[i] * 2^i]]
           Rec(g) == g = [i \in -1..7 |-> IF i = -1 THEN 0
                                          ELSE g[i - 1] + bits[i] * 2^i]
           a == -1
           D == Nat
<1>1. ASSUME NEW i \in 0..7, NEW x \in Nat
      PROVE  h[i][x] = x + bits[i] * 2^i /\ h[i][x] \in Nat
  <2>1. 2^i \in Nat
    BY PowerType
  <2>2. bits[i] * 2^i \in Nat
    <3>1. bits[i] \in {0, 1}
      OBVIOUS
    <3> QED BY <2>1, <3>1
  <2> QED BY <2>2
<1>2. \E g : Rec(g)
  <2>1. a \in Int /\ 7 \in Int /\ a <= 7 /\ 0 \in D /\ (a + 1)..7 = 0..7
    OBVIOUS
  <2> HIDE DEF h
  <2>2. StaysIn(D, h, a, 7)
    BY <1>1, <2>1 DEF StaysIn
  <2> HIDE DEF a, D
  <2>3. PICK f : Loop(f, D, 0, h, a, 7)
    BY <2>1, <2>2, LoopExists
  <2> USE DEF a, D, Loop
  <2>4. ASSUME NEW i \in -1..7
        PROVE  f[i] = IF i = -1 THEN 0 ELSE f[i - 1] + bits[i] * 2^i
    <3>1. CASE i = -1
      BY <2>3, <3>1
    <3>2. CASE i # -1
      <4>1. i \in 0..7 /\ i \in (a + 1)..7 /\ i - 1 \in a..7
        BY <3>2
      <4>2. f[i] = h[i][f[i - 1]] /\ f[i - 1] \in Nat
        BY <2>3, <4>1
      <4>3. f[i] = f[i - 1] + bits[i] * 2^i
        BY <1>1, <4>1, <4>2
      <4> QED BY <3>2, <4>3
    <3> QED BY <3>1, <3>2
  <2>5. f = [i \in -1..7 |-> f[i]]
    BY <2>3
  <2> QED BY <2>4, <2>5
<1> DEFINE f == CHOOSE g : Rec(g)
<1>3. Rec(f)
  BY <1>2
<1>4. ByteOf(bits) = f[7]
  BY DEF ByteOf
<1> HIDE DEF f
<1>5. /\ f[-1] = 0 /\ f[0] = f[-1] + bits[0] * 2^0
      /\ f[1] = f[0] + bits[1] * 2^1 /\ f[2] = f[1] + bits[2] * 2^2
      /\ f[3] = f[2] + bits[3] * 2^3 /\ f[4] = f[3] + bits[4] * 2^4
      /\ f[5] = f[4] + bits[5] * 2^5 /\ f[6] = f[5] + bits[6] * 2^6
      /\ f[7] = f[6] + bits[7] * 2^7
  BY <1>3
<1>6. /\ bits[0] \in {0, 1} /\ bits[1] \in {0, 1} /\ bits[2] \in {0, 1}
      /\ bits[3] \in {0, 1} /\ bits[4] \in {0, 1} /\ bits[5] \in {0, 1}
      /\ bits[6] \in {0, 1} /\ bits[7] \in {0, 1}
  OBVIOUS
<1> QED BY <1>4, <1>5, <1>6

\* A byte is the sum of its bits.
LEMMA BitsOfByte ==
  ASSUME NEW b \in Octets
  PROVE  b = Bit(b, 0) + 2 * Bit(b, 1) + 4 * Bit(b, 2) + 8 * Bit(b, 3)
             + 16 * Bit(b, 4) + 32 * Bit(b, 5) + 64 * Bit(b, 6)
             + 128 * Bit(b, 7)
BY DEF Octets, Bit

\* Eight bits make a byte with these bits.
LEMMA BitsOfSum ==
  ASSUME NEW x0 \in {0, 1}, NEW x1 \in {0, 1}, NEW x2 \in {0, 1},
         NEW x3 \in {0, 1}, NEW x4 \in {0, 1}, NEW x5 \in {0, 1},
         NEW x6 \in {0, 1}, NEW x7 \in {0, 1}
  PROVE  LET b == x0 + 2 * x1 + 4 * x2 + 8 * x3 + 16 * x4 + 32 * x5
                  + 64 * x6 + 128 * x7
         IN /\ b \in Octets
            /\ Bit(b, 0) = x0 /\ Bit(b, 1) = x1 /\ Bit(b, 2) = x2
            /\ Bit(b, 3) = x3 /\ Bit(b, 4) = x4 /\ Bit(b, 5) = x5
            /\ Bit(b, 6) = x6 /\ Bit(b, 7) = x7
BY DEF Octets, Bit

LEMMA XorBits ==
  ASSUME NEW a \in Octets, NEW b \in Octets
  PROVE  /\ Xor(a, b) \in Octets
         /\ Bit(Xor(a, b), 0) = (Bit(a, 0) + Bit(b, 0)) % 2
         /\ Bit(Xor(a, b), 1) = (Bit(a, 1) + Bit(b, 1)) % 2
         /\ Bit(Xor(a, b), 2) = (Bit(a, 2) + Bit(b, 2)) % 2
         /\ Bit(Xor(a, b), 3) = (Bit(a, 3) + Bit(b, 3)) % 2
         /\ Bit(Xor(a, b), 4) = (Bit(a, 4) + Bit(b, 4)) % 2
         /\ Bit(Xor(a, b), 5) = (Bit(a, 5) + Bit(b, 5)) % 2
         /\ Bit(Xor(a, b), 6) = (Bit(a, 6) + Bit(b, 6)) % 2
         /\ Bit(Xor(a, b), 7) = (Bit(a, 7) + Bit(b, 7)) % 2
<1> DEFINE x == [i \in 0..7 |-> (Bit(a, i) + Bit(b, i)) % 2]
<1>1. \A i \in 0..7 : x[i] \in {0, 1}
  <2> SUFFICES ASSUME NEW i \in 0..7 PROVE x[i] \in {0, 1}
    OBVIOUS
  <2>1. Bit(a, i) \in {0, 1} /\ Bit(b, i) \in {0, 1}
    <3>1. a \in Nat /\ b \in Nat /\ i \in Nat
      BY DEF Octets
    <3> QED BY <3>1, BitType
  <2> QED BY <2>1
<1>2. /\ x[0] = (Bit(a, 0) + Bit(b, 0)) % 2 /\ x[1] = (Bit(a, 1) + Bit(b, 1)) % 2
      /\ x[2] = (Bit(a, 2) + Bit(b, 2)) % 2 /\ x[3] = (Bit(a, 3) + Bit(b, 3)) % 2
      /\ x[4] = (Bit(a, 4) + Bit(b, 4)) % 2 /\ x[5] = (Bit(a, 5) + Bit(b, 5)) % 2
      /\ x[6] = (Bit(a, 6) + Bit(b, 6)) % 2 /\ x[7] = (Bit(a, 7) + Bit(b, 7)) % 2
  OBVIOUS
<1>3. Xor(a, b) = ByteOf(x)
  BY DEF Xor
<1> HIDE DEF x
<1>4. /\ x[0] \in {0, 1} /\ x[1] \in {0, 1} /\ x[2] \in {0, 1} /\ x[3] \in {0, 1}
      /\ x[4] \in {0, 1} /\ x[5] \in {0, 1} /\ x[6] \in {0, 1} /\ x[7] \in {0, 1}
  BY <1>1
<1> DEFINE v == x[0] + 2 * x[1] + 4 * x[2] + 8 * x[3] + 16 * x[4] + 32 * x[5]
                + 64 * x[6] + 128 * x[7]
<1>5. Xor(a, b) = v
  BY <1>1, <1>3, ByteOfSum
<1>6. /\ v \in Octets
      /\ Bit(v, 0) = x[0] /\ Bit(v, 1) = x[1] /\ Bit(v, 2) = x[2]
      /\ Bit(v, 3) = x[3] /\ Bit(v, 4) = x[4] /\ Bit(v, 5) = x[5]
      /\ Bit(v, 6) = x[6] /\ Bit(v, 7) = x[7]
  BY <1>4, BitsOfSum
<1> HIDE DEF v
<1> QED BY <1>2, <1>5, <1>6

\* Folding twice with the same byte gives the other one back.
LEMMA XorCancels ==
  ASSUME NEW a \in Octets, NEW b \in Octets
  PROVE  Xor(a, Xor(a, b)) = b
<1> DEFINE c == Xor(a, b)
           d == Xor(a, c)
<1>1. c \in Octets /\ d \in Octets
  BY XorBits
<1>2. \A x, y \in {0, 1} : (x + ((x + y) % 2)) % 2 = y
  OBVIOUS
<1>3. \A i \in 0..7 : Bit(a, i) \in {0, 1} /\ Bit(b, i) \in {0, 1}
  <2>1. a \in Nat /\ b \in Nat /\ \A i \in 0..7 : i \in Nat
    BY DEF Octets
  <2> QED BY <2>1, BitType
<1>4. /\ Bit(d, 0) = Bit(b, 0) /\ Bit(d, 1) = Bit(b, 1)
      /\ Bit(d, 2) = Bit(b, 2) /\ Bit(d, 3) = Bit(b, 3)
      /\ Bit(d, 4) = Bit(b, 4) /\ Bit(d, 5) = Bit(b, 5)
      /\ Bit(d, 6) = Bit(b, 6) /\ Bit(d, 7) = Bit(b, 7)
  <2>1. /\ Bit(c, 0) = (Bit(a, 0) + Bit(b, 0)) % 2
        /\ Bit(c, 1) = (Bit(a, 1) + Bit(b, 1)) % 2
        /\ Bit(c, 2) = (Bit(a, 2) + Bit(b, 2)) % 2
        /\ Bit(c, 3) = (Bit(a, 3) + Bit(b, 3)) % 2
        /\ Bit(c, 4) = (Bit(a, 4) + Bit(b, 4)) % 2
        /\ Bit(c, 5) = (Bit(a, 5) + Bit(b, 5)) % 2
        /\ Bit(c, 6) = (Bit(a, 6) + Bit(b, 6)) % 2
        /\ Bit(c, 7) = (Bit(a, 7) + Bit(b, 7)) % 2
    BY XorBits
  <2> HIDE DEF c
  <2>2. /\ Bit(d, 0) = (Bit(a, 0) + Bit(c, 0)) % 2
        /\ Bit(d, 1) = (Bit(a, 1) + Bit(c, 1)) % 2
        /\ Bit(d, 2) = (Bit(a, 2) + Bit(c, 2)) % 2
        /\ Bit(d, 3) = (Bit(a, 3) + Bit(c, 3)) % 2
        /\ Bit(d, 4) = (Bit(a, 4) + Bit(c, 4)) % 2
        /\ Bit(d, 5) = (Bit(a, 5) + Bit(c, 5)) % 2
        /\ Bit(d, 6) = (Bit(a, 6) + Bit(c, 6)) % 2
        /\ Bit(d, 7) = (Bit(a, 7) + Bit(c, 7)) % 2
    BY <1>1, XorBits
  <2> HIDE DEF d
  <2>3. 0 \in 0..7 /\ 1 \in 0..7 /\ 2 \in 0..7 /\ 3 \in 0..7 /\ 4 \in 0..7
        /\ 5 \in 0..7 /\ 6 \in 0..7 /\ 7 \in 0..7
    OBVIOUS
  <2> QED BY <1>2, <1>3, <2>1, <2>2, <2>3
<1> HIDE DEF c, d
<1>5. /\ d = Bit(d, 0) + 2 * Bit(d, 1) + 4 * Bit(d, 2) + 8 * Bit(d, 3)
             + 16 * Bit(d, 4) + 32 * Bit(d, 5) + 64 * Bit(d, 6) + 128 * Bit(d, 7)
      /\ b = Bit(b, 0) + 2 * Bit(b, 1) + 4 * Bit(b, 2) + 8 * Bit(b, 3)
             + 16 * Bit(b, 4) + 32 * Bit(b, 5) + 64 * Bit(b, 6) + 128 * Bit(b, 7)
  BY <1>1, BitsOfByte
<1>6. d = b
  BY <1>4, <1>5
<1> QED BY <1>6 DEF c, d

LEMMA WordBytesType == WordBytes \in Nat /\ WordBytes >= 2
BY WhiteningAssumption

LEMMA WordBytesTimes ==
  /\ \A k \in Int : k * WordBytes \in Int /\ WordBytes * k = k * WordBytes
  /\ \A k \in Nat : k * WordBytes \in Nat
  /\ \A k \in Int : (k + 1) * WordBytes = k * WordBytes + WordBytes
  /\ \A j, k \in Int : j <= k => j * WordBytes <= k * WordBytes
  /\ \A k \in Nat : k >= 1 => k * WordBytes >= 2
<1> USE WordBytesType
<1>1. \A k \in Int : k * WordBytes \in Int /\ WordBytes * k = k * WordBytes
  OBVIOUS
<1>2. \A k \in Nat : k * WordBytes \in Nat
  OBVIOUS
<1>3. \A k \in Int : (k + 1) * WordBytes = k * WordBytes + WordBytes
  OBVIOUS
<1>4. \A j, k \in Int : j <= k => j * WordBytes <= k * WordBytes
  OBVIOUS
<1>5. \A k \in Nat : k >= 1 => k * WordBytes >= 2
  OBVIOUS
<1> QED BY <1>1, <1>2, <1>3, <1>4, <1>5

-----------------------------------------------------------------------------
(* A word and its bytes *)

\* Shifting by one byte more is shifting the rest by a byte.
LEMMA ShiftStep ==
  ASSUME NEW t \in Nat, NEW p \in Nat \ {0}
  PROVE  /\ t \div p \in Nat
         /\ t \div (256 * p) = (t \div p) \div 256
<1> DEFINE q == t \div p
           r == t % p
           u == q \div 256
           s == q % 256
<1>1. q \in Nat /\ r \in Nat /\ r < p /\ t = p * q + r
  OBVIOUS
<1>2. u \in Nat /\ s \in Nat /\ s <= 255 /\ q = 256 * u + s
  BY <1>1
<1> HIDE DEF q, r, u, s
<1>3. p * s <= p * 255 /\ p * s \in Nat /\ p * u \in Nat
  BY <1>2
<1>4. p * q = 256 * (p * u) + p * s
  BY <1>1, <1>2
<1> DEFINE w == 256 * p
           c == p * s + r
<1>5. w \in Nat \ {0} /\ c \in Nat /\ c < w
  BY <1>1, <1>3
<1>6. t = w * u + c
  <2>1. w * u = 256 * (p * u)
    BY <1>2
  <2>2. c = p * s + r
    OBVIOUS
  <2> HIDE DEF w, c
  <2> QED BY <1>1, <1>3, <1>4, <2>1, <2>2
<1> HIDE DEF w, c
<1>7. t \div w = u
  BY <1>2, <1>5, <1>6, DivMod
<1> QED BY <1>1, <1>7 DEF q, u, w

\* The bytes of a timestamp, least significant first, give it back.
LEMMA WordGivesBack ==
  ASSUME NEW t \in Nat, t < 2^(8 * WordBytes), NEW bytes, NEW e,
         \A i \in 1..WordBytes :
           bytes[(e - 1) * WordBytes + i] = PutUint64(t)[i]
  PROVE  WordAt(bytes, e) = t
<1> DEFINE W == WordBytes
           p(k) == 2^(8 * k)
           b(i) == bytes[(e - 1) * WordBytes + i]
           h == [i \in 1..W |-> [x \in Nat |-> x + b(i) * p(i - 1)]]
           Rec(g) == g = [i \in 0..W |-> IF i = 0 THEN 0
                                         ELSE g[i - 1] + b(i) * p(i - 1)]
           D == Nat
<1>0. W \in Nat /\ W >= 2
  BY WordBytesType
<1>1. ASSUME NEW k \in Nat
      PROVE  p(k) \in Nat \ {0} /\ p(k + 1) = 256 * p(k)
  <2>1. 8 * k \in Nat
    OBVIOUS
  <2> QED BY <2>1, PowerType, PowerOfByte
<1>2. ASSUME NEW i \in 1..W
      PROVE  /\ i - 1 \in Nat /\ b(i) = (t \div p(i - 1)) % 256
             /\ b(i) \in Nat /\ b(i) * p(i - 1) \in Nat
  <2>1. i - 1 \in Nat
    BY <1>0
  <2>2. p(i - 1) \in Nat \ {0}
    BY <1>1, <2>1
  <2>3. b(i) = (t \div p(i - 1)) % 256
    BY DEF PutUint64
  <2> HIDE DEF p, b
  <2>4. t \div p(i - 1) \in Nat
    BY <2>2, ShiftStep
  <2>5. b(i) \in Nat
    BY <2>3, <2>4
  <2> QED BY <2>1, <2>2, <2>3, <2>5
<1> HIDE DEF p, b
<1>2a. ASSUME NEW k \in Nat
      PROVE  t \div p(k) \in Nat /\ t \div p(k + 1) = (t \div p(k)) \div 256
  <2>1. p(k) \in Nat \ {0} /\ p(k + 1) = 256 * p(k)
    BY <1>1
  <2>2. \A y \in Nat \ {0} : /\ t \div y \in Nat
                             /\ t \div (256 * y) = (t \div y) \div 256
    BY ShiftStep, ZenonT(60)
  <2> QED BY <2>1, <2>2
<1>3. ASSUME NEW i \in 1..W, NEW x \in Nat
      PROVE  h[i][x] = x + b(i) * p(i - 1) /\ h[i][x] \in Nat
  BY <1>2
<1>4. \E g : Rec(g)
  <2>1. 0 \in Int /\ W \in Int /\ 0 <= W /\ 0 \in D /\ (0 + 1)..W = 1..W
    BY <1>0
  <2> HIDE DEF h
  <2>2. StaysIn(D, h, 0, W)
    BY <1>3, <2>1 DEF StaysIn
  <2> HIDE DEF D
  <2>3. PICK f : Loop(f, D, 0, h, 0, W)
    BY <2>1, <2>2, LoopExists
  <2> USE DEF D, Loop
  <2>4. ASSUME NEW i \in 0..W
        PROVE  f[i] = IF i = 0 THEN 0 ELSE f[i - 1] + b(i) * p(i - 1)
    <3>1. CASE i = 0
      BY <2>3, <3>1
    <3>2. CASE i # 0
      <4>1. i \in 1..W /\ i \in (0 + 1)..W /\ i - 1 \in 0..W
        BY <1>0, <3>2
      <4>2. f[i] = h[i][f[i - 1]] /\ f[i - 1] \in Nat
        BY <2>3, <4>1
      <4>3. f[i] = f[i - 1] + b(i) * p(i - 1)
        BY <1>3, <4>1, <4>2
      <4> QED BY <3>2, <4>3
    <3> QED BY <3>1, <3>2
  <2>5. f = [i \in 0..W |-> f[i]]
    BY <2>3
  <2> QED BY <2>4, <2>5
<1> DEFINE f == CHOOSE g : Rec(g)
<1>5. Rec(f)
  BY <1>4
<1>6. WordAt(bytes, e) = f[W]
  BY DEF WordAt, b, p
<1> HIDE DEF f
<1>7. f[0] = 0 /\ \A i \in 1..W : f[i] = f[i - 1] + b(i) * p(i - 1)
  BY <1>0, <1>5
\* What the sum still misses is the rest, shifted back.
<1> DEFINE T == {k \in 0..W : f[k] \in Nat /\ t = f[k] + p(k) * (t \div p(k))}
<1>8. 0 \in T
  <2>1. p(0) = 1
    BY DEF p
  <2> QED BY <1>0, <1>7, <2>1
<1>9. \A k \in 0..W : k < W /\ k \in T => k + 1 \in T
  <2> SUFFICES ASSUME NEW k \in 0..W, k < W, k \in T PROVE k + 1 \in T
    OBVIOUS
  <2>1. k \in Nat /\ k + 1 \in 1..W /\ k + 1 \in 0..W /\ (k + 1) - 1 = k
    BY <1>0
  <2>2. p(k) \in Nat \ {0} /\ p(k + 1) = 256 * p(k)
    BY <1>1, <2>1
  <2> DEFINE q == t \div p(k)
             u == t \div p(k + 1)
             s == b(k + 1)
             P == p(k)
  <2>3. q \in Nat /\ u = q \div 256
    BY <2>1, <1>2a
  <2>4. s = q % 256 /\ s \in Nat
    BY <1>2, <2>1
  <2>5. f[k + 1] = f[k] + s * P
    BY <1>7, <2>1
  <2>6. f[k] \in Nat /\ t = f[k] + P * q
    OBVIOUS
  <2>7. P \in Nat /\ p(k + 1) = 256 * P
    BY <2>2
  <2> HIDE DEF q, u, s, P
  <2>8. u \in Nat /\ q = 256 * u + s
    BY <2>3, <2>4
  <2>9. P * q = 256 * (P * u) + s * P /\ P * u \in Nat /\ s * P \in Nat
    BY <2>4, <2>7, <2>8
  <2>10. p(k + 1) * u = 256 * (P * u)
    BY <2>7, <2>8
  <2>11. f[k + 1] \in Nat /\ t = f[k + 1] + p(k + 1) * u
    BY <2>5, <2>6, <2>9, <2>10
  <2> QED BY <2>1, <2>11 DEF u
<1>10. W \in T
  <2> HIDE DEF T
  <2>1. \A k \in 0..W : k \in T
    BY <1>0, <1>8, <1>9, IntervalInduction
  <2> QED BY <1>0, <2>1
<1>11. t \div p(W) = 0
  <2>1. t < p(W) /\ p(W) \in Nat \ {0}
    BY <1>0, <1>1 DEF p
  <2>2. t = p(W) * 0 + t
    BY <2>1
  <2> HIDE DEF W
  <2> QED BY <2>1, <2>2, DivMod
<1>12. p(W) * 0 = 0
  BY <1>0, <1>1
<1> QED BY <1>6, <1>10, <1>11, <1>12

-----------------------------------------------------------------------------
(* From the events to the input of SHA-256 *)

LEMMA PutUint64Type ==
  ASSUME NEW t \in Nat
  PROVE  PutUint64(t) \in Seq(Octets) /\ Len(PutUint64(t)) = WordBytes
<1>1. ASSUME NEW i \in 1..WordBytes
      PROVE  (t \div 2^(8 * (i - 1))) % 256 \in Octets
  <2>1. 8 * (i - 1) \in Nat
    BY WordBytesType
  <2>2. 2^(8 * (i - 1)) \in Nat \ {0}
    BY <2>1, PowerType
  <2>3. t \div 2^(8 * (i - 1)) \in Nat
    BY <2>2, ShiftStep
  <2>4. \A q \in Nat : q % 256 \in Octets
    BY DEF Octets
  <2> QED BY <2>3, <2>4
<1>2. PutUint64(t) \in [1..WordBytes -> Octets]
  BY <1>1 DEF PutUint64
<1> HIDE DEF PutUint64
<1> QED BY <1>2, WordBytesType

LEMMA RawBytesLoop ==
  ASSUME NEW events \in Seq(Nat)
  PROVE  \E f : /\ RawBytes(events) = f[Len(events)] /\ f[0] = <<>>
                /\ \A i \in 1..Len(events) :
                     f[i] = f[i - 1] \o PutUint64(events[i])
<1> DEFINE N == Len(events)
           D == Seq(Octets)
           h == [i \in 1..N |-> [x \in D |-> x \o PutUint64(events[i])]]
           Rec(g) == g = [i \in 0..N |-> IF i = 0 THEN <<>>
                                         ELSE g[i - 1] \o PutUint64(events[i])]
<1>0. N \in Nat /\ <<>> \in D
  OBVIOUS
<1>1. ASSUME NEW i \in 1..N, NEW x \in D
      PROVE  h[i][x] = x \o PutUint64(events[i]) /\ h[i][x] \in D
  <2>1. PutUint64(events[i]) \in Seq(Octets)
    BY PutUint64Type
  <2>2. x \o PutUint64(events[i]) \in Seq(Octets)
    BY <2>1, ConcatProperties
  <2> QED BY <2>2
<1> HIDE DEF N, D
<1>2. \E g : Rec(g)
  <2>1. 0 \in Int /\ N \in Int /\ 0 <= N /\ (0 + 1)..N = 1..N
    BY <1>0
  <2> HIDE DEF h
  <2>2. StaysIn(D, h, 0, N)
    BY <1>1, <2>1 DEF StaysIn
  <2>3. PICK f : Loop(f, D, <<>>, h, 0, N)
    BY <1>0, <2>1, <2>2, LoopExists
  <2> USE DEF Loop
  <2>4. ASSUME NEW i \in 0..N
        PROVE  f[i] = IF i = 0 THEN <<>> ELSE f[i - 1] \o PutUint64(events[i])
    <3>1. CASE i = 0
      BY <2>3, <3>1
    <3>2. CASE i # 0
      <4>1. i \in 1..N /\ i \in (0 + 1)..N /\ i - 1 \in 0..N
        BY <1>0, <3>2
      <4>2. f[i] = h[i][f[i - 1]] /\ f[i - 1] \in D
        BY <2>3, <4>1
      <4>3. f[i] = f[i - 1] \o PutUint64(events[i])
        BY <1>1, <4>1, <4>2
      <4> QED BY <3>2, <4>3
    <3> QED BY <3>1, <3>2
  <2>5. f = [i \in 0..N |-> f[i]]
    BY <2>3
  <2> QED BY <2>4, <2>5
<1> DEFINE f == CHOOSE g : Rec(g)
<1>3. Rec(f)
  BY <1>2
<1>4. RawBytes(events) = f[N]
  BY DEF RawBytes, N
<1> HIDE DEF f
<1>5. f[0] = <<>> /\ \A i \in 1..N : f[i] = f[i - 1] \o PutUint64(events[i])
  BY <1>0, <1>3
<1> QED BY <1>4, <1>5 DEF N

\* Byte i of event e.
LEMMA RawBytesAre ==
  ASSUME NEW events \in Seq(Nat)
  PROVE  /\ RawBytes(events) \in Seq(Octets)
         /\ Len(RawBytes(events)) = Len(events) * WordBytes
         /\ \A e \in 1..Len(events), i \in 1..WordBytes :
              /\ (e - 1) * WordBytes + i \in 1..Len(RawBytes(events))
              /\ RawBytes(events)[(e - 1) * WordBytes + i]
                   = PutUint64(events[e])[i]
<1> DEFINE N == Len(events)
           W == WordBytes
<1>0. N \in Nat /\ \A i \in 1..N : events[i] \in Nat
  OBVIOUS
<1>1. W \in Nat /\ W >= 2
  BY WordBytesType
<1>2. PICK f : /\ RawBytes(events) = f[N] /\ f[0] = <<>>
               /\ \A i \in 1..N : f[i] = f[i - 1] \o PutUint64(events[i])
  BY RawBytesLoop
<1>3. /\ \A k \in Int : k * W \in Int
      /\ \A k \in Nat : k * W \in Nat
      /\ \A k \in Int : (k + 1) * W = k * W + W
      /\ \A j, k \in Int : j <= k => j * W <= k * W
      /\ 0 * W = 0
  BY <1>1, WordBytesTimes
<1> DEFINE Good(s, k) ==
             /\ s \in Seq(Octets) /\ Len(s) = k * W
             /\ \A e \in 1..k, i \in 1..W :
                  s[(e - 1) * W + i] = PutUint64(events[e])[i]
           T == {k \in 0..N : Good(f[k], k)}
<1> HIDE DEF W, N
\* Where the bytes of event e are.
<1>4. ASSUME NEW k \in Nat, NEW e \in 1..k, NEW i \in 1..W
      PROVE  (e - 1) * W + i \in 1..(k * W)
  <2>1. e - 1 \in Nat /\ e \in Int /\ e <= k /\ (e - 1) + 1 = e
    OBVIOUS
  <2>2. (e - 1) * W \in Nat /\ e * W = (e - 1) * W + W /\ e * W <= k * W
        /\ k * W \in Nat
    <3> DEFINE d == e - 1
    <3>1. d \in Nat /\ d \in Int /\ e = d + 1 /\ k \in Int
      BY <2>1
    <3> HIDE DEF d
    <3>2. d * W \in Nat /\ (d + 1) * W = d * W + W
      BY <1>3, <3>1
    <3>3. e * W <= k * W /\ k * W \in Nat
      BY <1>3, <2>1, <3>1
    <3> QED BY <3>1, <3>2, <3>3 DEF d
  <2>3. i \in Nat /\ 1 <= i /\ i <= W
    BY <1>1
  <2> DEFINE x == (e - 1) * W
             y == e * W
             z == k * W
  <2>4. x \in Nat /\ y = x + W /\ y <= z /\ z \in Nat
    BY <2>2
  <2> HIDE DEF x, y, z
  <2>5. x + i \in 1..z
    BY <1>1, <2>3, <2>4
  <2> QED BY <2>5 DEF x, z
<1>5. 0 \in T
  <2>1. <<>> \in Seq(Octets) /\ Len(<<>>) = 0
    OBVIOUS
  <2>2. Good(f[0], 0)
    BY <1>2, <1>3, <2>1
  <2> QED BY <1>0, <2>2
<1>6. \A k \in 0..N : k < N /\ k \in T => k + 1 \in T
  <2> SUFFICES ASSUME NEW k \in 0..N, k < N, k \in T PROVE k + 1 \in T
    OBVIOUS
  <2>1. /\ k \in Nat /\ k + 1 \in 1..N /\ k + 1 \in 0..N /\ (k + 1) - 1 = k
        /\ k + 1 \in Nat /\ k \in Int
    BY <1>0
  <2>2. Good(f[k], k)
    OBVIOUS
  <2> DEFINE s == f[k]
             w == PutUint64(events[k + 1])
             m == k * W
  <2>3. s \in Seq(Octets) /\ Len(s) = m /\ m \in Nat /\ (k + 1) * W = m + W
    BY <1>3, <2>1, <2>2
  <2>4. w \in Seq(Octets) /\ Len(w) = W
    <3>1. events[k + 1] \in Nat
      BY <1>0, <2>1
    <3> QED BY <3>1, PutUint64Type DEF W
  <2>5. f[k + 1] = s \o w
    BY <1>2, <2>1
  <2>6. ASSUME NEW e \in 1..k, NEW i \in 1..W
        PROVE  (e - 1) * W + i \in 1..m
    BY <1>4, <2>1
  <2>7. \A e \in 1..k, i \in 1..W : s[(e - 1) * W + i] = PutUint64(events[e])[i]
    BY <2>2
  <2> HIDE DEF s, w, m, Good, T
  <2>8. /\ s \o w \in Seq(Octets) /\ Len(s \o w) = m + W
        /\ \A j \in 1..(m + W) :
             (s \o w)[j] = IF j <= m THEN s[j] ELSE w[j - m]
    BY <2>3, <2>4, ConcatProperties
  <2>9. ASSUME NEW e \in 1..(k + 1), NEW i \in 1..W
        PROVE  (s \o w)[(e - 1) * W + i] = PutUint64(events[e])[i]
    <3>1. CASE e \in 1..k
      <4>1. (e - 1) * W + i \in 1..m
        BY <2>6, <3>1
      <4> DEFINE j == (e - 1) * W + i
      <4> HIDE DEF j
      <4>2. j \in 1..(m + W) /\ j <= m
        BY <1>1, <2>3, <4>1 DEF j
      <4>3. (s \o w)[j] = s[j]
        BY <2>8, <4>2
      <4> QED BY <2>7, <3>1, <4>3 DEF j
    <3>2. CASE e = k + 1
      <4>1. (e - 1) * W + i = m + i
        BY <2>1, <3>2 DEF m
      <4>2. m + i \in 1..(m + W) /\ ~(m + i <= m) /\ (m + i) - m = i
        BY <1>1, <2>3
      <4>3. (s \o w)[m + i] = w[i]
        BY <2>8, <4>2
      <4> QED BY <3>2, <4>1, <4>3 DEF w
    <3>3. e \in 1..k \/ e = k + 1
      BY <2>1
    <3> QED BY <3>1, <3>2, <3>3
  <2>10. Good(f[k + 1], k + 1)
    BY <2>3, <2>5, <2>8, <2>9 DEF Good
  <2> QED BY <2>1, <2>10 DEF T
<1>7. N \in T
  <2> HIDE DEF T
  <2>1. \A k \in 0..N : k \in T
    BY <1>0, <1>5, <1>6, IntervalInduction
  <2> QED BY <1>0, <2>1
<1>8. Good(f[N], N)
  BY <1>7
<1>9. \A e \in 1..N, i \in 1..W : (e - 1) * W + i \in 1..(N * W)
  BY <1>0, <1>4
<1> QED BY <1>2, <1>8, <1>9 DEF N, W

\* The fold can be undone from the first byte.
LEMMA UnfoldFolded ==
  ASSUME NEW raw \in Seq(Octets), Len(raw) >= 2
  PROVE  \A i \in 1..Len(raw) :
           Unfold(raw[1], ParityPreprocess(raw))[i] = raw[i]
<1> DEFINE N == Len(raw)
           folded == ParityPreprocess(raw)
           Rec(g) == g = [i \in 1..(Len(folded) + 1) |->
                            IF i = 1 THEN raw[1] ELSE Xor(g[i - 1], folded[i - 1])]
<1>0. N \in Nat /\ N >= 2 /\ \A i \in 1..N : raw[i] \in Octets
  OBVIOUS
<1>1. folded = [i \in 1..(N - 1) |-> Xor(raw[i], raw[i + 1])]
  BY <1>0 DEF ParityPreprocess
<1>2. Len(folded) + 1 = N
  BY <1>0, <1>1
<1>3. ASSUME NEW i \in 2..N
      PROVE  /\ i - 1 \in 1..N
             /\ Xor(raw[i - 1], folded[i - 1]) = raw[i]
  <2>1. i - 1 \in 1..(N - 1) /\ i - 1 \in 1..N /\ i \in 1..N /\ (i - 1) + 1 = i
    BY <1>0
  <2>2. folded[i - 1] = Xor(raw[i - 1], raw[i])
    BY <1>1, <2>1
  <2>3. raw[i - 1] \in Octets /\ raw[i] \in Octets
    BY <1>0, <2>1
  <2> QED BY <2>1, <2>2, <2>3, XorCancels
<1> HIDE DEF folded, N
<1>4. \E g : Rec(g)
  <2> DEFINE g == [i \in 1..N |-> raw[i]]
  <2>1. ASSUME NEW i \in 1..N
        PROVE  g[i] = IF i = 1 THEN raw[1] ELSE Xor(g[i - 1], folded[i - 1])
    <3>1. CASE i = 1
      BY <3>1
    <3>2. CASE i # 1
      <4>1. i \in 2..N
        BY <1>0, <3>2
      <4>2. g[i - 1] = raw[i - 1] /\ g[i] = raw[i]
        BY <1>3, <4>1
      <4> QED BY <1>3, <3>2, <4>1, <4>2
    <3> QED BY <3>1, <3>2
  <2>2. g = [i \in 1..N |-> g[i]]
    OBVIOUS
  <2> HIDE DEF g
  <2>3. Rec(g)
    BY <1>2, <2>1, <2>2
  <2> QED BY <2>3
<1> DEFINE f == CHOOSE g : Rec(g)
<1>5. Rec(f)
  BY <1>4
<1>6. Unfold(raw[1], folded) = f
  BY DEF Unfold
<1> HIDE DEF f
<1>7. /\ f[1] = raw[1]
      /\ \A i \in 2..N : f[i] = Xor(f[i - 1], folded[i - 1])
  <2>1. \A i \in 1..N :
          f[i] = IF i = 1 THEN raw[1] ELSE Xor(f[i - 1], folded[i - 1])
    BY <1>2, <1>5
  <2>2. 1 \in 1..N /\ \A i \in 2..N : i \in 1..N /\ i # 1
    BY <1>0
  <2> QED BY <2>1, <2>2
<1> DEFINE M == N - 1
           T == {k \in 0..M : f[k + 1] = raw[k + 1]}
<1>8. M \in Nat /\ 0 \in T
  BY <1>0, <1>7
<1>9. \A k \in 0..M : k < M /\ k \in T => k + 1 \in T
  <2> SUFFICES ASSUME NEW k \in 0..M, k < M, k \in T PROVE k + 1 \in T
    OBVIOUS
  <2>1. /\ (k + 1) + 1 \in 2..N /\ ((k + 1) + 1) - 1 = k + 1 /\ k + 1 \in 0..M
    BY <1>0
  <2>2. f[k + 1] = raw[k + 1]
    OBVIOUS
  <2> DEFINE i == (k + 1) + 1
  <2>3. f[i] = Xor(f[i - 1], folded[i - 1]) /\ Xor(raw[i - 1], folded[i - 1]) = raw[i]
    BY <1>3, <1>7, <2>1
  <2>4. f[i] = raw[i]
    BY <2>1, <2>2, <2>3
  <2> QED BY <2>1, <2>4
<1>10. \A k \in 0..M : k \in T
  <2> HIDE DEF T, M
  <2> QED BY <1>8, <1>9, IntervalInduction
<1>11. ASSUME NEW i \in 1..N PROVE f[i] = raw[i]
  <2>1. i - 1 \in 0..M /\ (i - 1) + 1 = i
    BY <1>0
  <2> QED BY <1>10, <2>1
<1> QED BY <1>6, <1>11 DEF folded, N

\* Every pair of bits gives at most one.
LEMMA DebiasedLength ==
  ASSUME NEW input, Len(input) \in Nat
  PROVE  2 * Len(VonNeumannExtractor(input)) <= Len(input) + 1
<1> DEFINE N == 4 * Len(input)
           pair(n) == [b |-> input[(n - 1) \div 4 + 1],
                       i |-> 7 - 2 * ((n - 1) % 4)]
           first(n) == Bit(pair(n).b, pair(n).i)
           same(n) == first(n) = Bit(pair(n).b, pair(n).i - 1)
           add(n) == IF same(n) THEN <<>> ELSE <<first(n)>>
           S == {first(n) : n \in 1..N}
           D == Seq(S)
           h == [n \in 1..N |-> [x \in D |-> x \o add(n)]]
           Rec(g) == g = [n \in 0..N |-> IF n = 0 THEN <<>>
                                         ELSE g[n - 1] \o add(n)]
<1>0. N \in Nat /\ <<>> \in D
  OBVIOUS
<1>1. ASSUME NEW n \in 1..N
      PROVE  add(n) \in Seq(S) /\ Len(add(n)) <= 1 /\ Len(add(n)) \in Nat
  <2>1. first(n) \in S
    OBVIOUS
  <2> HIDE DEF S, first, same
  <2>2. <<>> \in Seq(S) /\ Len(<<>>) = 0
    OBVIOUS
  <2>3. <<first(n)>> \in Seq(S) /\ Len(<<first(n)>>) = 1
    BY <2>1
  <2>4. CASE same(n)
    BY <2>2, <2>4
  <2>5. CASE ~same(n)
    BY <2>3, <2>5
  <2> QED BY <2>4, <2>5
<1> HIDE DEF S, N, add
<1>2. ASSUME NEW n \in 1..N, NEW x \in D
      PROVE  /\ h[n][x] = x \o add(n) /\ h[n][x] \in D
             /\ Len(h[n][x]) <= Len(x) + 1
  <2>1. x \o add(n) \in Seq(S) /\ Len(x \o add(n)) = Len(x) + Len(add(n))
    BY <1>1, ConcatProperties
  <2>2. Len(x) \in Nat
    OBVIOUS
  <2> QED BY <1>1, <2>1, <2>2
<1> HIDE DEF D
<1>3. \E g : Rec(g)
  <2>1. 0 \in Int /\ N \in Int /\ 0 <= N /\ (0 + 1)..N = 1..N
    BY <1>0
  <2> HIDE DEF h
  <2>2. StaysIn(D, h, 0, N)
    BY <1>2, <2>1 DEF StaysIn
  <2>3. PICK f : Loop(f, D, <<>>, h, 0, N)
    BY <1>0, <2>1, <2>2, LoopExists
  <2> USE DEF Loop
  <2>4. ASSUME NEW n \in 0..N
        PROVE  f[n] = IF n = 0 THEN <<>> ELSE f[n - 1] \o add(n)
    <3>1. CASE n = 0
      BY <2>3, <3>1
    <3>2. CASE n # 0
      <4>1. n \in 1..N /\ n \in (0 + 1)..N /\ n - 1 \in 0..N
        BY <1>0, <3>2
      <4>2. f[n] = h[n][f[n - 1]] /\ f[n - 1] \in D
        BY <2>3, <4>1
      <4>3. f[n] = f[n - 1] \o add(n)
        BY <1>2, <4>1, <4>2
      <4> QED BY <3>2, <4>3
    <3> QED BY <3>1, <3>2
  <2>5. f = [n \in 0..N |-> f[n]]
    BY <2>3
  <2> QED BY <2>4, <2>5
<1> DEFINE f == CHOOSE g : Rec(g)
<1>4. Rec(f)
  BY <1>3
<1>5. VonNeumannExtractor(input) = packBits(f[N])
  BY DEF VonNeumannExtractor, N, add
<1> HIDE DEF f
<1>6. f[0] = <<>> /\ \A n \in 1..N : f[n] = f[n - 1] \o add(n)
  <2>1. \A n \in 0..N : f[n] = IF n = 0 THEN <<>> ELSE f[n - 1] \o add(n)
    BY <1>4
  <2>2. 0 \in 0..N /\ \A n \in 1..N : n \in 0..N /\ n # 0
    BY <1>0
  <2> QED BY <2>1, <2>2
<1> DEFINE T == {n \in 0..N : f[n] \in D /\ Len(f[n]) \in Nat /\ Len(f[n]) <= n}
<1>7. 0 \in T
  BY <1>0, <1>6
<1>8. \A n \in 0..N : n < N /\ n \in T => n + 1 \in T
  <2> SUFFICES ASSUME NEW n \in 0..N, n < N, n \in T PROVE n + 1 \in T
    OBVIOUS
  <2>1. n + 1 \in 1..N /\ n + 1 \in 0..N /\ (n + 1) - 1 = n /\ n \in Nat
    BY <1>0
  <2>2. f[n] \in D /\ Len(f[n]) \in Nat /\ Len(f[n]) <= n
    OBVIOUS
  <2>3. f[n + 1] = h[n + 1][f[n]]
    <3>1. f[n + 1] = f[n] \o add(n + 1)
      BY <1>6, <2>1
    <3> QED BY <1>2, <2>1, <2>2, <3>1
  <2> HIDE DEF h
  <2>4. f[n + 1] \in D /\ Len(f[n + 1]) <= Len(f[n]) + 1
    BY <1>2, <2>1, <2>2, <2>3
  <2>5. Len(f[n + 1]) \in Nat
    BY <2>4 DEF D
  <2> QED BY <2>1, <2>2, <2>4, <2>5
<1>9. Len(f[N]) \in Nat /\ Len(f[N]) <= N
  <2>1. \A n \in 0..N : n \in T
    <3> HIDE DEF T
    <3> QED BY <1>0, <1>7, <1>8, IntervalInduction
  <2>2. N \in T
    BY <1>0, <2>1
  <2> QED BY <2>2
<1> DEFINE m == Len(f[N])
<1>10. Len(packBits(f[N])) = (m + 7) \div 8
  <2> DEFINE k == (m + 7) \div 8
  <2>1. k \in Nat
    <3>1. m \in Nat
      BY <1>9
    <3> HIDE DEF m
    <3> QED BY <3>1
  <2> HIDE DEF k
  <2>2. \E g : packBits(f[N]) = [j \in 1..k |-> g[j]]
    <3> DEFINE g == packBits(f[N])
    <3>1. g = [j \in 1..k |-> g[j]]
      BY DEF packBits, k
    <3> QED BY <3>1
  <2>3. PICK g : packBits(f[N]) = [j \in 1..k |-> g[j]]
    BY <2>2
  <2>4. Len(packBits(f[N])) = k
    BY <2>1, <2>3
  <2> QED BY <2>4 DEF k
<1>11. m \in Nat /\ m <= 4 * Len(input)
  BY <1>9 DEF N
<1> HIDE DEF m
<1>12. 2 * ((m + 7) \div 8) <= Len(input) + 1
  BY <1>11
<1> QED BY <1>5, <1>10, <1>12

\* The bit counter is the number of bits or, near its limit, the limit.
LEMMA BitCount ==
  ASSUME NEW bytes \in Nat
  PROVE  /\ toBitCount(bytes) \in {8 * bytes, MaxUint}
         /\ toBitCount(bytes) <= 8 * bytes + 7
<1> DEFINE M == MaxUint
<1>1. 2^CountWidth \in Nat \ {0} /\ 2^CountWidth = M + 1 /\ M \in Nat
  <2>1. 2^CountWidth \in Nat \ {0}
    BY WhiteningAssumption, PowerType
  <2> DEFINE p == 2^CountWidth
  <2>2. p \in Nat \ {0} /\ M = p - 1
    BY <2>1 DEF MaxUint
  <2> HIDE DEF p, M
  <2>3. M \in Nat /\ p = M + 1
    BY <2>2
  <2> QED BY <2>1, <2>3 DEF p
<1> HIDE DEF M
<1>2. toBitCount(bytes) = IF bytes <= 0 THEN 0
                          ELSE IF bytes >= M \div 8 THEN M
                          ELSE (bytes * 8) % (M + 1)
  BY <1>1 DEF toBitCount, M
<1>3. CASE bytes = 0
  BY <1>2, <1>3
<1>4. CASE bytes # 0 /\ bytes >= M \div 8
  <2>1. toBitCount(bytes) = M
    BY <1>2, <1>4
  <2>2. M <= 8 * bytes + 7
    BY <1>1, <1>4
  <2> QED BY <2>1, <2>2 DEF M
<1>5. CASE bytes # 0 /\ ~(bytes >= M \div 8)
  <2>1. bytes * 8 \in Nat /\ bytes * 8 < M + 1
    BY <1>1, <1>5
  <2>2. (bytes * 8) % (M + 1) = bytes * 8
    <3> DEFINE W == M + 1
               c == bytes * 8
    <3>1. W \in Nat \ {0} /\ c \in Nat /\ c < W /\ c = W * 0 + c
      BY <1>1, <2>1
    <3> HIDE DEF W, c
    <3>2. c % W = c
      BY <3>1, DivMod
    <3> QED BY <3>2 DEF W, c
  <2>3. toBitCount(bytes) = 8 * bytes
    BY <1>2, <1>5, <2>2
  <2>4. 8 * bytes <= 8 * bytes + 7
    OBVIOUS
  <2> QED BY <2>3, <2>4
<1> QED BY <1>3, <1>4, <1>5

-----------------------------------------------------------------------------
(* The calls of the conditioning *)

LEMMA BatchType ==
  ASSUME NEW events \in Batches
  PROVE  /\ events \in Seq(Nat) /\ Len(events) \in Nat
         /\ \A e \in 1..Len(events) : events[e] < 2^(8 * WordBytes)
<1>1. PICK n \in 0..MaxBatch : events \in [1..n -> Timestamps]
  BY DEF Batches
<1>2. MaxBatch \in Nat /\ Timestamps \subseteq 0..(2^(8 * WordBytes) - 1)
  BY MonitorAssumption, Zenon
<1>3. n \in Nat
  BY <1>2
<1> DEFINE p == 2^(8 * WordBytes)
<1>4. p \in Nat
  <2>1. 8 * WordBytes \in Nat
    BY WordBytesType
  <2> QED BY <2>1, PowerType
<1> HIDE DEF p
<1>5. \A t \in Timestamps : t \in Nat /\ t < p
  <2>1. Timestamps \subseteq 0..(p - 1)
    BY <1>2 DEF p
  <2> QED BY <1>4, <2>1
<1>6. events \in [1..n -> Nat]
  BY <1>1, <1>5
<1>7. events \in Seq(Nat) /\ Len(events) = n
  BY <1>3, <1>6
<1>8. \A e \in 1..n : events[e] < p
  BY <1>1, <1>5
<1> QED BY <1>3, <1>7, <1>8 DEF p

\* What the property says of one call of the conditioning.
LEMMA ConditionedCorrectly ==
  ASSUME NEW events \in Batches
  PROVE  LET raw == RawBytes(events)
             size == DualStageWhiteningSize(raw)
             stats == ComputeWhiteningStats(Len(raw), size) IN
         /\ Len(raw) = WordBytes * Len(events)
         /\ \A e \in 1..Len(events) :
              WordAt(Unfold(raw[1], ParityPreprocess(raw)), e) = events[e]
         /\ size = IF events = <<>> THEN 0 ELSE DigestBytes
         /\ 2 * Len(VonNeumannExtractor(raw)) <= Len(raw) + 1
         /\ stats.input \in {8 * Len(raw), MaxUint}
         /\ stats.input <= 8 * Len(raw) + 7
<1> DEFINE raw == RawBytes(events)
           N == Len(events)
           folded == ParityPreprocess(raw)
           size == DualStageWhiteningSize(raw)
           stats == ComputeWhiteningStats(Len(raw), size)
<1>1. /\ events \in Seq(Nat) /\ N \in Nat
      /\ \A e \in 1..N : events[e] < 2^(8 * WordBytes)
      /\ events = <<>> <=> N = 0
  BY BatchType
<1>2. /\ raw \in Seq(Octets) /\ Len(raw) = N * WordBytes
      /\ \A e \in 1..N, i \in 1..WordBytes :
           /\ (e - 1) * WordBytes + i \in 1..Len(raw)
           /\ raw[(e - 1) * WordBytes + i] = PutUint64(events[e])[i]
  BY <1>1, RawBytesAre
<1>3. /\ Len(raw) \in Nat /\ Len(raw) = WordBytes * N
      /\ N >= 1 => Len(raw) >= 2
      /\ N = 0 => Len(raw) = 0
  <2>1. N * WordBytes = WordBytes * N
    BY <1>1, WordBytesTimes
  <2>2. N >= 1 => N * WordBytes >= 2
    BY <1>1, WordBytesTimes
  <2>3. 0 * WordBytes = 0
    BY WordBytesType
  <2> HIDE DEF raw, N
  <2> QED BY <1>2, <2>1, <2>2, <2>3
<1> HIDE DEF raw, N
<1>4. ASSUME NEW e \in 1..N
      PROVE  WordAt(Unfold(raw[1], folded), e) = events[e]
  <2>1. N >= 1 /\ Len(raw) >= 2
    BY <1>1, <1>3
  <2> DEFINE u == Unfold(raw[1], folded)
             t == events[e]
  <2>2. \A i \in 1..Len(raw) : u[i] = raw[i]
    BY <1>2, <2>1, UnfoldFolded
  <2>3. \A i \in 1..WordBytes : u[(e - 1) * WordBytes + i] = PutUint64(t)[i]
    <3> HIDE DEF u
    <3> QED BY <1>2, <2>2, Zenon
  <2>4. t \in Nat /\ t < 2^(8 * WordBytes)
    BY <1>1 DEF N
  <2> HIDE DEF u, t
  <2>5. WordAt(u, e) = t
    BY <2>3, <2>4, WordGivesBack, Zenon
  <2> QED BY <2>5 DEF u, t
<1>5. size = IF N = 0 THEN 0 ELSE DigestBytes
  <2>1. CASE N = 0
    <3>1. folded = <<>>
      BY <1>3, <2>1 DEF ParityPreprocess
    <3> QED BY <2>1, <3>1 DEF DualStageWhiteningSize, SHA256Size
  <2>2. CASE N # 0
    <3>1. Len(raw) >= 2 /\ Len(raw) \in Nat
      BY <1>1, <1>3, <2>2
    <3> DEFINE k == Len(raw) - 1
    <3>2. folded = [i \in 1..k |-> Xor(raw[i], raw[i + 1])] /\ k \in Nat /\ k >= 1
      BY <3>1 DEF ParityPreprocess
    <3> HIDE DEF k, folded
    <3>3. folded # <<>>
      BY <3>2
    <3> QED BY <2>2, <3>3 DEF DualStageWhiteningSize, SHA256Size, folded
  <2> QED BY <2>1, <2>2
<1>6. 2 * Len(VonNeumannExtractor(raw)) <= Len(raw) + 1
  BY <1>3, DebiasedLength
<1>7. stats.input \in {8 * Len(raw), MaxUint} /\ stats.input <= 8 * Len(raw) + 7
  <2> DEFINE m == Len(raw)
  <2>1. m \in Nat
    BY <1>3
  <2>2. stats.input = IF m = 0 THEN 0 ELSE toBitCount(m)
    BY DEF ComputeWhiteningStats
  <2> DEFINE c == stats.input
  <2> HIDE DEF m, stats
  <2>3. ASSUME m = 0 PROVE c \in {8 * m, MaxUint} /\ c <= 8 * m + 7
    <3>1. c = 0 /\ 8 * m = 0 /\ 0 <= 8 * m + 7
      BY <2>2, <2>3
    <3> QED BY <3>1, Zenon
  <2>4. ASSUME m # 0 PROVE c \in {8 * m, MaxUint} /\ c <= 8 * m + 7
    <3>1. c = toBitCount(m)
      BY <2>2, <2>4
    <3>2. toBitCount(m) \in {8 * m, MaxUint} /\ toBitCount(m) <= 8 * m + 7
      BY <2>1, BitCount, Zenon
    <3> QED BY <3>1, <3>2, Zenon
  <2>5. c \in {8 * m, MaxUint} /\ c <= 8 * m + 7
    BY <2>3, <2>4, Zenon
  <2> QED BY <2>5 DEF m
<1> QED BY <1>1, <1>3, <1>4, <1>5, <1>6, <1>7, Zenon DEF raw, N

LEMMA ConditionKeeps ==
  ASSUME NEW events \in Batches, Condition(events)
  PROVE  ConditioningMatchesDefinition'
<1> DEFINE raw == RawBytes(events)
           size == DualStageWhiteningSize(raw)
           stats == ComputeWhiteningStats(Len(raw), size)
           folded == ParityPreprocess(raw)
           debiased == VonNeumannExtractor(raw)
<1>1. call' = [op |-> "condition", data |-> events, raw |-> raw,
               folded |-> folded, size |-> size, debiased |-> debiased,
               stats |-> stats]
  BY DEF Condition
<1>2. /\ Len(raw) = WordBytes * Len(events)
      /\ \A e \in 1..Len(events) : WordAt(Unfold(raw[1], folded), e) = events[e]
      /\ size = IF events = <<>> THEN 0 ELSE DigestBytes
      /\ 2 * Len(debiased) <= Len(raw) + 1
      /\ stats.input \in {8 * Len(raw), MaxUint}
      /\ stats.input <= 8 * Len(raw) + 7
  BY ConditionedCorrectly
<1> HIDE DEF raw, size, stats, folded, debiased
<1>3. /\ call'.data = events /\ call'.raw = raw /\ call'.folded = folded
      /\ call'.size = size /\ call'.debiased = debiased /\ call'.stats = stats
  BY <1>1
<1> QED BY <1>2, <1>3, Zenon DEF ConditioningMatchesDefinition

LEMMA ConditioningStep ==
  ASSUME ConditioningMatchesDefinition, [Next]_vars
  PROVE  ConditioningMatchesDefinition'
<1>1. CASE \E events \in Batches : Condition(events)
  BY <1>1, ConditionKeeps
<1>2. CASE call'.op # "condition"
  BY <1>2, Zenon DEF ConditioningMatchesDefinition
<1>3. CASE call' = call
  BY <1>3 DEF ConditioningMatchesDefinition
<1>4. CASE \E block \in Blocks : TestRct(block) \/ TestApt(block)
  <2>1. call' = NoCall
    BY <1>4 DEF TestRct, TestApt
  <2> QED BY <1>2, <2>1 DEF NoCall
<1>5. CASE ResetRct \/ ResetApt
  <2>1. call' = NoCall
    BY <1>5 DEF ResetRct, ResetApt
  <2> QED BY <1>2, <2>1 DEF NoCall
<1>6. CASE \E block \in Analysed, window \in Windows : Analyse(block, window)
  <2>1. call'.op = "analyse"
    BY <1>6 DEF Analyse
  <2> QED BY <1>2, <2>1
<1>7. CASE UNCHANGED vars
  BY <1>3, <1>7 DEF vars
<1> QED BY <1>1, <1>4, <1>5, <1>6, <1>7 DEF Next

\* For every word size, batch and set of timestamps: the conditioning loses
\* nothing but a byte before SHA-256, debiases to at most half, and counts
\* the bits without wrapping.
THEOREM ConditioningCorrect == Spec => []ConditioningMatchesDefinition
<1>1. Init => ConditioningMatchesDefinition
  BY DEF Init, NoCall, ConditioningMatchesDefinition
<1> QED BY <1>1, ConditioningStep, PTL DEF Spec

LEMMA IntervalSize == \A n \in Nat : IsFiniteSet(1..n) /\ Cardinality(1..n) = n
  BY FS_Interval

-----------------------------------------------------------------------------
(* The bits of a block *)

\* Bit i of byte k + 1, counted from the least significant.
LEMMA BitAtByte ==
  ASSUME NEW d, NEW k \in Nat, NEW i \in 0..7
  PROVE  BitAt(d, 8 * k + 8 - i) = Bit(d[k + 1], i)
<1> DEFINE j == 8 * k + 8 - i
<1>1. (j - 1) \div 8 + 1 = k + 1 /\ 7 - ((j - 1) % 8) = i
  OBVIOUS
<1> HIDE DEF j
<1>2. BitAt(d, j) = Bit(d[k + 1], i)
  BY <1>1, Zenon DEF BitAt, Bit
<1> QED BY <1>2 DEF j

\* Every position is one.
LEMMA BitPosition ==
  ASSUME NEW N \in Nat, NEW j \in 1..(8 * N)
  PROVE  \E k \in 0..(N - 1), i \in 0..7 : j = 8 * k + 8 - i
<1> DEFINE k == (j - 1) \div 8
           i == 7 - ((j - 1) % 8)
<1>1. k \in 0..(N - 1) /\ i \in 0..7 /\ j = 8 * k + 8 - i
  OBVIOUS
<1> HIDE DEF k, i
<1> QED BY <1>1

Complement(d) == [i \in 1..Len(d) |-> 255 - d[i]]

LEMMA ComplementType ==
  ASSUME NEW d \in Seq(Octets)
  PROVE  /\ Complement(d) \in Seq(Octets) /\ Len(Complement(d)) = Len(d)
         /\ \A i \in 1..Len(d) : Complement(d)[i] = 255 - d[i]
<1>0. \A b \in Octets : 255 - b \in Octets
  BY DEF Octets
<1>1. Len(d) \in Nat /\ \A i \in 1..Len(d) : d[i] \in Octets /\ 255 - d[i] \in Octets
  BY <1>0
<1>2. Complement(d) \in [1..Len(d) -> Octets]
  BY <1>1 DEF Complement
<1>3. \A i \in 1..Len(d) : Complement(d)[i] = 255 - d[i]
  BY DEF Complement
<1> HIDE DEF Complement
<1> QED BY <1>1, <1>2, <1>3

LEMMA BitOfComplement ==
  ASSUME NEW b \in Octets, NEW i \in 0..7
  PROVE  Bit(255 - b, i) = 1 - Bit(b, i)
<1>1. CASE i = 0
  BY <1>1 DEF Octets, Bit
<1>2. CASE i = 1
  BY <1>2 DEF Octets, Bit
<1>3. CASE i = 2
  BY <1>3 DEF Octets, Bit
<1>4. CASE i = 3
  BY <1>4 DEF Octets, Bit
<1>5. CASE i = 4
  BY <1>5 DEF Octets, Bit
<1>6. CASE i = 5
  BY <1>6 DEF Octets, Bit
<1>7. CASE i = 6
  BY <1>7 DEF Octets, Bit
<1>8. CASE i = 7
  BY <1>8 DEF Octets, Bit
<1> QED BY <1>1, <1>2, <1>3, <1>4, <1>5, <1>6, <1>7, <1>8

LEMMA BitAtComplement ==
  ASSUME NEW d \in Seq(Octets), NEW j \in 1..(8 * Len(d))
  PROVE  /\ BitAt(d, j) \in {0, 1}
         /\ BitAt(Complement(d), j) = 1 - BitAt(d, j)
<1>1. Len(d) \in Nat /\ \A i \in 1..Len(d) : d[i] \in Octets
  OBVIOUS
<1>2. PICK k \in 0..(Len(d) - 1), i \in 0..7 : j = 8 * k + 8 - i
  BY <1>1, BitPosition
<1>3. k \in Nat /\ k + 1 \in 1..Len(d) /\ i \in Nat
  BY <1>1
<1> DEFINE b == d[k + 1]
<1>4. b \in Octets /\ b \in Nat
  <2>1. b \in Octets
    BY <1>1, <1>3
  <2>2. \A x \in Octets : x \in Nat
    BY DEF Octets
  <2> QED BY <2>1, <2>2
<1>5. BitAt(d, j) = Bit(b, i) /\ BitAt(Complement(d), j) = Bit(255 - b, i)
  <2>1. Complement(d)[k + 1] = 255 - b
    BY <1>3, ComplementType
  <2>2. \A e : BitAt(e, j) = Bit(e[k + 1], i)
    BY <1>2, <1>3, BitAtByte
  <2> QED BY <2>1, <2>2, Zenon
<1> HIDE DEF b
<1>6. Bit(b, i) \in {0, 1} /\ Bit(255 - b, i) = 1 - Bit(b, i)
  BY <1>3, <1>4, BitType, BitOfComplement
<1> QED BY <1>5, <1>6

-----------------------------------------------------------------------------
(* FrequencyTest *)

OnesAt(d) == {k \in 1..(8 * Len(d)) : BitAt(d, k) = 1}

LEMMA OnesCount8Type ==
  ASSUME NEW b
  PROVE  /\ IsFiniteSet({i \in 0..7 : (b \div 2^i) % 2 = 1})
         /\ OnesCount8(b) \in Nat
<1>1. IsFiniteSet(0..7)
  <2>1. \A n \in Int : IsFiniteSet(0..n)
    BY FS_Interval
  <2>2. 7 \in Int
    OBVIOUS
  <2> QED BY <2>1, <2>2, Zenon
<1> DEFINE S == {i \in 0..7 : (b \div 2^i) % 2 = 1}
<1>2. S \in SUBSET (0..7)
  OBVIOUS
<1>3. OnesCount8(b) = Cardinality(S)
  BY DEF OnesCount8
<1> HIDE DEF S
<1>4. IsFiniteSet(S) /\ Cardinality(S) \in Nat
  BY <1>1, <1>2, FS_Subset, FS_CardinalityType
<1> QED BY <1>3, <1>4 DEF S

\* The ones of one byte of a block.
LEMMA OnesOfByte ==
  ASSUME NEW d, NEW k \in Nat
  PROVE  LET C == {j \in (8 * k + 1)..(8 * k + 8) : BitAt(d, j) = 1} IN
         IsFiniteSet(C) /\ Cardinality(C) = OnesCount8(d[k + 1])
<1> DEFINE C == {j \in (8 * k + 1)..(8 * k + 8) : BitAt(d, j) = 1}
           b == d[k + 1]
           S == {i \in 0..7 : (b \div 2^i) % 2 = 1}
           f == [i \in S |-> 8 * k + 8 - i]
<1>1. \A i \in 0..7 : BitAt(d, 8 * k + 8 - i) = (b \div 2^i) % 2
  BY BitAtByte DEF Bit
<1>2. f \in [S -> C]
  <2> SUFFICES ASSUME NEW i \in S PROVE 8 * k + 8 - i \in C
    OBVIOUS
  <2>1. i \in 0..7 /\ BitAt(d, 8 * k + 8 - i) = 1
    BY <1>1
  <2>2. 8 * k + 8 - i \in (8 * k + 1)..(8 * k + 8)
    BY <2>1
  <2> QED BY <2>1, <2>2
<1>3. \A i, j \in S : f[i] = f[j] => i = j
  <2> SUFFICES ASSUME NEW i \in S, NEW j \in S, f[i] = f[j] PROVE i = j
    OBVIOUS
  <2>1. i \in 0..7 /\ j \in 0..7 /\ f[i] = 8 * k + 8 - i /\ f[j] = 8 * k + 8 - j
    OBVIOUS
  <2>2. 8 * k + 8 - i = 8 * k + 8 - j
    BY <2>1
  <2> HIDE DEF f, S
  <2> QED BY <2>1, <2>2
<1>4. \A j \in C : \E i \in S : f[i] = j
  <2> SUFFICES ASSUME NEW j \in C PROVE \E i \in S : f[i] = j
    OBVIOUS
  <2> DEFINE i == 8 * k + 8 - j
  <2>1. i \in 0..7 /\ j = 8 * k + 8 - i
    OBVIOUS
  <2>2. (b \div 2^i) % 2 = 1
    <3>1. BitAt(d, j) = 1
      OBVIOUS
    <3> HIDE DEF i
    <3> QED BY <1>1, <2>1, <3>1
  <2> HIDE DEF i
  <2>3. i \in S
    BY <2>1, <2>2
  <2>4. f[i] = j
    BY <2>1, <2>3
  <2> QED BY <2>3, <2>4
<1>5. IsFiniteSet(S) /\ OnesCount8(b) = Cardinality(S)
  BY OnesCount8Type DEF OnesCount8
<1> HIDE DEF S, C, f
<1>6. f \in Bijection(S, C)
  BY <1>2, <1>3, <1>4 DEF Bijection, Injection, Surjection, IsInjective
<1>7. IsFiniteSet(C) /\ Cardinality(C) = Cardinality(S)
  <2>1. ExistsBijection(S, C)
    BY <1>6 DEF ExistsBijection
  <2> QED BY <1>5, <2>1, FS_Bijection
<1> QED BY <1>5, <1>7 DEF C, b

LEMMA OnesLoop ==
  ASSUME NEW d, Len(d) \in Nat
  PROVE  \E f : /\ Ones(d) = f[Len(d)] /\ f[0] = 0
                /\ \A i \in 1..Len(d) : f[i] = f[i - 1] + OnesCount8(d[i])
<1> DEFINE N == Len(d)
           D == Nat
           h == [i \in 1..N |-> [x \in Nat |-> x + OnesCount8(d[i])]]
           Rec(g) == g = [i \in 0..N |-> IF i = 0 THEN 0
                                         ELSE g[i - 1] + OnesCount8(d[i])]
<1>0. N \in Nat
  OBVIOUS
<1>1. ASSUME NEW i \in 1..N, NEW x \in Nat
      PROVE  h[i][x] = x + OnesCount8(d[i]) /\ h[i][x] \in Nat
  <2>1. OnesCount8(d[i]) \in Nat
    BY OnesCount8Type
  <2> QED BY <2>1
<1> HIDE DEF N
<1>2. \E g : Rec(g)
  <2>1. 0 \in Int /\ N \in Int /\ 0 <= N /\ (0 + 1)..N = 1..N /\ 0 \in D
    BY <1>0
  <2> HIDE DEF h
  <2>2. StaysIn(D, h, 0, N)
    BY <1>1, <2>1 DEF StaysIn
  <2> HIDE DEF D
  <2>3. PICK f : Loop(f, D, 0, h, 0, N)
    BY <1>0, <2>1, <2>2, LoopExists
  <2> USE DEF Loop, D
  <2>4. ASSUME NEW i \in 0..N
        PROVE  f[i] = IF i = 0 THEN 0 ELSE f[i - 1] + OnesCount8(d[i])
    <3>1. CASE i = 0
      BY <2>3, <3>1
    <3>2. CASE i # 0
      <4>1. i \in 1..N /\ i \in (0 + 1)..N /\ i - 1 \in 0..N
        BY <1>0, <3>2
      <4>2. f[i] = h[i][f[i - 1]] /\ f[i - 1] \in Nat
        BY <2>3, <4>1
      <4>3. f[i] = f[i - 1] + OnesCount8(d[i])
        BY <1>1, <4>1, <4>2
      <4> QED BY <3>2, <4>3
    <3> QED BY <3>1, <3>2
  <2>5. f = [i \in 0..N |-> f[i]]
    BY <2>3
  <2> QED BY <2>4, <2>5
<1> DEFINE f == CHOOSE g : Rec(g)
<1>3. Rec(f)
  BY <1>2
<1>4. Ones(d) = f[N]
  BY DEF Ones, N
<1> HIDE DEF f
<1>5. f[0] = 0 /\ \A i \in 1..N : f[i] = f[i - 1] + OnesCount8(d[i])
  BY <1>0, <1>3
<1> QED BY <1>4, <1>5 DEF N

\* The sum over the bytes is the number of ones of the block.
LEMMA OnesAre ==
  ASSUME NEW d, Len(d) \in Nat
  PROVE  /\ IsFiniteSet(OnesAt(d)) /\ Ones(d) = Cardinality(OnesAt(d))
         /\ Ones(d) \in Nat
<1> DEFINE N == Len(d)
           B(k) == {j \in 1..(8 * k) : BitAt(d, j) = 1}
<1>1. PICK f : /\ Ones(d) = f[N] /\ f[0] = 0
               /\ \A i \in 1..N : f[i] = f[i - 1] + OnesCount8(d[i])
  BY OnesLoop
<1> DEFINE T == {k \in 0..N : IsFiniteSet(B(k)) /\ f[k] = Cardinality(B(k))}
<1>2. 0 \in T
  <2>1. B(0) = {}
    OBVIOUS
  <2> QED BY <1>1, <2>1, FS_EmptySet
<1>3. \A k \in 0..N : k < N /\ k \in T => k + 1 \in T
  <2> SUFFICES ASSUME NEW k \in 0..N, k < N, k \in T PROVE k + 1 \in T
    OBVIOUS
  <2>1. k \in Nat /\ k + 1 \in 1..N /\ k + 1 \in 0..N /\ (k + 1) - 1 = k
    OBVIOUS
  <2> DEFINE C == {j \in (8 * k + 1)..(8 * k + 8) : BitAt(d, j) = 1}
  <2>2. IsFiniteSet(B(k)) /\ f[k] = Cardinality(B(k))
    OBVIOUS
  <2>3. IsFiniteSet(C) /\ Cardinality(C) = OnesCount8(d[k + 1])
    BY <2>1, OnesOfByte
  <2>4. B(k + 1) = B(k) \cup C /\ B(k) \cap C = {}
    OBVIOUS
  <2>5. f[k + 1] = f[k] + OnesCount8(d[k + 1])
    BY <1>1, <2>1
  <2> HIDE DEF B, C
  <2>6. /\ IsFiniteSet(B(k) \cup C)
        /\ Cardinality(B(k) \cup C) = Cardinality(B(k)) + Cardinality(C) - 0
    BY <2>2, <2>3, <2>4, FS_Union, FS_EmptySet
  <2>7. Cardinality(B(k)) \in Nat /\ Cardinality(C) \in Nat
    BY <2>2, <2>3, FS_CardinalityType
  <2>8. IsFiniteSet(B(k + 1)) /\ f[k + 1] = Cardinality(B(k + 1))
    <3>1. f[k + 1] = Cardinality(B(k) \cup C)
      BY <2>2, <2>3, <2>5, <2>6, <2>7
    <3> QED BY <2>4, <2>6, <3>1, Zenon
  <2> QED BY <2>1, <2>8
<1>4. N \in T
  <2> HIDE DEF T
  <2>1. \A k \in 0..N : k \in T
    BY <1>2, <1>3, IntervalInduction
  <2> QED BY <2>1
<1>5. IsFiniteSet(B(N)) /\ f[N] = Cardinality(B(N))
  BY <1>4
<1>6. B(N) = OnesAt(d)
  BY DEF OnesAt
<1> HIDE DEF B
<1>7. Cardinality(B(N)) \in Nat
  BY <1>5, FS_CardinalityType
<1> QED BY <1>1, <1>5, <1>6, <1>7

\* Of a block and its complement together, every bit is a one once.
LEMMA OnesOfComplement ==
  ASSUME NEW d \in Seq(Octets)
  PROVE  Ones(Complement(d)) = 8 * Len(d) - Ones(d)
<1> DEFINE c == Complement(d)
           n == 8 * Len(d)
<1>1. Len(d) \in Nat /\ n \in Nat /\ c \in Seq(Octets) /\ Len(c) = Len(d)
  BY ComplementType
<1>2. OnesAt(c) = (1..n) \ OnesAt(d) /\ (1..n) \cap OnesAt(d) = OnesAt(d)
  <2>1. \A j \in 1..n : BitAt(d, j) \in {0, 1} /\ BitAt(c, j) = 1 - BitAt(d, j)
    BY BitAtComplement
  <2> HIDE DEF c
  <2> QED BY <1>1, <2>1 DEF OnesAt
<1> HIDE DEF c
<1>3. Ones(d) = Cardinality(OnesAt(d)) /\ Ones(c) = Cardinality(OnesAt(c))
  BY <1>1, OnesAre
<1>4. IsFiniteSet(1..n) /\ Cardinality(1..n) = n
  BY <1>1, IntervalSize, Zenon
<1>5. Cardinality((1..n) \ OnesAt(d)) = n - Cardinality(OnesAt(d))
  <2>1. Cardinality((1..n) \ OnesAt(d))
          = Cardinality(1..n) - Cardinality((1..n) \cap OnesAt(d))
    BY <1>4, FS_Difference
  <2> HIDE DEF n
  <2> QED BY <1>2, <1>4, <2>1
<1> QED BY <1>2, <1>3, <1>5 DEF c

\* The test sees a block and its complement alike: its limits lie as far
\* below half of the bits as above it.
LEMMA FrequencyJudged ==
  ASSUME NEW d \in Seq(Octets), d # <<>>
  PROVE  /\ FrequencyTest(d).ratio = <<Cardinality(OnesAt(d)), 8 * Len(d)>>
         /\ FrequencyTest(d).passed = FrequencyTest(Complement(d)).passed
<1> DEFINE c == Complement(d)
           N == Len(d)
           x == Ones(d)
           y == Ones(c)
           P(n, o) == 45 * n <= 100 * o /\ 100 * o <= 55 * n
<1>1. N \in Nat /\ N * 8 = 8 * N /\ N > 0
  OBVIOUS
<1>2. c \in Seq(Octets) /\ Len(c) = N /\ c # <<>>
  <2>1. c \in Seq(Octets) /\ Len(c) = N
    BY ComplementType
  <2> HIDE DEF c, N
  <2> QED BY <1>1, <2>1
<1>3. x = Cardinality(OnesAt(d)) /\ x \in Nat /\ y = 8 * N - x
  BY <1>1, OnesAre, OnesOfComplement
<1> HIDE DEF c
<1>4. /\ FrequencyTest(d) = [ratio |-> <<x, N * 8>>, passed |-> P(N * 8, x)]
      /\ FrequencyTest(c) = [ratio |-> <<y, N * 8>>, passed |-> P(N * 8, y)]
  BY <1>2 DEF FrequencyTest
<1> HIDE DEF x, y, N
<1>5. P(N * 8, x) <=> P(N * 8, y)
  BY <1>1, <1>3
<1> HIDE DEF P
<1>6. FrequencyTest(d).ratio = <<x, N * 8>>
  BY <1>4
<1>7. FrequencyTest(d).passed = FrequencyTest(c).passed
  <2>1. P(N * 8, x) = P(N * 8, y)
    BY <1>5, Zenon DEF P
  <2>2. \A a, b : [ratio |-> a, passed |-> b].passed = b
    OBVIOUS
  <2>3. FrequencyTest(d).passed = P(N * 8, x)
    BY <1>4, <2>2, Zenon
  <2>4. FrequencyTest(c).passed = P(N * 8, y)
    BY <1>4, <2>2, Zenon
  <2> QED BY <2>1, <2>3, <2>4, Zenon
<1>8. <<x, N * 8>> = <<Cardinality(OnesAt(d)), 8 * N>>
  BY <1>1, <1>3
<1> QED BY <1>6, <1>7, <1>8, Zenon DEF c, N

-----------------------------------------------------------------------------
(* RunsTest *)

\* The bits up to m that differ from the one before.
ChangesAt(d, m) == {k \in 2..m : BitAt(d, k) # BitAt(d, k - 1)}

\* The scan remembers the last bit and counts the changes.
LEMMA RunsLoop ==
  ASSUME NEW d \in Seq(Octets), d # <<>>
  PROVE  LET n == 8 * Len(d) IN
         \E f : /\ Runs(d) = f[n].runs
                /\ f[1] = [runs |-> 1, last |-> BitAt(d, 1)]
                /\ \A k \in 2..n :
                     f[k] = IF BitAt(d, k) # f[k - 1].last
                            THEN [runs |-> f[k - 1].runs + 1, last |-> BitAt(d, k)]
                            ELSE f[k - 1]
<1> DEFINE n == 8 * Len(d)
           D == [runs : Nat, last : {0, 1}]
           z == [runs |-> 1, last |-> BitAt(d, 1)]
           body(k, x) == IF BitAt(d, k) # x.last
                         THEN [runs |-> x.runs + 1, last |-> BitAt(d, k)] ELSE x
           h == [k \in 2..n |-> [x \in D |-> body(k, x)]]
           Rec(g) == g = [k \in 1..n |-> IF k = 1 THEN z ELSE body(k, g[k - 1])]
<1>0. n \in Nat /\ n >= 1
  OBVIOUS
<1>b. \A k \in 1..n : BitAt(d, k) \in {0, 1}
  BY BitAtComplement
<1>1. ASSUME NEW k \in 2..n, NEW x \in D
      PROVE  h[k][x] = body(k, x) /\ h[k][x] \in D
  <2>1. k \in 1..n
    BY <1>0
  <2>2. BitAt(d, k) \in {0, 1}
    BY <1>b, <2>1
  <2>3. x.runs \in Nat
    OBVIOUS
  <2>4. [runs |-> x.runs + 1, last |-> BitAt(d, k)] \in D
    BY <2>2, <2>3
  <2>5. body(k, x) \in D
    BY <2>4, Zenon
  <2> HIDE DEF D
  <2>6. h[k][x] = body(k, x)
    BY Zenon
  <2> QED BY <2>5, <2>6, Zenon
<1>z. z \in D
  <2>1. 1 \in 1..n
    BY <1>0
  <2>2. BitAt(d, 1) \in {0, 1}
    BY <1>b, <2>1
  <2> QED BY <2>2
<1> HIDE DEF n, z
<1>2. \E g : Rec(g)
  <2>1. 1 \in Int /\ n \in Int /\ 1 <= n /\ (1 + 1)..n = 2..n
    BY <1>0
  <2> HIDE DEF h, body
  <2>2. StaysIn(D, h, 1, n)
    BY <1>1, <2>1 DEF StaysIn
  <2> HIDE DEF D
  <2>3. PICK f : Loop(f, D, z, h, 1, n)
    BY <1>0, <1>z, <2>1, <2>2, LoopExists
  <2>l. /\ f \in [1..n -> D] /\ f[1] = z
        /\ \A k \in 2..n : f[k] = h[k][f[k - 1]]
    BY <2>1, <2>3 DEF Loop
  <2>4. ASSUME NEW k \in 1..n
        PROVE  f[k] = IF k = 1 THEN z ELSE body(k, f[k - 1])
    <3>1. CASE k = 1
      BY <2>l, <3>1
    <3>2. CASE k # 1
      <4>1. k \in 2..n /\ k - 1 \in 1..n
        BY <1>0, <3>2
      <4>2. f[k] = h[k][f[k - 1]] /\ f[k - 1] \in D
        BY <2>l, <4>1
      <4>3. f[k] = body(k, f[k - 1])
        BY <1>1, <4>1, <4>2
      <4> QED BY <3>2, <4>3
    <3> QED BY <3>1, <3>2
  <2>5. f = [k \in 1..n |-> f[k]]
    <3>1. f \in [1..n -> D]
      BY <2>l
    <3> QED BY <3>1, Zenon
  <2> DEFINE g == [k \in 1..n |-> IF k = 1 THEN z ELSE body(k, f[k - 1])]
  <2>6. f = g
    BY <2>4, <2>5
  <2>7. Rec(f)
    BY <2>6, Zenon
  <2> QED BY <2>7, Zenon
<1> DEFINE f == CHOOSE g : Rec(g)
<1>3. Rec(f)
  BY <1>2
<1>4. Runs(d) = f[n].runs
  BY DEF Runs, n, z
<1> HIDE DEF f, body
<1>5. f[1] = z /\ \A k \in 2..n : f[k] = body(k, f[k - 1])
  BY <1>0, <1>3
<1> QED BY <1>4, <1>5 DEF n, z, body

LEMMA RunsAre ==
  ASSUME NEW d \in Seq(Octets), d # <<>>
  PROVE  LET n == 8 * Len(d) IN
         /\ IsFiniteSet(ChangesAt(d, n)) /\ Cardinality(ChangesAt(d, n)) \in Nat
         /\ Runs(d) = 1 + Cardinality(ChangesAt(d, n))
<1> DEFINE n == 8 * Len(d)
           N == n - 1
<1>1. PICK f : /\ Runs(d) = f[n].runs
               /\ f[1] = [runs |-> 1, last |-> BitAt(d, 1)]
               /\ \A k \in 2..n :
                     f[k] = IF BitAt(d, k) # f[k - 1].last
                            THEN [runs |-> f[k - 1].runs + 1, last |-> BitAt(d, k)]
                            ELSE f[k - 1]
  BY RunsLoop
<1>0. n \in Nat /\ n >= 1 /\ N \in Nat /\ N + 1 = n
  OBVIOUS
<1> HIDE DEF n
<1> DEFINE Q(k) == /\ IsFiniteSet(ChangesAt(d, k))
                   /\ Cardinality(ChangesAt(d, k)) \in Nat
                   /\ f[k].runs = 1 + Cardinality(ChangesAt(d, k))
                   /\ f[k].last = BitAt(d, k)
           T == {k \in 0..N : Q(k + 1)}
<1>2. 0 \in T
  <2>1. ChangesAt(d, 1) = {}
    BY DEF ChangesAt
  <2>2. f[1].runs = 1 /\ f[1].last = BitAt(d, 1)
    BY <1>1
  <2>3. Q(1)
    <3>1. IsFiniteSet(ChangesAt(d, 1)) /\ Cardinality(ChangesAt(d, 1)) = 0
      BY <2>1, FS_EmptySet, Zenon
    <3>2. f[1].runs = 1 + Cardinality(ChangesAt(d, 1))
      BY <2>2, <3>1
    <3> QED BY <2>2, <3>1, <3>2
  <2> HIDE DEF Q
  <2>4. 0 + 1 = 1 /\ 0 \in 0..N
    BY <1>0
  <2> QED BY <2>3, <2>4
<1>3. \A k \in 0..N : k < N /\ k \in T => k + 1 \in T
  <2> SUFFICES ASSUME NEW k \in 0..N, k < N, k \in T PROVE k + 1 \in T
    OBVIOUS
  <2> DEFINE i == k + 1
             A == ChangesAt(d, i)
             B == ChangesAt(d, i + 1)
  <2>0. i \in Nat /\ i >= 1 /\ i + 1 \in 2..n /\ (i + 1) - 1 = i /\ k + 1 \in 0..N
    BY <1>0
  <2>1. /\ IsFiniteSet(A) /\ Cardinality(A) \in Nat
        /\ f[i].runs = 1 + Cardinality(A) /\ f[i].last = BitAt(d, i)
    OBVIOUS
  <2> HIDE DEF i
  <2>2. f[i + 1] = IF BitAt(d, i + 1) # BitAt(d, i)
                   THEN [runs |-> f[i].runs + 1, last |-> BitAt(d, i + 1)]
                   ELSE f[i]
    BY <1>1, <2>0, <2>1
  <2>3. CASE BitAt(d, i + 1) # BitAt(d, i)
    <3>1. B = A \cup {i + 1} /\ i + 1 \notin A
      BY <2>0, <2>3 DEF ChangesAt
    <3>2. f[i + 1].runs = f[i].runs + 1 /\ f[i + 1].last = BitAt(d, i + 1)
      BY <2>2, <2>3
    <3> HIDE DEF A, B
    <3>3. IsFiniteSet(A \cup {i + 1}) /\ Cardinality(A \cup {i + 1}) = Cardinality(A) + 1
      BY <2>1, <3>1, FS_AddElement
    <3>4. IsFiniteSet(B) /\ Cardinality(B) = Cardinality(A) + 1
      BY <3>1, <3>3, Zenon
    <3>5. Cardinality(B) \in Nat /\ f[i + 1].runs = 1 + Cardinality(B)
      BY <2>1, <3>2, <3>4
    <3>6. Q(i + 1)
      BY <3>2, <3>4, <3>5, Zenon DEF B
    <3> HIDE DEF Q
    <3> QED BY <2>0, <3>6 DEF i
  <2>4. CASE BitAt(d, i + 1) = BitAt(d, i)
    <3>1. B = A
      BY <2>0, <2>4 DEF ChangesAt
    <3>2. f[i + 1] = f[i]
      BY <2>2, <2>4
    <3> HIDE DEF A, B
    <3>6. Q(i + 1)
      BY <2>1, <2>4, <3>1, <3>2, Zenon DEF B
    <3> HIDE DEF Q
    <3> QED BY <2>0, <3>6 DEF i
  <2> QED BY <2>3, <2>4
<1>4. N \in T
  <2> HIDE DEF T, N
  <2>1. \A k \in 0..N : k \in T
    BY <1>0, <1>2, <1>3, IntervalInduction
  <2> QED BY <1>0, <2>1
<1>5. Q(N + 1)
  <2> HIDE DEF Q, N
  <2> QED BY <1>4
<1>6. Q(n)
  <2> HIDE DEF Q, N
  <2> QED BY <1>0, <1>5
<1> QED BY <1>1, <1>6 DEF n

\* A block and its complement change at the same bits.
LEMMA RunsJudged ==
  ASSUME NEW d \in Seq(Octets), d # <<>>
  PROVE  /\ RunsTest(d).count = 1 + Cardinality(ChangesAt(d, 8 * Len(d)))
         /\ RunsTest(d) = RunsTest(Complement(d))
<1> DEFINE c == Complement(d)
           n == 8 * Len(d)
<1>1. Len(d) \in Nat /\ Len(d) > 0
  OBVIOUS
<1>2. c \in Seq(Octets) /\ Len(c) = Len(d) /\ c # <<>>
  <2>1. c \in Seq(Octets) /\ Len(c) = Len(d)
    BY ComplementType
  <2> HIDE DEF c
  <2> QED BY <1>1, <2>1
<1>3. \A j \in 1..n : BitAt(d, j) \in {0, 1} /\ BitAt(c, j) = 1 - BitAt(d, j)
  BY BitAtComplement
<1> HIDE DEF c
<1>4. ChangesAt(c, n) = ChangesAt(d, n)
  <2>1. ASSUME NEW k \in 2..n
        PROVE  BitAt(c, k) # BitAt(c, k - 1) <=> BitAt(d, k) # BitAt(d, k - 1)
    <3>1. k \in 1..n /\ k - 1 \in 1..n
      BY <1>1
    <3> HIDE DEF n
    <3> QED BY <1>3, <3>1
  <2> HIDE DEF n
  <2> QED BY <2>1 DEF ChangesAt
<1>5. Runs(d) = 1 + Cardinality(ChangesAt(d, n)) /\ Runs(c) = Runs(d)
  <2>1. Runs(d) = 1 + Cardinality(ChangesAt(d, n))
    BY RunsAre
  <2>2. Runs(c) = 1 + Cardinality(ChangesAt(c, n))
    BY <1>2, RunsAre
  <2> QED BY <1>4, <2>1, <2>2, Zenon
<1>6. RunsTest(d).count = Runs(d)
  BY DEF RunsTest
<1>7. RunsTest(d) = RunsTest(c)
  <2> DEFINE R(r, l) == [count |-> r, passed |-> 10 * Abs(r - 4 * l) < 4 * l]
  <2>1. RunsTest(d) = R(Runs(d), Len(d)) /\ RunsTest(c) = R(Runs(c), Len(c))
    BY <1>2, Zenon DEF RunsTest
  <2> HIDE DEF R
  <2> QED BY <1>2, <1>5, <2>1, Zenon
<1> QED BY <1>5, <1>6, <1>7, Zenon DEF c

-----------------------------------------------------------------------------
(* EstimateCollision *)

Repeated(d) == {i \in 1..Len(d) : \E j \in 1..(i - 1) : d[j] = d[i]}

LEMMA CollisionLoop ==
  ASSUME NEW d \in Seq(Octets)
  PROVE  \E f : /\ Collision(d) = f[Len(d)]
                /\ f[0] = [seen |-> {}, t |-> 0]
                /\ \A i \in 1..Len(d) :
                     LET x == f[i - 1] IN
                     /\ x \in [seen : SUBSET Octets, t : 0..Len(d)]
                     /\ f[i] = IF x.t # 0 THEN x
                               ELSE IF d[i] \in x.seen THEN [seen |-> x.seen, t |-> i]
                               ELSE [seen |-> x.seen \cup {d[i]}, t |-> x.t]
<1> DEFINE n == Len(d)
           D == [seen : SUBSET Octets, t : 0..n]
           z == [seen |-> {}, t |-> 0]
           code(i, x) == IF x.t # 0 THEN x
                         ELSE IF d[i] \in x.seen THEN [x EXCEPT !.t = i]
                         ELSE [x EXCEPT !.seen = @ \cup {d[i]}]
           body(i, x) == IF x.t # 0 THEN x
                         ELSE IF d[i] \in x.seen THEN [seen |-> x.seen, t |-> i]
                         ELSE [seen |-> x.seen \cup {d[i]}, t |-> x.t]
           h == [i \in 1..n |-> [x \in D |-> code(i, x)]]
           Rec(g) == g = [i \in 0..n |-> IF i = 0 THEN z ELSE code(i, g[i - 1])]
<1>0. n \in Nat /\ \A i \in 1..n : d[i] \in Octets
  OBVIOUS
<1>1. ASSUME NEW i \in 1..n, NEW x \in D
      PROVE  h[i][x] = code(i, x) /\ code(i, x) = body(i, x) /\ code(i, x) \in D
  <2>1. x = [seen |-> x.seen, t |-> x.t] /\ x.seen \in SUBSET Octets /\ x.t \in 0..n
    OBVIOUS
  <2>2. /\ [x EXCEPT !.t = i] = [seen |-> x.seen, t |-> i]
        /\ [x EXCEPT !.seen = @ \cup {d[i]}] = [seen |-> x.seen \cup {d[i]}, t |-> x.t]
    <3>1. [x EXCEPT !.t = i] = [seen |-> x.seen, t |-> i]
      BY <2>1
    <3> DEFINE S == x.seen \cup {d[i]}
    <3>2. [x EXCEPT !.seen = S] = [seen |-> S, t |-> x.t]
      <4> HIDE DEF S
      <4> QED BY <2>1
    <3> QED BY <3>1, <3>2
  <2>3. code(i, x) = body(i, x)
    BY <2>2, Zenon
  <2>4. [seen |-> x.seen, t |-> i] \in D /\ [seen |-> x.seen \cup {d[i]}, t |-> x.t] \in D
    BY <1>0, <2>1
  <2>5. body(i, x) \in D
    BY <2>4, Zenon
  <2> HIDE DEF D, body
  <2>6. h[i][x] = code(i, x)
    BY Zenon
  <2> HIDE DEF h, code
  <2> QED BY <2>3, <2>5, <2>6
<1>z. z \in D
  BY <1>0
<1> HIDE DEF n, z
<1>2. \E g : Rec(g)
  <2>1. 0 \in Int /\ n \in Int /\ 0 <= n /\ (0 + 1)..n = 1..n
    BY <1>0
  <2> HIDE DEF h, body, code
  <2>2. StaysIn(D, h, 0, n)
    BY <1>1, <2>1 DEF StaysIn
  <2> HIDE DEF D
  <2>3. PICK f : Loop(f, D, z, h, 0, n)
    BY <1>0, <1>z, <2>1, <2>2, LoopExists
  <2>l. /\ f \in [0..n -> D] /\ f[0] = z
        /\ \A i \in 1..n : f[i] = h[i][f[i - 1]]
    BY <2>1, <2>3 DEF Loop
  <2>4. ASSUME NEW i \in 0..n
        PROVE  f[i] = IF i = 0 THEN z ELSE code(i, f[i - 1])
    <3>1. CASE i = 0
      BY <2>l, <3>1
    <3>2. CASE i # 0
      <4>1. i \in 1..n /\ i - 1 \in 0..n
        BY <1>0, <3>2
      <4>2. f[i] = h[i][f[i - 1]] /\ f[i - 1] \in D
        BY <2>l, <4>1
      <4>3. f[i] = code(i, f[i - 1])
        BY <1>1, <4>1, <4>2
      <4> QED BY <3>2, <4>3
    <3> QED BY <3>1, <3>2
  <2>5. f = [i \in 0..n |-> f[i]]
    <3>1. f \in [0..n -> D]
      BY <2>l
    <3> QED BY <3>1, Zenon
  <2> DEFINE g == [i \in 0..n |-> IF i = 0 THEN z ELSE code(i, f[i - 1])]
  <2>6. f = g
    BY <2>4, <2>5
  <2>7. Rec(f)
    BY <2>6, Zenon
  <2> QED BY <2>7, Zenon
<1> DEFINE f == CHOOSE g : Rec(g)
<1>3. Rec(f)
  BY <1>2
<1>4. Collision(d) = f[n]
  BY DEF Collision, n, z
<1> HIDE DEF f
<1>5. f[0] = z /\ \A i \in 1..n : f[i] = code(i, f[i - 1])
  <2> HIDE DEF code
  <2> QED BY <1>0, <1>3
<1>6. \A i \in 0..n : f[i] \in D
  <2> DEFINE T == {i \in 0..n : f[i] \in D}
  <2>1. 0 \in T
    BY <1>0, <1>5, <1>z
  <2>2. \A i \in 0..n : i < n /\ i \in T => i + 1 \in T
    <3> SUFFICES ASSUME NEW i \in 0..n, i < n, i \in T PROVE i + 1 \in T
      OBVIOUS
    <3>1. i + 1 \in 1..n /\ (i + 1) - 1 = i /\ i + 1 \in 0..n
      BY <1>0
    <3>2. f[i] \in D
      OBVIOUS
    <3> HIDE DEF code, D
    <3>3. f[i + 1] = code(i + 1, f[i])
      BY <1>5, <3>1
    <3>4. code(i + 1, f[i]) \in D
      BY <1>1, <3>1, <3>2
    <3> QED BY <3>1, <3>3, <3>4
  <2> HIDE DEF T
  <2>3. \A i \in 0..n : i \in T
    BY <1>0, <2>1, <2>2, IntervalInduction
  <2> QED BY <2>3 DEF T
<1>7. ASSUME NEW i \in 1..n
      PROVE  f[i - 1] \in D /\ f[i] = body(i, f[i - 1])
  <2>1. i - 1 \in 0..n
    BY <1>0
  <2> HIDE DEF code, body, D
  <2>2. f[i - 1] \in D
    BY <1>6, <2>1
  <2> QED BY <1>1, <1>5, <2>2
<1> QED BY <1>4, <1>5, <1>7 DEF n, z

\* After i bytes: no byte was repeated and the values seen are as many as the
\* bytes, or the first repeated byte was found and the set was left alone.
CollisionAt(d, x, i) ==
  \/ /\ x.t = 0 /\ x.seen = {d[j] : j \in 1..i}
     /\ IsFiniteSet(x.seen) /\ Cardinality(x.seen) = i
     /\ \A k \in 1..i : k \notin Repeated(d)
  \/ /\ x.t \in 1..i /\ x.t \in Repeated(d)
     /\ \A k \in Repeated(d) : x.t <= k
     /\ Cardinality(x.seen) = x.t - 1

LEMMA CollisionFound ==
  ASSUME NEW d \in Seq(Octets)
  PROVE  CollisionAt(d, Collision(d), Len(d))
<1> DEFINE n == Len(d)
<1>0. n \in Nat
  OBVIOUS
<1>1. PICK f : /\ Collision(d) = f[n]
               /\ f[0] = [seen |-> {}, t |-> 0]
               /\ \A i \in 1..n :
                     LET x == f[i - 1] IN
                     /\ x \in [seen : SUBSET Octets, t : 0..n]
                     /\ f[i] = IF x.t # 0 THEN x
                               ELSE IF d[i] \in x.seen THEN [seen |-> x.seen, t |-> i]
                               ELSE [seen |-> x.seen \cup {d[i]}, t |-> x.t]
  BY CollisionLoop
<1> DEFINE T == {i \in 0..n : CollisionAt(d, f[i], i)}
<1>2. 0 \in T
  <2>1. f[0].seen = {} /\ f[0].t = 0 /\ {d[j] : j \in 1..0} = {}
    BY <1>1
  <2>2. IsFiniteSet({}) /\ Cardinality({}) = 0
    BY FS_EmptySet, Zenon
  <2>3. \A k \in 1..0 : k \notin Repeated(d)
    OBVIOUS
  <2>4. CollisionAt(d, f[0], 0)
    BY <2>1, <2>2, <2>3, Zenon DEF CollisionAt
  <2> QED BY <1>0, <2>4
<1>3. \A i \in 0..n : i < n /\ i \in T => i + 1 \in T
  <2> SUFFICES ASSUME NEW k \in 0..n, k < n, CollisionAt(d, f[k], k)
               PROVE  CollisionAt(d, f[k + 1], k + 1)
    BY <1>0
  <2> DEFINE i == k + 1
             x == f[k]
             y == f[i]
  <2>0. k \in Nat /\ i \in Nat /\ i \in 1..n /\ i - 1 = k /\ i = k + 1
    BY <1>0
  <2> HIDE DEF i
  <2>1. y = IF x.t # 0 THEN x
            ELSE IF d[i] \in x.seen THEN [seen |-> x.seen, t |-> i]
            ELSE [seen |-> x.seen \cup {d[i]}, t |-> x.t]
    BY <1>1, <2>0
  <2> HIDE DEF x, y
  <2>2. CollisionAt(d, x, k)
    BY DEF x
  <2>r. \A m \in Repeated(d) : m \in 1..n
    BY DEF Repeated
  <2>3. CASE x.t # 0
    <3>1. y = x
      BY <2>1, <2>3
    <3>2. /\ x.t \in 1..k /\ x.t \in Repeated(d)
          /\ \A m \in Repeated(d) : x.t <= m
          /\ Cardinality(x.seen) = x.t - 1
      BY <2>2, <2>3, Zenon DEF CollisionAt
    <3>3. x.t \in 1..i
      BY <2>0, <3>2
    <3> QED BY <3>1, <3>2, <3>3, Zenon DEF CollisionAt, y, i
  <2>4. CASE x.t = 0
    <3>1. /\ x.seen = {d[j] : j \in 1..k}
          /\ IsFiniteSet(x.seen) /\ Cardinality(x.seen) = k
          /\ \A m \in 1..k : m \notin Repeated(d)
      <4>1. 0 \notin 1..k
        OBVIOUS
      <4> QED BY <2>2, <2>4, <4>1, Zenon DEF CollisionAt
    <3>2. CASE d[i] \in x.seen
      <4>1. y.seen = x.seen /\ y.t = i
        BY <2>1, <2>4, <3>2
      <4>2. i \in Repeated(d)
        BY <2>0, <3>1, <3>2 DEF Repeated
      <4>3. \A m \in Repeated(d) : i <= m
        BY <2>0, <2>r, <3>1
      <4>4. i \in 1..i /\ Cardinality(x.seen) = i - 1
        BY <2>0, <3>1
      <4> QED BY <4>1, <4>2, <4>3, <4>4, Zenon DEF CollisionAt, y, i
    <3>3. CASE d[i] \notin x.seen
      <4>1. y.seen = x.seen \cup {d[i]} /\ y.t = 0
        BY <2>1, <2>4, <3>3
      <4>2. x.seen \cup {d[i]} = {d[j] : j \in 1..i}
        BY <2>0, <3>1
      <4>3. IsFiniteSet(x.seen \cup {d[i]}) /\ Cardinality(x.seen \cup {d[i]}) = k + 1
        BY <3>1, <3>3, FS_AddElement
      <4>4. i \notin Repeated(d)
        BY <2>0, <3>1, <3>3 DEF Repeated
      <4>5. \A m \in 1..i : m \notin Repeated(d)
        BY <2>0, <3>1, <4>4
      <4> QED BY <2>0, <4>1, <4>2, <4>3, <4>5, Zenon DEF CollisionAt, y, i
    <3> QED BY <3>2, <3>3
  <2> QED BY <2>3, <2>4
<1>4. n \in T
  <2> HIDE DEF T, n
  <2>1. \A k \in 0..n : k \in T
    BY <1>0, <1>2, <1>3, IntervalInduction
  <2> QED BY <1>0, <2>1
<1> QED BY <1>1, <1>4

-----------------------------------------------------------------------------
(* EstimateMCV *)

LEMMA LargestIs ==
  ASSUME NEW S \in SUBSET Nat, NEW x \in S, NEW b \in Nat, \A s \in S : s <= b
  PROVE  Largest(S) \in S /\ \A s \in S : s <= Largest(S)
<1> DEFINE G == {m \in Nat : \E s \in S : m = b - s}
<1>1. b - x \in G
  OBVIOUS
<1>2. PICK m \in G : \A k \in G : m <= k
  <2>1. G \in SUBSET Nat
    OBVIOUS
  <2> HIDE DEF G
  <2> QED BY <1>1, <2>1, LeastElement
<1>3. PICK s \in S : m = b - s
  OBVIOUS
<1>4. \A q \in S : q <= s
  <2> SUFFICES ASSUME NEW q \in S PROVE q <= s
    OBVIOUS
  <2>1. q \in Nat /\ s \in Nat /\ q <= b
    OBVIOUS
  <2>2. b - q \in Nat /\ b - q \in G
    BY <2>1
  <2>3. m <= b - q
    BY <1>2, <2>2
  <2> QED BY <1>3, <2>1, <2>3
<1>5. \E q \in S : \A r \in S : r <= q
  BY <1>4
<1> QED BY <1>5, Zenon DEF Largest

LEMMA PositionsType ==
  ASSUME NEW d, Len(d) \in Nat, NEW v
  PROVE  /\ IsFiniteSet(Positions(d, v)) /\ Cardinality(Positions(d, v)) \in Nat
         /\ Cardinality(Positions(d, v)) <= Len(d)
<1>1. IsFiniteSet(1..Len(d)) /\ Cardinality(1..Len(d)) = Len(d)
  BY IntervalSize, Zenon
<1>2. Positions(d, v) \in SUBSET (1..Len(d))
  BY DEF Positions
<1> HIDE DEF Positions
<1> QED BY <1>1, <1>2, FS_Subset, FS_CardinalityType

\* MaxCount is a count, and no count is above it.
LEMMA MaxCountIs ==
  ASSUME NEW d, Len(d) \in Nat
  PROVE  /\ MaxCount(d) \in Nat
         /\ \A v \in Values(d) : Cardinality(Positions(d, v)) <= MaxCount(d)
         /\ \/ MaxCount(d) = 0
            \/ \E v \in Values(d) : MaxCount(d) = Cardinality(Positions(d, v))
<1> DEFINE c(v) == Cardinality(Positions(d, v))
           S == {0} \cup {c(v) : v \in Values(d)}
<1>1. \A v : c(v) \in Nat /\ c(v) <= Len(d)
  BY PositionsType
<1> HIDE DEF c
<1>2. S \in SUBSET Nat /\ 0 \in S /\ \A s \in S : s <= Len(d)
  BY <1>1
<1>3. \A v \in Values(d) : c(v) \in S
  OBVIOUS
<1>4. \A s \in S : s = 0 \/ \E v \in Values(d) : s = c(v)
  OBVIOUS
<1>5. MaxCount(d) = Largest(S)
  BY DEF MaxCount, c
<1> HIDE DEF S
<1>6. MaxCount(d) \in S /\ \A s \in S : s <= MaxCount(d)
  BY <1>2, <1>5, LargestIs
<1>7. MaxCount(d) \in Nat
  BY <1>2, <1>6
<1>8. \A v \in Values(d) : c(v) <= MaxCount(d)
  BY <1>3, <1>6
<1>9. MaxCount(d) = 0 \/ \E v \in Values(d) : MaxCount(d) = c(v)
  BY <1>4, <1>6
<1> QED BY <1>7, <1>8, <1>9 DEF c

\* A value is there more than once exactly when some byte is repeated.
LEMMA CommonIsRepeated ==
  ASSUME NEW d, Len(d) \in Nat
  PROVE  MaxCount(d) > 1 <=> Repeated(d) # {}
<1> DEFINE M == MaxCount(d)
<1>1. /\ M \in Nat
      /\ \A v \in Values(d) : Cardinality(Positions(d, v)) <= M
      /\ M = 0 \/ \E v \in Values(d) : M = Cardinality(Positions(d, v))
  BY MaxCountIs
<1> HIDE DEF M
<1>2. ASSUME M > 1 PROVE Repeated(d) # {}
  <2>1. PICK v \in Values(d) : M = Cardinality(Positions(d, v))
    BY <1>1, <1>2
  <2> DEFINE P == Positions(d, v)
  <2>2. IsFiniteSet(P)
    BY PositionsType
  <2>3. P # {}
    <3>1. \A S : IsFiniteSet(S) => (Cardinality(S) = 0 <=> S = {})
      BY FS_EmptySet, Zenon
    <3>2. Cardinality(P) # 0
      BY <1>1, <1>2, <2>1
    <3> QED BY <2>2, <3>1, <3>2, Zenon
  <2>4. PICK i : i \in P
    BY <2>3
  <2>5. P # {i}
    <3>1. Cardinality({i}) = 1
      BY FS_Singleton, Zenon
    <3>2. Cardinality(P) # 1
      BY <1>1, <1>2, <2>1
    <3> QED BY <3>1, <3>2, Zenon
  <2>6. PICK j : j \in P /\ j # i
    BY <2>4, <2>5
  <2>7. i \in 1..Len(d) /\ j \in 1..Len(d) /\ d[i] = v /\ d[j] = v
    BY <2>4, <2>6 DEF Positions
  <2>8. CASE i < j
    <3>1. i \in 1..(j - 1)
      BY <2>7, <2>8
    <3> QED BY <2>7, <3>1 DEF Repeated
  <2>9. CASE ~(i < j)
    <3>1. j \in 1..(i - 1)
      BY <2>6, <2>7, <2>9
    <3> QED BY <2>7, <3>1 DEF Repeated
  <2> QED BY <2>8, <2>9
<1>3. ASSUME Repeated(d) # {} PROVE M > 1
  <2>0. PICK i \in 1..Len(d) : \E j \in 1..(i - 1) : d[j] = d[i]
    BY <1>3 DEF Repeated
  <2>1. PICK j \in 1..(i - 1) : d[j] = d[i]
    BY <2>0
  <2> DEFINE P == Positions(d, d[i])
  <2>2. IsFiniteSet(P) /\ Cardinality(P) \in Nat
    BY PositionsType
  <2>3. i \in P /\ j \in P /\ i # j /\ d[i] \in Values(d)
    BY <2>1 DEF Positions, Values
  <2>4. Cardinality(P) <= M
    BY <1>1, <2>3
  <2> HIDE DEF P
  <2>5. P # {} /\ \A x : P # {x}
    BY <2>3
  <2>6. Cardinality(P) # 0
    <3>1. \A S : IsFiniteSet(S) => (Cardinality(S) = 0 <=> S = {})
      BY FS_EmptySet, Zenon
    <3> QED BY <2>2, <2>5, <3>1, Zenon
  <2>7. Cardinality(P) # 1
    <3>1. \A S : IsFiniteSet(S) => (Cardinality(S) = 1 <=> \E x : S = {x})
      BY FS_Singleton, Zenon
    <3> QED BY <2>2, <2>5, <3>1, Zenon
  <2> QED BY <1>1, <2>2, <2>4, <2>6, <2>7
<1> QED BY <1>2, <1>3 DEF M

-----------------------------------------------------------------------------
(* EstimateMinEntropyConservative *)

\* The conservative estimate is one of the two and above neither.
LEMMA ConservativeIsLeast ==
  ASSUME NEW d \in Seq(Octets), d # <<>>
  PROVE  /\ ~Less(EstimateMCV(d), EstimateMinEntropyConservative(d))
         /\ ~Less(EstimateCollision(d), EstimateMinEntropyConservative(d))
<1> DEFINE m == EstimateMCV(d)
           c == EstimateCollision(d)
           e == EstimateMinEntropyConservative(d)
           N == Len(d)
<1>0. N \in Nat
  OBVIOUS
<1>1. m[1] \in Nat /\ m[2] \in Nat
  <2>1. m = <<N, MaxCount(d)>>
    BY DEF EstimateMCV
  <2>2. MaxCount(d) \in Nat
    BY <1>0, MaxCountIs
  <2> HIDE DEF m
  <2> QED BY <1>0, <2>1, <2>2
<1>2. c[1] \in Nat /\ c[2] \in Nat
  <2> DEFINE t == Collision(d).t
  <2>1. t \in Nat
    <3>1. CollisionAt(d, Collision(d), N)
      BY CollisionFound
    <3>2. t = 0 \/ t \in 1..N
      BY <3>1, Zenon DEF CollisionAt
    <3> QED BY <1>0, <3>2
  <2>2. c = <<256, 1>> \/ c = <<t, 1>>
    BY Zenon DEF EstimateCollision
  <2> HIDE DEF c, t
  <2> QED BY <2>1, <2>2
<1>3. e = IF Less(m, c) THEN m ELSE c
  BY Zenon DEF EstimateMinEntropyConservative
<1> HIDE DEF m, c, e
<1> DEFINE p == m[1] * c[2]
           q == c[1] * m[2]
<1>4. /\ p \in Int /\ q \in Int /\ m[1] * m[2] \in Int /\ c[1] * c[2] \in Int
  <2>1. \A x, y \in Nat : x * y \in Int
    OBVIOUS
  <2> QED BY <1>1, <1>2, <2>1
<1>5. /\ Less(m, c) <=> p < q
      /\ Less(c, m) <=> q < p
      /\ Less(m, m) <=> m[1] * m[2] < m[1] * m[2]
      /\ Less(c, c) <=> c[1] * c[2] < c[1] * c[2]
  BY Zenon DEF Less
<1>6. \A x, y \in Int : (x < y => ~(y < x)) /\ ~(x < x)
  OBVIOUS
<1> HIDE DEF p, q
<1>7. ~Less(m, m) /\ ~Less(c, c) /\ (Less(m, c) => ~Less(c, m))
  BY <1>4, <1>5, <1>6, Zenon
<1>8. ~Less(m, e) /\ ~Less(c, e)
  BY <1>3, <1>7, Zenon
<1> QED BY <1>8 DEF m, c, e

-----------------------------------------------------------------------------
(* computeRCTStat *)

LEMMA LargestOfTwo ==
  ASSUME NEW a \in Nat, NEW b \in Nat
  PROVE  Largest({a, b}) = IF a < b THEN b ELSE a
<1> DEFINE S == {a, b}
<1>1. S \in SUBSET Nat /\ a \in S /\ b \in S /\ a + b \in Nat
      /\ \A s \in S : s <= a + b
  OBVIOUS
<1>2. \A s \in S : s = a \/ s = b
  OBVIOUS
<1> HIDE DEF S
<1>3. Largest(S) \in S /\ \A s \in S : s <= Largest(S)
  BY <1>1, LargestIs
<1> DEFINE L == Largest(S)
<1>4. (L = a \/ L = b) /\ a <= L /\ b <= L
  BY <1>1, <1>2, <1>3
<1> HIDE DEF L
<1>5. L = IF a < b THEN b ELSE a
  BY <1>4
<1> QED BY <1>5 DEF S, L

LEMMA RctStatLoop ==
  ASSUME NEW d \in Seq(Octets), NEW window, d # <<>>, window # 0,
         Len(Windowed(d, window)) \in Nat, Len(Windowed(d, window)) >= 1
  PROVE  LET w == Windowed(d, window)
             N == Len(w) IN
         \E f : /\ computeRCTStat(d, window) = f[N].max
                /\ f[1] = [max |-> 1, current |-> 1]
                /\ \A i \in 2..N :
                     LET x == f[i - 1] IN
                     IF w[i] # w[i - 1]
                     THEN f[i] = [max |-> x.max, current |-> 1]
                     ELSE f[i] = [max |-> IF x.max < x.current + 1
                                          THEN x.current + 1 ELSE x.max,
                                  current |-> x.current + 1]
<1> DEFINE w == Windowed(d, window)
           N == Len(w)
           D == [max : Nat, current : Nat]
           z == [max |-> 1, current |-> 1]
           code(i, x) == IF w[i] # w[i - 1] THEN [x EXCEPT !.current = 1]
                         ELSE [max |-> Largest({x.max, x.current + 1}),
                               current |-> x.current + 1]
           body(i, x) == IF w[i] # w[i - 1] THEN [max |-> x.max, current |-> 1]
                         ELSE [max |-> IF x.max < x.current + 1
                                       THEN x.current + 1 ELSE x.max,
                               current |-> x.current + 1]
           h == [i \in 2..N |-> [x \in D |-> code(i, x)]]
           Rec(g) == g = [i \in 1..N |-> IF i = 1 THEN z ELSE code(i, g[i - 1])]
<1>1. ASSUME NEW i \in 2..N, NEW x \in D
      PROVE  h[i][x] = code(i, x) /\ code(i, x) = body(i, x) /\ code(i, x) \in D
  <2>1. x.max \in Nat /\ x.current \in Nat /\ x.current + 1 \in Nat
    OBVIOUS
  <2>2. [x EXCEPT !.current = 1] = [max |-> x.max, current |-> 1]
    OBVIOUS
  <2> DEFINE a == x.max
             b == x.current + 1
             m == IF a < b THEN b ELSE a
  <2> HIDE DEF a, b
  <2>3. Largest({a, b}) = m /\ m \in Nat
    BY <2>1, LargestOfTwo DEF a, b
  <2>4. code(i, x) = body(i, x)
    BY <2>2, <2>3, Zenon DEF a, b
  <2>5. [max |-> x.max, current |-> 1] \in D /\ [max |-> m, current |-> x.current + 1] \in D
    <3> HIDE DEF m
    <3> QED BY <2>1, <2>3
  <2>6. body(i, x) \in D
    BY <2>5, Zenon DEF a, b
  <2> HIDE DEF D, body
  <2>7. h[i][x] = code(i, x)
    BY Zenon
  <2> HIDE DEF h, code
  <2> QED BY <2>4, <2>6, <2>7
<1>z. z \in D
  OBVIOUS
<1>0. N \in Nat /\ N >= 1
  OBVIOUS
<1> HIDE DEF w, N, z
<1>2. \E g : Rec(g)
  <2>1. 1 \in Int /\ N \in Int /\ 1 <= N /\ (1 + 1)..N = 2..N
    BY <1>0
  <2> HIDE DEF h, body, code
  <2>2. StaysIn(D, h, 1, N)
    BY <1>1, <2>1 DEF StaysIn
  <2> HIDE DEF D
  <2>3. PICK f : Loop(f, D, z, h, 1, N)
    BY <1>z, <2>1, <2>2, LoopExists
  <2>l. /\ f \in [1..N -> D] /\ f[1] = z
        /\ \A i \in 2..N : f[i] = h[i][f[i - 1]]
    BY <2>1, <2>3 DEF Loop
  <2>4. ASSUME NEW i \in 1..N
        PROVE  f[i] = IF i = 1 THEN z ELSE code(i, f[i - 1])
    <3>1. CASE i = 1
      BY <2>l, <3>1
    <3>2. CASE i # 1
      <4>1. i \in 2..N /\ i - 1 \in 1..N
        BY <1>0, <3>2
      <4>2. f[i] = h[i][f[i - 1]] /\ f[i - 1] \in D
        BY <2>l, <4>1
      <4>3. f[i] = code(i, f[i - 1])
        BY <1>1, <4>1, <4>2
      <4> QED BY <3>2, <4>3
    <3> QED BY <3>1, <3>2
  <2>5. f = [i \in 1..N |-> f[i]]
    <3>1. f \in [1..N -> D]
      BY <2>l
    <3> QED BY <3>1, Zenon
  <2> DEFINE g == [i \in 1..N |-> IF i = 1 THEN z ELSE code(i, f[i - 1])]
  <2>6. f = g
    BY <2>4, <2>5
  <2>7. Rec(f)
    BY <2>6, Zenon
  <2> QED BY <2>7, Zenon
<1> DEFINE f == CHOOSE g : Rec(g)
<1>3. Rec(f)
  BY <1>2
<1>4. computeRCTStat(d, window) = f[N].max
  BY DEF computeRCTStat, w, N, z
<1> HIDE DEF f
<1>5. f[1] = z /\ \A i \in 2..N : f[i] = code(i, f[i - 1])
  <2> HIDE DEF code
  <2> QED BY <1>0, <1>3
<1>6. \A i \in 1..N : f[i] \in D
  <2> DEFINE n == N - 1
             T == {k \in 0..n : f[k + 1] \in D}
  <2>0. n \in Nat
    BY <1>0
  <2>1. 0 \in T
    BY <1>0, <1>5, <1>z
  <2>2. \A k \in 0..n : k < n /\ k \in T => k + 1 \in T
    <3> SUFFICES ASSUME NEW k \in 0..n, k < n, k \in T PROVE k + 1 \in T
      OBVIOUS
    <3> DEFINE i == k + 2
    <3>1. i \in 2..N /\ i - 1 = k + 1 /\ i = (k + 1) + 1 /\ k + 1 \in 0..n
      BY <1>0
    <3>2. f[k + 1] \in D
      OBVIOUS
    <3> HIDE DEF code, D, i
    <3>3. f[i] = code(i, f[k + 1])
      BY <1>5, <3>1
    <3>4. code(i, f[k + 1]) \in D
      BY <1>1, <3>1, <3>2
    <3> QED BY <3>1, <3>3, <3>4
  <2>3. \A k \in 0..n : k \in T
    <3> HIDE DEF T, n
    <3> QED BY <2>0, <2>1, <2>2, IntervalInduction
  <2> SUFFICES ASSUME NEW i \in 1..N PROVE f[i] \in D
    OBVIOUS
  <2>4. i - 1 \in 0..n /\ (i - 1) + 1 = i
    BY <1>0
  <2> HIDE DEF D
  <2> QED BY <2>3, <2>4
<1>7. ASSUME NEW i \in 2..N PROVE f[i] = body(i, f[i - 1])
  <2>1. i - 1 \in 1..N
    BY <1>0
  <2> HIDE DEF code, body, D
  <2>2. f[i - 1] \in D
    BY <1>6, <2>1
  <2> QED BY <1>1, <1>5, <2>2
<1> QED BY <1>4, <1>5, <1>7 DEF w, N, z

\* After i bytes of w: the run that ends there is current long and cannot be
\* prolonged to the left; max is the length of the longest run so far.
RctAt(w, max, current, i) ==
  /\ max \in Nat /\ current \in Nat
  /\ 1 <= current /\ current <= max /\ max <= i
  /\ \A k \in (i - current + 1)..i : w[k] = w[i]
  /\ current = i \/ w[i - current] # w[i]
  /\ \E a \in 1..(i - max + 1) : IsRun(w, a, max)
  /\ \A a \in 1..(i - max) : ~IsRun(w, a, max + 1)

LEMMA RctDifferent ==
  ASSUME NEW w, NEW i \in Nat, NEW max, NEW current,
         RctAt(w, max, current, i), w[i + 1] # w[i]
  PROVE  RctAt(w, max, 1, i + 1)
<1>1. /\ max \in Nat /\ 1 <= max /\ max <= i
      /\ \A a \in 1..(i - max) : ~IsRun(w, a, max + 1)
  BY DEF RctAt
<1>2. PICK a \in 1..(i - max + 1) : IsRun(w, a, max)
  BY DEF RctAt
<1>3. a \in 1..((i + 1) - max + 1)
  BY <1>1
<1>4. ASSUME NEW b \in 1..((i + 1) - max), IsRun(w, b, max + 1) PROVE FALSE
  <2>1. CASE b \in 1..(i - max)
    BY <1>1, <1>4, <2>1
  <2>2. CASE b \notin 1..(i - max)
    <3>1. b = (i + 1) - max
      BY <1>1, <2>2
    <3>2. i \in b..(b + (max + 1) - 1) /\ i + 1 \in b..(b + (max + 1) - 1)
      BY <1>1, <3>1
    <3>3. w[i] = w[b] /\ w[i + 1] = w[b]
      BY <1>4, <3>2, Zenon DEF IsRun
    <3> QED BY <3>3
  <2> QED BY <2>1, <2>2
<1>5. \A k \in ((i + 1) - 1 + 1)..(i + 1) : w[k] = w[i + 1]
  OBVIOUS
<1>6. w[(i + 1) - 1] # w[i + 1]
  OBVIOUS
<1>7. 1 \in Nat /\ 1 <= 1 /\ max <= i + 1
  BY <1>1
<1> HIDE DEF IsRun
<1> QED BY <1>1, <1>2, <1>3, <1>4, <1>5, <1>6, <1>7, Zenon DEF RctAt

LEMMA RctEqual ==
  ASSUME NEW w, NEW i \in Nat, NEW max, NEW current,
         RctAt(w, max, current, i), w[i + 1] = w[i]
  PROVE  RctAt(w, IF max < current + 1 THEN current + 1 ELSE max,
               current + 1, i + 1)
<1> DEFINE c == current + 1
           j == i + 1
<1>1. /\ max \in Nat /\ current \in Nat /\ 1 <= current /\ current <= max /\ max <= i
      /\ c \in Nat /\ j \in Nat
  BY DEF RctAt
<1>2. /\ \A k \in (i - current + 1)..i : w[k] = w[i]
      /\ current = i \/ w[i - current] # w[i]
      /\ \A a \in 1..(i - max) : ~IsRun(w, a, max + 1)
  BY DEF RctAt
<1>3. \A k \in (j - c + 1)..j : w[k] = w[j]
  <2> SUFFICES ASSUME NEW k \in (j - c + 1)..j PROVE w[k] = w[j]
    OBVIOUS
  <2>1. CASE k = j
    BY <2>1
  <2>2. CASE k # j
    <3>1. k \in (i - current + 1)..i
      BY <1>1, <2>2
    <3> QED BY <1>2, <3>1
  <2> QED BY <2>1, <2>2
<1>4. c = j \/ w[j - c] # w[j]
  <2>1. j - c = i - current
    BY <1>1
  <2> QED BY <1>1, <1>2, <2>1
<1>5. CASE max < c
  <2>1. max = current /\ c <= j /\ c <= c /\ 1 <= c /\ c = max + 1
    BY <1>1, <1>5
  <2> DEFINE a == j - c + 1
  <2>2. a \in 1..(j - c + 1) /\ a..(a + c - 1) = a..j /\ a \in a..j
    BY <1>1, <2>1
  <2>3. IsRun(w, a, c)
    BY <1>3, <2>2 DEF IsRun
  <2>4. ASSUME NEW b \in 1..(j - c), IsRun(w, b, c + 1) PROVE FALSE
    <3>1. b \in 1..(i - max)
      BY <1>1, <2>1
    <3>2. IsRun(w, b, max + 1)
      <4>1. \A k \in b..(b + (max + 1) - 1) : k \in b..(b + (c + 1) - 1)
        BY <1>1, <2>1
      <4> QED BY <2>4, <4>1, Zenon DEF IsRun
    <3> QED BY <1>2, <3>1, <3>2
  <2> HIDE DEF c, j, a, IsRun
  <2>5. RctAt(w, c, c, j)
    BY <1>1, <1>3, <1>4, <2>1, <2>2, <2>3, <2>4, Zenon DEF RctAt
  <2> QED BY <1>5, <2>5, Zenon DEF c, j
<1>6. CASE ~(max < c)
  <2>1. c <= max /\ max <= j /\ 1 <= c
    BY <1>1, <1>6
  <2>2. PICK a \in 1..(i - max + 1) : IsRun(w, a, max)
    BY DEF RctAt
  <2>3. a \in 1..(j - max + 1)
    BY <1>1
  <2>4. ASSUME NEW b \in 1..(j - max), IsRun(w, b, max + 1) PROVE FALSE
    <3>1. CASE b \in 1..(i - max)
      BY <1>2, <2>4, <3>1
    <3>2. CASE b \notin 1..(i - max)
      <4>1. b = j - max
        BY <1>1, <3>2
      <4>2. /\ i - current \in b..(b + (max + 1) - 1)
            /\ i \in b..(b + (max + 1) - 1) /\ current # i
        BY <1>1, <2>1, <4>1
      <4>3. w[i - current] = w[b] /\ w[i] = w[b]
        BY <2>4, <4>2, Zenon DEF IsRun
      <4> QED BY <1>2, <4>2, <4>3
    <3> QED BY <3>1, <3>2
  <2> HIDE DEF c, j, IsRun
  <2>5. RctAt(w, max, c, j)
    BY <1>1, <1>3, <1>4, <2>1, <2>2, <2>3, <2>4, Zenon DEF RctAt
  <2> QED BY <1>6, <2>5, Zenon DEF c, j
<1> QED BY <1>5, <1>6

\* The statistic is the length of the longest run of the window.
LEMMA RctStatIs ==
  ASSUME NEW d \in Seq(Octets), NEW window \in Nat, Windowed(d, window) # <<>>
  PROVE  LET w == Windowed(d, window)
             r == computeRCTStat(d, window) IN
         HasRun(w, r) /\ ~HasRun(w, r + 1)
<1> DEFINE w == Windowed(d, window)
           m == IF window < Len(d) THEN window ELSE Len(d)
           N == Len(w)
           r == computeRCTStat(d, window)
<1>0. m \in 0..Len(d) /\ Len(d) \in Nat /\ w = SubSeq(d, 1, m)
  BY DEF Windowed
<1> HIDE DEF m
<1>1. w \in Seq(Octets) /\ N = m
  <2>1. 1 \in Nat /\ 1..m \subseteq 1..Len(d)
    BY <1>0
  <2> HIDE DEF w
  <2> QED BY <1>0, <2>1
<1>2. N \in Nat /\ N >= 1
  <2> HIDE DEF w
  <2>1. w # <<>>
    BY DEF w
  <2> QED BY <1>1, <2>1
<1>3. d # <<>> /\ window # 0
  BY <1>0, <1>1, <1>2 DEF m
<1> HIDE DEF w, N, r
<1>4. PICK f : /\ r = f[N].max
               /\ f[1] = [max |-> 1, current |-> 1]
               /\ \A i \in 2..N :
                     LET x == f[i - 1] IN
                     IF w[i] # w[i - 1]
                     THEN f[i] = [max |-> x.max, current |-> 1]
                     ELSE f[i] = [max |-> IF x.max < x.current + 1
                                          THEN x.current + 1 ELSE x.max,
                                  current |-> x.current + 1]
  BY <1>2, <1>3, RctStatLoop DEF w, N, r
<1> DEFINE Q(i) == RctAt(w, f[i].max, f[i].current, i)
           n == N - 1
           T == {k \in 0..n : Q(k + 1)}
<1>5. n \in Nat /\ n + 1 = N
  BY <1>2
<1>6. 0 \in T
  <2>1. f[1].max = 1 /\ f[1].current = 1
    BY <1>4
  <2>2. RctAt(w, 1, 1, 1)
    BY DEF RctAt, IsRun
  <2>3. 0 + 1 = 1 /\ 0 \in 0..n
    BY <1>5
  <2> QED BY <2>1, <2>2, <2>3
<1>7. \A k \in 0..n : k < n /\ k \in T => k + 1 \in T
  <2> SUFFICES ASSUME NEW k \in 0..n, k < n, k \in T PROVE k + 1 \in T
    OBVIOUS
  <2> DEFINE i == k + 1
  <2>1. i \in Nat /\ i + 1 \in 2..N /\ (i + 1) - 1 = i /\ k + 1 \in 0..n
    BY <1>2
  <2>2. Q(i)
    OBVIOUS
  <2> HIDE DEF i
  <2>3. IF w[i + 1] # w[i]
        THEN f[i + 1] = [max |-> f[i].max, current |-> 1]
        ELSE f[i + 1] = [max |-> IF f[i].max < f[i].current + 1
                                 THEN f[i].current + 1 ELSE f[i].max,
                         current |-> f[i].current + 1]
    BY <1>4, <2>1, Zenon
  <2>4. CASE w[i + 1] # w[i]
    <3>1. f[i + 1].max = f[i].max /\ f[i + 1].current = 1
      BY <2>3, <2>4
    <3>2. RctAt(w, f[i].max, 1, i + 1)
      BY <2>1, <2>2, <2>4, RctDifferent
    <3>3. Q(i + 1)
      BY <3>1, <3>2, Zenon
    <3> HIDE DEF Q
    <3> QED BY <2>1, <3>3 DEF i
  <2>5. CASE w[i + 1] = w[i]
    <3> DEFINE M == IF f[i].max < f[i].current + 1 THEN f[i].current + 1 ELSE f[i].max
    <3>1. f[i + 1].max = M /\ f[i + 1].current = f[i].current + 1
      <4>1. f[i + 1] = [max |-> M, current |-> f[i].current + 1]
        BY <2>3, <2>5, Zenon
      <4> HIDE DEF M
      <4> QED BY <4>1
    <3>2. RctAt(w, M, f[i].current + 1, i + 1)
      BY <2>1, <2>2, <2>5, RctEqual
    <3> HIDE DEF M
    <3>3. Q(i + 1)
      BY <3>1, <3>2, Zenon
    <3> HIDE DEF Q
    <3> QED BY <2>1, <3>3 DEF i
  <2> QED BY <2>4, <2>5
<1>8. n \in T
  <2> HIDE DEF T, n
  <2>1. \A k \in 0..n : k \in T
    BY <1>5, <1>6, <1>7, IntervalInduction
  <2> QED BY <1>5, <2>1
<1>9. RctAt(w, r, f[N].current, N)
  <2>1. Q(n + 1)
    <3> HIDE DEF Q, n
    <3> QED BY <1>8
  <2> HIDE DEF n
  <2> QED BY <1>4, <1>5, <2>1, Zenon
<1>10. r \in Nat /\ N - (r + 1) + 1 = N - r
  BY <1>2, <1>9 DEF RctAt
<1>11. HasRun(w, r) /\ ~HasRun(w, r + 1)
  BY <1>9, <1>10, Zenon DEF RctAt, HasRun, N
<1> QED BY <1>11 DEF w, r

-----------------------------------------------------------------------------
(* The calls of the statistics *)

LEMMA AnalysedType ==
  ASSUME NEW d \in Analysed
  PROVE  d \in Seq(Octets)
<1>1. AnalysedBytes \cup EdgeBytes \subseteq 0..255 /\ MaxAnalysed \in Nat
      /\ EdgeLength \in Nat
  BY MonitorAssumption, Zenon
<1>2. AnalysedBytes \subseteq Octets /\ EdgeBytes \subseteq Octets
  BY <1>1, Zenon DEF Octets
<1>3. \E n \in Nat : d \in [1..n -> Octets]
  <2>1. CASE d \in [1..EdgeLength -> EdgeBytes]
    BY <1>1, <1>2, <2>1, Zenon
  <2>2. CASE \E n \in 0..MaxAnalysed : d \in [1..n -> AnalysedBytes]
    <3>1. PICK n \in 0..MaxAnalysed : d \in [1..n -> AnalysedBytes]
      BY <2>2
    <3>2. n \in Nat
      BY <1>1
    <3> QED BY <1>2, <3>1, <3>2
  <2>3. \/ d \in UNION {[1..n -> AnalysedBytes] : n \in 0..MaxAnalysed}
        \/ d \in [1..EdgeLength -> EdgeBytes]
    BY Zenon DEF Analysed
  <2>4. d \in UNION {[1..n -> AnalysedBytes] : n \in 0..MaxAnalysed}
          => \E n \in 0..MaxAnalysed : d \in [1..n -> AnalysedBytes]
    BY Zenon
  <2> QED BY <2>1, <2>2, <2>3, <2>4, Zenon
<1> HIDE DEF Octets
<1> QED BY <1>3

\* What the property says of one call of the statistics.
LEMMA AnalysedCorrectly ==
  ASSUME NEW d \in Analysed, NEW window \in Windows, d # <<>>,
         NEW mcv \in EstimateMCVWithStats(d)
  PROVE  LET n == 8 * Len(d)
             frequency == FrequencyTest(d)
             runs == RunsTest(d)
             collision == EstimateCollisionWithStats(d)
             conservative == EstimateMinEntropyConservative(d)
             rctStat == ComputeTestSummary(d, window, window).rct
             w == Windowed(d, window) IN
         /\ frequency.ratio = <<Cardinality(OnesAt(d)), n>>
         /\ frequency.passed = FrequencyTest(Complement(d)).passed
         /\ runs.count = 1 + Cardinality(ChangesAt(d, n))
         /\ runs = RunsTest(Complement(d))
         /\ IF Repeated(d) = {} THEN collision.time = 0
            ELSE /\ collision.time \in Repeated(d)
                 /\ \A i \in Repeated(d) : collision.time <= i
                 /\ collision.unique = collision.time - 1
         /\ \A v \in Values(d) : Cardinality(Positions(d, v))
                                    <= Cardinality(Positions(d, mcv.value))
         /\ mcv.count > 1 <=> collision.time > 0
         /\ ~Less(mcv.h, conservative)
         /\ ~Less(collision.h, conservative)
         /\ w # <<>> => HasRun(w, rctStat) /\ ~HasRun(w, rctStat + 1)
<1> DEFINE n == 8 * Len(d)
           collision == EstimateCollisionWithStats(d)
           c == Collision(d)
           conservative == EstimateMinEntropyConservative(d)
           rctStat == ComputeTestSummary(d, window, window).rct
           w == Windowed(d, window)
<1>0. d \in Seq(Octets) /\ Len(d) \in Nat /\ window \in Nat
  <2>1. Windows \subseteq Nat
    BY MonitorAssumption, Zenon
  <2>2. d \in Seq(Octets)
    BY AnalysedType
  <2> QED BY <2>1, <2>2
<1>1. /\ FrequencyTest(d).ratio = <<Cardinality(OnesAt(d)), n>>
      /\ FrequencyTest(d).passed = FrequencyTest(Complement(d)).passed
  BY <1>0, FrequencyJudged
<1>2. /\ RunsTest(d).count = 1 + Cardinality(ChangesAt(d, n))
      /\ RunsTest(d) = RunsTest(Complement(d))
  BY <1>0, RunsJudged
<1>3. /\ collision.time = c.t /\ collision.unique = Cardinality(c.seen)
      /\ collision.h = EstimateCollision(d)
  BY DEF EstimateCollisionWithStats
<1>4. /\ mcv.h = EstimateMCV(d) /\ mcv.count = MaxCount(d)
      /\ Cardinality(Positions(d, mcv.value)) = MaxCount(d)
  <2>1. PICK v \in {x \in Values(d) : Cardinality(Positions(d, x)) = MaxCount(d)} :
          mcv = [h |-> EstimateMCV(d), value |-> v, count |-> MaxCount(d),
                 unique |-> Cardinality(Values(d))]
    BY Zenon DEF EstimateMCVWithStats
  <2>2. mcv.h = EstimateMCV(d) /\ mcv.count = MaxCount(d) /\ mcv.value = v
    BY <2>1
  <2>3. Cardinality(Positions(d, v)) = MaxCount(d)
    BY <2>1, Zenon
  <2> QED BY <2>2, <2>3
<1> HIDE DEF collision, c, n
<1>5. /\ c.t = 0 => Repeated(d) = {}
      /\ c.t # 0 => /\ c.t \in Nat /\ c.t > 0 /\ c.t \in Repeated(d)
                    /\ \A i \in Repeated(d) : c.t <= i
                    /\ Cardinality(c.seen) = c.t - 1
  <2>1. CollisionAt(d, c, Len(d))
    BY <1>0, CollisionFound DEF c
  <2>2. \A k \in Repeated(d) : k \in 1..Len(d)
    BY DEF Repeated
  <2>3. 0 \notin 1..Len(d) /\ \A t \in 1..Len(d) : t \in Nat /\ t > 0
    BY <1>0
  <2>4. ASSUME c.t = 0 PROVE Repeated(d) = {}
    <3>1. \A k \in 1..Len(d) : k \notin Repeated(d)
      BY <2>1, <2>3, <2>4, Zenon DEF CollisionAt
    <3> QED BY <2>2, <3>1, Zenon
  <2>5. ASSUME c.t # 0
        PROVE  /\ c.t \in Nat /\ c.t > 0 /\ c.t \in Repeated(d)
               /\ \A i \in Repeated(d) : c.t <= i
               /\ Cardinality(c.seen) = c.t - 1
    BY <2>1, <2>3, <2>5, Zenon DEF CollisionAt
  <2> QED BY <2>4, <2>5, Zenon
<1>6. IF Repeated(d) = {} THEN collision.time = 0
      ELSE /\ collision.time \in Repeated(d)
           /\ \A i \in Repeated(d) : collision.time <= i
           /\ collision.unique = collision.time - 1
  BY <1>3, <1>5, Zenon
<1>7. \A v \in Values(d) : Cardinality(Positions(d, v))
                              <= Cardinality(Positions(d, mcv.value))
  BY <1>0, <1>4, MaxCountIs
<1>8. mcv.count > 1 <=> collision.time > 0
  <2>1. mcv.count > 1 <=> Repeated(d) # {}
    BY <1>0, <1>4, CommonIsRepeated
  <2>2. collision.time > 0 <=> Repeated(d) # {}
    <3>1. CASE c.t = 0
      <4>1. ~(c.t > 0)
        BY <3>1
      <4> QED BY <1>3, <1>5, <3>1, <4>1, Zenon
    <3>2. CASE c.t # 0
      BY <1>3, <1>5, <3>2, Zenon
    <3> QED BY <3>1, <3>2
  <2> QED BY <2>1, <2>2, Zenon
<1>9. ~Less(mcv.h, conservative) /\ ~Less(collision.h, conservative)
  BY <1>0, <1>3, <1>4, ConservativeIsLeast
<1>10. w # <<>> => HasRun(w, rctStat) /\ ~HasRun(w, rctStat + 1)
  <2>1. rctStat = computeRCTStat(d, window)
    BY DEF ComputeTestSummary
  <2> HIDE DEF rctStat
  <2> QED BY <1>0, <2>1, RctStatIs
<1> HIDE DEF conservative, rctStat, w
<1>11. collision = EstimateCollisionWithStats(d) /\ n = 8 * Len(d)
  BY DEF collision, n
<1> QED BY <1>1, <1>2, <1>6, <1>7, <1>8, <1>9, <1>10, Zenon
        DEF conservative, rctStat, w, collision, n

\* Everything is said of the block recorded, which is the one analysed.
LEMMA AnalyseKeeps ==
  ASSUME NEW block \in Analysed, NEW size \in Windows, Analyse(block, size)
  PROVE  StatisticsMatchDefinition'
<1> DEFINE d == call'.data
           window == call'.window
           n == 8 * Len(d)
           bits == [k \in 1..n |-> BitAt(d, k)]
           flipped == [i \in 1..Len(d) |-> 255 - d[i]]
           repeated == {i \in 1..Len(d) : \E j \in 1..(i - 1) : d[j] = d[i]}
           w == Windowed(d, window)
<1>1. /\ d \in Analysed /\ window \in Windows
      /\ call'.frequency = FrequencyTest(d) /\ call'.runs = RunsTest(d)
      /\ call'.mcv \in EstimateMCVWithStats(d)
      /\ call'.collision = EstimateCollisionWithStats(d)
      /\ call'.conservative = EstimateMinEntropyConservative(d)
      /\ call'.summary = ComputeTestSummary(d, window, window)
  <2>1. PICK mcv \in EstimateMCVWithStats(block) :
          call' = [op |-> "analyse", data |-> block, window |-> size,
                   frequency |-> FrequencyTest(block), runs |-> RunsTest(block),
                   mcv |-> mcv, collision |-> EstimateCollisionWithStats(block),
                   conservative |-> EstimateMinEntropyConservative(block),
                   summary |-> ComputeTestSummary(block, size, size)]
    BY Zenon DEF Analyse
  <2>2. /\ call'.data = block /\ call'.window = size
        /\ call'.frequency = FrequencyTest(block) /\ call'.runs = RunsTest(block)
        /\ call'.mcv = mcv /\ call'.collision = EstimateCollisionWithStats(block)
        /\ call'.conservative = EstimateMinEntropyConservative(block)
        /\ call'.summary = ComputeTestSummary(block, size, size)
    BY <2>1
  <2> QED BY <2>2, Zenon
<1> SUFFICES ASSUME d # <<>>
             PROVE  /\ call'.frequency.ratio
                         = <<Cardinality({k \in 1..n : bits[k] = 1}), n>>
                    /\ call'.frequency.passed = FrequencyTest(flipped).passed
                    /\ call'.runs.count
                         = 1 + Cardinality({k \in 2..n : bits[k] # bits[k - 1]})
                    /\ call'.runs = RunsTest(flipped)
                    /\ IF repeated = {} THEN call'.collision.time = 0
                       ELSE /\ call'.collision.time \in repeated
                            /\ \A i \in repeated : call'.collision.time <= i
                            /\ call'.collision.unique = call'.collision.time - 1
                    /\ \A v \in Values(d) :
                         Cardinality(Positions(d, v))
                           <= Cardinality(Positions(d, call'.mcv.value))
                    /\ call'.mcv.count > 1 <=> call'.collision.time > 0
                    /\ ~Less(call'.mcv.h, call'.conservative)
                    /\ ~Less(call'.collision.h, call'.conservative)
                    /\ w # <<>> => /\ HasRun(w, call'.summary.rct)
                                   /\ ~HasRun(w, call'.summary.rct + 1)
  BY Zenon DEF StatisticsMatchDefinition
<1> DEFINE collision == EstimateCollisionWithStats(d)
           conservative == EstimateMinEntropyConservative(d)
           summary == ComputeTestSummary(d, window, window)
           mcv == call'.mcv
<1> HIDE DEF d, window
<1>2. /\ FrequencyTest(d).ratio = <<Cardinality(OnesAt(d)), n>>
      /\ FrequencyTest(d).passed = FrequencyTest(Complement(d)).passed
      /\ RunsTest(d).count = 1 + Cardinality(ChangesAt(d, n))
      /\ RunsTest(d) = RunsTest(Complement(d))
      /\ IF Repeated(d) = {} THEN collision.time = 0
         ELSE /\ collision.time \in Repeated(d)
              /\ \A i \in Repeated(d) : collision.time <= i
              /\ collision.unique = collision.time - 1
      /\ \A v \in Values(d) : Cardinality(Positions(d, v))
                                 <= Cardinality(Positions(d, mcv.value))
      /\ mcv.count > 1 <=> collision.time > 0
      /\ ~Less(mcv.h, conservative)
      /\ ~Less(collision.h, conservative)
      /\ w # <<>> => HasRun(w, summary.rct) /\ ~HasRun(w, summary.rct + 1)
  BY <1>1, AnalysedCorrectly
<1>3. /\ OnesAt(d) = {k \in 1..n : bits[k] = 1}
      /\ ChangesAt(d, n) = {k \in 2..n : bits[k] # bits[k - 1]}
  <2>1. Len(d) \in Nat /\ n \in Nat
    <3>1. d \in Seq(Octets)
      BY <1>1, AnalysedType
    <3> QED BY <3>1
  <2>2. OnesAt(d) = {k \in 1..n : bits[k] = 1}
    BY DEF OnesAt
  <2>3. \A k \in 2..n : bits[k] = BitAt(d, k) /\ bits[k - 1] = BitAt(d, k - 1)
    <3> SUFFICES ASSUME NEW k \in 2..n
                 PROVE  bits[k] = BitAt(d, k) /\ bits[k - 1] = BitAt(d, k - 1)
      OBVIOUS
    <3>1. k \in 1..n /\ k - 1 \in 1..n
      BY <2>1
    <3> HIDE DEF n
    <3> QED BY <3>1
  <2> HIDE DEF n, bits
  <2>4. ChangesAt(d, n) = {k \in 2..n : bits[k] # bits[k - 1]}
    BY <2>3 DEF ChangesAt
  <2> QED BY <2>2, <2>4
<1>4. Complement(d) = flipped /\ Repeated(d) = repeated
  BY Zenon DEF Complement, Repeated
<1> DEFINE ones == {k \in 1..n : bits[k] = 1}
           changes == {k \in 2..n : bits[k] # bits[k - 1]}
<1>5. OnesAt(d) = ones /\ ChangesAt(d, n) = changes
  BY <1>3, Zenon
<1> HIDE DEF collision, conservative, summary, mcv, flipped, repeated, w, n
<1>6. /\ call'.collision = collision /\ call'.conservative = conservative
      /\ call'.summary = summary /\ call'.mcv = mcv
  BY <1>1, Zenon DEF collision, conservative, summary, mcv
<1> HIDE DEF ones, changes
<1>7. /\ call'.frequency.ratio = <<Cardinality(ones), n>>
      /\ call'.frequency.passed = FrequencyTest(flipped).passed
      /\ call'.runs.count = 1 + Cardinality(changes)
      /\ call'.runs = RunsTest(flipped)
  BY <1>1, <1>2, <1>4, <1>5, Zenon
<1>8. IF repeated = {} THEN call'.collision.time = 0
      ELSE /\ call'.collision.time \in repeated
           /\ \A i \in repeated : call'.collision.time <= i
           /\ call'.collision.unique = call'.collision.time - 1
  BY <1>2, <1>4, <1>6, Zenon
<1>9. /\ \A v \in Values(d) : Cardinality(Positions(d, v))
                                 <= Cardinality(Positions(d, call'.mcv.value))
      /\ call'.mcv.count > 1 <=> call'.collision.time > 0
      /\ ~Less(call'.mcv.h, call'.conservative)
      /\ ~Less(call'.collision.h, call'.conservative)
      /\ w # <<>> => /\ HasRun(w, call'.summary.rct)
                     /\ ~HasRun(w, call'.summary.rct + 1)
  BY <1>2, <1>6, Zenon
<1> QED BY <1>7, <1>8, <1>9, Zenon DEF ones, changes

LEMMA StatisticsStep ==
  ASSUME StatisticsMatchDefinition, [Next]_vars
  PROVE  StatisticsMatchDefinition'
<1>1. CASE \E block \in Analysed, window \in Windows : Analyse(block, window)
  BY <1>1, AnalyseKeeps
<1>2. CASE call'.op # "analyse"
  BY <1>2, Zenon DEF StatisticsMatchDefinition
<1>3. CASE call' = call
  BY <1>3, ZenonT(60) DEF StatisticsMatchDefinition
<1>4. CASE \E block \in Blocks : TestRct(block) \/ TestApt(block)
  <2>1. call' = NoCall
    BY <1>4 DEF TestRct, TestApt
  <2> QED BY <1>2, <2>1 DEF NoCall
<1>5. CASE ResetRct \/ ResetApt
  <2>1. call' = NoCall
    BY <1>5 DEF ResetRct, ResetApt
  <2> QED BY <1>2, <2>1 DEF NoCall
<1>6. CASE \E events \in Batches : Condition(events)
  <2>1. call'.op = "condition"
    BY <1>6 DEF Condition
  <2> QED BY <1>2, <2>1
<1>7. CASE UNCHANGED vars
  BY <1>3, <1>7 DEF vars
<1> QED BY <1>1, <1>4, <1>5, <1>6, <1>7 DEF Next

\* For every block of bytes and every window: the statistics are what the
\* bits and bytes of the block say, the complement of a block is judged like
\* the block, and the conservative estimate is above neither of the two.
THEOREM StatisticsCorrect == Spec => []StatisticsMatchDefinition
<1>1. Init => StatisticsMatchDefinition
  BY DEF Init, NoCall, StatisticsMatchDefinition
<1> QED BY <1>1, StatisticsStep, PTL DEF Spec
=============================================================================
