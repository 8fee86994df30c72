------------------------ MODULE HealthTests_proofs ------------------------
(***************************************************************************)
(* What the two health tests compute, for every stream of samples, cutoff  *)
(* and window: the state a test has reached after a stream, and TestBlock  *)
(* as a run of single tests.                                               *)
(*                                                                         *)
(* A stream is given as a sequence u of which the test has seen the first  *)
(* n samples, so that feeding it the next one changes n and not u.         *)
(***************************************************************************)
EXTENDS HealthTests, FiniteSets, FiniteSetTheorems, SequenceTheorems,
        WellFoundedInduction, TLAPS

-----------------------------------------------------------------------------
(* Induction over a set of numbers: the induction theorems of the library   *)
(* take an operator, the existence of a minimum does not.                   *)

LEMMA LeastElement ==
  ASSUME NEW T, T \subseteq Nat, T # {}
  PROVE  \E m \in T : \A k \in T : m <= k
<1> DEFINE R == OpToRel(<, Nat)
<1>1. IsWellFoundedOn(R, Nat)
  BY NatLessThanWellFounded
<1>2. \A x, y \in Nat : x < y => <<x, y>> \in R
  BY DEF OpToRel
<1> HIDE DEF R
<1>3. PICK x \in T : \A y \in T : ~(<<y, x>> \in R)
  BY <1>1, WFMin
<1>4. ASSUME NEW k \in T PROVE x <= k
  <2>1. x \in Nat /\ k \in Nat
    OBVIOUS
  <2>2. ~(k < x)
    BY <1>2, <1>3, <2>1
  <2> QED BY <2>1, <2>2
<1> QED BY <1>4

LEMMA IntervalInduction ==
  ASSUME NEW n \in Nat, NEW T, 0 \in T,
         \A i \in 0..n : i < n /\ i \in T => i + 1 \in T
  PROVE  \A i \in 0..n : i \in T
<1> DEFINE C == {i \in 0..n : i \notin T}
<1> SUFFICES ASSUME C # {} PROVE FALSE
  OBVIOUS
<1>0. C \subseteq Nat
  OBVIOUS
<1>1. PICK m \in C : \A k \in C : m <= k
  <2> HIDE DEF C
  <2> QED BY <1>0, LeastElement
<1>2. m \in 0..n /\ m # 0 /\ m - 1 \in 0..n /\ m - 1 < n /\ m - 1 \notin C
  BY <1>1
<1>3. m - 1 + 1 \in T
  BY <1>2
<1> QED BY <1>2, <1>3

-----------------------------------------------------------------------------
(* TestBlock as a run: f[i] is the result after i samples                   *)

RctRun(f, t, s) ==
  /\ f[0] = [st |-> t, ok |-> TRUE]
  /\ \A i \in 1..Len(s) :
       f[i] = IF ~f[i - 1].ok THEN f[i - 1] ELSE RctTest(f[i - 1].st, s[i])

LEMMA RctRunExists ==
  ASSUME NEW t, NEW s, Len(s) \in Nat
  PROVE  \E f : /\ RctRun(f, t, s)
                /\ RctTestBlock(t, s) = f[Len(s)]
<1> DEFINE z == [st |-> t, ok |-> TRUE]
           Step(r, i) == IF ~r.ok THEN r ELSE RctTest(r.st, s[i])
           Rec(f, n) == f = [i \in 0..n |-> IF i = 0 THEN z ELSE Step(f[i - 1], i)]
           T == {n \in Nat : \E f : Rec(f, n)}
<1> HIDE DEF Step, z
<1>1. 0 \in T
  <2> DEFINE f == [i \in 0..0 |-> z]
  <2>1. f = [i \in 0..0 |-> IF i = 0 THEN z ELSE Step(f[i - 1], i)]
    OBVIOUS
  <2> QED BY <2>1
<1>2. ASSUME NEW n \in Nat, n \in T PROVE n + 1 \in T
  <2>1. PICK f : Rec(f, n)
    BY <1>2
  <2> DEFINE g == [i \in 0..(n + 1) |-> IF i = n + 1 THEN Step(f[n], n + 1)
                                        ELSE f[i]]
  <2>2. /\ \A i \in 0..n : g[i] = f[i] /\ i \in 0..(n + 1) /\ i # n + 1
        /\ g[n + 1] = Step(g[n], n + 1)
    OBVIOUS
  <2>3. \A i \in 0..n : f[i] = IF i = 0 THEN z ELSE Step(f[i - 1], i)
    BY <2>1
  <2>4. ASSUME NEW i \in 0..(n + 1)
        PROVE  g[i] = IF i = 0 THEN z ELSE Step(g[i - 1], i)
    <3>1. CASE i = n + 1
      BY <2>2, <3>1
    <3>2. CASE i \in 0..n /\ i # 0
      <4>1. i - 1 \in 0..n
        BY <3>2
      <4> QED BY <2>2, <2>3, <3>2, <4>1
    <3>3. CASE i = 0
      BY <2>2, <2>3, <3>3
    <3> QED BY <3>1, <3>2, <3>3
  <2>5. g = [i \in 0..(n + 1) |-> g[i]]
    OBVIOUS
  <2> HIDE DEF g
  <2>6. Rec(g, n + 1)
    BY <2>4, <2>5
  <2> QED BY <2>6
<1>3. Len(s) \in T
  <2> HIDE DEF T
  <2>1. \A n \in 0..Len(s) : n < Len(s) /\ n \in T => n + 1 \in T
    BY <1>2
  <2>2. \A n \in 0..Len(s) : n \in T
    BY <1>1, <2>1, IntervalInduction, Zenon
  <2>3. Len(s) \in 0..Len(s)
    OBVIOUS
  <2> QED BY <2>2, <2>3
<1> DEFINE f == CHOOSE g : Rec(g, Len(s))
<1>4. Rec(f, Len(s))
  BY <1>3
<1>5. RctTestBlock(t, s) = f[Len(s)]
  BY DEF RctTestBlock, Step, z
<1> HIDE DEF f
<1>6. /\ f[0] = z
      /\ \A i \in 1..Len(s) : f[i] = Step(f[i - 1], i)
  BY <1>4
<1> QED BY <1>5, <1>6 DEF RctRun, Step, z

\* The blocks that are the beginnings of a block: one run serves them all.
LEMMA RctPrefixes ==
  ASSUME NEW t, NEW s, Len(s) \in Nat, s \in Seq(Nat)
  PROVE  \E f : /\ RctRun(f, t, s)
                /\ RctTestBlock(t, s) = f[Len(s)]
                /\ \A i \in 1..Len(s) :
                     RctTestBlock(t, SubSeq(s, 1, i)) = f[i]
<1>1. PICK f : RctRun(f, t, s) /\ RctTestBlock(t, s) = f[Len(s)]
  BY RctRunExists
<1>2. ASSUME NEW n \in 1..Len(s)
      PROVE  RctTestBlock(t, SubSeq(s, 1, n)) = f[n]
  <2> DEFINE b == SubSeq(s, 1, n)
  <2>0. n \in Nat
    OBVIOUS
  <2>1. Len(b) = n /\ \A i \in 1..n : b[i] = s[i]
    OBVIOUS
  <2> HIDE DEF b
  <2>2. PICK g : RctRun(g, t, b) /\ RctTestBlock(t, b) = g[n]
    BY <2>0, <2>1, RctRunExists
  <2> DEFINE T == {i \in 0..n : g[i] = f[i]}
  <2>3. 0 \in T
    BY <1>1, <2>2 DEF RctRun
  <2>4. \A i \in 0..n : i < n /\ i \in T => i + 1 \in T
    <3> SUFFICES ASSUME NEW i \in 0..n, i < n, i \in T PROVE i + 1 \in T
      OBVIOUS
    <3>1. i + 1 \in 1..n /\ i + 1 \in 1..Len(s) /\ i + 1 - 1 = i
      OBVIOUS
    <3>2. f[i + 1] = IF ~f[i].ok THEN f[i] ELSE RctTest(f[i].st, s[i + 1])
      BY <1>1, <3>1 DEF RctRun
    <3>3. g[i + 1] = IF ~g[i].ok THEN g[i] ELSE RctTest(g[i].st, s[i + 1])
      BY <2>1, <2>2, <3>1 DEF RctRun
    <3> QED BY <3>1, <3>2, <3>3
  <2> HIDE DEF T
  <2>5. \A i \in 0..n : i \in T
    BY <2>0, <2>3, <2>4, IntervalInduction
  <2>6. n \in T
    BY <2>5
  <2> QED BY <2>2, <2>6 DEF T, b
<1> QED BY <1>1, <1>2

AptRun(f, t, s) ==
  /\ f[0] = [st |-> t, ok |-> TRUE]
  /\ \A i \in 1..Len(s) :
       f[i] = IF ~f[i - 1].ok THEN f[i - 1] ELSE AptTest(f[i - 1].st, s[i])

LEMMA AptRunExists ==
  ASSUME NEW t, NEW s, Len(s) \in Nat
  PROVE  \E f : /\ AptRun(f, t, s)
                /\ AptTestBlock(t, s) = f[Len(s)]
<1> DEFINE z == [st |-> t, ok |-> TRUE]
           Step(r, i) == IF ~r.ok THEN r ELSE AptTest(r.st, s[i])
           Rec(f, n) == f = [i \in 0..n |-> IF i = 0 THEN z ELSE Step(f[i - 1], i)]
           T == {n \in Nat : \E f : Rec(f, n)}
<1> HIDE DEF Step, z
<1>1. 0 \in T
  <2> DEFINE f == [i \in 0..0 |-> z]
  <2>1. f = [i \in 0..0 |-> IF i = 0 THEN z ELSE Step(f[i - 1], i)]
    OBVIOUS
  <2> QED BY <2>1
<1>2. ASSUME NEW n \in Nat, n \in T PROVE n + 1 \in T
  <2>1. PICK f : Rec(f, n)
    BY <1>2
  <2> DEFINE g == [i \in 0..(n + 1) |-> IF i = n + 1 THEN Step(f[n], n + 1)
                                        ELSE f[i]]
  <2>2. /\ \A i \in 0..n : g[i] = f[i] /\ i \in 0..(n + 1) /\ i # n + 1
        /\ g[n + 1] = Step(g[n], n + 1)
    OBVIOUS
  <2>3. \A i \in 0..n : f[i] = IF i = 0 THEN z ELSE Step(f[i - 1], i)
    BY <2>1
  <2>4. ASSUME NEW i \in 0..(n + 1)
        PROVE  g[i] = IF i = 0 THEN z ELSE Step(g[i - 1], i)
    <3>1. CASE i = n + 1
      BY <2>2, <3>1
    <3>2. CASE i \in 0..n /\ i # 0
      <4>1. i - 1 \in 0..n
        BY <3>2
      <4> QED BY <2>2, <2>3, <3>2, <4>1
    <3>3. CASE i = 0
      BY <2>2, <2>3, <3>3
    <3> QED BY <3>1, <3>2, <3>3
  <2>5. g = [i \in 0..(n + 1) |-> g[i]]
    OBVIOUS
  <2> HIDE DEF g
  <2>6. Rec(g, n + 1)
    BY <2>4, <2>5
  <2> QED BY <2>6
<1>3. Len(s) \in T
  <2> HIDE DEF T
  <2>1. \A n \in 0..Len(s) : n < Len(s) /\ n \in T => n + 1 \in T
    BY <1>2
  <2>2. \A n \in 0..Len(s) : n \in T
    BY <1>1, <2>1, IntervalInduction, Zenon
  <2>3. Len(s) \in 0..Len(s)
    OBVIOUS
  <2> QED BY <2>2, <2>3
<1> DEFINE f == CHOOSE g : Rec(g, Len(s))
<1>4. Rec(f, Len(s))
  BY <1>3
<1>5. AptTestBlock(t, s) = f[Len(s)]
  BY DEF AptTestBlock, Step, z
<1> HIDE DEF f
<1>6. /\ f[0] = z
      /\ \A i \in 1..Len(s) : f[i] = Step(f[i - 1], i)
  BY <1>4
<1> QED BY <1>5, <1>6 DEF AptRun, Step, z

\* The blocks that are the beginnings of a block: one run serves them all.
LEMMA AptPrefixes ==
  ASSUME NEW t, NEW s, Len(s) \in Nat, s \in Seq(Nat)
  PROVE  \E f : /\ AptRun(f, t, s)
                /\ AptTestBlock(t, s) = f[Len(s)]
                /\ \A i \in 1..Len(s) :
                     AptTestBlock(t, SubSeq(s, 1, i)) = f[i]
<1>1. PICK f : AptRun(f, t, s) /\ AptTestBlock(t, s) = f[Len(s)]
  BY AptRunExists
<1>2. ASSUME NEW n \in 1..Len(s)
      PROVE  AptTestBlock(t, SubSeq(s, 1, n)) = f[n]
  <2> DEFINE b == SubSeq(s, 1, n)
  <2>0. n \in Nat
    OBVIOUS
  <2>1. Len(b) = n /\ \A i \in 1..n : b[i] = s[i]
    OBVIOUS
  <2> HIDE DEF b
  <2>2. PICK g : AptRun(g, t, b) /\ AptTestBlock(t, b) = g[n]
    BY <2>0, <2>1, AptRunExists
  <2> DEFINE T == {i \in 0..n : g[i] = f[i]}
  <2>3. 0 \in T
    BY <1>1, <2>2 DEF AptRun
  <2>4. \A i \in 0..n : i < n /\ i \in T => i + 1 \in T
    <3> SUFFICES ASSUME NEW i \in 0..n, i < n, i \in T PROVE i + 1 \in T
      OBVIOUS
    <3>1. i + 1 \in 1..n /\ i + 1 \in 1..Len(s) /\ i + 1 - 1 = i
      OBVIOUS
    <3>2. f[i + 1] = IF ~f[i].ok THEN f[i] ELSE AptTest(f[i].st, s[i + 1])
      BY <1>1, <3>1 DEF AptRun
    <3>3. g[i + 1] = IF ~g[i].ok THEN g[i] ELSE AptTest(g[i].st, s[i + 1])
      BY <2>1, <2>2, <3>1 DEF AptRun
    <3> QED BY <3>1, <3>2, <3>3
  <2> HIDE DEF T
  <2>5. \A i \in 0..n : i \in T
    BY <2>0, <2>3, <2>4, IntervalInduction
  <2>6. n \in T
    BY <2>5
  <2> QED BY <2>2, <2>6 DEF T, b
<1> QED BY <1>1, <1>2

-----------------------------------------------------------------------------
(* The repetition count test *)

RctState == [cutoff : Nat \ {0}, lastSample : Nat, repeatCount : Nat,
             initialized : BOOLEAN]

\* Samples a..n of u are equal.
EqualFrom(u, a, n) == \A k \in a..n : u[k] = u[n]

\* t has seen the first n samples of u, perhaps after others: it counts no
\* less than their last run.
RctSaw(t, u, n) ==
  /\ t \in RctState
  /\ n > 0 => t.initialized /\ t.lastSample = u[n] /\ t.repeatCount >= 1
  /\ \A a \in 1..n : EqualFrom(u, a, n) => n - a + 1 <= t.repeatCount

\* ... and nothing before them: what it counts is a run of theirs.
RctSawOnly(t, u, n) ==
  /\ t.initialized <=> n > 0
  /\ t.repeatCount <= n
  /\ EqualFrom(u, n - t.repeatCount + 1, n)

\* A test that has been reset has seen nothing.
LEMMA RctFresh ==
  ASSUME NEW t \in RctState, NEW u
  PROVE  /\ RctReset(t) \in RctState
         /\ RctReset(t).cutoff = t.cutoff
         /\ RctSawOnly(RctReset(t), u, 0)
         /\ RctSaw(t, u, 0)
<1>1. /\ RctReset(t) \in RctState
      /\ RctReset(t).cutoff = t.cutoff
      /\ RctReset(t).repeatCount = 0
      /\ ~RctReset(t).initialized
  BY DEF RctState, RctReset
<1>2. RctSawOnly(RctReset(t), u, 0)
  BY <1>1 DEF RctSawOnly, EqualFrom
<1>3. RctSaw(t, u, 0)
  BY DEF RctSaw
<1> QED BY <1>1, <1>2, <1>3

LEMMA RctNew ==
  ASSUME NEW c \in Int, NEW u
  PROVE  /\ NewRepetitionCountTest(c) \in RctState
         /\ c > 0 => NewRepetitionCountTest(c).cutoff = c
         /\ RctSawOnly(NewRepetitionCountTest(c), u, 0)
BY DEF RctState, NewRepetitionCountTest, RctSawOnly, EqualFrom

\* One sample: the test keeps up with the stream, and it fails exactly when
\* what it has counted is a run of cutoff samples, two at least.
LEMMA RctStep ==
  ASSUME NEW t, NEW u, NEW n \in Nat, RctSaw(t, u, n), u[n + 1] \in Nat
  PROVE  LET r == RctTest(t, u[n + 1]) IN
         /\ RctSaw(r.st, u, n + 1)
         /\ r.st.cutoff = t.cutoff
         /\ r.ok /\ t.cutoff >= 2 =>
              \A a \in 1..(n + 1) :
                EqualFrom(u, a, n + 1) => n - a + 2 < t.cutoff
         /\ RctSawOnly(t, u, n) =>
              /\ RctSawOnly(r.st, u, n + 1)
              /\ ~r.ok <=> r.st.repeatCount >= 2 /\ r.st.repeatCount >= t.cutoff
<1> DEFINE x == u[n + 1]
           v == RctObserve(t, x)
           r == RctTest(t, x)
<1>1. /\ t \in RctState
      /\ t.cutoff \in Nat \ {0} /\ t.lastSample \in Nat
      /\ t.repeatCount \in Nat
  BY DEF RctSaw, RctState
<1>2. /\ v \in RctState /\ v.cutoff = t.cutoff /\ v.initialized
      /\ v.lastSample = x
      /\ t.initialized /\ x = t.lastSample =>
           v.repeatCount = t.repeatCount + 1
      /\ ~(t.initialized /\ x = t.lastSample) => v.repeatCount = 1
  <2>1. CASE ~t.initialized
    BY <1>1, <2>1 DEF RctObserve, RctState
  <2>2. CASE t.initialized /\ x = t.lastSample
    BY <1>1, <2>2 DEF RctObserve, RctState
  <2>3. CASE t.initialized /\ x # t.lastSample
    BY <1>1, <2>3 DEF RctObserve, RctState
  <2> QED BY <2>1, <2>2, <2>3
<1>3. r.st = v
      /\ (r.ok <=> ~(t.initialized /\ x = t.lastSample
                       /\ v.repeatCount >= v.cutoff))
  BY DEF RctTest, RctReached
<1> HIDE DEF v, r
<1>4. ASSUME NEW a \in 1..(n + 1), EqualFrom(u, a, n + 1)
      PROVE  /\ n - a + 2 <= v.repeatCount
             /\ a < n + 1 => t.initialized /\ x = t.lastSample
  <2>1. CASE a = n + 1
    BY <1>1, <1>2, <2>1
  <2>2. CASE a # n + 1
    <3>1. n > 0 /\ a \in 1..n /\ u[n] = x /\ EqualFrom(u, a, n)
      BY <1>4, <2>2 DEF EqualFrom
    <3>2. t.initialized /\ x = t.lastSample /\ n - a + 1 <= t.repeatCount
      BY <3>1 DEF RctSaw
    <3> QED BY <1>1, <1>2, <3>1, <3>2
  <2> QED BY <2>1, <2>2
<1>5. RctSaw(v, u, n + 1)
  <2>1. \A a \in 1..(n + 1) :
          EqualFrom(u, a, n + 1) => (n + 1) - a + 1 <= v.repeatCount
    BY <1>1, <1>2, <1>4
  <2>2. v.repeatCount >= 1
    BY <1>1, <1>2
  <2> QED BY <1>2, <2>1, <2>2 DEF RctSaw
<1>6. ASSUME r.ok, t.cutoff >= 2, NEW a \in 1..(n + 1), EqualFrom(u, a, n + 1)
      PROVE  n - a + 2 < t.cutoff
  <2>1. CASE a = n + 1
    BY <1>1, <1>6, <2>1
  <2>2. CASE a < n + 1
    <3>1. ~(v.repeatCount >= v.cutoff)
      BY <1>3, <1>4, <1>6, <2>2
    <3> QED BY <1>1, <1>2, <1>4, <1>6, <3>1
  <2> QED BY <2>1, <2>2
<1>7. ASSUME RctSawOnly(t, u, n)
      PROVE  /\ RctSawOnly(v, u, n + 1)
             /\ ~r.ok <=> v.repeatCount >= 2 /\ v.repeatCount >= t.cutoff
  <2>1. CASE t.initialized /\ x = t.lastSample
    <3>1. n > 0 /\ t.repeatCount >= 1 /\ t.repeatCount <= n /\ x = u[n]
      BY <1>7, <2>1 DEF RctSaw, RctSawOnly
    <3>2. \A k \in (n - t.repeatCount + 1)..n : u[k] = u[n]
      BY <1>7 DEF RctSawOnly, EqualFrom
    <3>3. EqualFrom(u, (n + 1) - v.repeatCount + 1, n + 1)
      BY <1>1, <1>2, <2>1, <3>1, <3>2 DEF EqualFrom
    <3> QED BY <1>1, <1>2, <1>3, <2>1, <3>1, <3>3 DEF RctSawOnly
  <2>2. CASE ~(t.initialized /\ x = t.lastSample)
    <3>1. EqualFrom(u, (n + 1) - v.repeatCount + 1, n + 1)
      BY <1>2, <2>2 DEF EqualFrom
    <3> QED BY <1>1, <1>2, <1>3, <2>2, <3>1 DEF RctSawOnly
  <2> QED BY <2>1, <2>2
<1> QED BY <1>2, <1>3, <1>5, <1>6, <1>7 DEF r

\* What t says after the n-th sample of u: ok is the verdict on that sample.
RctVerdict(t, ok, u, n, only) ==
  /\ RctSaw(t, u, n)
  /\ ok /\ t.cutoff >= 2 => \A a \in 1..n :
       EqualFrom(u, a, n) => n - a + 1 < t.cutoff
  /\ only => /\ RctSawOnly(t, u, n)
             /\ ~ok <=> t.repeatCount >= 2 /\ t.repeatCount >= t.cutoff

\* The relation depends on the samples seen only.
LEMMA RctAgree ==
  ASSUME NEW t, NEW u, NEW v, NEW n \in Nat, RctSaw(t, u, n),
         \A i \in 1..n : u[i] = v[i]
  PROVE  /\ RctSaw(t, v, n)
         /\ RctSawOnly(t, u, n) => RctSawOnly(t, v, n)
         /\ \A m \in 1..n : \A a \in 1..m :
              EqualFrom(u, a, m) <=> EqualFrom(v, a, m)
<1>1. \A m \in 1..n : \A a \in 1..m : EqualFrom(u, a, m) <=> EqualFrom(v, a, m)
  BY DEF EqualFrom
<1>2. RctSaw(t, v, n)
  <2>1. \A a \in 1..n : EqualFrom(v, a, n) => n - a + 1 <= t.repeatCount
    <3> SUFFICES ASSUME NEW a \in 1..n, EqualFrom(v, a, n)
                 PROVE  n - a + 1 <= t.repeatCount
      OBVIOUS
    <3>1. n \in 1..n
      OBVIOUS
    <3> QED BY <1>1, <3>1 DEF RctSaw
  <2>2. n > 0 => u[n] = v[n]
    OBVIOUS
  <2> QED BY <2>1, <2>2 DEF RctSaw
<1>3. ASSUME RctSawOnly(t, u, n) PROVE RctSawOnly(t, v, n)
  <2>1. t.repeatCount \in Nat /\ t.repeatCount <= n
    BY <1>3 DEF RctSaw, RctState, RctSawOnly
  <2>2. EqualFrom(v, n - t.repeatCount + 1, n)
    BY <1>3, <2>1 DEF RctSawOnly, EqualFrom
  <2> QED BY <1>3, <2>2 DEF RctSawOnly
<1> QED BY <1>1, <1>2, <1>3

\* A block: every sample up to the first failure is judged.
LEMMA RctBlock ==
  ASSUME NEW t, NEW u, NEW n \in Nat, RctSaw(t, u, n),
         NEW s, Len(s) \in Nat,
         \A i \in 1..Len(s) : s[i] \in Nat /\ u[n + i] = s[i],
         NEW f, RctRun(f, t, s)
  PROVE  \A i \in 0..Len(s) :
           /\ f[i].st \in RctState /\ f[i].st.cutoff = t.cutoff
           /\ i > 0 /\ f[i - 1].ok =>
                RctVerdict(f[i].st, f[i].ok, u, n + i, RctSawOnly(t, u, n))
<1> DEFINE only == RctSawOnly(t, u, n)
           P(i) == /\ f[i].st \in RctState /\ f[i].st.cutoff = t.cutoff
                   /\ i > 0 /\ f[i - 1].ok =>
                        RctVerdict(f[i].st, f[i].ok, u, n + i, only)
                   /\ f[i].ok => /\ RctSaw(f[i].st, u, n + i)
                                 /\ only => RctSawOnly(f[i].st, u, n + i)
           T == {i \in 0..Len(s) : P(i)}
<1>1. 0 \in T
  <2>1. f[0].st = t /\ f[0].ok
    BY DEF RctRun
  <2> QED BY <2>1 DEF RctSaw
<1>2. ASSUME NEW i \in 0..Len(s), i < Len(s), i \in T PROVE i + 1 \in T
  <2>1. i + 1 \in 1..Len(s) /\ i + 1 - 1 = i /\ n + (i + 1) = (n + i) + 1
        /\ n + i \in Nat /\ i + 1 \in 0..Len(s)
    BY <1>2
  <2>2. f[i + 1] = IF ~f[i].ok THEN f[i] ELSE RctTest(f[i].st, s[i + 1])
    BY <2>1 DEF RctRun
  <2>3. s[i + 1] \in Nat /\ u[(n + i) + 1] = s[i + 1]
    BY <2>1
  <2>4. CASE ~f[i].ok
    <3>1. P(i + 1)
      BY <1>2, <2>1, <2>2, <2>4
    <3> QED BY <2>1, <3>1
  <2>5. CASE f[i].ok
    <3> DEFINE b == f[i].st
               r == RctTest(b, u[(n + i) + 1])
    <3>1. /\ RctSaw(b, u, n + i) /\ b.cutoff = t.cutoff
          /\ only => RctSawOnly(b, u, n + i)
      BY <1>2, <2>5
    <3>2. f[i + 1] = r
      BY <2>2, <2>3, <2>5
    <3> HIDE DEF b, only
    <3>3. /\ RctSaw(r.st, u, n + i + 1)
          /\ r.st.cutoff = b.cutoff
          /\ r.ok /\ b.cutoff >= 2 =>
               \A a \in 1..(n + i + 1) :
                 EqualFrom(u, a, n + i + 1) => (n + i) - a + 2 < b.cutoff
          /\ RctSawOnly(b, u, n + i) =>
               /\ RctSawOnly(r.st, u, n + i + 1)
               /\ ~r.ok <=> r.st.repeatCount >= 2 /\ r.st.repeatCount >= b.cutoff
      BY <2>1, <2>3, <3>1, RctStep
    <3> HIDE DEF r
    <3>4. \A a \in 1..(n + i + 1) : (n + i) - a + 2 = (n + i + 1) - a + 1
      OBVIOUS
    <3>5. RctVerdict(r.st, r.ok, u, n + i + 1, only)
      BY <3>1, <3>3, <3>4 DEF RctVerdict
    <3>6. r.st \in RctState /\ r.st.cutoff = t.cutoff
      BY <3>1, <3>3 DEF RctSaw
    <3>7. P(i + 1)
      BY <2>1, <3>2, <3>5, <3>6 DEF RctVerdict
    <3> QED BY <2>1, <3>7
  <2> QED BY <2>4, <2>5
<1> HIDE DEF P
<1>3. \A i \in 0..Len(s) : i \in T
  <2> HIDE DEF T
  <2>1. \A i \in 0..Len(s) : i < Len(s) /\ i \in T => i + 1 \in T
    BY <1>2
  <2> QED BY <1>1, <2>1, IntervalInduction
<1>4. \A i \in 0..Len(s) : P(i)
  BY <1>3
<1> QED BY <1>4 DEF P

\* A run f of a test over the block s that has failed has failed from some
\* sample on.
StopsAtFailure(f, s) ==
  \A i \in 0..Len(s) :
    /\ f[i].ok => \A j \in 0..i : f[j].ok
    /\ ~f[i].ok => \A j \in i..Len(s) : f[j] = f[i]

LEMMA RctStopsAtFailure ==
  ASSUME NEW t, NEW s, Len(s) \in Nat, NEW f, RctRun(f, t, s)
  PROVE  StopsAtFailure(f, s)
<1> DEFINE P(i) == \A j \in 0..i : (f[i].ok => f[j].ok)
                                   /\ (~f[j].ok => f[i] = f[j])
           T == {i \in 0..Len(s) : P(i)}
<1>1. 0 \in T
  OBVIOUS
<1>2. ASSUME NEW i \in 0..Len(s), i < Len(s), i \in T PROVE i + 1 \in T
  <2>1. i + 1 \in 1..Len(s) /\ i + 1 - 1 = i /\ i + 1 \in 0..Len(s)
    BY <1>2
  <2>2. ~f[i].ok => f[i + 1] = f[i]
    BY <2>1 DEF RctRun
  <2>3. P(i + 1)
    <3> SUFFICES ASSUME NEW j \in 0..(i + 1)
                 PROVE  (f[i + 1].ok => f[j].ok) /\ (~f[j].ok => f[i + 1] = f[j])
      OBVIOUS
    <3>1. CASE j = i + 1
      BY <3>1
    <3>2. CASE j \in 0..i
      <4>1. (f[i].ok => f[j].ok) /\ (~f[j].ok => f[i] = f[j])
        BY <1>2, <3>2
      <4> QED BY <2>2, <4>1
    <3> QED BY <3>1, <3>2
  <2> QED BY <2>1, <2>3
<1> HIDE DEF P
<1>3. \A i \in 0..Len(s) : i \in T
  <2> HIDE DEF T
  <2>1. \A i \in 0..Len(s) : i < Len(s) /\ i \in T => i + 1 \in T
    BY <1>2
  <2> QED BY <1>1, <2>1, IntervalInduction
<1>4. \A i \in 0..Len(s) : P(i)
  BY <1>3
<1> QED BY <1>4 DEF P, StopsAtFailure

-----------------------------------------------------------------------------
(* The adaptive proportion test *)

LEMMA DivMod ==
  ASSUME NEW W \in Nat \ {0}, NEW w \in Nat, NEW c \in Nat, c < W,
         NEW n \in Nat, n = W * w + c
  PROVE  n \div W = w /\ n % W = c
<1> DEFINE q == n \div W
           m == n % W
<1>1. q \in Int /\ m \in 0..(W - 1) /\ n = W * q + m
  OBVIOUS
<1> HIDE DEF q, m
<1>2. q >= 0
  <2> SUFFICES ASSUME q <= -1 PROVE FALSE
    BY <1>1
  <2>1. W * q <= W * (-1)
    BY <1>1
  <2> QED BY <1>1, <2>1
<1>3. ~(q < w)
  <2> SUFFICES ASSUME q < w PROVE FALSE
    OBVIOUS
  <2>1. W * (q + 1) <= W * w
    BY <1>1, <1>2
  <2>2. W * (q + 1) = W * q + W
    BY <1>1
  <2> QED BY <1>1, <2>1, <2>2
<1>4. ~(q > w)
  <2> SUFFICES ASSUME q > w PROVE FALSE
    OBVIOUS
  <2>1. W * (w + 1) <= W * q
    BY <1>1
  <2>2. W * (w + 1) = W * w + W
    OBVIOUS
  <2> QED BY <1>1, <2>1, <2>2
<1>5. q = w
  BY <1>1, <1>3, <1>4
<1>6. m = c
  BY <1>1, <1>5
<1> QED BY <1>5, <1>6 DEF q, m

AptState == [cutoff : Nat \ {0}, windowSize : Nat \ {0}, firstSample : Nat,
             matchCount : Nat, sampleCount : Nat]

\* The samples among a..n that equal sample a.
Matches(u, a, n) == {k \in a..n : u[k] = u[a]}

LEMMA MatchesGrow ==
  ASSUME NEW u, NEW a \in Nat, NEW n \in Nat
  PROVE  /\ Cardinality(Matches(u, a, n)) \in Nat
         /\ Cardinality(Matches(u, a, a)) = 1
         /\ a <= n => Cardinality(Matches(u, a, n + 1)) =
                        Cardinality(Matches(u, a, n))
                          + (IF u[n + 1] = u[a] THEN 1 ELSE 0)
<1>1. \A m \in Nat : IsFiniteSet(Matches(u, a, m))
  <2> SUFFICES ASSUME NEW m \in Nat PROVE IsFiniteSet(Matches(u, a, m))
    OBVIOUS
  <2>1. IsFiniteSet(a..m)
    BY FS_Interval
  <2>2. Matches(u, a, m) \subseteq a..m
    BY DEF Matches
  <2> QED BY <2>1, <2>2, FS_Subset
<1>2. \A m \in Nat : Cardinality(Matches(u, a, m)) \in Nat
  BY <1>1, FS_CardinalityType
<1>3. Cardinality(Matches(u, a, a)) = 1
  <2>1. Matches(u, a, a) = {a}
    BY DEF Matches
  <2> QED BY <2>1, FS_Singleton
<1>4. ASSUME a <= n, u[n + 1] = u[a]
      PROVE  Cardinality(Matches(u, a, n + 1)) = Cardinality(Matches(u, a, n)) + 1
  <2>1. Matches(u, a, n + 1) = Matches(u, a, n) \cup {n + 1}
    BY <1>4 DEF Matches
  <2>2. n + 1 \notin Matches(u, a, n)
    BY DEF Matches
  <2> QED BY <1>1, <2>1, <2>2, FS_AddElement
<1>5. ASSUME a <= n, u[n + 1] # u[a]
      PROVE  Matches(u, a, n + 1) = Matches(u, a, n)
  BY <1>5 DEF Matches
<1> QED BY <1>2, <1>3, <1>4, <1>5

\* t has seen the first n samples of u: w complete windows, and the
\* beginning of the next one, whose matches it counts.
AptSaw(t, u, n, w) ==
  /\ t \in AptState
  /\ w \in Nat
  /\ n = t.windowSize * w + t.sampleCount
  /\ t.sampleCount < t.windowSize
  /\ LET a == n - t.sampleCount + 1 IN
     t.sampleCount > 0 => /\ t.firstSample = u[a]
                          /\ t.matchCount = Cardinality(Matches(u, a, n))

LEMMA AptFresh ==
  ASSUME NEW t \in AptState, NEW u
  PROVE  /\ AptSaw(AptReset(t), u, 0, 0)
         /\ AptReset(t).cutoff = t.cutoff
         /\ AptReset(t).windowSize = t.windowSize
<1>1. /\ AptReset(t) \in AptState
      /\ AptReset(t).cutoff = t.cutoff
      /\ AptReset(t).windowSize = t.windowSize
      /\ AptReset(t).sampleCount = 0
  BY DEF AptState, AptReset
<1>2. t.windowSize \in Nat \ {0}
  BY DEF AptState
<1> QED BY <1>1, <1>2 DEF AptSaw

LEMMA AptNew ==
  ASSUME NEW c \in Int, NEW w \in Int, NEW u
  PROVE  LET t == NewAdaptiveProportionTest(c, w) IN
         /\ AptSaw(t, u, 0, 0)
         /\ c > 0 => t.cutoff = c
         /\ w > 0 => t.windowSize = w
<1> DEFINE t == NewAdaptiveProportionTest(c, w)
<1>1. /\ t \in AptState /\ t.sampleCount = 0
      /\ c > 0 => t.cutoff = c
      /\ w > 0 => t.windowSize = w
  BY DEF AptState, NewAdaptiveProportionTest
<1>2. t.windowSize \in Nat \ {0}
  BY <1>1 DEF AptState
<1> HIDE DEF t
<1>3. AptSaw(t, u, 0, 0)
  BY <1>1, <1>2 DEF AptSaw
<1> QED BY <1>1, <1>3 DEF t

\* One sample: it extends the window begun, or it completes it; only then
\* the test may fail, and does so if the window's first sample is too common.
AptVerdict(t, ok, u, n, w) ==
  /\ AptSaw(t, u, n, w)
  /\ t.sampleCount > 0 => ok
  /\ t.sampleCount = 0 =>
       /\ w > 0
       /\ ok <=> Cardinality(WindowMatches(u, t.windowSize, w)) < t.cutoff

\* What AptObserve does to each field.
LEMMA AptObserved ==
  ASSUME NEW t \in AptState, NEW x \in Nat
  PROVE  LET v == AptObserve(t, x) IN
         /\ v \in AptState
         /\ v.cutoff = t.cutoff /\ v.windowSize = t.windowSize
         /\ v.sampleCount = t.sampleCount + 1
         /\ t.sampleCount = 0 => v.firstSample = x /\ v.matchCount = 1
         /\ t.sampleCount > 0 =>
              /\ v.firstSample = t.firstSample
              /\ x = t.firstSample => v.matchCount = t.matchCount + 1
              /\ x # t.firstSample => v.matchCount = t.matchCount
<1> DEFINE rec(f, m, n) == [cutoff |-> t.cutoff, windowSize |-> t.windowSize,
                            firstSample |-> f, matchCount |-> m,
                            sampleCount |-> n]
           v == AptObserve(t, x)
<1>1. /\ t.cutoff \in Nat \ {0} /\ t.windowSize \in Nat \ {0}
      /\ t.firstSample \in Nat
      /\ t.matchCount \in Nat /\ t.sampleCount \in Nat
  BY DEF AptState
<1>2. CASE t.sampleCount = 0
  <2>1. v = rec(x, 1, 1)
    BY <1>2 DEF AptObserve, AptState
  <2> QED BY <1>1, <1>2, <2>1 DEF AptState
<1>3. CASE t.sampleCount > 0 /\ x = t.firstSample
  <2>1. v = rec(t.firstSample, t.matchCount + 1, t.sampleCount + 1)
    <3>1. v = [t EXCEPT !.matchCount = t.matchCount + 1,
                        !.sampleCount = t.sampleCount + 1]
      BY <1>1, <1>3 DEF AptObserve
    <3> QED BY <3>1 DEF AptState
  <2> QED BY <1>1, <1>3, <2>1 DEF AptState
<1>4. CASE t.sampleCount > 0 /\ x # t.firstSample
  <2>1. v = rec(t.firstSample, t.matchCount, t.sampleCount + 1)
    BY <1>4 DEF AptObserve, AptState
  <2> QED BY <1>1, <1>4, <2>1 DEF AptState
<1> QED BY <1>1, <1>2, <1>3, <1>4

LEMMA AptStep ==
  ASSUME NEW t, NEW u, NEW n \in Nat, NEW w, AptSaw(t, u, n, w),
         u[n + 1] \in Nat
  PROVE  LET r == AptTest(t, u[n + 1]) IN
         /\ r.st.cutoff = t.cutoff
         /\ r.st.windowSize = t.windowSize
         /\ \/ AptVerdict(r.st, r.ok, u, n + 1, w) /\ r.st.sampleCount > 0
            \/ AptVerdict(r.st, r.ok, u, n + 1, w + 1) /\ r.st.sampleCount = 0
<1> DEFINE x == u[n + 1]
           v == AptObserve(t, x)
           r == AptTest(t, x)
           W == t.windowSize
           a == n - t.sampleCount + 1
<1>0. /\ t \in AptState
      /\ W \in Nat \ {0} /\ t.cutoff \in Nat \ {0} /\ t.firstSample \in Nat
      /\ t.matchCount \in Nat /\ t.sampleCount \in Nat
  BY DEF AptSaw, AptState
<1>1. /\ w \in Nat
      /\ n = W * w + t.sampleCount /\ t.sampleCount < W
  BY DEF AptSaw, AptState
<1>2. W * w \in Nat /\ a \in Nat /\ a = W * w + 1 /\ a <= n + 1
      /\ W * (w + 1) = W * w + W
  BY <1>0, <1>1
<1>7. x \in Nat
  OBVIOUS
<1>3. /\ v \in AptState /\ v.cutoff = t.cutoff /\ v.windowSize = W
      /\ v.sampleCount = t.sampleCount + 1
      /\ t.sampleCount = 0 => v.firstSample = x /\ v.matchCount = 1
      /\ t.sampleCount > 0 =>
           /\ v.firstSample = t.firstSample
           /\ x = t.firstSample => v.matchCount = t.matchCount + 1
           /\ x # t.firstSample => v.matchCount = t.matchCount
  <2> HIDE DEF x
  <2> QED BY <1>0, <1>7, AptObserved
<1> HIDE DEF v
<1>6. /\ v.firstSample = u[a]
      /\ v.matchCount = Cardinality(Matches(u, a, n + 1))
  <2>1. CASE t.sampleCount = 0
    <3>1. a = n + 1
      BY <1>0, <1>1, <2>1
    <3>2. Cardinality(Matches(u, a, n + 1)) = 1
      BY <1>2, <3>1, MatchesGrow
    <3> QED BY <1>0, <1>1, <1>3, <2>1, <3>1, <3>2
  <2>2. CASE t.sampleCount > 0
    <3>1. t.firstSample = u[a] /\ t.matchCount = Cardinality(Matches(u, a, n))
      BY <2>2 DEF AptSaw
    <3>2. a <= n
      BY <1>0, <1>1, <2>2
    <3> HIDE DEF a
    <3>3. Cardinality(Matches(u, a, n + 1)) =
            t.matchCount + (IF x = t.firstSample THEN 1 ELSE 0)
      BY <1>2, <3>1, <3>2, MatchesGrow
    <3> QED BY <1>0, <1>1, <1>3, <2>2, <3>1, <3>3
  <2> QED BY <1>0, <1>1, <2>1, <2>2
<1> HIDE DEF a
<1>4. CASE v.sampleCount < W
  <2>1. r.st = v /\ r.ok
    BY <1>0, <1>1, <1>3, <1>4 DEF r, v, AptTest, AptWindowComplete
  <2>2. n + 1 - v.sampleCount + 1 = a /\ n + 1 = W * w + v.sampleCount
    BY <1>0, <1>1, <1>2, <1>3 DEF a
  <2>3. AptSaw(v, u, n + 1, w)
    BY <1>0, <1>1, <1>3, <1>4, <1>6, <2>2 DEF AptSaw
  <2>4. v.sampleCount > 0
    BY <1>0, <1>1, <1>3
  <2> HIDE DEF r
  <2>5. AptVerdict(r.st, r.ok, u, n + 1, w)
    BY <1>0, <1>1, <1>3, <2>1, <2>3, <2>4 DEF AptVerdict
  <2> QED BY <1>3, <2>1, <2>4, <2>5 DEF r
<1>5. CASE v.sampleCount >= W
  <2>1. v.sampleCount = W /\ n + 1 = W * (w + 1)
    BY <1>0, <1>1, <1>2, <1>3, <1>5
  <2>2. /\ r.st \in AptState /\ r.st.cutoff = t.cutoff /\ r.st.windowSize = W
        /\ r.st.sampleCount = 0
        /\ r.ok <=> v.matchCount < t.cutoff
    BY <1>0, <1>1, <1>3, <1>5 DEF r, v, AptTest, AptWindowComplete, AptState
  <2> HIDE DEF r
  <2>3. WindowMatches(u, W, w + 1) = Matches(u, a, n + 1)
    <3>1. W * ((w + 1) - 1) + 1 = a /\ a + W - 1 = n + 1
      BY <1>0, <1>1, <1>2, <2>1
    <3> QED BY <3>1 DEF WindowMatches, Matches
  <2>4. AptSaw(r.st, u, n + 1, w + 1)
    BY <1>0, <1>1, <1>2, <2>1, <2>2 DEF AptSaw
  <2>5. AptVerdict(r.st, r.ok, u, n + 1, w + 1)
    BY <1>0, <1>1, <1>3, <1>6, <2>2, <2>3, <2>4 DEF AptVerdict
  <2> QED BY <2>2, <2>5 DEF r
<1> QED BY <1>0, <1>1, <1>3, <1>4, <1>5

\* The first w windows of u pass.
WindowsPass(u, size, cutoff, w) ==
  \A x \in 1..w : Cardinality(WindowMatches(u, size, x)) < cutoff

LEMMA WindowsAgree ==
  ASSUME NEW W \in Nat \ {0}, NEW w \in Nat, NEW u, NEW v,
         \A i \in 1..(W * w) : u[i] = v[i]
  PROVE  \A x \in 1..w : WindowMatches(u, W, x) = WindowMatches(v, W, x)
<1> SUFFICES ASSUME NEW x \in 1..w
             PROVE  WindowMatches(u, W, x) = WindowMatches(v, W, x)
  OBVIOUS
<1>1. x - 1 \in Nat /\ W * (x - 1) \in Nat /\ W * x = W * (x - 1) + W
  OBVIOUS
<1>2. W * x <= W * w /\ W * w \in Nat
  OBVIOUS
<1> DEFINE f == W * (x - 1) + 1
<1>3. f \in 1..(W * w) /\ f + W - 1 <= W * w
  BY <1>1, <1>2
<1> HIDE DEF f
<1>4. {k \in f..(f + W - 1) : u[k] = u[f]} = {k \in f..(f + W - 1) : v[k] = v[f]}
  BY <1>2, <1>3
<1> QED BY <1>4 DEF f, WindowMatches

LEMMA AptAgree ==
  ASSUME NEW t, NEW u, NEW v, NEW n \in Nat, NEW w, AptSaw(t, u, n, w),
         \A i \in 1..n : u[i] = v[i]
  PROVE  /\ AptSaw(t, v, n, w)
         /\ \A c : WindowsPass(u, t.windowSize, c, w) =>
                     WindowsPass(v, t.windowSize, c, w)
<1> DEFINE W == t.windowSize
           a == n - t.sampleCount + 1
<1>1. W \in Nat \ {0} /\ t.sampleCount \in Nat /\ w \in Nat
      /\ t.sampleCount < W /\ n = W * w + t.sampleCount
  BY DEF AptSaw, AptState
<1>2. W * w \in Nat /\ a = W * w + 1 /\ W * w <= n
  BY <1>1
<1>3. t.sampleCount > 0 => u[a] = v[a] /\ Matches(u, a, n) = Matches(v, a, n)
  BY <1>1, <1>2 DEF Matches
<1>4. AptSaw(t, v, n, w)
  BY <1>3 DEF AptSaw
<1> HIDE DEF W
<1>5. \A x \in 1..w : WindowMatches(u, W, x) = WindowMatches(v, W, x)
  <2>1. \A i \in 1..(W * w) : u[i] = v[i]
    BY <1>1, <1>2
  <2> QED BY <1>1, <2>1, WindowsAgree
<1> QED BY <1>4, <1>5 DEF WindowsPass, W

LEMMA AptVerdictAgrees ==
  ASSUME NEW t, NEW ok, NEW u, NEW v, NEW n \in Nat, NEW w,
         AptVerdict(t, ok, u, n, w),
         \A i \in 1..n : u[i] = v[i]
  PROVE  AptVerdict(t, ok, v, n, w)
<1> DEFINE W == t.windowSize
<1>1. AptSaw(t, u, n, w)
  BY DEF AptVerdict
<1>2. AptSaw(t, v, n, w)
  BY <1>1, AptAgree
<1>3. W \in Nat \ {0} /\ w \in Nat /\ t.sampleCount \in Nat
      /\ n = W * w + t.sampleCount
  BY <1>1 DEF AptSaw, AptState
<1>4. W * w <= n
  BY <1>3
<1> HIDE DEF W
<1>5. \A x \in 1..w : WindowMatches(u, W, x) = WindowMatches(v, W, x)
  <2>1. \A i \in 1..(W * w) : u[i] = v[i]
    BY <1>3, <1>4
  <2> QED BY <1>3, <2>1, WindowsAgree
<1>6. w > 0 => w \in 1..w
  BY <1>3
<1> QED BY <1>2, <1>5, <1>6 DEF AptVerdict, W

\* A block: every sample up to the first failure is judged, and a block that
\* passes leaves only windows that pass.
LEMMA AptBlock ==
  ASSUME NEW t, NEW u, NEW n \in Nat, NEW w, AptSaw(t, u, n, w),
         NEW s, Len(s) \in Nat,
         \A i \in 1..Len(s) : s[i] \in Nat /\ u[n + i] = s[i],
         NEW f, AptRun(f, t, s)
  PROVE  \A i \in 0..Len(s) :
           /\ f[i].st \in AptState
           /\ f[i].st.cutoff = t.cutoff /\ f[i].st.windowSize = t.windowSize
           /\ i > 0 /\ f[i - 1].ok =>
                \E v : AptVerdict(f[i].st, f[i].ok, u, n + i, v)
           /\ f[i].ok =>
                \E v : /\ AptSaw(f[i].st, u, n + i, v)
                       /\ WindowsPass(u, t.windowSize, t.cutoff, w) =>
                            WindowsPass(u, t.windowSize, t.cutoff, v)
<1> DEFINE Good(v) == WindowsPass(u, t.windowSize, t.cutoff, v)
           P(i) == /\ f[i].st \in AptState
                   /\ f[i].st.cutoff = t.cutoff
                   /\ f[i].st.windowSize = t.windowSize
                   /\ i > 0 /\ f[i - 1].ok =>
                        \E v : AptVerdict(f[i].st, f[i].ok, u, n + i, v)
                   /\ f[i].ok => \E v : /\ AptSaw(f[i].st, u, n + i, v)
                                        /\ Good(w) => Good(v)
           T == {i \in 0..Len(s) : P(i)}
<1>1. 0 \in T
  <2>1. f[0].st = t /\ f[0].ok
    BY DEF AptRun
  <2> QED BY <2>1 DEF AptSaw
<1>2. ASSUME NEW i \in 0..Len(s), i < Len(s), i \in T PROVE i + 1 \in T
  <2>1. i + 1 \in 1..Len(s) /\ i + 1 - 1 = i /\ n + (i + 1) = (n + i) + 1
        /\ n + i \in Nat /\ i + 1 \in 0..Len(s)
    BY <1>2
  <2>2. f[i + 1] = IF ~f[i].ok THEN f[i] ELSE AptTest(f[i].st, s[i + 1])
    BY <2>1 DEF AptRun
  <2>3. s[i + 1] \in Nat /\ u[(n + i) + 1] = s[i + 1]
    BY <2>1
  <2>4. CASE ~f[i].ok
    <3>1. P(i + 1)
      BY <1>2, <2>1, <2>2, <2>4
    <3> QED BY <2>1, <3>1
  <2>5. CASE f[i].ok
    <3> DEFINE b == f[i].st
               r == AptTest(b, u[(n + i) + 1])
    <3>1. b.cutoff = t.cutoff /\ b.windowSize = t.windowSize
      BY <1>2
    <3>2. PICK v : AptSaw(b, u, n + i, v) /\ (Good(w) => Good(v))
      BY <1>2, <2>5
    <3>3. f[i + 1] = r
      BY <2>2, <2>3, <2>5
    <3> HIDE DEF b, Good
    <3>4. /\ r.st.cutoff = b.cutoff
          /\ r.st.windowSize = b.windowSize
          /\ \/ AptVerdict(r.st, r.ok, u, n + i + 1, v) /\ r.st.sampleCount > 0
             \/ /\ AptVerdict(r.st, r.ok, u, n + i + 1, v + 1)
                /\ r.st.sampleCount = 0
      <4> DEFINE k == n + i
      <4>1. k \in Nat /\ u[k + 1] \in Nat /\ AptSaw(b, u, k, v)
        BY <2>1, <2>3, <3>2
      <4> HIDE DEF k
      <4>2. LET q == AptTest(b, u[k + 1]) IN
            /\ q.st.cutoff = b.cutoff
            /\ q.st.windowSize = b.windowSize
            /\ \/ AptVerdict(q.st, q.ok, u, k + 1, v) /\ q.st.sampleCount > 0
               \/ AptVerdict(q.st, q.ok, u, k + 1, v + 1)
                    /\ q.st.sampleCount = 0
        BY <4>1, AptStep
      <4> QED BY <4>2 DEF k
    <3> HIDE DEF r
    <3>5. r.st \in AptState
      BY <3>4 DEF AptVerdict, AptSaw
    <3>6. \E y : AptVerdict(r.st, r.ok, u, n + i + 1, y)
      BY <3>4
    <3>7. ASSUME r.ok
          PROVE  \E y : AptSaw(r.st, u, n + i + 1, y) /\ (Good(w) => Good(y))
      <4>1. CASE AptVerdict(r.st, r.ok, u, n + i + 1, v)
        BY <3>2, <4>1 DEF AptVerdict
      <4>2. CASE /\ AptVerdict(r.st, r.ok, u, n + i + 1, v + 1)
                 /\ r.st.sampleCount = 0
        <5>1. Cardinality(WindowMatches(u, t.windowSize, v + 1)) < t.cutoff
          BY <3>1, <3>4, <3>7, <4>2 DEF AptVerdict
        <5>2. v \in Nat
          BY <3>2 DEF AptSaw
        <5>3. Good(w) => Good(v + 1)
          BY <3>2, <5>1, <5>2 DEF Good, WindowsPass
        <5> QED BY <4>2, <5>3 DEF AptVerdict
      <4> QED BY <3>4, <4>1, <4>2
    <3>8. r.st.cutoff = t.cutoff /\ r.st.windowSize = t.windowSize
      BY <3>1, <3>4
    <3>9. P(i + 1)
      BY <2>1, <3>3, <3>5, <3>6, <3>7, <3>8
    <3> QED BY <2>1, <3>9
  <2> QED BY <2>4, <2>5
<1> HIDE DEF P
<1>3. \A i \in 0..Len(s) : i \in T
  <2> HIDE DEF T
  <2>1. \A i \in 0..Len(s) : i < Len(s) /\ i \in T => i + 1 \in T
    BY <1>2
  <2> QED BY <1>1, <2>1, IntervalInduction
<1>4. \A i \in 0..Len(s) : P(i)
  BY <1>3
<1> QED BY <1>4 DEF P

\* A run that has failed has failed from some sample on.
LEMMA AptStopsAtFailure ==
  ASSUME NEW t, NEW s, Len(s) \in Nat, NEW f, AptRun(f, t, s)
  PROVE  StopsAtFailure(f, s)
<1> DEFINE P(i) == \A j \in 0..i : (f[i].ok => f[j].ok)
                                   /\ (~f[j].ok => f[i] = f[j])
           T == {i \in 0..Len(s) : P(i)}
<1>1. 0 \in T
  OBVIOUS
<1>2. ASSUME NEW i \in 0..Len(s), i < Len(s), i \in T PROVE i + 1 \in T
  <2>1. i + 1 \in 1..Len(s) /\ i + 1 - 1 = i /\ i + 1 \in 0..Len(s)
    BY <1>2
  <2>2. ~f[i].ok => f[i + 1] = f[i]
    BY <2>1 DEF AptRun
  <2>3. P(i + 1)
    <3> SUFFICES ASSUME NEW j \in 0..(i + 1)
                 PROVE  (f[i + 1].ok => f[j].ok) /\ (~f[j].ok => f[i + 1] = f[j])
      OBVIOUS
    <3>1. CASE j = i + 1
      BY <3>1
    <3>2. CASE j \in 0..i
      <4>1. (f[i].ok => f[j].ok) /\ (~f[j].ok => f[i] = f[j])
        BY <1>2, <3>2
      <4> QED BY <2>2, <4>1
    <3> QED BY <3>1, <3>2
  <2> QED BY <2>1, <2>3
<1> HIDE DEF P
<1>3. \A i \in 0..Len(s) : i \in T
  <2> HIDE DEF T
  <2>1. \A i \in 0..Len(s) : i < Len(s) /\ i \in T => i + 1 \in T
    BY <1>2
  <2> QED BY <1>1, <2>1, IntervalInduction
<1>4. \A i \in 0..Len(s) : P(i)
  BY <1>3
<1> QED BY <1>4 DEF P, StopsAtFailure

-----------------------------------------------------------------------------
(* TestBlock, for the modules that call it *)

\* The verdict of TestBlock is the verdict on the last sample it looks at:
\* sample j, the first on which the test fails, or the last of the block.
LEMMA RctJudged ==
  ASSUME NEW t, NEW u, NEW n \in Nat, RctSaw(t, u, n),
         NEW s \in Seq(Nat), s # <<>>,
         \A i \in 1..Len(s) : u[n + i] = s[i]
  PROVE  LET r == RctTestBlock(t, s)
             ok(i) == RctTestBlock(t, SubSeq(s, 1, i)).ok IN
         \E j \in 1..Len(s) :
           /\ r.st.cutoff = t.cutoff
           /\ RctVerdict(r.st, r.ok, u, n + j, RctSawOnly(t, u, n))
           /\ r.ok => j = Len(s) /\ \A i \in 1..Len(s) : ok(i)
           /\ ~r.ok => ~ok(j) /\ \A i \in 1..Len(s) : ~ok(i) => j <= i
<1> DEFINE r == RctTestBlock(t, s)
           ok(i) == RctTestBlock(t, SubSeq(s, 1, i)).ok
<1>1. Len(s) \in Nat /\ Len(s) > 0 /\ Len(s) \in 0..Len(s)
      /\ \A i \in 1..Len(s) : s[i] \in Nat /\ u[n + i] = s[i]
  OBVIOUS
<1>2. PICK f : /\ RctRun(f, t, s)
               /\ r = f[Len(s)]
               /\ \A i \in 1..Len(s) : RctTestBlock(t, SubSeq(s, 1, i)) = f[i]
  <2>1. Len(s) \in Nat
    OBVIOUS
  <2> QED BY <2>1, RctPrefixes, SMTT(40)
<1>3. \A i \in 1..Len(s) : ok(i) <=> f[i].ok
  BY <1>2
<1> HIDE DEF r, ok
<1>4. \A i \in 0..Len(s) :
        /\ f[i].ok => \A j \in 0..i : f[j].ok
        /\ ~f[i].ok => \A j \in i..Len(s) : f[j] = f[i]
  <2>1. RctRun(f, t, s)
    BY <1>2
  <2>2. Len(s) \in Nat
    OBVIOUS
  <2>3. StopsAtFailure(f, s)
    BY <2>1, <2>2, RctStopsAtFailure, Zenon
  <2> QED BY <2>3, Zenon DEF StopsAtFailure
<1>5. \A i \in 0..Len(s) :
        /\ f[i].st \in RctState /\ f[i].st.cutoff = t.cutoff
        /\ i > 0 /\ f[i - 1].ok =>
             RctVerdict(f[i].st, f[i].ok, u, n + i, RctSawOnly(t, u, n))
  <2>1. RctRun(f, t, s)
    BY <1>2
  <2> QED BY <1>1, <2>1, RctBlock
<1>6. CASE r.ok
  <2>1. \A i \in 0..Len(s) : f[i].ok
    BY <1>1, <1>2, <1>4, <1>6
  <2>2. Len(s) - 1 \in 0..Len(s) /\ Len(s) \in 1..Len(s)
    BY <1>1
  <2>3. RctVerdict(r.st, r.ok, u, n + Len(s), RctSawOnly(t, u, n))
        /\ r.st.cutoff = t.cutoff
    BY <1>1, <1>2, <1>5, <2>1, <2>2
  <2>4. \A i \in 1..Len(s) : ok(i)
    <3>1. \A i \in 1..Len(s) : i \in 0..Len(s)
      OBVIOUS
    <3> QED BY <1>3, <2>1, <3>1, Zenon
  <2> QED BY <1>6, <2>2, <2>3, <2>4 DEF r, ok
<1>7. CASE ~r.ok
  <2> DEFINE T == {i \in 1..Len(s) : ~f[i].ok}
  <2>1. T \subseteq Nat /\ T # {}
    <3>1. Len(s) \in 1..Len(s)
      BY <1>1
    <3>2. ~f[Len(s)].ok
      BY <1>2, <1>7
    <3> QED BY <3>1, <3>2
  <2>2. PICK j \in T : \A i \in T : j <= i
    <3> HIDE DEF T
    <3> QED BY <2>1, LeastElement
  <2>3. j \in 1..Len(s) /\ ~f[j].ok /\ j - 1 \in 0..Len(s) /\ j \in 0..Len(s)
        /\ j > 0 /\ Len(s) \in j..Len(s)
    BY <1>1, <2>2
  <2>4. f[j - 1].ok
    <3>1. CASE j = 1
      BY <1>2, <3>1 DEF RctRun
    <3>2. CASE j # 1
      BY <2>2, <2>3, <3>2
    <3> QED BY <3>1, <3>2
  <2>5. r = f[j]
    BY <1>2, <1>4, <2>3
  <2>6. RctVerdict(r.st, r.ok, u, n + j, RctSawOnly(t, u, n))
        /\ r.st.cutoff = t.cutoff
    BY <1>5, <2>3, <2>4, <2>5
  <2>7. ~ok(j) /\ \A i \in 1..Len(s) : ~ok(i) => j <= i
    BY <1>3, <2>2, <2>3
  <2> QED BY <1>7, <2>3, <2>6, <2>7 DEF r, ok
<1> QED BY <1>6, <1>7

\* The same of the adaptive proportion test.
LEMMA AptJudged ==
  ASSUME NEW t, NEW u, NEW n \in Nat, NEW w, AptSaw(t, u, n, w),
         NEW s \in Seq(Nat), s # <<>>,
         \A i \in 1..Len(s) : u[n + i] = s[i]
  PROVE  LET r == AptTestBlock(t, s)
             ok(i) == AptTestBlock(t, SubSeq(s, 1, i)).ok IN
         \E j \in 1..Len(s) :
           /\ r.st.cutoff = t.cutoff /\ r.st.windowSize = t.windowSize
           /\ \E v : AptVerdict(r.st, r.ok, u, n + j, v)
           /\ r.ok => j = Len(s) /\ \A i \in 1..Len(s) : ok(i)
           /\ ~r.ok => ~ok(j) /\ \A i \in 1..Len(s) : ~ok(i) => j <= i
<1> DEFINE r == AptTestBlock(t, s)
           ok(i) == AptTestBlock(t, SubSeq(s, 1, i)).ok
<1>1. Len(s) \in Nat /\ Len(s) > 0 /\ Len(s) \in 0..Len(s)
      /\ \A i \in 1..Len(s) : s[i] \in Nat /\ u[n + i] = s[i]
  OBVIOUS
<1>2. PICK f : /\ AptRun(f, t, s)
               /\ r = f[Len(s)]
               /\ \A i \in 1..Len(s) : AptTestBlock(t, SubSeq(s, 1, i)) = f[i]
  <2>1. Len(s) \in Nat
    OBVIOUS
  <2> QED BY <2>1, AptPrefixes, SMTT(40)
<1>3. \A i \in 1..Len(s) : ok(i) <=> f[i].ok
  BY <1>2
<1> HIDE DEF r, ok
<1>4. \A i \in 0..Len(s) :
        /\ f[i].ok => \A j \in 0..i : f[j].ok
        /\ ~f[i].ok => \A j \in i..Len(s) : f[j] = f[i]
  <2>1. AptRun(f, t, s)
    BY <1>2
  <2>2. Len(s) \in Nat
    OBVIOUS
  <2>3. StopsAtFailure(f, s)
    BY <2>1, <2>2, AptStopsAtFailure, Zenon
  <2> QED BY <2>3, Zenon DEF StopsAtFailure
<1>5. \A i \in 0..Len(s) :
        /\ f[i].st \in AptState
        /\ f[i].st.cutoff = t.cutoff /\ f[i].st.windowSize = t.windowSize
        /\ i > 0 /\ f[i - 1].ok =>
             \E v : AptVerdict(f[i].st, f[i].ok, u, n + i, v)
        /\ f[i].ok =>
             \E v : /\ AptSaw(f[i].st, u, n + i, v)
                    /\ WindowsPass(u, t.windowSize, t.cutoff, w) =>
                         WindowsPass(u, t.windowSize, t.cutoff, v)
  <2>1. AptRun(f, t, s)
    BY <1>2
  <2> QED BY <1>1, <2>1, AptBlock
<1>6. CASE r.ok
  <2>1. \A i \in 0..Len(s) : f[i].ok
    BY <1>1, <1>2, <1>4, <1>6
  <2>2. Len(s) - 1 \in 0..Len(s) /\ Len(s) \in 1..Len(s)
    BY <1>1
  <2>3. /\ \E v : AptVerdict(r.st, r.ok, u, n + Len(s), v)
        /\ r.st.cutoff = t.cutoff /\ r.st.windowSize = t.windowSize
    BY <1>1, <1>2, <1>5, <2>1, <2>2
  <2>4. \A i \in 1..Len(s) : ok(i)
    <3>1. \A i \in 1..Len(s) : i \in 0..Len(s)
      OBVIOUS
    <3> QED BY <1>3, <2>1, <3>1, Zenon
  <2> QED BY <1>6, <2>2, <2>3, <2>4 DEF r, ok
<1>7. CASE ~r.ok
  <2> DEFINE T == {i \in 1..Len(s) : ~f[i].ok}
  <2>1. T \subseteq Nat /\ T # {}
    <3>1. Len(s) \in 1..Len(s)
      BY <1>1
    <3>2. ~f[Len(s)].ok
      BY <1>2, <1>7
    <3> QED BY <3>1, <3>2
  <2>2. PICK j \in T : \A i \in T : j <= i
    <3> HIDE DEF T
    <3> QED BY <2>1, LeastElement
  <2>3. j \in 1..Len(s) /\ ~f[j].ok /\ j - 1 \in 0..Len(s) /\ j \in 0..Len(s)
        /\ j > 0 /\ Len(s) \in j..Len(s)
    BY <1>1, <2>2
  <2>4. f[j - 1].ok
    <3>1. CASE j = 1
      BY <1>2, <3>1 DEF AptRun
    <3>2. CASE j # 1
      BY <2>2, <2>3, <3>2
    <3> QED BY <3>1, <3>2
  <2>5. r = f[j]
    BY <1>2, <1>4, <2>3
  <2>6. /\ \E v : AptVerdict(r.st, r.ok, u, n + j, v)
        /\ r.st.cutoff = t.cutoff /\ r.st.windowSize = t.windowSize
    BY <1>5, <2>3, <2>4, <2>5
  <2>7. ~ok(j) /\ \A i \in 1..Len(s) : ~ok(i) => j <= i
    BY <1>3, <2>2, <2>3
  <2> QED BY <1>7, <2>3, <2>6, <2>7 DEF r, ok
<1> QED BY <1>6, <1>7

\* The state after a block; when the block passes, the test has seen it too
\* and no run of cutoff samples ends in it.
LEMMA RctBlockResult ==
  ASSUME NEW t, NEW u, NEW n \in Nat, RctSaw(t, u, n),
         NEW s \in Seq(Nat),
         \A i \in 1..Len(s) : u[n + i] = s[i]
  PROVE  LET r == RctTestBlock(t, s) IN
         /\ r.st \in RctState /\ r.st.cutoff = t.cutoff
         /\ r.ok =>
              /\ RctSaw(r.st, u, n + Len(s))
              /\ RctSawOnly(t, u, n) => RctSawOnly(r.st, u, n + Len(s))
              /\ t.cutoff >= 2 =>
                   \A m \in (n + 1)..(n + Len(s)), a \in 1..(n + Len(s)) :
                     a <= m /\ EqualFrom(u, a, m) => m - a + 1 < t.cutoff
<1> DEFINE r == RctTestBlock(t, s)
<1>1. Len(s) \in Nat
      /\ \A i \in 1..Len(s) : s[i] \in Nat /\ u[n + i] = s[i]
  OBVIOUS
<1>2. PICK f : RctRun(f, t, s) /\ r = f[Len(s)]
  BY <1>1, RctRunExists
<1> HIDE DEF r
<1>3. \A i \in 0..Len(s) : f[i].ok => \A j \in 0..i : f[j].ok
  <2>1. StopsAtFailure(f, s)
    BY <1>1, <1>2, RctStopsAtFailure
  <2> QED BY <2>1 DEF StopsAtFailure
<1>4. \A i \in 0..Len(s) :
        /\ f[i].st \in RctState /\ f[i].st.cutoff = t.cutoff
        /\ i > 0 /\ f[i - 1].ok =>
             RctVerdict(f[i].st, f[i].ok, u, n + i, RctSawOnly(t, u, n))
  BY <1>1, <1>2, RctBlock
<1>5. r.st \in RctState /\ r.st.cutoff = t.cutoff
  BY <1>1, <1>2, <1>4
<1>6. ASSUME r.ok, NEW i \in 1..Len(s)
      PROVE  RctVerdict(f[i].st, TRUE, u, n + i, RctSawOnly(t, u, n))
             /\ f[i].st.cutoff = t.cutoff
  <2>1. i \in 0..Len(s) /\ i - 1 \in 0..Len(s) /\ i > 0 /\ Len(s) \in 0..Len(s)
    BY <1>1
  <2>2. f[i].ok /\ f[i - 1].ok
    BY <1>1, <1>2, <1>3, <1>6, <2>1
  <2>3. RctVerdict(f[i].st, f[i].ok, u, n + i, RctSawOnly(t, u, n))
    BY <1>4, <2>1, <2>2
  <2> QED BY <1>4, <2>1, <2>2, <2>3 DEF RctVerdict
<1>7. ASSUME r.ok
      PROVE  /\ RctSaw(r.st, u, n + Len(s))
             /\ RctSawOnly(t, u, n) => RctSawOnly(r.st, u, n + Len(s))
  <2>1. CASE Len(s) = 0
    <3>1. r.st = t /\ n + Len(s) = n
      BY <1>2, <2>1 DEF RctRun
    <3> QED BY <3>1
  <2>2. CASE Len(s) \in 1..Len(s)
    BY <1>2, <1>6, <1>7, <2>2 DEF RctVerdict
  <2> QED BY <1>1, <2>1, <2>2
<1>8. ASSUME r.ok, t.cutoff >= 2,
             NEW m \in (n + 1)..(n + Len(s)), NEW a \in 1..(n + Len(s)),
             a <= m, EqualFrom(u, a, m)
      PROVE  m - a + 1 < t.cutoff
  <2>1. m - n \in 1..Len(s) /\ n + (m - n) = m /\ a \in 1..m
    BY <1>1, <1>8
  <2> QED BY <1>6, <1>8, <2>1 DEF RctVerdict
<1> QED BY <1>5, <1>7, <1>8 DEF r

LEMMA AptBlockResult ==
  ASSUME NEW t, NEW u, NEW n \in Nat, NEW w, AptSaw(t, u, n, w),
         NEW s \in Seq(Nat),
         \A i \in 1..Len(s) : u[n + i] = s[i]
  PROVE  LET r == AptTestBlock(t, s) IN
         /\ r.st \in AptState
         /\ r.st.cutoff = t.cutoff /\ r.st.windowSize = t.windowSize
         /\ r.ok =>
              \E v : /\ AptSaw(r.st, u, n + Len(s), v)
                     /\ WindowsPass(u, t.windowSize, t.cutoff, w) =>
                          WindowsPass(u, t.windowSize, t.cutoff, v)
<1> DEFINE r == AptTestBlock(t, s)
<1>1. Len(s) \in Nat /\ Len(s) \in 0..Len(s)
      /\ \A i \in 1..Len(s) : s[i] \in Nat /\ u[n + i] = s[i]
  OBVIOUS
<1>2. PICK f : AptRun(f, t, s) /\ r = f[Len(s)]
  BY <1>1, AptRunExists
<1> HIDE DEF r
<1>3. \A i \in 0..Len(s) :
        /\ f[i].st \in AptState
        /\ f[i].st.cutoff = t.cutoff /\ f[i].st.windowSize = t.windowSize
        /\ i > 0 /\ f[i - 1].ok =>
             \E v : AptVerdict(f[i].st, f[i].ok, u, n + i, v)
        /\ f[i].ok =>
             \E v : /\ AptSaw(f[i].st, u, n + i, v)
                    /\ WindowsPass(u, t.windowSize, t.cutoff, w) =>
                         WindowsPass(u, t.windowSize, t.cutoff, v)
  BY <1>1, <1>2, AptBlock
<1> QED BY <1>1, <1>2, <1>3 DEF r

=============================================================================
