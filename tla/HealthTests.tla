---------------------------- MODULE HealthTests ----------------------------
(***************************************************************************)
(* The continuous health tests of internal/validation/                     *)
(* continuous_health_tests.go, NIST SP 800-90B sections 4.4.1 and 4.4.2.   *)
(* A test is a record of its fields; feeding it a sample gives its next    *)
(* state and the verdict, as a record [st, ok].                            *)
(***************************************************************************)
EXTENDS Integers, Sequences

-----------------------------------------------------------------------------
(* Repetition count test *)

NewRepetitionCountTest(cutoff) ==
  [cutoff |-> IF cutoff <= 0 THEN 40 ELSE cutoff,
   lastSample |-> 0, repeatCount |-> 0, initialized |-> FALSE]

\* Mutant: the cutoff is only noticed one repetition late.
RctReachedLate(t) == t.repeatCount > t.cutoff
RctReached(t) == t.repeatCount >= t.cutoff

\* Mutant: a different sample resets the count but is not remembered.
RctObserveForgets(t, sample) ==
  IF ~t.initialized
    THEN [t EXCEPT !.lastSample = sample, !.repeatCount = 1,
                   !.initialized = TRUE]
  ELSE IF sample = t.lastSample
    THEN [t EXCEPT !.repeatCount = @ + 1]
  ELSE [t EXCEPT !.repeatCount = 1]
RctObserve(t, sample) ==
  IF ~t.initialized
    THEN [t EXCEPT !.lastSample = sample, !.repeatCount = 1,
                   !.initialized = TRUE]
  ELSE IF sample = t.lastSample
    THEN [t EXCEPT !.repeatCount = @ + 1]
  ELSE [t EXCEPT !.lastSample = sample, !.repeatCount = 1]

\* Only the branch for a repeated sample looks at the cutoff.
RctTest(t, sample) ==
  LET u == RctObserve(t, sample) IN
  [st |-> u,
   ok |-> ~(t.initialized /\ sample = t.lastSample /\ RctReached(u))]

RctReset(t) ==
  [t EXCEPT !.lastSample = 0, !.repeatCount = 0, !.initialized = FALSE]

-----------------------------------------------------------------------------
(* Adaptive proportion test *)

NewAdaptiveProportionTest(cutoff, windowSize) ==
  [cutoff |-> IF cutoff <= 0 THEN 605 ELSE cutoff,
   windowSize |-> IF windowSize <= 0 THEN 4096 ELSE windowSize,
   firstSample |-> 0, matchCount |-> 0, sampleCount |-> 0]

AptObserve(t, sample) ==
  IF t.sampleCount = 0
    THEN [t EXCEPT !.firstSample = sample, !.matchCount = 1,
                   !.sampleCount = 1]
  ELSE IF sample = t.firstSample
    THEN [t EXCEPT !.matchCount = @ + 1, !.sampleCount = @ + 1]
  ELSE [t EXCEPT !.sampleCount = @ + 1]

\* Mutant: the window is one sample too long.
AptWindowLate(t) == t.sampleCount > t.windowSize
AptWindowComplete(t) == t.sampleCount >= t.windowSize

\* A complete window gives the verdict and restarts the test.
AptTest(t, sample) ==
  LET u == AptObserve(t, sample) IN
  IF AptWindowComplete(u)
    THEN [st |-> [u EXCEPT !.sampleCount = 0, !.matchCount = 0],
          ok |-> u.matchCount < u.cutoff]
    ELSE [st |-> u, ok |-> TRUE]

AptReset(t) ==
  [t EXCEPT !.firstSample = 0, !.matchCount = 0, !.sampleCount = 0]

-----------------------------------------------------------------------------
(* TestBlock: feed the samples one by one, stop at the first failure.       *)

RctTestBlock(t, samples) ==
  LET after[i \in 0..Len(samples)] ==
        IF i = 0 THEN [st |-> t, ok |-> TRUE]
        ELSE IF ~after[i - 1].ok THEN after[i - 1]
        ELSE RctTest(after[i - 1].st, samples[i])
  IN  after[Len(samples)]

AptTestBlock(t, samples) ==
  LET after[i \in 0..Len(samples)] ==
        IF i = 0 THEN [st |-> t, ok |-> TRUE]
        ELSE IF ~after[i - 1].ok THEN after[i - 1]
        ELSE AptTest(after[i - 1].st, samples[i])
  IN  after[Len(samples)]

-----------------------------------------------------------------------------
(* What the tests should decide, said of a stream of samples rather than    *)
(* of the test's state.                                                     *)

\* Samples i..i+len-1 of s are equal.
IsRun(s, i, len) == \A k \in i..(i + len - 1) : s[k] = s[i]

\* s contains len equal consecutive samples.
HasRun(s, len) == \E i \in 1..(Len(s) - len + 1) : IsRun(s, i, len)

\* Occurrences of the first sample of the w-th complete window of s.
WindowMatches(s, size, w) ==
  LET first == size * (w - 1) + 1 IN
  {k \in first..(first + size - 1) : s[k] = s[first]}
=============================================================================
