----------------------------- MODULE Whitening -----------------------------
(***************************************************************************)
(* The conditioning of internal/entropy/whitening.go, from timestamps to   *)
(* the input of SHA-256.  SHA-256 itself is external: it gives DigestBytes *)
(* bytes for an input that is not empty.  Words and bit counters have      *)
(* their width as a parameter, so that their limits are reached.           *)
(***************************************************************************)
EXTENDS Integers, Sequences, FiniteSets

CONSTANTS
  WordBytes,    \* bytes of a timestamp (8)
  CountWidth,   \* bits of a bit counter (32)
  DigestBytes   \* sha256.Size (32)

ASSUME WhiteningAssumption ==
  /\ WordBytes \in Nat \ {0, 1}   \* the fold of one byte is empty
  /\ CountWidth \in Nat \ {0} /\ DigestBytes \in Nat \ {0}

Bit(b, i) == (b \div 2^i) % 2

\* A byte from its bits, bits[i] being worth 2^i.
ByteOf(bits) ==
  LET sum[i \in -1..7] == IF i = -1 THEN 0 ELSE sum[i - 1] + bits[i] * 2^i
  IN  sum[7]

Xor(a, b) == ByteOf([i \in 0..7 |-> (Bit(a, i) + Bit(b, i)) % 2])

\* binary.LittleEndian.PutUint64
PutUint64(ts) == [i \in 1..WordBytes |-> (ts \div 2^(8 * (i - 1))) % 256]

\* AddBatch: the events' timestamps, one after the other.
RawBytes(events) ==
  LET raw[i \in 0..Len(events)] ==
        IF i = 0 THEN <<>> ELSE raw[i - 1] \o PutUint64(events[i])
  IN  raw[Len(events)]

\* Mutant: every byte is folded with the last one of the output.
ParityChained(input) ==
  LET out[i \in 1..Len(input)] ==
        IF i = 1 THEN input[1] ELSE Xor(out[i - 1], input[i])
  IN  IF Len(input) < 2 THEN <<>> ELSE [i \in 1..(Len(input) - 1) |-> out[i + 1]]
ParityPreprocess(input) ==
  IF Len(input) < 2 THEN <<>>
  ELSE [i \in 1..(Len(input) - 1) |-> Xor(input[i], input[i + 1])]

\* External, by its size alone.
SHA256Size(input) == IF input = <<>> THEN 0 ELSE DigestBytes

\* The number of bytes DualStageWhitening returns.
DualStageWhiteningSize(raw) == SHA256Size(ParityPreprocess(raw))

\* Bits into bytes, the most significant first, padded with zeros.
packBits(bits) ==
  [j \in 1..((Len(bits) + 7) \div 8) |->
     ByteOf([i \in 0..7 |-> LET k == 8 * (j - 1) + 8 - i IN
                            IF k <= Len(bits) THEN bits[k] ELSE 0])]

\* The bit pairs of a byte, first the two most significant bits; a pair of
\* different bits yields its first one.
VonNeumannExtractor(input) ==
  LET pair(n) == [b |-> input[(n - 1) \div 4 + 1], i |-> 7 - 2 * ((n - 1) % 4)]
      out[n \in 0..(4 * Len(input))] ==
        IF n = 0 THEN <<>>
        ELSE LET p == pair(n) IN
             out[n - 1] \o IF Bit(p.b, p.i) = Bit(p.b, p.i - 1) THEN <<>>
                           ELSE <<Bit(p.b, p.i)>>
  IN  packBits(out[4 * Len(input)])

MaxUint == 2^CountWidth - 1

toBitCount(bytes) ==
  IF bytes <= 0 THEN 0
  ELSE IF bytes >= MaxUint \div 8 THEN MaxUint
  ELSE (bytes * 8) % 2^CountWidth

\* [input, output, rate]; the rate is a fraction.
ComputeWhiteningStats(inputBytes, outputBytes) ==
  IF inputBytes = 0 THEN [input |-> 0, output |-> 0, rate |-> <<0, 1>>]
  ELSE LET in == toBitCount(inputBytes)
           out == toBitCount(outputBytes)
       IN [input |-> in, output |-> out,
           rate |-> IF in > 0 THEN <<out, in>> ELSE <<0, 1>>]
=============================================================================
