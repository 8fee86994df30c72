------------------------ MODULE WhitenedPool_proofs ------------------------
(***************************************************************************)
(* Proofs about the whitened pool, for every bound, digest size, request,  *)
(* cutoff and window: its storage, whatever the health tests decide, and   *)
(* what the tests guarantee of the bytes it releases.                      *)
(***************************************************************************)
EXTENDS WhitenedPool, HealthTests_proofs, SequenceTheorems, TLAPS

\* Whatever the arguments of the constructor, the pool's bounds are usable.
LEMMA BoundsNormalised == MinPool \in Nat \ {0} /\ MaxPool \in Nat /\ MaxPool >= MinPool
<1>1. MinPool \in Nat \ {0}
  BY PoolAssumption DEF MinPool
<1>2. MinPool * Multiplier \in Nat
  BY <1>1, PoolAssumption
<1> QED BY <1>1, <1>2, PoolAssumption DEF MaxPool

\* Trimming keeps a suffix no longer than the bound.
LEMMA TrimProperties ==
  ASSUME NEW S, NEW s \in Seq(S), NEW max \in Nat
  PROVE  /\ Trim(s, max) \in Seq(S)
         /\ Len(Trim(s, max)) <= max
         /\ Len(Trim(s, max)) <= Len(s)
         /\ \A i \in 1..Len(Trim(s, max)) :
              Trim(s, max)[i] = s[Len(s) - Len(Trim(s, max)) + i]
<1>1. CASE Len(s) > max
  <2> DEFINE t == SubSeq(s, Len(s) - max + 1, Len(s))
  <2>1. Trim(s, max) = t /\ Len(s) \in Nat
    BY <1>1 DEF Trim
  <2>2. /\ t \in Seq(S)
        /\ Len(t) = IF Len(s) - max + 1 <= Len(s)
                      THEN Len(s) - (Len(s) - max + 1) + 1 ELSE 0
        /\ \A i \in 1..(Len(s) - (Len(s) - max + 1) + 1) :
             t[i] = s[(Len(s) - max + 1) + i - 1]
    <3>1. /\ Len(s) - max + 1 \in Int /\ Len(s) \in Int
          /\ \A i \in (Len(s) - max + 1)..Len(s) : s[i] \in S
      BY <1>1, ElementOfSeq
    <3> QED BY <3>1, SubSeqProperties
  <2> HIDE DEF t
  <2>3. Len(t) = max
    BY <1>1, <2>1, <2>2
  <2>4. \A i \in 1..Len(t) : t[i] = s[Len(s) - Len(t) + i]
    BY <1>1, <2>1, <2>2, <2>3
  <2> QED BY <1>1, <2>1, <2>2, <2>3, <2>4
<1>2. CASE ~(Len(s) > max)
  <2>1. Trim(s, max) = s /\ Len(s) \in Nat
    BY <1>2 DEF Trim
  <2> QED BY <1>2, <2>1
<1> QED BY <1>1, <1>2

StorageInv == StorageType /\ NoByteReused /\ RawHistoryNewest

\* AddBatch appends newer bytes and events and drops the oldest ones.
LEMMA AddBatchStorage ==
  ASSUME StorageInv, NEW n \in BatchSizes, AddBatch(n)
  PROVE  StorageInv'
<1>1. /\ rawEvents \in Seq(Nat) /\ whitened \in Seq(StoredByte)
      /\ released \in Seq(StoredByte) /\ rawTotal \in Nat /\ produced \in Nat
      /\ Len(whitened) \in Nat /\ Len(rawEvents) \in Nat
  BY DEF StorageInv, StorageType
<1>2. n \in Nat \ {0} /\ DigestSize \in Nat \ {0} /\ MaxRawEvents \in Nat
  BY PoolAssumption DEF AddBatch
<1>3. /\ rawTotal' = rawTotal + n /\ rawTotal' \in Nat
      /\ produced' = produced + DigestSize /\ produced' \in Nat
      /\ released' = released
  BY <1>1, <1>2 DEF AddBatch
<1>4. /\ rawEvents' \in Seq(Nat) /\ Len(rawEvents') <= MaxRawEvents
      /\ RawHistoryNewest'
  <2> DEFINE new == [i \in 1..n |-> rawTotal + i]
             all == rawEvents \o new
  <2>1. new \in Seq(Nat) /\ Len(new) = n /\ \A i \in 1..n : new[i] = rawTotal + i
    BY <1>1, <1>2
  <2> HIDE DEF new
  <2>2. /\ all \in Seq(Nat) /\ Len(all) = Len(rawEvents) + n
        /\ \A i \in 1..(Len(rawEvents) + n) : all[i] =
             IF i <= Len(rawEvents) THEN rawEvents[i]
             ELSE new[i - Len(rawEvents)]
    BY <1>1, <2>1, ConcatProperties
  <2> HIDE DEF all
  <2>3. \A i \in 1..Len(all) : all[i] = rawTotal' - Len(all) + i
    <3> SUFFICES ASSUME NEW i \in 1..Len(all)
                 PROVE  all[i] = rawTotal' - Len(all) + i
      OBVIOUS
    <3>1. CASE i <= Len(rawEvents)
      <4>1. i \in 1..Len(rawEvents) /\ all[i] = rawEvents[i]
        BY <1>1, <1>2, <2>2, <3>1
      <4>2. rawEvents[i] = rawTotal - Len(rawEvents) + i
        BY <4>1 DEF StorageInv, RawHistoryNewest
      <4> QED BY <1>1, <1>2, <1>3, <2>2, <4>1, <4>2
    <3>2. CASE i > Len(rawEvents)
      <4>1. i - Len(rawEvents) \in 1..n /\ all[i] = new[i - Len(rawEvents)]
        BY <1>1, <1>2, <2>2, <3>2
      <4>2. new[i - Len(rawEvents)] = rawTotal + (i - Len(rawEvents))
        BY <2>1, <4>1
      <4> QED BY <1>1, <1>2, <1>3, <2>2, <4>1, <4>2
    <3> QED BY <1>1, <2>2, <3>1, <3>2
  <2>4. rawEvents' = Trim(all, MaxRawEvents)
    BY DEF AddBatch, all, new
  <2>5. /\ rawEvents' \in Seq(Nat) /\ Len(rawEvents') <= MaxRawEvents
        /\ Len(rawEvents') <= Len(all) /\ Len(rawEvents') \in Nat
        /\ \A i \in 1..Len(rawEvents') :
             rawEvents'[i] = all[Len(all) - Len(rawEvents') + i]
    <3>1. /\ Trim(all, MaxRawEvents) \in Seq(Nat)
          /\ Len(Trim(all, MaxRawEvents)) <= MaxRawEvents
          /\ Len(Trim(all, MaxRawEvents)) <= Len(all)
          /\ \A i \in 1..Len(Trim(all, MaxRawEvents)) :
               Trim(all, MaxRawEvents)[i]
                 = all[Len(all) - Len(Trim(all, MaxRawEvents)) + i]
      BY <1>2, <2>2, TrimProperties, ZenonT(40)
    <3>2. Len(rawEvents') \in Nat
      BY <2>4, <3>1, LenProperties
    <3> QED BY <2>4, <3>1, <3>2
  <2>6. \A i \in 1..Len(rawEvents') :
          rawEvents'[i] = rawTotal' - Len(rawEvents') + i
    <3> SUFFICES ASSUME NEW i \in 1..Len(rawEvents')
                 PROVE  rawEvents'[i] = rawTotal' - Len(rawEvents') + i
      OBVIOUS
    <3>1. /\ Len(all) \in Nat
          /\ Len(all) - Len(rawEvents') + i \in 1..Len(all)
      BY <1>1, <1>2, <2>2, <2>5
    <3>2. rawEvents'[i] = rawTotal' - Len(all)
                            + (Len(all) - Len(rawEvents') + i)
      BY <2>3, <2>5, <3>1
    <3> QED BY <1>3, <2>5, <3>1, <3>2
  <2> QED BY <2>5, <2>6 DEF RawHistoryNewest
<1>5. PICK values \in [1..DigestSize -> Byte] :
        whitened' = Trim(whitened \o Digest(values), MaxPool)
  BY DEF AddBatch
<1> DEFINE new == Digest(values)
           all == whitened \o new
<1>6. /\ new \in Seq(StoredByte) /\ Len(new) = DigestSize
      /\ \A i \in 1..DigestSize : new[i].id = produced + i
  BY <1>1, <1>2 DEF Digest, StoredByte
<1> HIDE DEF new
<1>7. /\ all \in Seq(StoredByte) /\ Len(all) = Len(whitened) + DigestSize
      /\ \A i \in 1..(Len(whitened) + DigestSize) : all[i] =
           IF i <= Len(whitened) THEN whitened[i]
           ELSE new[i - Len(whitened)]
  BY <1>1, <1>6, ConcatProperties
<1> HIDE DEF all
<1>8. \A i \in 1..Len(all) : all[i].id = produced' - Len(all) + i
  <2> SUFFICES ASSUME NEW i \in 1..Len(all)
               PROVE  all[i].id = produced' - Len(all) + i
    OBVIOUS
  <2>1. CASE i <= Len(whitened)
    <3>1. i \in 1..Len(whitened) /\ all[i] = whitened[i]
      BY <1>1, <1>2, <1>7, <2>1
    <3>2. whitened[i].id = produced - Len(whitened) + i
      BY <3>1 DEF StorageInv, NoByteReused
    <3>3. all[i].id = produced - Len(whitened) + i
      BY <3>1, <3>2
    <3> QED BY <1>1, <1>2, <1>3, <1>7, <3>1, <3>3
  <2>2. CASE i > Len(whitened)
    <3>1. i - Len(whitened) \in 1..DigestSize /\ all[i] = new[i - Len(whitened)]
      BY <1>1, <1>2, <1>7, <2>2
    <3>2. all[i].id = produced + (i - Len(whitened))
      BY <1>6, <3>1
    <3> QED BY <1>1, <1>2, <1>3, <1>7, <3>1, <3>2
  <2> QED BY <1>1, <1>7, <2>1, <2>2
<1>9. /\ whitened' \in Seq(StoredByte) /\ Len(whitened') <= MaxPool
      /\ Len(whitened') <= Len(all) /\ Len(whitened') \in Nat
      /\ \A i \in 1..Len(whitened') :
           whitened'[i] = all[Len(all) - Len(whitened') + i]
  <2>1. whitened' = Trim(all, MaxPool)
    BY <1>5 DEF all, new
  <2>2. /\ Trim(all, MaxPool) \in Seq(StoredByte)
        /\ Len(Trim(all, MaxPool)) <= MaxPool
        /\ Len(Trim(all, MaxPool)) <= Len(all)
        /\ \A i \in 1..Len(Trim(all, MaxPool)) :
             Trim(all, MaxPool)[i]
               = all[Len(all) - Len(Trim(all, MaxPool)) + i]
    BY <1>7, BoundsNormalised, TrimProperties
  <2>3. Len(whitened') \in Nat
    BY <2>1, <2>2, LenProperties
  <2> QED BY <2>1, <2>2, <2>3
<1>10. \A i \in 1..Len(whitened') :
         whitened'[i].id = produced' - Len(whitened') + i
  <2> SUFFICES ASSUME NEW i \in 1..Len(whitened')
               PROVE  whitened'[i].id = produced' - Len(whitened') + i
    OBVIOUS
  <2>1. /\ Len(all) \in Nat
        /\ Len(all) - Len(whitened') + i \in 1..Len(all)
    BY <1>1, <1>2, <1>7, <1>9
  <2>2. whitened'[i].id = produced' - Len(all)
                            + (Len(all) - Len(whitened') + i)
    BY <1>8, <1>9, <2>1
  <2> QED BY <1>3, <1>9, <2>1, <2>2
<1>11. \A i \in 1..Len(released') :
         released'[i].id <= produced' - Len(whitened')
  <2>1. produced - Len(whitened) <= produced' - Len(whitened')
    BY <1>1, <1>2, <1>3, <1>7, <1>9
  <2>2. \A i \in 1..Len(released) : released[i].id \in Nat
    <3> SUFFICES ASSUME NEW i \in 1..Len(released)
                 PROVE  released[i].id \in Nat
      OBVIOUS
    <3>1. released[i] \in StoredByte
      BY <1>1, ElementOfSeq
    <3> QED BY <3>1 DEF StoredByte
  <2> QED BY <1>1, <1>2, <1>3, <1>9, <2>1, <2>2, SMTT(30) DEF StorageInv, NoByteReused
<1>12. NoByteReused'
  BY <1>3, <1>10, <1>11 DEF StorageInv, NoByteReused
<1> QED BY <1>1, <1>3, <1>4, <1>9, <1>12 DEF StorageInv, StorageType

\* A successful extraction moves a prefix of the pool to the released bytes.
LEMMA ExtractOkStorage ==
  ASSUME StorageInv, NEW n \in Requests, ExtractOk(n)
  PROVE  StorageInv'
<1>1. /\ whitened \in Seq(StoredByte) /\ released \in Seq(StoredByte)
      /\ produced \in Nat /\ Len(whitened) \in Nat /\ Len(released) \in Nat
      /\ Len(whitened) <= MaxPool
  BY DEF StorageInv, StorageType
<1>2. n \in 1..Len(whitened)
  BY <1>1, PoolAssumption DEF ExtractOk, Extractable
<1>3. /\ released' = released \o Output(n) /\ whitened' = Remaining(n)
      /\ UNCHANGED <<rawEvents, rawTotal, produced>>
  BY DEF ExtractOk
<1>4. \A i \in 1..Len(whitened) : whitened[i] \in StoredByte
  BY <1>1, ElementOfSeq
<1> DEFINE out == Output(n)
<1>5. /\ out \in Seq(StoredByte) /\ Len(out) = n
      /\ \A i \in 1..n : out[i] = whitened[i]
  BY <1>1, <1>2, <1>4, SubSeqProperties DEF Output
<1> HIDE DEF out
<1>6. /\ whitened' \in Seq(StoredByte) /\ Len(whitened') = Len(whitened) - n
      /\ \A i \in 1..(Len(whitened) - n) : whitened'[i] = whitened[n + i]
  <2>1. n + 1 \in Int /\ Len(whitened) \in Int
        /\ \A i \in (n + 1)..Len(whitened) : whitened[i] \in StoredByte
    BY <1>1, <1>2, <1>4
  <2> DEFINE rest == SubSeq(whitened, n + 1, Len(whitened))
  <2>2. /\ rest \in Seq(StoredByte)
        /\ Len(rest) = IF n + 1 <= Len(whitened)
                         THEN Len(whitened) - (n + 1) + 1 ELSE 0
        /\ \A i \in 1..(Len(whitened) - (n + 1) + 1) :
             rest[i] = whitened[(n + 1) + i - 1]
    BY <2>1, SubSeqProperties
  <2>3. whitened' = rest
    BY <1>3 DEF Remaining
  <2> HIDE DEF rest
  <2>4. Len(rest) = Len(whitened) - n
    BY <1>1, <1>2, <2>2
  <2>5. \A i \in 1..(Len(whitened) - n) : rest[i] = whitened[n + i]
    BY <1>1, <1>2, <2>2
  <2> QED BY <2>2, <2>3, <2>4, <2>5
<1>7. /\ released' \in Seq(StoredByte) /\ Len(released') = Len(released) + n
      /\ \A i \in 1..(Len(released) + n) : released'[i] =
           IF i <= Len(released) THEN released[i]
           ELSE out[i - Len(released)]
  <2>1. released' = released \o out
    BY <1>3 DEF out
  <2> QED BY <1>1, <1>5, <2>1, ConcatProperties
<1>8. \A i \in 1..n : out[i].id = produced - Len(whitened) + i
  <2> SUFFICES ASSUME NEW i \in 1..n
               PROVE  out[i].id = produced - Len(whitened) + i
    OBVIOUS
  <2>1. i \in 1..Len(whitened) /\ out[i] = whitened[i]
    BY <1>1, <1>2, <1>5
  <2>2. whitened[i].id = produced - Len(whitened) + i
    BY <2>1 DEF StorageInv, NoByteReused
  <2> QED BY <2>1, <2>2
<1>9. \A i \in 1..Len(released) : /\ released[i].id \in Nat
                                  /\ released[i].id <= produced - Len(whitened)
  <2> SUFFICES ASSUME NEW i \in 1..Len(released)
               PROVE  /\ released[i].id \in Nat
                      /\ released[i].id <= produced - Len(whitened)
    OBVIOUS
  <2>1. released[i] \in StoredByte
    BY <1>1, ElementOfSeq
  <2>2. released[i].id <= produced - Len(whitened)
    BY DEF StorageInv, NoByteReused
  <2> QED BY <2>1, <2>2 DEF StoredByte
<1>10. \A i, j \in 1..Len(released') :
         i < j => released'[i].id < released'[j].id
  <2> SUFFICES ASSUME NEW i \in 1..Len(released'), NEW j \in 1..Len(released'),
                      i < j
               PROVE  released'[i].id < released'[j].id
    OBVIOUS
  <2>1. CASE j <= Len(released)
    <3>1. i \in 1..Len(released) /\ j \in 1..Len(released)
      BY <1>1, <1>2, <1>7, <2>1
    <3>2. released'[i] = released[i] /\ released'[j] = released[j]
      BY <1>1, <1>2, <1>7, <3>1
    <3>3. released[i].id < released[j].id
      BY <3>1 DEF StorageInv, NoByteReused
    <3> QED BY <3>2, <3>3
  <2>2. CASE i <= Len(released) /\ j > Len(released)
    <3>1. j - Len(released) \in 1..n
      BY <1>1, <1>2, <1>7, <2>2
    <3>2. released'[j].id = produced - Len(whitened) + (j - Len(released))
      <4>1. released'[j] = out[j - Len(released)]
        BY <1>1, <1>2, <1>7, <2>2
      <4> QED BY <1>8, <3>1, <4>1
    <3>3. released'[i].id \in Nat /\ released'[i].id <= produced - Len(whitened)
      BY <1>1, <1>2, <1>7, <1>9, <2>2
    <3> QED BY <1>1, <1>2, <3>1, <3>2, <3>3
  <2>3. CASE i > Len(released)
    <3>1. i - Len(released) \in 1..n /\ j - Len(released) \in 1..n
      BY <1>1, <1>2, <1>7, <2>3
    <3>2. /\ released'[j].id = produced - Len(whitened) + (j - Len(released))
          /\ released'[i].id = produced - Len(whitened) + (i - Len(released))
      <4>1. /\ released'[j] = out[j - Len(released)]
            /\ released'[i] = out[i - Len(released)]
        BY <1>1, <1>2, <1>7, <2>3
      <4> QED BY <1>8, <3>1, <4>1
    <3> QED BY <1>1, <1>2, <3>1, <3>2
  <2> QED BY <1>1, <1>2, <1>7, <2>1, <2>2, <2>3
<1>11. \A i \in 1..Len(released') :
         released'[i].id <= produced' - Len(whitened')
  <2> SUFFICES ASSUME NEW i \in 1..Len(released')
               PROVE  released'[i].id <= produced - (Len(whitened) - n)
    BY <1>3, <1>6
  <2>1. CASE i <= Len(released)
    <3>1. /\ released'[i].id \in Nat
          /\ released'[i].id <= produced - Len(whitened)
      BY <1>1, <1>2, <1>7, <1>9, <2>1
    <3> QED BY <1>1, <1>2, <3>1
  <2>2. CASE i > Len(released)
    <3>1. i - Len(released) \in 1..n
      BY <1>1, <1>2, <1>7, <2>2
    <3>2. released'[i].id = produced - Len(whitened) + (i - Len(released))
      <4>1. released'[i] = out[i - Len(released)]
        BY <1>1, <1>2, <1>7, <2>2
      <4> QED BY <1>8, <3>1, <4>1
    <3> QED BY <1>1, <1>2, <3>1, <3>2
  <2> QED BY <1>1, <2>1, <2>2, <1>7
<1>12. \A i \in 1..Len(whitened') :
         whitened'[i].id = produced' - Len(whitened') + i
  <2> SUFFICES ASSUME NEW i \in 1..Len(whitened')
               PROVE  whitened'[i].id = produced' - Len(whitened') + i
    OBVIOUS
  <2>1. n + i \in 1..Len(whitened) /\ whitened'[i] = whitened[n + i]
    BY <1>1, <1>2, <1>6
  <2>2. whitened[n + i].id = produced - Len(whitened) + (n + i)
    BY <2>1 DEF StorageInv, NoByteReused
  <2>3. whitened'[i].id = produced - Len(whitened) + (n + i)
    BY <2>1, <2>2
  <2> QED BY <1>1, <1>2, <1>3, <1>6, <2>3
<1>13. NoByteReused'
  BY <1>10, <1>11, <1>12 DEF NoByteReused
<1>14. Len(whitened') <= MaxPool
  BY <1>1, <1>2, <1>6, BoundsNormalised
<1> QED BY <1>3, <1>6, <1>7, <1>13, <1>14
        DEF StorageInv, StorageType, RawHistoryNewest

LEMMA StorageStep == StorageInv /\ [Next]_vars => StorageInv'
<1> SUFFICES ASSUME StorageInv, [Next]_vars
             PROVE  StorageInv'
  OBVIOUS
<1>1. ASSUME UNCHANGED <<rawEvents, whitened, rawTotal, produced, released>>
      PROVE  StorageInv'
  BY <1>1 DEF StorageInv, StorageType, NoByteReused, RawHistoryNewest
<1>2. ASSUME NEW n \in Requests, ExtractEntropy(n)
      PROVE  StorageInv'
  <2>1. CASE ExtractOk(n)
    BY <2>1, ExtractOkStorage
  <2>2. CASE ExtractRefused(n) \/ ExtractRctFail(n) \/ ExtractAptFail(n)
    BY <1>1, <2>2 DEF ExtractRefused, ExtractRctFail, ExtractAptFail, vars,
                      storage
  <2> QED BY <1>2, <2>1, <2>2 DEF ExtractEntropy
<1>3. CASE AddEmptyBatch \/ UNCHANGED vars
  BY <1>1, <1>3 DEF AddEmptyBatch, vars, storage
<1> QED BY <1>2, <1>3, AddBatchStorage DEF Next

LEMMA StorageInit == Init => StorageInv
  BY BoundsNormalised, PoolAssumption
     DEF Init, StorageInv, StorageType, NoByteReused, RawHistoryNewest

\* For every configuration, no byte leaves the pool twice or out of order and
\* trimming never leaves a hole, whatever the health tests decide.
THEOREM NoByteReusedCorrect == Spec => []NoByteReused
<1>1. StorageInv => NoByteReused
  BY DEF StorageInv
<1> QED BY <1>1, StorageInit, StorageStep, PTL DEF Spec

\* The raw history always holds exactly the newest events.
THEOREM RawHistoryCorrect == Spec => []RawHistoryNewest
<1>1. StorageInv => RawHistoryNewest
  BY DEF StorageInv
<1> QED BY <1>1, StorageInit, StorageStep, PTL DEF Spec

\* Both buffers stay within their bounds.
THEOREM StorageTypeCorrect == Spec => []StorageType
<1>1. StorageInv => StorageType
  BY DEF StorageInv
<1> QED BY <1>1, StorageInit, StorageStep, PTL DEF Spec

-----------------------------------------------------------------------------
(* The health tests.  They see the pool's bytes, which are the bytes it     *)
(* releases only as long as no block is rejected; so each guarantee speaks  *)
(* of the bytes released since a mark, and what makes it inductive is that  *)
(* the test has seen exactly, or at least, those bytes.                     *)

\* The values released after the m-th byte.
After(m) == [i \in 1..(Len(released) - m) |-> released[m + i].val]

LEMMA AfterIsVals ==
  ASSUME StorageInv, NEW m \in 0..Len(released)
  PROVE  /\ Vals(SubSeq(released, m + 1, Len(released))) = After(m)
         /\ After(m) \in Seq(Nat)
         /\ Len(After(m)) = Len(released) - m
<1>1. released \in Seq(StoredByte) /\ Len(released) \in Nat
  BY DEF StorageInv, StorageType
<1>2. \A i \in 1..Len(released) : released[i] \in StoredByte
  BY <1>1, ElementOfSeq
<1> DEFINE rest == SubSeq(released, m + 1, Len(released))
<1>3. Len(rest) = Len(released) - m
      /\ \A i \in 1..(Len(released) - m) : rest[i] = released[m + i]
  <2>1. m + 1 \in Int /\ Len(released) \in Int
        /\ \A i \in (m + 1)..Len(released) : released[i] \in StoredByte
    BY <1>1, <1>2
  <2>2. /\ Len(rest) = IF m + 1 <= Len(released)
                         THEN Len(released) - (m + 1) + 1 ELSE 0
        /\ \A i \in 1..(Len(released) - (m + 1) + 1) :
             rest[i] = released[(m + 1) + i - 1]
    BY <2>1, SubSeqProperties
  <2> HIDE DEF rest
  <2>3. Len(rest) = Len(released) - m
    BY <1>1, <2>2
  <2>4. \A i \in 1..(Len(released) - m) : rest[i] = released[m + i]
    BY <1>1, <2>2
  <2> QED BY <2>3, <2>4
<1> HIDE DEF rest
<1>4. Vals(rest) = After(m)
  BY <1>3 DEF Vals, After
<1>5. \A i \in 1..(Len(released) - m) : released[m + i].val \in Nat
  <2> SUFFICES ASSUME NEW i \in 1..(Len(released) - m)
               PROVE  released[m + i].val \in Nat
    OBVIOUS
  <2>1. m + i \in 1..Len(released)
    BY <1>1
  <2>2. released[m + i] \in StoredByte
    BY <1>2, <2>1
  <2> QED BY <2>2, PoolAssumption DEF StoredByte
<1>6. Len(released) - m \in Nat
  BY <1>1
<1>7. After(m) \in Seq(Nat) /\ Len(After(m)) = Len(released) - m
  BY <1>5, <1>6 DEF After
<1> QED BY <1>4, <1>7 DEF rest

\* The position of the last failure of either test.
LastFault == IF rctMark > aptMark THEN rctMark ELSE aptMark

\* No cutoff equal samples in the first n of u.
NoLongRun(u, n) ==
  \A m \in 1..n : \A a \in 1..m : EqualFrom(u, a, m) => m - a + 1 < RctCutoff

MarkInv ==
  /\ rctMark \in 0..Len(released)
  /\ aptMark \in 0..Len(released)
  /\ ~aptRejected => aptMark <= rctMark

RctInv ==
  LET u == After(LastFault) IN
  /\ rct.cutoff = RctCutoff
  /\ RctSaw(rct, u, Len(u))
  /\ NoLongRun(u, Len(u))
  /\ ~aptRejected => RctSawOnly(rct, u, Len(u))

AptInv ==
  LET u == After(aptMark) IN
  /\ apt.cutoff = AptCutoff
  /\ apt.windowSize = AptWindow
  /\ \E w : /\ AptSaw(apt, u, Len(u), w)
            /\ WindowsPass(u, AptWindow, AptCutoff, w)

HealthInv == MarkInv /\ RctInv /\ AptInv

LEMMA HealthInit == Init => HealthInv
<1> SUFFICES ASSUME Init PROVE HealthInv
  OBVIOUS
<1>1. /\ released = <<>> /\ rctMark = 0 /\ aptMark = 0 /\ aptRejected = FALSE
      /\ rct = NewRepetitionCountTest(RctCutoff)
      /\ apt = NewAdaptiveProportionTest(AptCutoff, AptWindow)
  BY DEF Init
<1>2. After(0) = <<>> /\ Len(After(0)) = 0 /\ LastFault = 0
  BY <1>1 DEF After, LastFault
<1>3. RctInv
  <2>1. /\ rct \in RctState /\ rct.cutoff = RctCutoff
        /\ RctSawOnly(rct, After(0), 0)
    BY <1>1, RctNew, PoolAssumption
  <2>2. RctSaw(rct, After(0), 0)
    BY <2>1, RctFresh
  <2> QED BY <1>2, <2>1, <2>2 DEF RctInv, NoLongRun
<1>4. AptInv
  <2>1. /\ AptSaw(apt, After(0), 0, 0)
        /\ apt.cutoff = AptCutoff /\ apt.windowSize = AptWindow
    BY <1>1, AptNew, PoolAssumption
  <2>2. WindowsPass(After(0), AptWindow, AptCutoff, 0)
    BY DEF WindowsPass
  <2> QED BY <1>1, <1>2, <2>1, <2>2 DEF AptInv
<1> QED BY <1>1, <1>3, <1>4 DEF HealthInv, MarkInv

\* The block an extraction looks at.
LEMMA OutputVals ==
  ASSUME StorageInv, NEW n \in Requests, Extractable(n)
  PROVE  /\ n \in Nat \ {0}
         /\ Vals(Output(n)) \in Seq(Nat) /\ Len(Vals(Output(n))) = n
         /\ Output(n) \in Seq(StoredByte) /\ Len(Output(n)) = n
<1>1. whitened \in Seq(StoredByte) /\ Len(whitened) \in Nat
  BY DEF StorageInv, StorageType
<1>2. n \in 1..Len(whitened)
  BY <1>1, PoolAssumption DEF Extractable
<1>3. \A i \in 1..Len(whitened) : whitened[i] \in StoredByte
  BY <1>1, ElementOfSeq
<1>4. /\ Output(n) \in Seq(StoredByte) /\ Len(Output(n)) = n
      /\ \A i \in 1..n : Output(n)[i] = whitened[i]
  BY <1>1, <1>2, <1>3, SubSeqProperties DEF Output
<1>5. \A i \in 1..n : Output(n)[i].val \in Nat
  <2> SUFFICES ASSUME NEW i \in 1..n PROVE Output(n)[i].val \in Nat
    OBVIOUS
  <2>1. Output(n)[i] \in StoredByte
    BY <1>2, <1>3, <1>4
  <2> QED BY <2>1, PoolAssumption DEF StoredByte
<1>6. Vals(Output(n)) \in Seq(Nat) /\ Len(Vals(Output(n))) = n
  BY <1>2, <1>4, <1>5 DEF Vals
<1> QED BY <1>2, <1>4, <1>6

\* Extending a stream by a block.
LEMMA StreamExtended ==
  ASSUME NEW u \in Seq(Nat), NEW s \in Seq(Nat)
  PROVE  LET v == u \o s IN
         /\ v \in Seq(Nat)
         /\ Len(v) = Len(u) + Len(s)
         /\ Len(u) \in Nat
         /\ \A i \in 1..Len(u) : u[i] = v[i]
         /\ \A i \in 1..Len(s) : v[Len(u) + i] = s[i]
<1>1. Len(u) \in Nat /\ Len(s) \in Nat
  OBVIOUS
<1> DEFINE v == u \o s
<1>2. /\ v \in Seq(Nat) /\ Len(v) = Len(u) + Len(s)
      /\ \A i \in 1..(Len(u) + Len(s)) :
           v[i] = IF i <= Len(u) THEN u[i] ELSE s[i - Len(u)]
  BY ConcatProperties
<1> HIDE DEF v
<1>3. \A i \in 1..Len(u) : u[i] = v[i]
  BY <1>1, <1>2
<1>4. \A i \in 1..Len(s) : v[Len(u) + i] = s[i]
  <2> SUFFICES ASSUME NEW i \in 1..Len(s) PROVE v[Len(u) + i] = s[i]
    OBVIOUS
  <2>1. /\ Len(u) + i \in 1..(Len(u) + Len(s)) /\ ~(Len(u) + i <= Len(u))
        /\ (Len(u) + i) - Len(u) = i
    BY <1>1
  <2> QED BY <1>2, <2>1
<1> QED BY <1>1, <1>2, <1>3, <1>4 DEF v

\* What is released is the block the tests have seen.
LEMMA ReleaseExtends ==
  ASSUME StorageInv, NEW n \in Requests, Extractable(n),
         released' = released \o Output(n),
         NEW m \in 0..Len(released)
  PROVE  /\ After(m)' = After(m) \o Vals(Output(n))
         /\ Len(released') = Len(released) + n
<1>1. released \in Seq(StoredByte) /\ Len(released) \in Nat
  BY DEF StorageInv, StorageType
<1> DEFINE out == Output(n)
           s == Vals(out)
           u == After(m)
           L == Len(released)
<1>2. /\ n \in Nat \ {0} /\ s \in Seq(Nat) /\ Len(s) = n
      /\ out \in Seq(StoredByte) /\ Len(out) = n
  BY OutputVals
<1>3. u \in Seq(Nat) /\ Len(u) = L - m
  BY AfterIsVals
<1>4. \A i \in 1..n : s[i] = out[i].val
  BY <1>2 DEF Vals
<1>5. \A i \in 1..(L - m) : u[i] = released[m + i].val
  BY DEF After
<1> HIDE DEF s, u, out
<1>6. /\ Len(released') = L + n
      /\ \A i \in 1..(L + n) : released'[i] =
           IF i <= L THEN released[i] ELSE out[i - L]
  <2>1. released' = released \o out
    BY DEF out
  <2>2. /\ Len(released \o out) = Len(released) + Len(out)
        /\ \A i \in 1..(Len(released) + Len(out)) : (released \o out)[i] =
             IF i <= Len(released) THEN released[i] ELSE out[i - Len(released)]
    BY <1>1, <1>2, ConcatProperties
  <2> QED BY <1>2, <2>1, <2>2
<1>7. /\ Len(u \o s) = (L - m) + n
      /\ \A i \in 1..((L - m) + n) :
           (u \o s)[i] = IF i <= L - m THEN u[i] ELSE s[i - (L - m)]
      /\ u \o s \in Seq(Nat)
  <2>1. /\ Len(u \o s) = Len(u) + Len(s)
        /\ \A i \in 1..(Len(u) + Len(s)) :
             (u \o s)[i] = IF i <= Len(u) THEN u[i] ELSE s[i - Len(u)]
        /\ u \o s \in Seq(Nat)
    BY <1>2, <1>3, ConcatProperties
  <2> QED BY <1>2, <1>3, <2>1
<1> DEFINE v == After(m)'
<1>8. v = [i \in 1..((L + n) - m) |-> released'[m + i].val]
  BY <1>6 DEF After
<1>9. (L + n) - m = (L - m) + n /\ (L - m) + n \in Nat
  BY <1>1, <1>2
<1>10. u \o s = [i \in 1..((L - m) + n) |-> (u \o s)[i]]
  BY <1>7, LenProperties
<1>11. ASSUME NEW i \in 1..((L - m) + n)
       PROVE  released'[m + i].val = (u \o s)[i]
  <2>1. m + i \in 1..(L + n)
    BY <1>1, <1>2
  <2>2. CASE i <= L - m
    <3>1. m + i <= L /\ i \in 1..(L - m)
      BY <1>1, <2>2
    <3> QED BY <1>5, <1>6, <1>7, <2>1, <2>2, <3>1
  <2>3. CASE ~(i <= L - m)
    <3>1. ~(m + i <= L) /\ i - (L - m) \in 1..n /\ (m + i) - L = i - (L - m)
      BY <1>1, <1>2, <2>3
    <3> QED BY <1>4, <1>6, <1>7, <2>1, <2>3, <3>1
  <2> QED BY <2>2, <2>3
<1>12. v = u \o s
  <2> HIDE DEF v
  <2> QED BY <1>8, <1>9, <1>10, <1>11
<1> QED BY <1>6, <1>12 DEF u, s, out

\* A block that passes: both tests have seen exactly what is released.
LEMMA ExtractOkHealth ==
  ASSUME StorageInv, HealthInv, NEW n \in Requests, ExtractOk(n)
  PROVE  HealthInv'
<1> DEFINE s == Vals(Output(n))
           r == RctTestBlock(rct, s)
           a == AptTestBlock(apt, s)
<1>1. /\ Extractable(n) /\ r.ok /\ a.ok /\ rct' = r.st /\ apt' = a.st
      /\ released' = released \o Output(n)
      /\ rctMark' = rctMark /\ aptMark' = aptMark /\ aptRejected' = aptRejected
  BY DEF ExtractOk, marks
<1>2. s \in Seq(Nat) /\ Len(s) = n /\ n \in Nat
  BY <1>1, OutputVals
<1>3. /\ Len(released) \in Nat
      /\ rctMark \in 0..Len(released) /\ aptMark \in 0..Len(released)
      /\ LastFault \in 0..Len(released) /\ LastFault' = LastFault
  BY <1>1 DEF StorageInv, StorageType, HealthInv, MarkInv, LastFault
<1>4. ASSUME NEW m \in 0..Len(released)
      PROVE  /\ After(m)' = After(m) \o s
             /\ After(m) \in Seq(Nat) /\ Len(released') = Len(released) + n
  BY <1>1, AfterIsVals, ReleaseExtends
<1> HIDE DEF s
<1>5. MarkInv'
  BY <1>1, <1>2, <1>3, <1>4, SMTT(40) DEF HealthInv, MarkInv
<1>6. RctInv'
  <2> DEFINE u == After(LastFault)
             v == u \o s
             N == Len(u)
  <2>1. u \in Seq(Nat) /\ After(LastFault)' = v
    BY <1>3, <1>4
  <2>2. /\ rct.cutoff = RctCutoff /\ RctSaw(rct, u, N) /\ NoLongRun(u, N)
        /\ ~aptRejected => RctSawOnly(rct, u, N)
    BY DEF HealthInv, RctInv
  <2> HIDE DEF u
  <2>3. /\ Len(v) = N + n /\ N \in Nat
        /\ \A i \in 1..N : u[i] = v[i]
        /\ \A i \in 1..Len(s) : v[N + i] = s[i]
    BY <1>2, <2>1, StreamExtended
  <2> HIDE DEF v, N
  <2>4. /\ RctSaw(rct, v, N)
        /\ RctSawOnly(rct, u, N) => RctSawOnly(rct, v, N)
        /\ \A m \in 1..N : \A b \in 1..m : EqualFrom(u, b, m) <=> EqualFrom(v, b, m)
    BY <2>2, <2>3, RctAgree
  <2>5. /\ r.st \in RctState /\ r.st.cutoff = rct.cutoff
        /\ r.ok =>
             /\ RctSaw(r.st, v, N + Len(s))
             /\ RctSawOnly(rct, v, N) => RctSawOnly(r.st, v, N + Len(s))
             /\ rct.cutoff >= 2 =>
                  \A m \in (N + 1)..(N + Len(s)), b \in 1..(N + Len(s)) :
                    b <= m /\ EqualFrom(v, b, m) => m - b + 1 < rct.cutoff
    BY <1>2, <2>3, <2>4, RctBlockResult
  <2> HIDE DEF r
  <2>6. NoLongRun(v, N + n)
    <3> SUFFICES ASSUME NEW m \in 1..(N + n), NEW b \in 1..m, EqualFrom(v, b, m)
                 PROVE  m - b + 1 < RctCutoff
      BY DEF NoLongRun
    <3>1. CASE m \in 1..N
      BY <2>2, <2>4, <3>1 DEF NoLongRun
    <3>2. CASE m \in (N + 1)..(N + n)
      <4>1. b \in 1..(N + Len(s)) /\ m \in (N + 1)..(N + Len(s)) /\ b <= m
        BY <1>2, <2>3, <3>2
      <4> QED BY <1>1, <2>2, <2>5, <4>1, PoolAssumption
    <3> QED BY <1>2, <2>3, <3>1, <3>2
  <2>7. /\ rct'.cutoff = RctCutoff /\ RctSaw(rct', v, Len(v))
        /\ NoLongRun(v, Len(v))
        /\ ~aptRejected' => RctSawOnly(rct', v, Len(v))
    BY <1>1, <1>2, <2>2, <2>3, <2>4, <2>5, <2>6
  <2>8. (After(LastFault))' = v
    BY <1>3, <2>1 DEF After
  <2> QED BY <2>7, <2>8 DEF RctInv, NoLongRun
<1>7. AptInv'
  <2> DEFINE u == After(aptMark)
             v == u \o s
             N == Len(u)
  <2>1. u \in Seq(Nat) /\ (After(aptMark))' = v
    BY <1>1, <1>3, <1>4 DEF After
  <2>2. apt.cutoff = AptCutoff /\ apt.windowSize = AptWindow
    BY DEF HealthInv, AptInv
  <2>3. PICK w : /\ AptSaw(apt, u, N, w)
                 /\ WindowsPass(u, AptWindow, AptCutoff, w)
    BY DEF HealthInv, AptInv
  <2> HIDE DEF u
  <2>4. /\ Len(v) = N + n /\ N \in Nat
        /\ \A i \in 1..N : u[i] = v[i]
        /\ \A i \in 1..Len(s) : v[N + i] = s[i]
    BY <1>2, <2>1, StreamExtended
  <2> HIDE DEF v, N
  <2>5. AptSaw(apt, v, N, w) /\ WindowsPass(v, AptWindow, AptCutoff, w)
    BY <2>2, <2>3, <2>4, AptAgree
  <2>6. /\ a.st \in AptState
        /\ a.st.cutoff = apt.cutoff /\ a.st.windowSize = apt.windowSize
        /\ a.ok =>
             \E x : /\ AptSaw(a.st, v, N + Len(s), x)
                    /\ WindowsPass(v, apt.windowSize, apt.cutoff, w) =>
                         WindowsPass(v, apt.windowSize, apt.cutoff, x)
    BY <1>2, <2>4, <2>5, AptBlockResult
  <2> HIDE DEF a
  <2>7. /\ apt'.cutoff = AptCutoff /\ apt'.windowSize = AptWindow
        /\ \E x : /\ AptSaw(apt', v, Len(v), x)
                  /\ WindowsPass(v, AptWindow, AptCutoff, x)
    BY <1>1, <1>2, <2>2, <2>4, <2>5, <2>6
  <2> QED BY <2>1, <2>7 DEF AptInv
<1> QED BY <1>5, <1>6, <1>7 DEF HealthInv

\* Nothing is released after the last byte.
LEMMA AfterEnd ==
  ASSUME StorageInv
  PROVE  /\ Len(released) \in Nat
         /\ After(Len(released)) = <<>> /\ Len(After(Len(released))) = 0
<1>1. Len(released) \in Nat
  BY DEF StorageInv, StorageType
<1>2. 1..(Len(released) - Len(released)) = {}
  BY <1>1
<1>3. After(Len(released)) = <<>>
  BY <1>2 DEF After
<1> QED BY <1>1, <1>3

\* A block rejected by RCT: RCT starts over, APT has not seen the block.
LEMMA RctFailHealth ==
  ASSUME StorageInv, HealthInv, NEW n \in Requests, ExtractRctFail(n)
  PROVE  HealthInv'
<1> DEFINE s == Vals(Output(n))
           r == RctTestBlock(rct, s)
           L == Len(released)
<1>1. /\ Extractable(n) /\ rct' = RctReset(r.st) /\ rctMark' = L
      /\ aptRejected' = FALSE
      /\ apt' = apt /\ released' = released /\ aptMark' = aptMark
  BY DEF ExtractRctFail
<1>2. L \in Nat /\ rctMark \in 0..L /\ aptMark \in 0..L
  BY DEF StorageInv, StorageType, HealthInv, MarkInv
<1>3. MarkInv' /\ LastFault' = L
  BY <1>1, <1>2 DEF MarkInv, LastFault
<1>4. (After(LastFault))' = <<>> /\ Len((After(LastFault))') = 0
  <2>1. (After(LastFault))' = After(L)
    BY <1>1, <1>3 DEF After
  <2> QED BY <2>1, AfterEnd
<1>5. r.st \in RctState /\ r.st.cutoff = RctCutoff
  <2>1. rct \in RctState /\ rct.cutoff = RctCutoff
    BY DEF HealthInv, RctInv, RctSaw
  <2>2. RctSaw(rct, s, 0)
    BY <2>1, RctFresh
  <2>3. s \in Seq(Nat) /\ \A i \in 1..Len(s) : s[0 + i] = s[i]
    BY <1>1, OutputVals
  <2> HIDE DEF s
  <2> QED BY <2>1, <2>2, <2>3, RctBlockResult
<1> HIDE DEF r
<1>6. /\ rct'.cutoff = RctCutoff
      /\ RctSaw(rct', <<>>, 0) /\ RctSawOnly(rct', <<>>, 0)
  <2>1. /\ rct' \in RctState /\ rct'.cutoff = RctCutoff
        /\ RctSawOnly(rct', <<>>, 0)
    BY <1>1, <1>5, RctFresh
  <2> QED BY <2>1, RctFresh
<1>7. RctInv'
  BY <1>4, <1>6 DEF RctInv, NoLongRun
<1>8. AptInv'
  BY <1>1 DEF HealthInv, AptInv, After
<1> QED BY <1>3, <1>7, <1>8 DEF HealthInv

\* A block rejected by APT: APT starts over; RCT has counted the block, so
\* that from here on it may count more than what is released.
LEMMA AptFailHealth ==
  ASSUME StorageInv, HealthInv, NEW n \in Requests, ExtractAptFail(n)
  PROVE  HealthInv'
<1> DEFINE s == Vals(Output(n))
           r == RctTestBlock(rct, s)
           a == AptTestBlock(apt, s)
           L == Len(released)
<1>1. /\ Extractable(n) /\ rct' = r.st /\ apt' = AptReset(a.st) /\ aptMark' = L
      /\ aptRejected' = TRUE
      /\ released' = released /\ rctMark' = rctMark
  BY DEF ExtractAptFail
<1>2. L \in Nat /\ rctMark \in 0..L /\ aptMark \in 0..L
  BY DEF StorageInv, StorageType, HealthInv, MarkInv
<1>3. MarkInv' /\ LastFault' = L
  BY <1>1, <1>2 DEF MarkInv, LastFault
<1>4. /\ (After(LastFault))' = <<>> /\ Len((After(LastFault))') = 0
      /\ (After(aptMark))' = <<>> /\ Len((After(aptMark))') = 0
  <2>1. (After(LastFault))' = After(L) /\ (After(aptMark))' = After(L)
    BY <1>1, <1>3 DEF After
  <2> QED BY <2>1, AfterEnd
<1>5. s \in Seq(Nat)
  BY <1>1, OutputVals
<1>6. r.st \in RctState /\ r.st.cutoff = RctCutoff
  <2>1. rct \in RctState /\ rct.cutoff = RctCutoff
    BY DEF HealthInv, RctInv, RctSaw
  <2>2. RctSaw(rct, s, 0)
    BY <2>1, RctFresh
  <2>3. \A i \in 1..Len(s) : s[0 + i] = s[i]
    BY <1>5
  <2> HIDE DEF s
  <2> QED BY <1>5, <2>1, <2>2, <2>3, RctBlockResult
<1>7. /\ a.st \in AptState
      /\ a.st.cutoff = AptCutoff /\ a.st.windowSize = AptWindow
  <2> DEFINE u == After(aptMark)
             v == u \o s
             N == Len(u)
  <2>1. u \in Seq(Nat)
    BY <1>2, AfterIsVals
  <2>2. apt.cutoff = AptCutoff /\ apt.windowSize = AptWindow
    BY DEF HealthInv, AptInv
  <2>3. PICK w : AptSaw(apt, u, N, w)
    BY DEF HealthInv, AptInv
  <2> HIDE DEF u, s
  <2>4. /\ N \in Nat
        /\ \A i \in 1..N : u[i] = v[i]
        /\ \A i \in 1..Len(s) : v[N + i] = s[i]
    BY <1>5, <2>1, StreamExtended
  <2> HIDE DEF v, N
  <2>5. AptSaw(apt, v, N, w)
    BY <2>3, <2>4, AptAgree
  <2>6. /\ a.st \in AptState
        /\ a.st.cutoff = apt.cutoff /\ a.st.windowSize = apt.windowSize
        /\ a.ok =>
             \E x : /\ AptSaw(a.st, v, N + Len(s), x)
                    /\ WindowsPass(v, apt.windowSize, apt.cutoff, w) =>
                         WindowsPass(v, apt.windowSize, apt.cutoff, x)
    BY <1>5, <2>4, <2>5, AptBlockResult
  <2> QED BY <2>2, <2>6
<1> HIDE DEF r, a
<1>8. RctInv'
  <2>1. RctSaw(rct', <<>>, 0) /\ rct'.cutoff = RctCutoff
    BY <1>1, <1>6, RctFresh
  <2> QED BY <1>1, <1>4, <2>1 DEF RctInv, NoLongRun
<1>9. AptInv'
  <2>1. /\ AptSaw(apt', <<>>, 0, 0)
        /\ apt'.cutoff = AptCutoff /\ apt'.windowSize = AptWindow
    BY <1>1, <1>7, AptFresh
  <2>2. WindowsPass(<<>>, AptWindow, AptCutoff, 0)
    BY DEF WindowsPass
  <2> QED BY <1>4, <2>1, <2>2 DEF AptInv
<1> QED BY <1>3, <1>8, <1>9 DEF HealthInv

PoolInv == StorageInv /\ HealthInv

LEMMA PoolInit == Init => PoolInv
  BY StorageInit, HealthInit DEF PoolInv

LEMMA PoolStep == PoolInv /\ [Next]_vars => PoolInv'
<1> SUFFICES ASSUME StorageInv, HealthInv, [Next]_vars
             PROVE  HealthInv'
  BY StorageStep DEF PoolInv
<1>1. ASSUME UNCHANGED <<rct, apt, released, marks>>
      PROVE  HealthInv'
  <2>1. (After(LastFault))' = After(LastFault)
        /\ (After(aptMark))' = After(aptMark)
    BY <1>1 DEF After, LastFault, marks
  <2> QED BY <1>1, <2>1 DEF HealthInv, MarkInv, RctInv, AptInv, NoLongRun, marks
<1>2. ASSUME NEW n \in Requests, ExtractEntropy(n)
      PROVE  HealthInv'
  <2>1. CASE ExtractRefused(n)
    BY <1>1, <2>1 DEF ExtractRefused, vars
  <2> QED BY <1>2, <2>1, ExtractOkHealth, RctFailHealth, AptFailHealth
          DEF ExtractEntropy
<1>3. ASSUME NEW n \in BatchSizes, AddBatch(n)
      PROVE  HealthInv'
  BY <1>1, <1>3 DEF AddBatch
<1>4. CASE AddEmptyBatch \/ UNCHANGED vars
  BY <1>1, <1>4 DEF AddEmptyBatch, vars
<1> QED BY <1>2, <1>3, <1>4 DEF Next

\* What the invariant says of the properties.
LEMMA PoolNoStuckRun == PoolInv => NoStuckRunBetweenFaults
<1> SUFFICES ASSUME StorageInv, HealthInv PROVE NoStuckRunBetweenFaults
  BY DEF PoolInv
<1> DEFINE u == After(LastFault)
<1>1. LastFault \in 0..Len(released)
  BY DEF HealthInv, MarkInv, LastFault
<1>2. /\ Vals(SubSeq(released, LastFault + 1, Len(released))) = u
      /\ u \in Seq(Nat)
  BY <1>1, AfterIsVals
<1>3. NoLongRun(u, Len(u))
  BY DEF HealthInv, RctInv
<1> HIDE DEF u
<1>4. ~HasRun(u, RctCutoff)
  <2> SUFFICES ASSUME NEW i \in 1..(Len(u) - RctCutoff + 1), IsRun(u, i, RctCutoff)
               PROVE  FALSE
    BY DEF HasRun
  <2> DEFINE m == i + RctCutoff - 1
  <2>1. m \in 1..Len(u) /\ i \in 1..m /\ m - i + 1 = RctCutoff
    BY <1>2, PoolAssumption
  <2>2. EqualFrom(u, i, m)
    BY <2>1, PoolAssumption DEF IsRun, EqualFrom
  <2> HIDE DEF m
  <2>3. m - i + 1 < RctCutoff
    BY <1>3, <2>1, <2>2 DEF NoLongRun
  <2> QED BY <2>1, <2>3, PoolAssumption
<1> QED BY <1>2, <1>4 DEF NoStuckRunBetweenFaults, LastFault

LEMMA PoolRctCounts == PoolInv => RctCountsReleased
<1> SUFFICES ASSUME StorageInv, HealthInv, ~aptRejected
             PROVE  LET since == Vals(SubSeq(released, rctMark + 1, Len(released)))
                        n == rct.repeatCount IN
                    IF since = <<>> THEN n = 0
                    ELSE /\ n >= 1 /\ IsRun(since, Len(since) - n + 1, n)
                         /\ n < Len(since) =>
                              since[Len(since) - n] # rct.lastSample
  BY DEF PoolInv, RctCountsReleased
<1> DEFINE u == After(rctMark)
           n == rct.repeatCount
           N == Len(u)
<1>1. rctMark \in 0..Len(released) /\ LastFault = rctMark
  BY DEF HealthInv, MarkInv, LastFault, StorageInv, StorageType
<1>2. /\ Vals(SubSeq(released, rctMark + 1, Len(released))) = u
      /\ u \in Seq(Nat)
  BY <1>1, AfterIsVals
<1>3. RctSaw(rct, u, N) /\ RctSawOnly(rct, u, N)
  BY <1>1 DEF HealthInv, RctInv
<1> HIDE DEF u
<1>4. N \in Nat /\ (u = <<>> <=> N = 0)
  BY <1>2
<1> HIDE DEF N
<1>5. n \in Nat /\ n <= N
  BY <1>3 DEF RctSaw, RctState, RctSawOnly
<1>6. CASE N = 0
  BY <1>2, <1>4, <1>5, <1>6
<1>7. CASE N > 0
  <2>1. n >= 1 /\ rct.lastSample = u[N]
    BY <1>3, <1>7 DEF RctSaw
  <2>2. \A k \in (N - n + 1)..N : u[k] = u[N]
    BY <1>3 DEF RctSawOnly, EqualFrom
  <2>3. IsRun(u, N - n + 1, n)
    BY <1>4, <1>5, <2>1, <2>2 DEF IsRun
  <2>4. ASSUME n < N PROVE u[N - n] # rct.lastSample
    <3> SUFFICES ASSUME u[N - n] = u[N] PROVE FALSE
      BY <2>1
    <3>1. N - n \in 1..N /\ EqualFrom(u, N - n, N)
      BY <1>4, <1>5, <2>1, <2>2, <2>4 DEF EqualFrom
    <3>2. N - (N - n) + 1 <= n
      BY <1>3, <3>1 DEF RctSaw
    <3> QED BY <1>4, <1>5, <3>2
  <2> QED BY <1>2, <1>4, <1>7, <2>1, <2>3, <2>4 DEF N
<1> QED BY <1>4, <1>6, <1>7

LEMMA PoolAptWindows == PoolInv => AptWindowsPass
<1> SUFFICES ASSUME StorageInv, HealthInv PROVE AptWindowsPass
  BY DEF PoolInv
<1> DEFINE u == After(aptMark)
<1>0. aptMark \in 0..Len(released)
  BY DEF HealthInv, MarkInv
<1>1. /\ Vals(SubSeq(released, aptMark + 1, Len(released))) = u
      /\ u \in Seq(Nat)
  BY <1>0, AfterIsVals
<1>2. PICK w : /\ AptSaw(apt, u, Len(u), w)
               /\ WindowsPass(u, AptWindow, AptCutoff, w)
  BY DEF HealthInv, AptInv
<1>3. apt.windowSize = AptWindow
  BY DEF HealthInv, AptInv
<1> HIDE DEF u
<1>4. /\ w \in Nat /\ apt.sampleCount \in Nat /\ apt.sampleCount < AptWindow
      /\ Len(u) = AptWindow * w + apt.sampleCount
      /\ Len(u) \in Nat
  BY <1>1, <1>2, <1>3 DEF AptSaw, AptState
<1>5. Len(u) \div AptWindow = w
  <2> DEFINE N == Len(u)
             c == apt.sampleCount
  <2>1. AptWindow \in Nat \ {0}
    BY PoolAssumption
  <2>2. w \in Nat /\ c \in Nat /\ c < AptWindow /\ N \in Nat
        /\ N = AptWindow * w + c
    BY <1>4
  <2> HIDE DEF N, c
  <2>3. N \div AptWindow = w
    BY <2>1, <2>2, DivMod
  <2> QED BY <2>3 DEF N
<1> QED BY <1>1, <1>2, <1>5 DEF AptWindowsPass, WindowsPass

\* For every cutoff of two or more, the bytes handed out between two health
\* test failures contain no run of cutoff equal bytes, however requests of any
\* size, rejections and trimming alternate.
THEOREM NoStuckRunCorrect == Spec => []NoStuckRunBetweenFaults
  BY PoolInit, PoolStep, PoolNoStuckRun, PTL DEF Spec

\* Until APT rejects a block, RCT's counter is the length of the run that the
\* released bytes end in: no byte is forgotten, none is counted twice.
THEOREM RctCountsCorrect == Spec => []RctCountsReleased
  BY PoolInit, PoolStep, PoolRctCounts, PTL DEF Spec

\* For every cutoff and window size, every complete window of the bytes
\* released since the last APT failure passes the test.
THEOREM AptWindowsCorrect == Spec => []AptWindowsPass
  BY PoolInit, PoolStep, PoolAptWindows, PTL DEF Spec
=============================================================================
