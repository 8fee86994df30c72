---------------------------- MODULE BatchStream ----------------------------
(***************************************************************************)
(* What the batch collector promises its caller, with none of its          *)
(* machinery: the events handed to Add, numbered 1, 2, 3... in the order   *)
(* in which Add accepted them, reach the sender as a stream of non-empty   *)
(* batches of at most MaxSize events, in that order, each event in exactly *)
(* one batch.                                                              *)
(***************************************************************************)
EXTENDS Naturals, Sequences

CONSTANT MaxSize            \* the size at which a batch is dispatched

VARIABLES accepted,         \* number of events accepted so far
          delivered         \* the batches handed to the sender

vars == <<accepted, delivered>>

\* The number of the last event of the last batch of a sequence of batches.
LastOf(batches) ==
  IF batches = <<>> THEN 0
  ELSE LET b == batches[Len(batches)] IN b[Len(b)]

Init == accepted = 0 /\ delivered = <<>>

Accept ==
  /\ accepted' = accepted + 1
  /\ UNCHANGED delivered

\* The next batch continues exactly where the previous one ended.
Deliver ==
  \E n \in 1..MaxSize :
    /\ LastOf(delivered) + n <= accepted
    /\ delivered' = Append(delivered,
                           [i \in 1..n |-> LastOf(delivered) + i])
    /\ UNCHANGED accepted

Next == Accept \/ Deliver

SafeSpec == Init /\ [][Next]_vars
=============================================================================
