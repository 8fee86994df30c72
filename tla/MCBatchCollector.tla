-------------------------- MODULE MCBatchCollector --------------------------
(* Instances of BatchCollector for TLC.  Goroutines are strings, so that    *)
(* they can be compared with Flusher and Free.                             *)
EXTENDS BatchCollector

TwoAdders == {"adder1", "adder2"}
OneAdder == {"adder1"}
OneCloser == {"closer1"}
TwoClosers == {"closer1", "closer2"}
=============================================================================
