\* The callers' discipline: no Add once a Close has begun.
CONSTANTS
  Adders <- OneAdder
  Closers <- TwoClosers
  MaxSize = 2
  SeqMax = 2
  LateAdds = FALSE
  MaxEvents = 6
SPECIFICATION FairSpec
INVARIANTS NoPanic CloseDeliversAll
PROPERTIES EventuallyDelivered CloseReturns
