\* Add, auto-flush and two Close calls in every order, Add after Close too.
CONSTANTS
  Adders <- TwoAdders
  Closers <- TwoClosers
  MaxSize = 4
  SeqMax = 2
  LateAdds = TRUE
  MaxEvents = 9
SPECIFICATION Spec
INVARIANTS TypeOK InOrder PendingAccounting
PROPERTIES ImplementsStream
