CONSTANTS
  Conns = {1, 2, 3}
  Loops = {1, 2}
  Rotation = FALSE
  LongInterval = TRUE
  MayClose = FALSE
  MaxPending = 2
  MaxFaults = 1
SPECIFICATION Spec
INVARIANTS RecoveryUnderWay
