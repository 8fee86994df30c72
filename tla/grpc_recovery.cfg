\* Liveness with rotation: recovery after faults and the end of Close.
CONSTANTS
  Conns = {1, 2}
  Loops = {1}
  Rotation = TRUE
  LongInterval = TRUE
  MayClose = TRUE
  MaxPending = 1
  MaxFaults = 1
SPECIFICATION FairSpec
INVARIANTS ReconnectScheduled
PROPERTIES Recovers CloseReturns
