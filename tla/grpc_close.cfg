\* Everything at once: rotation, faults, sender, receivers and Close.
CONSTANTS
  Conns = {1, 2, 3}
  Loops = {1, 2}
  Rotation = TRUE
  LongInterval = FALSE
  MayClose = TRUE
  MaxPending = 1
  MaxFaults = 1
SPECIFICATION Spec
INVARIANTS OneLiveConnection SingleFlight NoLeakAfterClose
