CONSTANTS
  MinSize = 2
  MaxSize = 8
  DefaultMin = 2
  Multiplier = 4
  MaxRawEvents = 3
  RctCutoff = 3
  AptCutoff = 605
  AptWindow = 4096
  DigestSize = 2
  Byte = {0, 1}
  BatchSizes = {1}
  Requests = {1, 2}
  MaxProduced = 8
SPECIFICATION Spec
INVARIANTS StuckRunNeverReleased
