\* A pool of 3 bytes, no multiple of the digest, so that ingestion trims part
\* of a digest, batches larger than the raw history, and byte values under
\* which both health tests fail at times.
CONSTANTS
  MinSize = 1
  MaxSize = 3
  DefaultMin = 2
  Multiplier = 2
  MaxRawEvents = 2
  RctCutoff = 3
  AptCutoff = 3
  AptWindow = 4
  DigestSize = 2
  Byte = {0, 1}
  BatchSizes = {0, 1, 3}
  Requests = {0, 1, 2, 3}
  MaxProduced = 8
SPECIFICATION Spec
INVARIANTS NoByteReused RawHistoryNewest NoStuckRunBetweenFaults
           RctCountsReleased AptWindowsPass
