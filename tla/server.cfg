\* Two clients, a pool of 3 bytes with a reserve of 2, and byte values under
\* which both health tests fail at times.  A bucket of one token and a tick
\* that refills two thirds of it, so that fractions are carried from one
\* refill to the next.
CONSTANTS
  Clients = {c1, c2}
  MaxRequest = 2
  ReadyThreshold = 1
  MinSize = 2
  MaxSize = 3
  DefaultMin = 2
  Multiplier = 2
  MaxRawEvents = 2
  RctCutoff = 3
  AptCutoff = 2
  AptWindow = 3
  DigestSize = 2
  Byte = {0, 1}
  BatchSizes = {1}
  Requests = {0, 1, 2, 3}
  MaxProduced = 4
  One = 3
  Refill = 2
  TicksPerSecond = 3
  Burst = 1
  RetryAfterSec = 1
  MaxTime = 3
SPECIFICATION ServerSpec
INVARIANTS RateConformance RetryAfterHonoured
  ClientsShareNothing EntropyRateBounded RefusalHasCause
