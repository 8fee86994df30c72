\* Every stream of up to 8 samples, cut into blocks in every way; the cutoff
\* and the window 0 stand for the defaults, which no such stream reaches.
\* Blocks of up to 3 bytes are analysed, and those of 5 bytes with 4 or 2
\* bits set, 18 of 40 being 45 %.  Words of 2 bytes and counters of 5 bits
\* overflow within batches of 2 events.
CONSTANTS
  Byte = {0, 1}
  RctCutoffs = {0, 1, 2, 3, 4}
  AptCutoffs = {0, 1, 2, 3}
  AptWindows = {0, 1, 3, 4}
  MaxBlock = 3
  MaxStream = 8
  WordBytes = 2
  CountWidth = 5
  DigestBytes = 32
  AnalysedBytes = {0, 1, 51, 128, 255}
  MaxAnalysed = 3
  EdgeBytes = {3, 51}
  EdgeLength = 5
  Windows = {0, 2, 4}
  Timestamps = {0, 1, 255, 256, 4660, 65535}
  MaxBatch = 2
SPECIFICATION Spec
INVARIANTS RctDetectsRuns AptJudgesWindows
  StatisticsMatchDefinition ConditioningMatchesDefinition
