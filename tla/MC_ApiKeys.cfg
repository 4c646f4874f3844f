SPECIFICATION Spec
CONSTANTS
  t1 = t1
  t2 = t2
  t3 = t3
  t4 = t4
  Threads <- MCThreads
  CacheTTL = 2
  MarkTTL = 2
  HasRedis = TRUE
  FlakyRedis = TRUE
SYMMETRY MCSymmetry
INVARIANTS MemoryOnlyByRace RefusedAfterTTL
