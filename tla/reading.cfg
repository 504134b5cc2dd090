CONSTANTS
  Readers = {r1, r2}
  Offsets = {1}
  MaxOpens = 2
  MaxMemory = 8
  t1 = t1
  t2 = t2
  t3 = t3
SPECIFICATION PartsSpec
INVARIANTS
  EntriesAreFound
  BlocksAreKept
  CacheIsSound
  IteratorIsRight
PROPERTIES
  SkippedIsReported
  PieceIsNew
CHECK_DEADLOCK FALSE
