CONSTANTS
  Readers = {r1, r2}
  LastLevel = 1
  MaxNumber = 2
  AllowedSeeks = 1
  Keys = {1, 2, 3}
  MaxSequence = 4
  kNumLevels = 3
  kMaxMemCompactLevel = 2
  Deletes = TRUE
  MaxSnapshots = 1
  SplitsKeys = FALSE
  ManualCompactions = TRUE
  FlushesInCompaction = FALSE
SPECIFICATION PartsSpec
INVARIANTS
  ReadsAreRight
PROPERTIES
  VersionsAreKept
CHECK_DEADLOCK FALSE
