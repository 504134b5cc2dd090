CONSTANTS
  t3 = t3
  Threads = {t1, t2}
  MaxBatches = 2
  WriteBufferSize = 1
  kL0_CompactionTrigger = 1
  kL0_SlowdownWritesTrigger = 1
  kL0_StopWritesTrigger = 2
  MaxFaults = 2
  MaxCrashes = 1
  CompactRanges = 0
  Syncs = {TRUE, FALSE}
  Reads = FALSE
  Nil = Nil
SPECIFICATION PartsSpec
INVARIANTS
  ManifestNamesFiles
PROPERTIES
  SearchIsRight
  CallsReturn
  EverythingRuns
  LoopsEnd
CHECK_DEADLOCK FALSE
