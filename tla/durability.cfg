CONSTANTS
  Threads = {t1, t2}
  MaxBatches = 3
  WriteBufferSize = 1
  kL0_CompactionTrigger = 2
  kL0_SlowdownWritesTrigger = 2
  kL0_StopWritesTrigger = 3
  MaxFaults = 0
  MaxCrashes = 2
  CompactRanges = 0
  Syncs = {TRUE, FALSE}
  Reads = FALSE
  Nil = Nil
SPECIFICATION PartsSpec
INVARIANTS
  WritesSurvive
  FilesInUseExist
  RecoverIsRight
CHECK_DEADLOCK FALSE
