CONSTANTS
  p1 = p1
  p2 = p2
  p3 = p3
  t1 = t1
  t2 = t2
  t3 = t3
  t4 = t4
SPECIFICATION Spec
INVARIANTS
  LogIsRead
  FileIsKept
  LocksAndLimitsHold
  RepairIsRight
PROPERTIES
  DestroySparesOpen
CHECK_DEADLOCK FALSE
