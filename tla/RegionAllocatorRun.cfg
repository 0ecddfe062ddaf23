SPECIFICATION FairSpec
CONSTANTS
  t1 = t1
  t2 = t2
  Threads = {t1, t2}
  Size = 6
  ALIGN = 2
  Kinds <- DataAndHeaders
  Requests <- Short
  FailingTransfers = {}
  MayStop = TRUE
INVARIANTS
  EveryByteIsSomewhere
PROPERTIES
  KeepsThePool
  AllocationEnds
CHECK_DEADLOCK FALSE
