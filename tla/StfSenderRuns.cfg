SPECIFICATION FairSpec
CONSTANTS
  TfBuilders = {t1}
  Drop = drop
  Stfs <- MCTwoStfs
  FailedBuilds <- MCTwoStfs
  MaxRuns = 2
INVARIANTS
  BufferAccounted
  SendingAccounted
  TakenIsThere
PROPERTIES
  EveryStfLeaves
CHECK_DEADLOCK FALSE
