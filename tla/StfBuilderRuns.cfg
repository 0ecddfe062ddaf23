SPECIFICATION FairSpec
CONSTANTS
  StfIds = {1, 2, 4}
  MaxStfId = 4
  MaxRuns = 2
  MaxMessages = 3
  MaxMissingStfs = 2
  MaxStfsInPipeline = 4
INVARIANTS
  PipelineBounded
  OnlyGapsAreFilled
PROPERTIES
  RejectedWentOutOrLeftover
  EverythingLeaves
CHECK_DEADLOCK FALSE
