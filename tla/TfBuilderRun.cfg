SPECIFICATION FairSpec
CONSTANTS
  s1 = s1
  s2 = s2
  StfSenders = {s1, s2}
  Tfs <- MCTfs
  TopologicalRuns = {2}
  EarlyTfs <- MCEarlyTfs
  LateTfs <- MCLateTfs
  Refused <- MCRefused
  Unanswered <- MCUnanswered
  Unreliable <- MCUnreliable
  BufferSize = 2
  MaxNumReqInFlight = 2
  ThreadPoolSize = 1
  MaxRuns = 2
INVARIANTS
  CountersAccounted
  BuiltIsComplete
  BuiltInOrder
PROPERTIES
  EveryTfLeaves
CHECK_DEADLOCK FALSE
