SPECIFICATION FairSpec
CONSTANTS
  b1 = b1
  b2 = b2
  TfBuilders = {b1, b2}
  MaxTf = 2
  TopoStfs <- MCTopoStfs
  TfSize = 10
  BufferSize = 21
  mMaxTfsInBuilding = 2
  sTfSizeOverestimatePercent = 10
  GivenUp = {1}
  Joining <- MCJoining
  Failing <- MCFailing
  Restarting <- MCRestarting
  Silent <- MCSilent
INVARIANTS
  OvercommitsOneTf
  ReadyIsKnown
PROPERTIES
  SameTfBuilder
  ReadyFollows
  EstimateRecovers
CHECK_DEADLOCK FALSE
