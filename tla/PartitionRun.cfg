SPECIFICATION FairSpec
CONSTANTS
  s1 = s1
  s2 = s2
  b1 = b1
  StfSenders = {s1, s2}
  TfBuilders = {b1}
  Transports = {"UCX", "FairMQ"}
  FailingStfSenders = {s2}
  FailingTfBuilders = {b1}
INVARIANTS
  ClientIsConnected
  OrphansAreLeft
PROPERTIES
  TerminatingEnds
  ConnectingEnds
CHECK_DEADLOCK FALSE
