\* One run, three TFs: ids 1 and 2 can both arrive late, id 1 beyond the window.
SPECIFICATION FairSpec
CONSTANTS
  StfSenders = {s1, s2}
  TfIds = {1, 2, 4}
  Runs = {0}
  Levels = {"low", "high"}
  MaxDelayTf = 2
  BuildIncomplete = TRUE
INVARIANTS
  PendingBelowCompletedIsHopeless
  CompleteTfsInOrder
PROPERTIES
  EveryTfLeaves
CHECK_DEADLOCK FALSE
