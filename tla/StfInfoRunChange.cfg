\* Two runs that the StfSenders enter one after the other.
SPECIFICATION Spec
CONSTANTS
  StfSenders = {s1, s2}
  TfIds = {1, 2}
  Runs = {0, 1}
  Levels = {"low", "full"}
  MaxDelayTf = 0
  BuildIncomplete = FALSE
INVARIANTS
  PendingNotHandled
  LastStfIsAccountedFor
CHECK_DEADLOCK FALSE
