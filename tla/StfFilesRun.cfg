SPECIFICATION FairSpec
CONSTANTS
  Configs <- All
  QueueLimit = 1
  MaxErrors = 2
  PreRead = 1
  StfsPerFile = 2
  MaxFaults = 1
INVARIANTS
  FileIsThere
  SentWithoutGaps
  SavedFilesAreWhole
PROPERTIES
  ThreadsEnd
CHECK_DEADLOCK FALSE
