SPECIFICATION Spec
CONSTANTS
  StfSenders = {"a", "b"}
  FileNodes = {"a"}
  Equipment = {1, 2}
  RegionsOf <- MCRegions
  PartsOf <- MCParts
  PlacesOf <- MCPlaces
  MaxGap = 1
  LateRegions = FALSE
INVARIANTS
  TfSizeIsRecorded
