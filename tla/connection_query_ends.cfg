CONSTANTS
  Size = 2
  OutCap = 1
  InCap = 1
  MaxQueries = 2
  MaxNotes = 2
  MayClose = FALSE
SPECIFICATION FairSpec
PROPERTIES
  QueryEnds
CHECK_DEADLOCK FALSE
