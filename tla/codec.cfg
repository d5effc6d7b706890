CONSTANTS
  Types <- MCTypes
  Depth <- MCDepth
  Nesting = 4
  Catalog <- MCTypes
  UdtOids <- MCUdtOids
  Values <- MCValues
  Data <- MCData
  Samples <- MCSamples
  Queries <- MCQueries
  Tables <- MCTables
  Reads <- MCReads
  SqlStates <- MCSqlStates
  Null = Null
  TickRatio = 10
  EpochShift = 3
  ClockBytes = 2
  MaxCalls = 2
SPECIFICATION Spec
INVARIANTS
  TypeOK
  PointersValid
  ServerUnderstands
  ReadTruthful
  SqlStateKept
CHECK_DEADLOCK FALSE
