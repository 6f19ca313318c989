SPECIFICATION FairSpec
CONSTANTS
  Modes <- EveryMode
  Align = 2
  InitialSize = 2
  SizeHint = 3
  Extents <- SomeExtents
  Lengths <- SomeLengths
  Vectors <- OneVector
  MaxOps = 3
INVARIANTS
  EofChangersAlone
  AckedDataStays
PROPERTIES
  OperationsComplete
