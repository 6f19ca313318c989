SPECIFICATION FairSpec
CONSTANTS
  Conns = {1, 2}
  Requests = {1, 2}
  Sizes = {1, 2, 3}
  VerbErrorSize = 1
  MaxMemory = 2
  None = None
INVARIANTS
  TypeOK
  MemoryBounded
  StreamsAreListed
  HandlersEndBeforeStop
PROPERTIES
  RequestsEnd
