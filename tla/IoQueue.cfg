SPECIFICATION FairSpec
CONSTANTS
  r1 = r1
  r2 = r2
  r3 = r3
  a = a
  b = b
  Requests = {r1, r2, r3}
  Classes = {a, b}
  ClassOf <- MCClassOf
  LengthOf <- MCLengthOf
  Writes = {r3}
  BadFd = {r2}
  BlockingFs = {r3}
  ReadCount = 1
  WriteReqs = 2
  WriteBytes = 1
  Capacity = 2
  MaxReqCount = 2
  MaxBytesCount = 2
  MaxAio = 2
  QueueLength = 1
  Shares = {1, 2}
  Window = 2
  Unsigned = 4
INVARIANTS
  InFlightOnce
  BooksBalance
PROPERTIES
  RequestsAnswered
