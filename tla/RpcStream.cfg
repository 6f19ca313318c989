SPECIFICATION FairSpec
CONSTANTS
  c = c
  s = s
  Client = c
  Server = s
  Messages <- MCMessages
  Eos = Eos
  EofMark = EofMark
  Fin = Fin
  Memory = 2
  MaxQueued = 1
  MaxFaults = 1
INVARIANTS
  EosIsLast
PROPERTIES
  ImplementsChannel
  StreamEnds
