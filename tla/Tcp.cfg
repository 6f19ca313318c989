SPECIFICATION FairSpec
CONSTANTS
  client = client
  server = server
  Client = client
  Server = server
  Messages <- MCToServer
  Polite = {server}
  SeqSpace = 32
  Isn <- MCIsn
  Mss = 1
  Buffer = 2
  QueueSpace = 3
  MaxFaults = 1
INVARIANTS
  SenderKeepsUnacked
PROPERTIES
  ImplementsByteStream
  BothEnd
