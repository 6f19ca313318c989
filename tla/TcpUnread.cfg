SPECIFICATION FairSpec
CONSTANTS
  client = client
  server = server
  Client = client
  Server = server
  Messages <- MCToClient
  Polite = {}
  SeqSpace = 32
  Isn <- MCIsn
  Mss = 1
  Buffer = 2
  QueueSpace = 3
  MaxFaults = 0
INVARIANT
  AcknowledgedIsRead
