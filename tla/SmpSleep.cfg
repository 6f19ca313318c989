SPECIFICATION SleepFairSpec
CONSTANTS
  Senders = {s1, s2}
  MaxPushes = 2
  BufferSize = 2
INVARIANTS
  SleepTypeOK
  NoLostWakeup
  SleepIsAnnounced
PROPERTIES
  PushedIsProcessed
