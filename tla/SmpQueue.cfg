SPECIFICATION FairSpec
CONSTANTS
  i1 = i1
  i2 = i2
  i3 = i3
  i4 = i4
  Items <- FourItems
  QueueLength = 2
  BatchSize = 2
  After <- FirstTwoWaitForFourth
  StopItem = i3
INVARIANTS
  SleepIsSafe
PROPERTIES
  ImplementsSubmitTo
  SubmittedCompletes
