SPECIFICATION ClientFairSpec
CONSTANTS
  c1 = c1
  c2 = c2
  c3 = c3
  NoCall = NoCall
  Calls <- TwoCalls
  Kinds = {"plain", "timed", "late", "cancellable", "oneway"}
INVARIANTS
  CancelFindsItsTarget
  WithdrawnNeverRuns
PROPERTIES
  OutcomeIsFinal
  CallsEnd
