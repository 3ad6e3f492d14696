CONSTANTS
  Streams = {s1, s2}
  NoStream = NoStream
  Capacity = 1
  MaxAttempts <- Infinite
  FaultBudget = 1
  EarlyEnd = TRUE
  MaxSends = 1
  MaxReconnects = 1
  MaxResponses = 0
  BeatCap = 0
  AttemptCap = 1
SPECIFICATION FairSpec
PROPERTIES
  PipeDiscipline
  KeepsConnectionPromise
  StopHonoured
  Reconnects
  SendsResolved
