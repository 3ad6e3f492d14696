CONSTANTS
  Streams = {s1, s2}
  NoStream = NoStream
  Capacity = 1
  MaxAttempts <- Infinite
  FaultBudget <- Infinite
  EarlyEnd = FALSE
  MaxSends = 0
  MaxReconnects = 0
  MaxResponses = 0
  BeatCap = 1
  AttemptCap = 1
SPECIFICATION MCFairSpec
PROPERTIES
  StopHonoured
