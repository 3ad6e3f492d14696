CONSTANTS
  Streams = {s1, s2}
  NoStream = NoStream
  Capacity = 1
  MaxAttempts = 2
  FaultBudget = 1
  EarlyEnd = TRUE
  MaxSends = 1
  MaxReconnects = 0
  MaxResponses = 0
  BeatCap = 1
  AttemptCap = 3
SPECIFICATION Spec
SYMMETRY StreamSymmetry
INVARIANTS
  OfflineSendsSurvive
