CONSTANTS
  Calls = {c1, c2}
  NoCall = NoCall
  Peers = {p1}
  MaxMessageAttempts <- Infinite
  Kinds = {"send", "ask"}
  MayEnd = {"fail"}
  MaxSeq = 2
  MaxPeerSends = 0
  LossBudget = 1
  StreamCap = 1
  AttemptCap = 2
SPECIFICATION FairSpec
INVARIANTS
  OwnAnswer
PROPERTIES
  KeepsPromise
  SilenceIsFinal
  AtLeastOnceCompletes
