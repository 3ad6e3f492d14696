CONSTANTS
  Calls = {c1}
  NoCall = NoCall
  Peers = {p1}
  MaxMessageAttempts = 2
  Kinds = {"send"}
  MayEnd = {}
  MaxSeq = 1
  MaxPeerSends = 0
  LossBudget = 3
  StreamCap = 2
  AttemptCap = 4
SPECIFICATION Spec
SYMMETRY CallSymmetry
INVARIANTS
  RetryBound
