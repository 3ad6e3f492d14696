CONSTANTS
  Calls = {c1, c2}
  NoCall = NoCall
  Peers = {p1}
  MaxMessageAttempts = 1
  Kinds = {"send", "reply"}
  MayEnd = {}
  MaxSeq = 3
  MaxPeerSends = 1
  LossBudget = 1
  StreamCap = 2
  AttemptCap = 4
SPECIFICATION Spec
SYMMETRY CallSymmetry
INVARIANTS
  OwnAnswer
