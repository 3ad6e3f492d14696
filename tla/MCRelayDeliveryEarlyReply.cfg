CONSTANTS
  Calls = {c1}
  NoCall = NoCall
  Peers = {p1}
  MaxMessageAttempts = 1
  Kinds = {"ask"}
  MayEnd = {}
  MaxSeq = 1
  MaxPeerSends = 0
  LossBudget = 0
  StreamCap = 2
  AttemptCap = 4
SPECIFICATION Spec
SYMMETRY CallSymmetry
INVARIANTS
  ReplyReachesAsk
