CONSTANTS
  Calls = {c1, c2}
  NoCall = NoCall
  Peers = {p1}
  MaxMessageAttempts = 1
  Kinds = {"send", "ask", "reply"}
  MayEnd = {"stop"}
  MaxSeq = 3
  MaxPeerSends = 1
  LossBudget = 0
  StreamCap = 1
  AttemptCap = 2
SPECIFICATION Spec
SYMMETRY CallSymmetry
INVARIANTS
  TypeOK
  NothingForgotten
  SingleAttempt
  CollisionsExplained
PROPERTIES
  KeepsPromise
