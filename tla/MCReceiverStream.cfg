CONSTANTS
  Streams = {s1, s2}
  Capacity = 2
  MaxPayloads = 3
  MaxTonic = 2
SPECIFICATION MCSpec
SYMMETRY StreamSymmetry
INVARIANTS
  PipeTypeOK
  Bounded
  OneStray
  StreamOrder
  PayloadsConserved
  LossBounded
PROPERTY
  ImplementsLossyFifo
