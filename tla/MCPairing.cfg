CONSTANTS
  NonceLen = 2
  Apps = {a1}
  Orbs = {o1, o2}
  OldOrbs = {o2}
  Data <- MCData
  Protocols = {3, 4}
  HashLen = 16
  MaxFresh = 4
SPECIFICATION Spec
CHECK_DEADLOCK FALSE
INVARIANTS
  TypeOK
  PairedDataIsHashed
  PrefixesInStrings
  PairedInThisSession
  RequestedSessionsAgree
  IpcpForThisSession
