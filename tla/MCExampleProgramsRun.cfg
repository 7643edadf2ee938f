SPECIFICATION FairSpec
CONSTANTS
  c1 = c1
  c2 = c2
  k1 = k1
  k2 = k2
  k3 = k3
  Tag = {c1, c2}
  NoTag = NoTag
  Inline = FALSE
  HasCallback = {c1}
  Incoming = {k1, k2, k3}
  MaxFailed = 1
  Unserved = NoTag
  Method <- MCMethod
INVARIANTS
  TypesFit
  ProgramsIInv
  DiesOfLostRpc
  NothingLeft
PROPERTIES
  ImplementsAtMostOnce
  MainReturns
