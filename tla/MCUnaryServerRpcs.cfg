SPECIFICATION ServerFairSpec
CONSTANTS
  k1 = k1
  k2 = k2
  k3 = k3
  k4 = k4
  Call = {k1, k2, k3, k4}
  Tag <- MCTag
  NoTag = NoTag
  Inline = FALSE
  Handler = {h1, h2}
  NoHandler = NoHandler
  StreamHandler = {h2}
INVARIANTS
  ServerIInv
  HandlerAlive
  CallHasOneAction
  KeepsListening
PROPERTIES
  ImplementsUnaryService
  EveryRpcOver
  StopReturns
