SPECIFICATION FairSpec
CONSTANTS
  t1 = t1
  t2 = t2
  CQ = CQ
  NoThread = NoThread
  Thread = {t1, t2}
  AppKind = {"write", "last", "finish"}
  MaxCalls = 4
  Sequential = FALSE
  CallMayDie = TRUE
  Asserts = FALSE
INVARIANTS
  IInv
  PushOrder
  NoStrandedAction
  FutureTellsFate
  RefusedWithReason
PROPERTIES
  ImplementsLossyFifo
  CallReturns
  CallSettles
  FinishAnswered
