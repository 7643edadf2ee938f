SPECIFICATION Spec
CONSTANTS
  t1 = t1
  t2 = t2
  CQ = CQ
  NoThread = NoThread
  Thread = {t1}
  AppKind = {"write", "finish"}
  MaxCalls = 3
  Sequential = FALSE
  CallMayDie = FALSE
  Asserts = FALSE
INVARIANT
  OneAtATime
