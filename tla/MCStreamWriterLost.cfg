SPECIFICATION Spec
CONSTANTS
  t1 = t1
  t2 = t2
  CQ = CQ
  NoThread = NoThread
  Thread = {t1}
  AppKind = {"write"}
  MaxCalls = 2
  Sequential = TRUE
  CallMayDie = FALSE
  Asserts = FALSE
INVARIANT
  NothingLost
