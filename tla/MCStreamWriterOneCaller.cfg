SPECIFICATION Spec
CONSTANTS
  t1 = t1
  t2 = t2
  CQ = CQ
  NoThread = NoThread
  Thread = {t1, t2}
  AppKind = {"write", "last", "finish"}
  MaxCalls = 5
  Sequential = TRUE
  CallMayDie = TRUE
  Asserts = TRUE
INVARIANTS
  StateTracksStream
  OnlySecondEndAborts
