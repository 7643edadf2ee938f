SPECIFICATION StreamFairSpec
CONSTANTS
  Call = {s1}
  Tag <- MCTag
  NoTag = NoTag
  Inline = FALSE
INVARIANTS
  StreamIInv
  StreamCallAlive
  BegunTooLate
  FinishDelivers
PROPERTIES
  ResponseArrives
  DestructorReturnsOrWaits
