SPECIFICATION ClientFairSpec
CONSTANTS
  c1 = c1
  c2 = c2
  Tag = {c1, c2}
  NoTag = NoTag
  Inline = FALSE
  HasCallback = {c1}
PROPERTIES
  CallReturnsInstance
