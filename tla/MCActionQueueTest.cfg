SPECIFICATION QueueFairSpec
CONSTANTS
  a1 = a1
  a2 = a2
  a3 = a3
  Tag = {a1}
  NoTag = NoTag
  Inline = TRUE
PROPERTY
  DestructorReturns
