SPECIFICATION QueueSpec
CONSTANTS
  a1 = a1
  a2 = a2
  a3 = a3
  Tag = {a1, a2, a3}
  NoTag = NoTag
  Inline = TRUE
SYMMETRY TagSymmetry
INVARIANTS
  QueueIInv
  DestroyedWhenDrained
