SPECIFICATION StreamSpec
CONSTANTS
  Call = {s1}
  Tag <- MCTag
  NoTag = NoTag
  Inline = FALSE
INVARIANT
  ErrorThrows
