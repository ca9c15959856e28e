SPECIFICATION Spec
CONSTANTS
  Texts = {x}
  Blank = Blank
  Files = {f, g, h}
  MaxSize = 3
  MaxLimit = 2
  Offsets = {0, 2}
  Limits = {0, 3}
  MaxLines = 4
  MaxCalls = 3
  MaxEdits = 2
CHECK_DEADLOCK FALSE
INVARIANT TypeOK
INVARIANT PagesCover
INVARIANT FoundAll
