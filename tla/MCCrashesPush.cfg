SPECIFICATION PushingSpec
CONSTANTS
  Process = {p1, p2}
  MaxExtents = 3
  Base = 4
  Size = 8
  Alignment = 2
  Limit = 16
  Sizes = {0, 3, 13}
  Alignments = {1, 2}
  DiesWriting = FALSE
  None = None
SYMMETRY Symmetry
INVARIANT GlobalExclusive
CHECK_DEADLOCK FALSE
