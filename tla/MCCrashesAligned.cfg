SPECIFICATION ArenaSpec
CONSTANTS
  Process = {p1, p2}
  MaxExtents = 3
  Base = 4
  Size = 8
  Alignment = 2
  Limit = 16
  Sizes = {0, 3}
  Alignments = {1, 4}
  DiesWriting = FALSE
  None = None
INVARIANT NonOverlapping
CHECK_DEADLOCK FALSE
