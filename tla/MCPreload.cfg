SPECIFICATION MCSpec
CONSTANTS
  p1 = p1
  p2 = p2
  Thread = {t1, t2}
  EarlySize = 2
  Granule = 2
  LibcSize = 2
  ArenaSize = 4
  MinSize = 2
  Limit = 16
  Sizes = {1, 2}
  Counts = {0, 1, 2, 8}
  Alignments = {2, 3}
  Page = 2
  MaxLive = 2
  Zero = Zero
  Junk = Junk
  Bytes = 5
  Depth = 2
  MaxCalls = 2
SYMMETRY Symmetry
INVARIANTS RoutedBack PointersLead BlocksServe
PROPERTIES NoSpill CopiesExact
CHECK_DEADLOCK FALSE
