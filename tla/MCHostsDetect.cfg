SPECIFICATION CasSpec
CONSTANTS
  Threads = {"t1", "t2", "t3"}
  Processes = {"p", "q"}
  ProcessOf <- TwoProcesses
  Readers = {}
  Ids = {0, 1}
  Numas <- AnyNode
  Eager = FALSE
  MaxCrashes = 2
  p1 = p1
  p2 = p2
  t1 = t1
  t2 = t2
  Process = {p1, p2}
  Thread = {t1, t2}
  HomeOf <- OneEach
  Brackets = {"Large"}
  MaxSlab = 2
  Cover <- PageCover
  Lazy = TRUE
  Anonymous = FALSE
  Wild = TRUE
  MaxRestarts = 0
  Requester = {0, 1, 2}
  Window = 3
  Words = {u, w}
  MaxValue = 1
  MaxOps = 1
  Ready = TRUE
  Updater = {u1, u2}
  Cell = {c1}
  Value = {x}
  Versions = 16
  MaxUpdates = 4
  MaxFailures = 1
  Stores = FALSE
  Capacity = 3
  Offset = {a, b, c}
  None = None
  Absent = Absent
SYMMETRY Symmetry
INVARIANT DetectSound
CHECK_DEADLOCK FALSE
