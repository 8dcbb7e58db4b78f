SPECIFICATION MCSpec
CONSTANTS
  p1 = p1
  p2 = p2
  t1 = t1
  t2 = t2
  None = None
  Process = {p1, p2}
  Thread = {t1, t2}
  ProcessOf <- TwoProcesses
  SlotCount = 2
  SlotSize = 2
  Sizes = {1, 3}
  DescCount = 3
  BlocksOf <- TwoAndOne
  MaxCrashes = 0
  MaxHeld = 2
  Prompt = FALSE
   
PROPERTY HazardProtects
CHECK_DEADLOCK FALSE
