SPECIFICATION Spec
CONSTANTS
  t1 = t1
  t2 = t2
  p1 = p1
  p2 = p2
  s1 = s1
  s2 = s2
  w = w
  None = None
PROPERTIES LockFree SearchEnds AccessEnds  WorkersDone
CHECK_DEADLOCK FALSE
