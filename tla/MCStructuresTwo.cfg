SPECIFICATION TwoSpec
CONSTANTS
  t1 = t1
  t2 = t2
  c1 = c1
  c2 = c2
  Slab = {s1, s2}
  None = None
SYMMETRY Symmetry
INVARIANT UnsizedIsOwned
CHECK_DEADLOCK FALSE
