SPECIFICATION Spec
CONSTANTS
  t1 = t1
  t2 = t2
  c1 = c1
  c2 = c2
  Slab = {s1, s2, s3}
  None = None
SYMMETRY Symmetry
INVARIANTS WalksSucceed RequestsServed
PROPERTIES GlobalImplements OwnedImplements BitsExact
CHECK_DEADLOCK FALSE
