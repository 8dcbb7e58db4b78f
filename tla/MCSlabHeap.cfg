SPECIFICATION MCSpec
CONSTANTS
  Thread = {t1, t2}
  c1 = c1
  c2 = c2
  t3 = t3
  Class = {c1, c2}
  Count <- CountTwoOne
  MaxSlab = 3
  CountCacheSlab = 0
  BatchGlobalPush = 1
  BatchBumpPop = 1
  Validate = TRUE
  None = None
SYMMETRY Symmetry
INVARIANTS OnePlace Conservation NoSlabLost ClaimSafe OwnerDecision OtherSizes Accounted
PROPERTY Implements
CHECK_DEADLOCK FALSE
