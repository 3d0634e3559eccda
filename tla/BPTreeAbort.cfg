SPECIFICATION Spec
CONSTANTS
  r1 = r1
  r2 = r2
  Refs <- TwoRefs
  MaxPage = 10
  MaxLeaf = 2
  MaxInternal = 2
  MaxKey = 6
INVARIANT NeverAborts
CHECK_DEADLOCK FALSE
