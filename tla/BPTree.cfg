SPECIFICATION FairSpec
CONSTANTS
  r1 = r1
  r2 = r2
  Refs <- TwoRefs
  MaxPage = 9
  MaxLeaf = 4
  MaxInternal = 2
  MaxKey = 9
CONSTRAINT RefsByParity
INVARIANTS
  TypeOK
  SearchIsExact
  KeysAscend
  TreeIsLinked
  PagesAccounted
  LeavesHalfFull
PROPERTIES
  ImplementsIndex
  CallsReturn
CHECK_DEADLOCK FALSE
