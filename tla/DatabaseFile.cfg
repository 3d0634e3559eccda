SPECIFICATION DbSpec
CONSTANTS
  x = x
  y = y
  Vals <- OneVal
  Rows <- MCRows
  Refs <- MCRefs
  SlotsPerPage = 1
  MaxPage = 16
  MaxLeaf = 4
  MaxInternal = 2
  MaxKey = 9
  PageSize = 40
  RowSize = 12
CONSTRAINT FewDeletions
INVARIANT FileIsShared
CHECK_DEADLOCK FALSE
