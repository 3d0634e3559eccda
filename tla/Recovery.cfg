SPECIFICATION RecoverySpec
CONSTANTS
  x = x
  y = y
  Vals <- TwoVals
  Rows <- MCRows
  Refs <- MCRefs
  SlotsPerPage = 1
  MaxPage = 6
  MaxLeaf = 2
  MaxInternal = 2
  MaxKey = 3
  PageSize = 40
  RowSize = 12
  MaxWriteBacks = 1
CONSTRAINT OneOther
INVARIANTS
  FlushedRowsStay
  FlushedFileAgrees
  IndexedRowsAreLive
CHECK_DEADLOCK FALSE
