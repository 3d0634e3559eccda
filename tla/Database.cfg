SPECIFICATION DbFairSpec
CONSTANTS
  x = x
  y = y
  Vals <- TwoVals
  Rows <- MCRows
  Refs <- MCRefs
  SlotsPerPage = 2
  MaxPage = 11
  MaxLeaf = 2
  MaxInternal = 2
  MaxKey = 5
  PageSize = 64
  RowSize = 12
INVARIANTS
  StructuresAgree
PROPERTIES
  ImplementsTable
  StatementsEnd
CHECK_DEADLOCK FALSE
