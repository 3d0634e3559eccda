SPECIFICATION Spec
CONSTANTS
  x = x
  y = y
  Rows <- MCRows
  MaxPage = 4
  PageSize = 92
  RowSize = 12
INVARIANTS
  TypeOK
  FreeSlotsAreChained
  RowsDoNotOverlap
  ScanIsComplete
PROPERTIES
  GrowsOnlyWhenFull
  ImplementsRowStore
