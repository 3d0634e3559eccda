SPECIFICATION Spec
CONSTANTS
  Tables <- WideTables
  Inputs <- SmallInputs
  Wheres <- SmallWheres
  MaxId = 2
  DefaultSize = 4
  SizeModulus = 64
  StrSize = 16
  MaxColumns = 3
  MaxRowSize = 28
  Atoi <- MCAtoi
  Chars <- MCChars
INVARIANTS
  ColumnsFit
CHECK_DEADLOCK FALSE
