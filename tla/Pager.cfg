SPECIFICATION FairSpec
CONSTANTS
  a = a
  b = b
  Vals <- MCVals
  NoVal = a
  MaxPage = 3
  NumFrames = 2
  HighWatermark = 2
  LowWatermark = 1
  MaxPins = 1
  MaxHold = 1
INVARIANT DirtyBelowWatermark
PROPERTIES
  ImplementsStore
  OpenEnds
CHECK_DEADLOCK TRUE
