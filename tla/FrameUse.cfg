SPECIFICATION Spec
CONSTANTS
  a = a
  Vals <- OneBody
  NoVal = a
  MaxPage = 7
  NumFrames = 3
  HighWatermark = 2
  LowWatermark = 1
  MaxPins = 3
  MaxHold = 1
INVARIANTS
  NoStaleAccess
  FramesAreEnough
  PinsGivenBack
PROPERTY KeepsContract
CHECK_DEADLOCK FALSE
