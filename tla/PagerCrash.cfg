SPECIFICATION CrashSpec
CONSTANTS
  a = a
  b = b
  Vals <- MCVals
  NoVal = a
  MaxPage = 3
  NumFrames = 2
  HighWatermark = 2
  LowWatermark = 1
  MaxPins = 2
  MaxHold = 1
INVARIANTS
  TypeOK
  Coherence
  PinsAreTheClients
  GetNeverFails
  UntornIsSound
PROPERTIES
  WritesWholePages
  FlushedSurvives
CHECK_DEADLOCK FALSE
