SPECIFICATION FairSpec
CONSTANTS
  Pressed <- Handlers
  Stored = 1
  Slots = 2
  MaxPresses = 2
  MaxFails = 1
  Gate = "ready"
  AutoOn = TRUE
  Back = FALSE
INVARIANTS
  TypeOK
  IdleMeansFree
  RowsAreOwn
  CopyIsCurrent
  
PROPERTIES
  PatchesStick
  FlagsComeDown
  ResultsArrive
CHECK_DEADLOCK FALSE
