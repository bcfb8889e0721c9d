SPECIFICATION ReportSpec
CONSTANTS
  Nothing = Nothing
  Epochs = 2
  EpochSlots = 4
  SlotsPerIndex = 2
  MaxGap = 6
  MaxAge = 6
  MaxTime = 32
  MaxFaults = 1
  Skews <- MCNoSkews
  Spoilt = FALSE
INVARIANTS
  TimestampsAreTrue
CHECK_DEADLOCK FALSE
