SPECIFICATION ReportSpec
CONSTANTS
  Nothing = Nothing
  Epochs = 2
  EpochSlots = 4
  SlotsPerIndex = 2
  MaxGap = 6
  MaxAge = 6
  MaxTime = 26
  MaxFaults = 2
  Skews <- MCSkews
  Spoilt = TRUE
INVARIANTS
  ReportTypeOK
  FaultlessReportsAreExact
PROPERTIES
  ReportsRecover
  BackwardsIsRepaired
CHECK_DEADLOCK FALSE
