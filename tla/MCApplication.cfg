SPECIFICATION MCSpec
CONSTANTS
  Gateway = {g0, g1}
  Zero = g0
  Sequence = {s1}
  Request <- Messages
  Frames <- MCFrames
  LoSize = 3
  HiSize = 2
  MaxFrames = 3
  MaxPackets = 2
  MaxPolls = 8
INVARIANTS
  ClockBeforeReports
  NumbersAreKept
CHECK_DEADLOCK FALSE
