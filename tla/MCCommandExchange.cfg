SPECIFICATION ExchangeSpec
CONSTANTS
  Gateway = {g0, g1}
  Zero = g0
  Sequences = 2
  Sequence <- MCSequence
  Request <- MCRequest
  LoSize = 2
  HiSize = 2
  MaxCommands = 3
  MaxLosses = 3
INVARIANTS
  ExchangeTypeOK
  ExecutionsWereRequested
  ReportsArePaired
PROPERTIES
  HeardIsPaired
CHECK_DEADLOCK FALSE
