SPECIFICATION PipelineSpec
CONSTANTS
  MaxNode = 3
  Address = {a1}
  Gateway = {g1, g2}
  Zero = g2
  Reading = g1
  NoTable = NoTable
  PageSize = 1
  Sequences = 2
  Sequence <- MCSequence
  Request <- MCRequest
  LoSize = 1
  HiSize = 1
  MaxCommands = 4
  MaxLosses = 2
PROPERTIES
  ReaderIsImplemented
  PublishedAtTheEnd
CHECK_DEADLOCK FALSE
