SPECIFICATION MCSpec
CONSTANTS
  MaxNode = 4
  Address = {a1}
  NoTable = NoTable
  PageSize = 2
  MaxFaults = 1
  BadPages = TRUE
PROPERTIES
  PublishedFromTheStart
