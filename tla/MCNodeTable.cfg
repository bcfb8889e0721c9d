SPECIFICATION FairSpec
CONSTANTS
  MaxNode = 4
  Address = {a1}
  NoTable = NoTable
  PageSize = 2
  MaxFaults = 3
  BadPages = TRUE
INVARIANTS
  BuilderHasNoHoles
PROPERTIES
  PublishedHasNoHoles
  WholeReadIsPublished
  TableIsLearned
