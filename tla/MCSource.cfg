CONSTANTS
  Configs <- MCConfigs
  RetryModulus = 4
SPECIFICATION Spec
INVARIANT SourceTypeOK
PROPERTIES
  GivesUpWhenAway
  TalkerIsHeard
CHECK_DEADLOCK FALSE
