CONSTANTS
  Configs <- MCConfigs
  RetryModulus = 4
SPECIFICATION Spec
PROPERTIES
  SilenceIsNoticed
CHECK_DEADLOCK FALSE
