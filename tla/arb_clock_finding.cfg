\* The silence rule when the wall clock is stepped.
SPECIFICATION Spec
CONSTANTS
  Configs <- MCConfigs
  Symbols <- MCSymbols
  Threshold = 1
  InputCap = 1
  OutputCap = 1
  MaxTicks = 2
  MaxTime = 2
  Skews <- Stepped
PROPERTIES DropOnlyWhileHealthy
CHECK_DEADLOCK FALSE
