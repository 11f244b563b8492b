\* The wall clock runs one unit ahead at times; a fair scheduler.
SPECIFICATION FairSpec
CONSTANTS
  Configs <- ClockConfigs
  Symbols <- MCSymbols
  Threshold = 1
  InputCap = 1
  OutputCap = 1
  MaxTicks = 3
  MaxTime = 3
  Skews <- Ahead
PROPERTIES NoBlackout SilenceErrorBounded
CHECK_DEADLOCK FALSE
