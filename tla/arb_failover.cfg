\* Exact clock: the silence rule, conservation and the refinement.
SPECIFICATION Spec
CONSTANTS
  Configs <- MCConfigs
  Symbols <- MCSymbols
  Threshold = 1
  InputCap = 2
  OutputCap = 1
  MaxTicks = 4
  MaxTime = 3
  Skews <- NoSkew
INVARIANTS TypeOK TicksAccountedFor FeedInv
PROPERTIES DropOnlyWhileHealthy RefinesFeed
CHECK_DEADLOCK FALSE
