CONSTANTS
  BlockCount = 3
  Selections <- MCSelections
  Sizes <- MCSizes
  MaxCacheSize = 5
  MayFail = TRUE
  MaxCalls = 4
SPECIFICATION Spec
CHECK_DEADLOCK FALSE
INVARIANTS
  TypeOK
  CacheAccounted
  LoadedWhenWaiting
PROPERTIES
  LoaderRests
