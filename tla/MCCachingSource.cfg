CONSTANTS
  Source <- MCSource
  End = 4
  Starts = {0, 2, 3}
  Ends = {2, 4}
  TopicSets = {{"a"}, {"a", "b"}}
  MaxBlockSize = 2
  MaxTotalSize = 3
  MaxOpens = 3
SPECIFICATION Spec
CHECK_DEADLOCK FALSE
INVARIANTS
  TypeOK
  CacheIsRight
  SizeIsCounted
  BackfillOfFinishedIsLast
PROPERTIES
  IteratorEnds
  ImplementsStream
