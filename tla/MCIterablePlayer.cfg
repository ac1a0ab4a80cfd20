CONSTANTS
  Source <- MCSource
  End = 4
  StopTime = 1
  TickRanges = {1, 2}
  SeekTimes = {0, 3}
  UntilTimes = {2}
  MaxCalls = 3
SPECIFICATION Spec
CHECK_DEADLOCK FALSE
INVARIANTS
  TypeOK
  NoInvariantError
  SeekShowsBackfill
  EmitsAllOnce
PROPERTIES
  CloseCompletes
  PlaybackEnds
