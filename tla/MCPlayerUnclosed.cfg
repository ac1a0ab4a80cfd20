CONSTANTS
  Source <- MCSource
  End = 4
  StopTime = 1
  TickRanges = {1, 2}
  SeekTimes = {0}
  UntilTimes = {}
  MaxCalls = 2
SPECIFICATION Spec
CHECK_DEADLOCK FALSE
PROPERTY CloseTerminates
