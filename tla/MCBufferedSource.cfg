CONSTANTS
  Source <- MCSource
  Starts <- MCStarts
  ReadAhead = 2
  MinReadAhead = 1
  MayFail = TRUE
SPECIFICATION Spec
INVARIANTS
  TypeOK
  OneProducer
  CacheContiguous
  NoMutualWait
  EndMeansAll
PROPERTIES
  StopSettles
  ImplementsStream
