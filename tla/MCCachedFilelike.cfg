CONSTANTS
  Size = 9
  Caches = {4, 9}
  BlockSize = 2
  Threshold = 1
  Reads <- MCReads
  Nil = Nil
  MaxChunk = 2
  MaxReads = 3
  MaxErrors = 2
SPECIFICATION Spec
CHECK_DEADLOCK FALSE
INVARIANTS
  TypeOK
  BytesRight
PROPERTIES
  ReadsSettle
