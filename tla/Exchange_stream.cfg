SPECIFICATION ExchangeSpec
CONSTANTS
  Closers = {k1, k2}
  Reader = r
  Idle = TRUE
  Transports = {t1, t2}
  Length = 3
CHECK_DEADLOCK FALSE
INVARIANTS
  ReadsEndCleanly
  UploadKeepsItsWord
PROPERTIES
  EndIsFinal
  ExchangeEnds
