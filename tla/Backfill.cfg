SPECIFICATION FairSpec
CONSTANTS
  Jobs = {j1, j2}
  Repaired = {j2}
  MaxLines = 4
  Sizes = {1, 3}
  MaxReadings = 4
  MaxWorkers = 2
  Buffer = 1
  MaxKeep = 2
INVARIANTS
  TypeOK
  EachLineOnce
  AloneIsKept
  NoSendAfterClose
  NeverSettles
  CompleteAtRest
PROPERTIES
  RepairedSettle
  AllInserted
  CancelledComesToRest
CHECK_DEADLOCK FALSE
