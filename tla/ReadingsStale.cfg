SPECIFICATION Spec
CONSTANTS
  Ingests = {p1}
  Reads = {q1, q2}
  WellID = "gw-1"
  Spellings = {"gw-1"}
  Counts = {2}
  Cuts = {0}
  CacheN = 2
  MaxKeep = 2
  MaxSpare = 1
INVARIANTS
  RecentShowsIngested
CHECK_DEADLOCK FALSE
