SPECIFICATION Spec
CONSTANTS
  Ingests = {p1, p2, p3}
  Reads = {q1}
  WellID = "gw-1"
  Spellings = {"gw-1", "GW-1"}
  Counts = {1, 2}
  Cuts = {1}
  CacheN = 2
  MaxKeep = 2
  MaxSpare = 1
SYMMETRY symmetry
INVARIANTS
  TypeOK
  StoredOnce
  AloneIsKept
  IngestCacheIsFresh
CHECK_DEADLOCK FALSE
