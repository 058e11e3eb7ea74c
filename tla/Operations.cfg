SPECIFICATION WarmSpec
CONSTANTS
  Requests = {r0, r1, r2, r3}
  r0 = r0
  Ids = {1}
  Expected = {0, 1, 2}
SYMMETRY symmetry
INVARIANTS
  TypeOK
  HistoryReplays
  RevisionCountsAudit
PROPERTIES
  GuardedMovesLegal
CHECK_DEADLOCK FALSE
