SPECIFICATION WarmSpec
CONSTANTS
  Requests = {r1, r2, r3}
  Ids = {1}
  Expected = {0, 1, 2}
  Intervals = {0}
  DefaultDays = 2
  MaxTime = 2
SYMMETRY symmetry
INVARIANTS
  TypeOK
  DoneIsNotDue
CHECK_DEADLOCK FALSE
