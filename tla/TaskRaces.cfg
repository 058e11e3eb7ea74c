SPECIFICATION WarmSpec
CONSTANTS
  Requests = {r1, r2, r3}
  Operators = {o1, o2}
  o1 = o1
  NoOperator = NoOperator
  Ids = {1}
  Expected = {0, 2, 3}
  MaxHistory = 2
SYMMETRY symmetry
INVARIANTS
  TypeOK
  OneGuardedWinner
  AssignExclusion
  HistoryFaithful
  CompletionRemembered
PROPERTIES
  GuardedWritesLegal
  BlockedForGood
CHECK_DEADLOCK FALSE
