SPECIFICATION WarmFairSpec
CONSTANTS
  Requests = {r1, r2}
  Operators = {o1, o2}
  o1 = o1
  NoOperator = NoOperator
  Ids = {1}
  Expected = {0, 2}
  MaxHistory = 1
PROPERTIES
  EveryRequestReturns
  WritesAreAudited
  FlagReleased
CHECK_DEADLOCK FALSE
