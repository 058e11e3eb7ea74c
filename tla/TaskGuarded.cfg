SPECIFICATION Spec
CONSTANTS
  Requests = {r1, r2, r3, r4}
  Operators = {o1}
  o1 = o1
  NoOperator = NoOperator
  Ids = {1}
  Expected = {1, 2, 3}
  MaxHistory = 1
SYMMETRY symmetry
PROPERTIES
  ImplementsLifecycle
CHECK_DEADLOCK FALSE
