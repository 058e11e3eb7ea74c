SPECIFICATION Spec
CONSTANTS
  Ids = {1, 2, 3}
  Priorities = {"high", "low"}
  Statuses = {"queued", "active"}
  Pages <- const_Pages
  Sizes <- const_Sizes
  DefaultSize = 2
  MaxSize = 3
  MaxInt = 7
  Second = 2
  MaxTime = 2
INVARIANTS
  NothingMissed
PROPERTIES
  PageAsAsked
CHECK_DEADLOCK FALSE
