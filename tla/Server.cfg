SPECIFICATION FairSpec
CONSTANTS
  Requests = {r1, r2, r3}
  Operators = {o1}
  Strangers = {s1}
  Ttl = 1
  MaxTime = 2
INVARIANTS
  TypeOK
  TokenIsItsOwners
PROPERTIES
  HonouredForTtl
  DrainedBeforeReturn
  ShutdownEnds
CHECK_DEADLOCK FALSE
