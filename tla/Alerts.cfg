SPECIFICATION Spec
CONSTANTS
  Evaluations = {e1, e2, e3}
  Acks = {a1, a2}
  Pressures = {1501}
  Temperatures = {250, 251}
SYMMETRY symmetry
INVARIANTS
  TypeOK
  DuplicatesOverlapped
PROPERTIES
  AcknowledgedStays
CHECK_DEADLOCK FALSE
