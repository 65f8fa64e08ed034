SPECIFICATION Spec
CONSTANTS
  p = p
  n1 = n1
  n3 = n3
  Task = {p, n1, n3}
  Priority <- SmallUrgency
  MaxEasy = 1
  MaxCalls = 2
INVARIANTS
  NeverLostNorDoubled
  OrphansAreCancelled
PROPERTIES
  StartsInOrder
  OversleepsOnlyFromIdle
  BookSpec
CHECK_DEADLOCK FALSE
