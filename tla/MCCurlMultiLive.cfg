SPECIFICATION FairSpec
CONSTANTS
  p = p
  n1 = n1
  n3 = n3
  Task = {p, n1}
  Priority <- PairUrgency
  MaxEasy = 1
  MaxCalls = 1
PROPERTIES
  RequestsAreAnswered
  CleanupAnswers
CHECK_DEADLOCK FALSE
