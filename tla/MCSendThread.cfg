SPECIFICATION Spec
CONSTANTS
  h1 = h1
  h2 = h2
  m1 = m1
  m2 = m2
  a1 = a1
  d1 = d1
  getHistory = getHistory
  delMsgBatch = delMsgBatch
  sendIM = sendIM
  getIdInfo = getIdInfo
  Packet <- MixedPackets
  Method <- MixedMethods
  MethodOf <- MixedMethodOf
  Priority <- MixedPriority
  Partial <- MixedPartial
  NeverAsync = {}
  AutoResend = {h2, a1}
  MaxSessions = 1
SYMMETRY MessageSymmetry
INVARIANTS WaitingExact ExecutionExact
PROPERTIES StallOnlyAfterAsync EqualsKeepTheirOrder LedgerSpec
CHECK_DEADLOCK FALSE
