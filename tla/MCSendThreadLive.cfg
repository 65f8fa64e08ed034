SPECIFICATION FairSpec
CONSTANTS
  h1 = h1
  h2 = h2
  m1 = m1
  m2 = m2
  a1 = a1
  d1 = d1
  getHistory = getHistory
  delMsgBatch = delMsgBatch
  sendIM = sendIM
  getIdInfo = getIdInfo
  Packet <- SyncPackets
  Method <- SyncMethods
  MethodOf <- SyncMethodOf
  Priority <- SyncPriority
  Partial = {}
  NeverAsync = {}
  AutoResend = {d1}
  MaxSessions = 2
PROPERTIES
  NoStartWhileLocked
  QueuedIsSettled
CHECK_DEADLOCK FALSE
