SPECIFICATION FairSpec
CONSTANTS
  Message = {a, b}
  MaxVersion = 1
  MaxChains = 2
  MaxQueuedTicks = 1
  MaxArchiveTasks = 3
  MaxRequests = 0
  MaxCrashes = 0
  HistIds <- Both
  DeletesAllowed = FALSE
PROPERTIES
  TypedIsSent
CHECK_DEADLOCK FALSE
