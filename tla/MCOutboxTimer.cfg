SPECIFICATION Spec
CONSTANTS
  Message = {a}
  MaxVersion = 1
  MaxChains = 2
  MaxQueuedTicks = 2
  MaxArchiveTasks = 2
  MaxRequests = 0
  MaxCrashes = 0
  HistIds <- Both
  DeletesAllowed = FALSE
PROPERTIES
  PostTimerIsEmpty
CHECK_DEADLOCK FALSE
