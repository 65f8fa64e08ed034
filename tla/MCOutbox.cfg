SPECIFICATION Spec
CONSTANTS
  Message = {a, b}
  MaxVersion = 2
  MaxChains = 2
  MaxQueuedTicks = 1
  MaxArchiveTasks = 2
  MaxRequests = 2
  MaxCrashes = 1
  HistIds <- Both
  DeletesAllowed = FALSE
INVARIANTS OneActiveChain NoDuplicate
PROPERTIES MessageIsKept StrandedOnlyBy
CHECK_DEADLOCK FALSE
