SPECIFICATION Spec
CONSTANTS
  Message = {a}
  MaxVersion = 3
  MaxChains = 2
  MaxQueuedTicks = 1
  MaxArchiveTasks = 3
  MaxRequests = 3
  MaxCrashes = 1
  HistIds <- Both
  DeletesAllowed = TRUE
PROPERTIES
  EditIsKept
  DeleteIsKept
  DeliverySpec
CHECK_DEADLOCK FALSE
