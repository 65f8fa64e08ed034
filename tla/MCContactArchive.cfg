CONSTANTS
    Ids <- McIds
    Versions <- McVersions
    Kinds <- McKinds
    HistoryBlockSize = 2
    MaxIndexSize = 2
    IndexSizeNeedOptimize = 2
    MaxDeleted = 1
    MaxTold = 3
    MaxJobs = 3
SPECIFICATION Spec
INVARIANTS TypeOK NoDangling NoSilentGap KeptSurvives
CHECK_DEADLOCK FALSE
