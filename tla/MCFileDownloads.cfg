\* Two faults: failed requests, or one of them and a restart, at any moment.
SPECIFICATION FairSpec
CONSTANTS
  doc = doc
  a = a
  b = b
  Url = {doc}
  Request = {a, b}
  UrlOf <- TwoOfOne
  Total = 2
  MaxChunk = 0
  NoFile = NoFile
  NoRequest = NoRequest
  MaxFaults = 2
INVARIANTS TypeOK OneDownload FileIsWhole
PROPERTIES VerdictIsDue EveryDownloadIsAnswered
CHECK_DEADLOCK FALSE
