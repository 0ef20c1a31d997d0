CONSTANTS
  Requests <- SomeRequests
  Routes <- SomeRoutes
  Handled <- Dav
  RawUris <- Dav
  Chunk = 2
  Buffer = 3
  MaxBody = 4
  MaxRequests = 3
  MaxWaiting = 1
CHECK_DEADLOCK FALSE
SPECIFICATION FairSpec
INVARIANT RawBodyWhole
INVARIANT UploadsWholeOrNone
INVARIANT EachAnsweredForItself
PROPERTY StopEnds
