SPECIFICATION FairSpec
CONSTANTS
  Items <- TwoLumis
  NumberOfStreams = 2
  ConcurrentLumis = 1
  CloseOutputs = FALSE
  Early = {}
  Failing = {"event"}
  MaxFailures = 1
  Slow = {}
PROPERTY RunsToCompletion
CHECK_DEADLOCK FALSE
