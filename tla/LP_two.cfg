SPECIFICATION Spec
CONSTANTS
  Items <- TwoRuns
  NumberOfStreams = 2
  ConcurrentLumis = 2
  CloseOutputs = FALSE
  Early = {"limit"}
  Failing <- AllTransitions
  MaxFailures = 1
  Slow = {"begin", "end"}
INVARIANTS IovStable GlobalEndIsLast
PROPERTIES EventsInTheirLumi NoLumiAfterFailedEnd
CHECK_DEADLOCK FALSE
