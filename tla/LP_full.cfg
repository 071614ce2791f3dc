SPECIFICATION Spec
CONSTANTS
  Items <- ThreeLumis
  NumberOfStreams = 2
  ConcurrentLumis = 1
  CloseOutputs = FALSE
  Early = {"limit"}
  Failing = {}
  MaxFailures = 0
  Slow = {}
INVARIANT EndsOrderly
CHECK_DEADLOCK FALSE
