SPECIFICATION FairSpec
CONSTANTS
  Items <- TwoFiles
  NumberOfStreams = 2
  ConcurrentLumis = 1
  CloseOutputs = TRUE
  Early = {"signal"}
  Failing <- AllTransitions
  MaxFailures = 3
  Slow = {}
INVARIANTS PrincipalAvailable AllStreamsContinue JobLeavesNothingOpen
PROPERTY CompletesUnlessBlocked
CHECK_DEADLOCK FALSE
