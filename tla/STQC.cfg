SPECIFICATION FairSpec
CONSTANTS
  a = a
  b = b
  c = c
  all = all
  front = front
  NoTask = NoTask
  Queues <- ThreeQueues
  Tasks <- TwoTasks
  Path <- TwoPaths
  Synchronous <- WaitForAllQueues
INVARIANTS ExclusiveUnlessLate PausesOwned WaitOutlastsAction
PROPERTIES ActionRunsAndReleases
CHECK_DEADLOCK FALSE
