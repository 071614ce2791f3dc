SPECIFICATION FairSpec
CONSTANTS
  Tasks = {t1, t2}
  Threads = {p1, p2, p3}
  Null = Null
  Failure = Failure
  InitialSize = 1
  Rounds = 2
INVARIANTS SpawnedOnceInTime ListedIsAnnounced FailureReachesTasks
PROPERTIES AddedTaskRuns
CHECK_DEADLOCK FALSE
