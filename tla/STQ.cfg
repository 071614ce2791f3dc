SPECIFICATION FairSpec
CONSTANTS
  Tasks = {t1, t2}
  Threads = {p1, p2}
  NoTask = NoTask
  MaxPauses = 2
INVARIANTS Protocol QueuedHasPicker DestroyedAfterLastAction
PROPERTIES ImplementsExecutor ImplementsClientView PushedTaskRuns
CHECK_DEADLOCK FALSE
