SPECIFICATION Spec
CONSTANTS
  NoTask = NoTask
  pause1 = pause1
  pause2 = pause2
  wait = wait
  Queues = {q1, q2}
  Tasks <- ThreeTasks
  Kind <- PauseAndWait
  MaxResumers = 2
SYMMETRY Symmetry
INVARIANTS ActionOnce LimitUnlessLate NoOvertaking PausesAreResumers WaitOutlastsAction NothingLeftBehind
CHECK_DEADLOCK FALSE
