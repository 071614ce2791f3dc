SPECIFICATION Spec
CONSTANTS
  Tasks = {t1, t2, t3}
  Threads = {p1, p2}
  NoTask = NoTask
  MaxPauses = 1
INVARIANT NoTaskStranded
CHECK_DEADLOCK FALSE
