\* Every accepted push is run and every record removed, also when a push finds
\* the pool full.
SPECIFICATION FairSpec
CONSTANTS
  Tasks = {p1, p2, p3}
  NoTask = NoTask
  Threads = {th1}
  CoreThreads = 1
  QueueSize = 1
  Callers = {}
  SaveMayFail = FALSE
PROPERTIES
  AcceptedEnds
  MapDrains
CHECK_DEADLOCK FALSE
