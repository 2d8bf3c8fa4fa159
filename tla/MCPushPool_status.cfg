\* Two pushes through a pool of one thread, with two callback requests at a time
\* and the cleaning of the record.
SPECIFICATION Spec
CONSTANTS
  Tasks = {p1, p2}
  NoTask = NoTask
  Threads = {th1}
  CoreThreads = 1
  QueueSize = 1
  Callers = {k1, k2}
  SaveMayFail = TRUE
INVARIANTS
  OnlyOldUnknown
PROPERTIES
  ReportStands
  FollowsLifecycle
CHECK_DEADLOCK FALSE
