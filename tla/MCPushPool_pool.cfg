\* A push for each place of a small pool (two core threads, a queue of one, a
\* thread beyond the core), and one that is rejected.
SPECIFICATION Spec
CONSTANTS
  Tasks = {p1, p2, p3, p4, p5}
  NoTask = NoTask
  Threads = {th1, th2, th3}
  CoreThreads = 2
  QueueSize = 1
  Callers = {}
  SaveMayFail = FALSE
VIEW PoolView
SYMMETRY Symmetry
INVARIANTS
  OnePlace
  QueueServed
  RejectedWaits
  OfflineUnsent
CHECK_DEADLOCK FALSE
