\* Two workers, one outside caller besides the tasks, two concurrent shutdowns, three tasks.
\* No symmetry: it is not sound for liveness.
CONSTANTS
  t1 = t1  t2 = t2  t3 = t3  c1 = c1  s1 = s1  s2 = s2
  Tasks <- ThreeTasks
  Clients <- OneClient
  Stoppers <- TwoStoppers
  ThreadCount = 2
  None = None
SPECIFICATION FairSpec
INVARIANTS
  Fifo
  Drained
  NoLostWakeup
PROPERTIES
  QuietAfterShutdown
  AcceptedIsExecuted
  ShutdownReturns
  ImplementsPool
