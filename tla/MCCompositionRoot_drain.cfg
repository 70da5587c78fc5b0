\* Queued dispatches run after the bus is gone: expected violation.
CONSTANTS
  e1 = e1  e2 = e2  s1 = s1  s2 = s2
  Events <- TwoEvents
  Registered <- NoServices
  ThreadCount = 2
SPECIFICATION Spec
INVARIANT HandlersOutlived
