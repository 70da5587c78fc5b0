\* Both ways down, one event, two services, two workers.
CONSTANTS
  e1 = e1  e2 = e2  s1 = s1  s2 = s2
  Events <- OneEvent
  Registered <- TwoServices
  ThreadCount = 2
SPECIFICATION FairSpec
INVARIANTS
  ReferencesLive
  ResetDestroys
  NothingRefused
  ServicesStopped
  DisplayReleased
PROPERTIES
  QuitEndsProgram
  StopEndsRun
  AppsEndInOrder
