\* Two fit libraries of one name and a third of the wrong version; one task
\* each, one worker.
CONSTANTS
  p1 = p1  p2 = p2  p3 = p3  None = None
  Libraries <- MCLibraries
  PluginName <- MCPluginName
  Defect <- MCDefect
  MaxTasks = 1
  ThreadCount = 1
SPECIFICATION FairSpec
INVARIANTS
  LifecycleKept
  NothingLeftBehind
  OneOfAName
PROPERTY OperationsEnd
