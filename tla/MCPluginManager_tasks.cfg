\* Tasks of plugins that outlive their library.
CONSTANTS
  p1 = p1  p2 = p2  p3 = p3  None = None
  Libraries <- MCLibraries
  PluginName <- MCPluginName
  Defect <- MCDefect
  MaxTasks = 2
  ThreadCount = 2
SPECIFICATION Spec
INVARIANT TasksMapped
