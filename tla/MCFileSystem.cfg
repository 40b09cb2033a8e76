SPECIFICATION Spec
CONSTANTS
  t1 = t1
  x = x
  Names = {t1, x}
  BootFile = t1
  Args <- MCArgs
  ProgPaths <- MCProgPaths
  NInodes = 3
  NBlocks = 4
  PerBlock = 3
  Direct = 1
  Total = 2
  NSlots = 2
  NFds = 1
  MaxDepth = 2
  MaxLeaks = 1
INVARIANTS
  OpenCounts
  TreeExact
  BlocksApart
  Synced
  CwdPath
  ChDirResolves
PROPERTIES
  ShellKeepsCwd
  ImplementsNamespace
