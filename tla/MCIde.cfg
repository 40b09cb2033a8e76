SPECIFICATION Spec
CONSTANTS
  main = main
  idle = idle
  a = a
  none = none
  Threads = {main, a}
  Idle = idle
  Main = main
  Priority <- MCPriority
  KernelThreads = {main}
  MaxRepeat = 1
  WaitDepth = 1
  NoThread = none
  NSectors = 3
  Chunk = 2
  MaxCnt = 3
  Tags = {0}
  MaxTries = 2
INVARIANTS
  RequestTransferred
  InterruptToCome
PROPERTIES
  OnlyRequestedSectors
CHECK_DEADLOCK FALSE
