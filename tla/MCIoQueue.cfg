SPECIFICATION QueueSpec
CONSTANTS
  main = main
  idle = idle
  a = a
  b = b
  none = none
  Threads = {main, a, b}
  Idle = idle
  Main = main
  Priority <- MCPriority
  KernelThreads = {main, a}
  MaxRepeat = 1
  WaitDepth = 1
  NoThread = none
  Producers = {main, a}
  Items = {0, 1}
  NoItem = none
  Size = 2
INVARIANTS
  TestStillHolds
  NotAllWaiting
PROPERTIES
  ImplementsFifo
