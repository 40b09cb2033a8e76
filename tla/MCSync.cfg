SPECIFICATION FairSpec
CONSTANTS
  main = main
  idle = idle
  a = a
  b = b
  none = none
  Threads = {main, a, b}
  Idle = idle
  Main = main
  Priority <- MCPriority
  KernelThreads = {main, a}
  NoThread = none
  MaxRepeat = 2
  WaitDepth = 1
INVARIANTS
  MutualExclusion
  OneListPerSleeper
  NoLostWakeup
PROPERTIES
  ImplementsMonitor
  LockProgress
