SPECIFICATION FairSpec
CONSTANTS
  main = main
  idle = idle
  a = a
  b = b
  none = none
  Threads = {main, a}
  Idle = idle
  Main = main
  Priority <- MCPriority
  Keys = {1, 2}
  NoKey = none
  Victims = {main, a}
  Size = 2
  MaxTyped = 4
INVARIANTS
  InOrder
  NothingLost
  NoSleepOnInput
  WaitersListed
PROPERTIES
  InputDelivered
