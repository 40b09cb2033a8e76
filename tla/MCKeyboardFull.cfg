SPECIFICATION Spec
CONSTANTS
  main = main
  idle = idle
  a = a
  b = b
  none = none
  Threads = {main, a}
  Idle = idle
  Main = main
  Priority <- MCPriority
  Keys = {1, 2}
  NoKey = none
  Victims <- MCTasks
  Size = 2
  MaxTyped = 5
INVARIANTS
  NoPanic
