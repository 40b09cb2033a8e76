SPECIFICATION SchedSpec
CONSTANTS
  main = main
  idle = idle
  a = a
  b = b
  Threads = {main, a, b}
  Idle = idle
  Main = main
  Priority <- MCPriority
INVARIANTS
  ReadyListExact
PROPERTIES
  ReadyRuns
