SPECIFICATION FairSpec
CONSTANTS
  init = init
  idle = idle
  a = a
  b = b
  c = c
  Threads = {init, a, b}
  Idle = idle
  Main = init
  Priority <- MCPriority
  MaxPid = 5
  NameRoom = 11
  MaxFailed = 1
  MaxChars = 1
  ExecFails = TRUE
INVARIANTS
  PidsUnique
  NoZombieMissed
  ReadersListed
PROPERTIES
  ReapedByParent
  ShellReturns
