SPECIFICATION Spec
CONSTANTS
  init = init
  p = p
  q = q
  s = s
  Procs = {init, p, q}
  InitProc = init
  Kernel = kernel
  KFrames = 12
  UFrames = 5
  NPages = 4
  TablePages = 2
  ProgPage = 2
  MaxSegment = 1
  Classes = {s}
  BlocksPerArena <- MCBlocksPerArena
  MaxLarge = 2
  MaxHeld = 2
INVARIANTS
  FramesExact
  PagesExact
  HeapExact
SYMMETRY Symmetry
CHECK_DEADLOCK FALSE
