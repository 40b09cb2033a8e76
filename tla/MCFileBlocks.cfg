SPECIFICATION Spec
CONSTANTS
  f = f
  g = g
  Files = {f, g}
  NBlocks = 8
  SectorBytes = 8
  B = 2
  Direct = 2
  Total = 4
  MaxCount = 4
  Junk = junk
INVARIANTS
  ReadsBack
  BlocksOwned
  MarkedOnDisk
SYMMETRY Symmetry
