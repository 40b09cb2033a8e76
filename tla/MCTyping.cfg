SPECIFICATION Spec
CONSTANTS
  Keys <- MCKeys
  Size = 1
  CmdLen = 4
  MaxArgs = 0
  MaxPort = 2
INVARIANTS
  ModifiersHeld
  LineIsTyped
  ArgvIsWords
