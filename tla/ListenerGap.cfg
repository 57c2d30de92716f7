SPECIFICATION Spec
CONSTANTS
  BlockStep = 2
  MaxBlock = 5
  MaxLogs = 2
INVARIANT
  GapFree
