SPECIFICATION DefaultSpec
CONSTANTS
  Atoms = {"p", "q"}
  Selectors = {0, 1, 2, 3}
  Calls = {"q"}
  MaxDepth = 6
  DupMax = 4
  MaxRetry = 24
PROPERTY WalksTheBlocks
CHECK_DEADLOCK FALSE
