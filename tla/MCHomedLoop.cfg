SPECIFICATION HomedLoopSpec
CONSTANTS
  Locals <- MCLocals
  MaxRounds = 8
  Alias <- MCAlias
  InMemory = {"v9"}
  VoidCallees = {"h"}
  Fuel = 6
INVARIANT MeaningKept
\* The program stops after the last pass.
CHECK_DEADLOCK FALSE
