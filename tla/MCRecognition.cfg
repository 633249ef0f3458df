\* Remainders whose minuend or quotient is narrowed first.
SPECIFICATION DecompilerSpec
CONSTANTS
    ApiType <- MCApiType
    ApiArity <- MCApiArity
    ApiLock <- MCApiLock
    Parts = {"narrowed"}
    Locals <- MCLocals
    MaxRounds = 8
    Alias <- MCAlias
    InMemory = {"v9"}
    VoidCallees = {"h"}
    Fuel = 6
    Width = 5
    DLimit = 15
INVARIANT NeverChangesBehavior
\* A part stops when it is done.
CHECK_DEADLOCK FALSE
