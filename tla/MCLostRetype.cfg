\* A retype while the background pass is at the same function.
SPECIFICATION ScopedSpec
CONSTANTS
    Scopes = {"requests"}
    Asker = q1
    MaxRuns = 1
    Total = 1
    Opaque = {}
    MaxRetypes = 1
    Workers = {w1}
    BatchCap = 1
    Requests = {q1}
    Commands = {}
    AskedKinds = {"retype"}
INVARIANT RetypeTakesEffect
CHECK_DEADLOCK FALSE
