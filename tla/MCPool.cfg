\* Three workers on five functions, one of them without a body, batches of
\* two.  Any of the spawns may fail.
SPECIFICATION PassSpec
CONSTANTS
    MaxRuns = 1
    Total = 5
    Opaque = {1}
    MaxRetypes = 0
    Workers = {w1, w2, w3}
    BatchCap = 2
INVARIANTS
    EachFunctionOnce
    CompleteMeansCached
PROPERTIES
    PassEnds
    NoWorkLost
CHECK_DEADLOCK FALSE
