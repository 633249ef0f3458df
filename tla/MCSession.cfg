\* Three runs that overlap, two requests of any kind beside one run and its
\* pass, and a reanalysis beside the old run, its pass and a request.
SPECIFICATION ScopedSpec
CONSTANTS
    Scopes = {"lifecycle", "requests", "reanalysis"}
    Asker = q1
    MaxRuns = 3
    Total = 1
    Opaque = {}
    MaxRetypes = 1
    Workers = {w1}
    BatchCap = 1
    Requests = {q1, q2}
    Commands = {"cancel", "reanalyze", "save", "close"}
    AskedKinds = {"pseudocode", "pseudocode_sm", "retype", "frame"}
INVARIANTS
    OneLiveRun
    AnnouncedIsCommitted
    FormAsAsked
    MarkedUntilPassEnds
    RetypeAnswered
    PassFillsCache
    NoBodyAhead
PROPERTIES
    CommitsForward
    KeepsPromise
    OverlayResolved
    EveryRequestAnswered
\* Every thread may be over and the window closed.
CHECK_DEADLOCK FALSE
