\* Every image of five code bytes in two segments, with up to two code starts;
\* listings of four functions; the passes over eight families of programs of up
\* to four blocks; words of five bits for the idioms; the signatures of programs
\* of three functions and of chains of five.
SPECIFICATION Spec
CONSTANTS
    Parts = {"image", "names", "passes", "idioms", "signatures"}
    Window = 3
    Quorum = 2
    ImportNames <- MCImports
    Programs <- Listings
    ImageSize = 7
    Segments <- MCSegments
    Insns <- MCInsns
    SeedLists <- MCSeeds
    MaxInsns = 5
    RecoveredSets = {{}, {2}}
    ApiType <- MCApiType
    ApiArity <- MCApiArity
    ApiLock <- MCApiLock
    Locals <- MCLocals
    MaxRounds = 1
    Alias <- MCAlias
    InMemory = {"v9"}
    VoidCallees = {"h"}
    Fuel = 6
    Width = 5
    DLimit = 15
INVARIANTS
    ListingClosed
    CalleesAreFunctions
    FlowStaysInside
    FunctionsDisjoint
    NamesHold
    MeaningKept
    EffectsInOrder
    RecognitionKept
    ApiTypeOfOneResult
    ThunksAgree
PROPERTIES
    CallCountsAgree
\* A part stops when it is done.
CHECK_DEADLOCK FALSE
