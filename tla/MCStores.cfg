\* Two windows, two builds and two versions of the binary for the cache; one
\* project with three ids and every edit and fault; a project page with three
\* calls, one of whose commands has a parameter named id; three builds of an
\* image with two edits of its annotations.
SPECIFICATION Spec
CONSTANTS
    Parts = {"cache", "doc", "wire", "notes"}
    Names = {"n"}
    Images <- Builds
    Locals = {"v"}
    Types = {"T"}
    MaxEdits = 2
    Windows = {a, b}
    Funcs = {f1, f2}
    MaxBinaries = 2
    MaxBuilds = 2
    Rvas = {16}
    Texts = {"a"}
    MaxId = 3
    Edits = {"add", "remove", "comment", "mark", "open"}
    Faults = {"crash_in_save", "save_error"}
    Sync = {"get_project", "open_binary"}
    Async = {"add_binary"}
    ById = {"open_binary"}
    BinaryIds = {1, 2}
    MaxCalls = 3
INVARIANTS
    OwnBytes
    FileIsCurrent
    OkMeansStored
    IdsNeverReused
    OwnReply
    NeverOnOtherCode
    RoundTrip
PROPERTIES
    LoadedWhole
    SurvivesRestart
    EveryCallSettles
CHECK_DEADLOCK FALSE
