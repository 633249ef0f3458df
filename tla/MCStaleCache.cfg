\* The binary is replaced while a window that read it saves its cache.
SPECIFICATION Spec
CONSTANTS
    Parts = {"cache"}
    Names = {"n"}
    Images <- Builds
    Locals = {"v"}
    Types = {"T"}
    MaxEdits = 2
    Windows = {a, b}
    Funcs = {f1, f2}
    MaxBinaries = 2
    MaxBuilds = 2
    Rvas = {16}
    Texts = {"a"}
    MaxId = 3
    Edits = {"add", "remove", "comment", "mark", "open"}
    Faults = {"crash_in_save", "save_error"}
    Sync = {"get_project", "open_binary"}
    Async = {"add_binary"}
    ById = {"open_binary"}
    BinaryIds = {1, 2}
    MaxCalls = 3
INVARIANT NeverStale
CHECK_DEADLOCK FALSE
