\* A type override is cleared after a rebuild moved its function.
SPECIFICATION Spec
CONSTANTS
    Parts = {"notes"}
    Names = {"n"}
    Images <- Builds
    Locals = {"v"}
    Types = {"T"}
    MaxEdits = 2
    Windows = {a, b}
    Funcs = {f1, f2}
    MaxBinaries = 2
    MaxBuilds = 2
    Rvas = {16}
    Texts = {"a"}
    MaxId = 3
    Edits = {"add", "remove", "comment", "mark", "open"}
    Faults = {"crash_in_save", "save_error"}
    Sync = {"get_project", "open_binary"}
    Async = {"add_binary"}
    ById = {"open_binary"}
    BinaryIds = {1, 2}
    MaxCalls = 3
INVARIANT ClearRestores
CHECK_DEADLOCK FALSE
