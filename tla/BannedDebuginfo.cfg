SPECIFICATION Spec
CONSTANTS
    Path = {1, 7, 9}
    Node = {"x", "y", "rel1", "rel2", "rel3"}
    KindOf <- MCKindOf
    ConfigPaths = {}
    BootPaths = {}
    DebugPaths = {7}
    Stateless = TRUE
    Renames = FALSE
    ZeroHash = ZeroHash
    NoHash = NoHash
    Bundle = {"os-core", "app"}
    Core = "os-core"
    MaxVersion = 3
    Inputs <- DebuginfoPlans
    MaxAborts = 0
    CheckExit = TRUE
    CleanRerun = TRUE
    Absent = Absent
    Torn = Torn
INVARIANTS
    BannedDebuginfoGone
CHECK_DEADLOCK FALSE
