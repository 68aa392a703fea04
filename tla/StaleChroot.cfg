SPECIFICATION Spec
CONSTANTS
    Path = {1, 9}
    Node = {"x", "y", "d1", "rel1", "rel2"}
    KindOf <- MCKindOf
    ConfigPaths = {}
    BootPaths = {}
    DebugPaths = {}
    Stateless = TRUE
    Renames = FALSE
    ZeroHash = ZeroHash
    NoHash = NoHash
    Bundle = {"os-core", "app"}
    Core = "os-core"
    MaxVersion = 2
    Inputs <- CrashPlans
    MaxAborts = 1
    CheckExit = TRUE
    CleanRerun = FALSE
    Absent = Absent
    Torn = Torn
INVARIANTS
    FullIsUnion
CHECK_DEADLOCK FALSE
