SPECIFICATION Spec
CONSTANTS
    Path = {6, 9}
    Node = {"x", "y", "rel1", "rel2", "rel3"}
    KindOf <- MCKindOf
    ConfigPaths = {}
    BootPaths = {6}
    DebugPaths = {}
    Stateless = TRUE
    Renames = FALSE
    ZeroHash = ZeroHash
    NoHash = NoHash
    Bundle = {"os-core", "app"}
    Core = "os-core"
    MaxVersion = 3
    Inputs <- QuietCorePlans
    MaxAborts = 0
    CheckExit = TRUE
    CleanRerun = TRUE
    Absent = Absent
    Torn = Torn
PROPERTIES
    CoreGhostsCleanedUp
CHECK_DEADLOCK FALSE
