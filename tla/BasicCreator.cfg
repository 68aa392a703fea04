SPECIFICATION FairSpec
CONSTANTS
    Path = {1, 9}
    Node = {"x", "y", "rel1", "rel2"}
    KindOf <- MCKindOf
    ConfigPaths = {}
    BootPaths = {}
    DebugPaths = {}
    Stateless = TRUE
    Renames = FALSE
    ZeroHash = ZeroHash
    NoHash = NoHash
    Bundle = {"os-core", "lib", "app"}
    Core = "os-core"
    MaxVersion = 2
    Inputs <- FailurePlans
    MaxAborts = 2
    CheckExit = FALSE
    CleanRerun = FALSE
    Absent = Absent
    Torn = Torn
INVARIANTS
    SuccessMeansWhole
PROPERTIES
    RunEnds
CHECK_DEADLOCK FALSE
