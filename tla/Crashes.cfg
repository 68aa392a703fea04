SPECIFICATION Spec
CONSTANTS
    Path = {1, 2, 9}
    Node = {"x", "y", "d1", "rel1", "rel2", "rel3"}
    KindOf <- MCKindOf
    ConfigPaths = {}
    BootPaths = {}
    DebugPaths = {}
    Stateless = TRUE
    Renames = FALSE
    ZeroHash = ZeroHash
    NoHash = NoHash
    Bundle = {"os-core", "lib", "app"}
    Core = "os-core"
    MaxVersion = 3
    Inputs <- CrashPlans
    MaxAborts = 1
    CheckExit = TRUE
    CleanRerun = TRUE
    Absent = Absent
    Torn = Torn
INVARIANTS
    TypeOK
    PublishedIntact
    Downloadable
PROPERTIES
    ReleasesImmutable
    ImplementsRelease
CHECK_DEADLOCK FALSE
