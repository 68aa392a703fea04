SPECIFICATION Spec
CONSTANTS
    Path = {1, 2, 3, 5, 6, 7, 9}
    Node = {"x", "y", "d1", "rel1", "rel2", "rel3"}
    KindOf <- MCKindOf
    ConfigPaths = {5}
    BootPaths = {6}
    DebugPaths = {7}
    Stateless = TRUE
    Renames = TRUE
    ZeroHash = ZeroHash
    NoHash = NoHash
    Bundle = {"os-core", "lib", "app"}
    Core = "os-core"
    MaxVersion = 3
    Inputs <- ReleasePlans
    MaxAborts = 0
    CheckExit = TRUE
    CleanRerun = TRUE
    Absent = Absent
    Torn = Torn
INVARIANTS
    UpdateSound
    DeletionsRecorded
    Downloadable
    RenamesPaired
    PlainTombstonesZero
    GhostsLastOneRelease
    TombstonesOfOwnFormat
PROPERTIES
    ImplementsRelease
CHECK_DEADLOCK FALSE
