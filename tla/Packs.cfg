\* All short histories of a bundle, and two packs at once that share a delta.
SPECIFICATION FairSpec
CONSTANTS
    Path = {1, 2, 3}
    Node = {"x", "y", "z", "d", "l"}
    MaxVersion = 3
    KindOf <- MCKindOf
    ConfigPaths = {}
    BootPaths = {}
    DebugPaths = {}
    Stateless = TRUE
    Renames = TRUE
    ZeroHash = ZeroHash
    NoHash = NoHash
    Plans <- MCPlans
    Job <- MCJobs
INVARIANTS
    TypeOK
    DeltasWhole
    PackComplete
PROPERTIES
    PackersEnd
CHECK_DEADLOCK FALSE
