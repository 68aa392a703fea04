\* Every matching problem of three against two, with ties and weak scores.
SPECIFICATION FairSpec
CONSTANTS
    Path = {1, 2, 3, 4, 5, 6}
    Node = {"x", "y"}
    MaxVersion = 2
    KindOf <- MCKindOf
    ConfigPaths = {}
    BootPaths = {}
    DebugPaths = {}
    Stateless = TRUE
    Renames = TRUE
    ZeroHash = ZeroHash
    NoHash = NoHash
    Problems <- MCProblems
    MinScore = 15
    NoScore <- MCNoScore
    None = None
INVARIANTS
    TypeOK
    NobodyMissesOut
    AsInManifestOps
PROPERTIES
    ImplementsChoice
    SearchEnds
CHECK_DEADLOCK FALSE
