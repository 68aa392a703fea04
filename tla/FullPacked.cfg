\* Two threads, two formats, a process that dies once.
SPECIFICATION FairSpec
CONSTANTS
    Manifests <- MCManifests
    Hashes = {1, 2, 3}
    Worker = {"w1", "w2"}
    Formats <- MCFormats
    MaxDeaths = 1
INVARIANTS
    TypeOK
    FilesWhole
    OneThreadPerHash
    EverythingPacked
PROPERTIES
    CompleteStaysComplete
    PoolDrains
CHECK_DEADLOCK FALSE
