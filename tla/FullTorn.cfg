\* A directory is being packed when the process dies.
SPECIFICATION Spec
CONSTANTS
    Manifests <- MCManifests
    Hashes = {1, 2, 3}
    Worker = {"w1", "w2"}
    Formats <- MCFormats
    MaxDeaths = 1
INVARIANT EveryTarWhole
CHECK_DEADLOCK FALSE
