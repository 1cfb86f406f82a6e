SPECIFICATION Spec
CONSTANTS
    ChunkSize = 2
    U32 = 8
    U64 = 24
    Commands <- MCCommands
    Trees <- MCTrees
    NameOrder <- MCNameOrder
    EditSizes = {1}
    MaxParallel = 4
    Cores = 2
    ManifestChunk = 2
    MaxEdits = 2
    PublicStun <- MCPublicStun
    OwnStun = "own"
    Lookup <- MCLookup
    Nats <- MCNats
    Overrides = {"none", "mine"}
    Hints = {"none", "s2"}
    Local <- MCLocal
    Routers <- MCRouters
    PredictRange = 2
    MaxPort = 6
    Attempts = 3
INVARIANTS ManifestAccepted ScanComplete Tiled ReflexiveIsOwn
CHECK_DEADLOCK FALSE
