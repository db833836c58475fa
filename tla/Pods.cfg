SPECIFICATION Spec
CONSTANTS
    app = app
    debug = debug
    snapshot = snapshot
    Runners <- MCRunners
    Containers <- MCContainers
    ListOf <- MCListOf
    Images <- MCImages
    ImageIDs <- MCImageIDs
    Tokens <- MCTokens
    Registries <- MCRegistries
    Paths <- MCPaths
    Tags <- MCTags
    ContentDigests <- MCContentDigests
    MaxLives = 2
    MaxChanges = 4
    MaxQueue = 2
INVARIANTS TypeOK ViewIsCurrent DescribesTheImage
CHECK_DEADLOCK FALSE
