SPECIFICATION WebFairSpec
CONSTANTS
    MaxAttempts = 2
    MaxPolls = 2
    Tokens <- MCTokens
    Paths <- MCPaths
    MappingLists <- MCMappingLists
    NoLocation = NoLocation
    None = None
INVARIANTS
    VerdictFitsCommand
    StartedIsTheItem
    TestedFolderIsPlayed
PROPERTIES
    OpenApiIsUsed
    StartupEnds
    PathTestEnds
CHECK_DEADLOCK FALSE
