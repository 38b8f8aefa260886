SPECIFICATION OnceSpec
CONSTANTS
    remote = remote
    local = local
    NoId = NoId
    Ids <- MCIds
    Own <- MCOwn
    Enforcement <- MCIds
    MaxAge = 1
    Retention = 3
    Spread = 1
    Skew = 2
    MaxTime = 7
    Inodes = {1, 2}
    MaxChunk = 2
    MaxLine = 2
    MaxPieces = 4
    MaxRotations = 2
    MaxCrashes = 1
INVARIANTS
    NoReplay
    ScoredOnceInOrder
    NothingSkipped
PROPERTIES
    ImplementsAtMostOnce
    LineIsScored
