SPECIFICATION TailSpec
CONSTANTS
    Inodes = {1, 2}
    MaxChunk = 2
    MaxLine = 2
    MaxPieces = 4
    MaxRotations = 2
    MaxCrashes = 1
INVARIANTS
    RotationLosesNothing
