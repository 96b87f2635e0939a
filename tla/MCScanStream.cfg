SPECIFICATION Spec
CONSTANTS
    Stamp = {1, 2, 3}
    Batches <- TwoBatches
    Setups <- TwoSetups
    L0_MAX_TABLES = 2
    LevelTarget = 1
    MaxBatches = 3
    MaxFiles = 3
    MaxFaults = 1
    MaxRemoved = 1
    Params <- TwoScans
    MaxStreams = 1
INVARIANTS
    StreamComplete
    StreamSorted
    ArchiveReachable
    NothingLost
    NoTableReturns
CHECK_DEADLOCK FALSE
