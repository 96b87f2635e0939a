SPECIFICATION Spec
CONSTANTS
    t1 = t1
    t2 = t2
    A = A
    B = B
    None = None
    Thread <- TwoThreads
    Symbol <- TwoSymbols
    Timestamp <- TwoTimestamps
    Written <- TwoTicks
    Roles <- BothRoles
    Workloads <- WritersAndReaders
    OpenOutcomes <- BothOpens
    MaxTicks = 2
    MaxBatch = 2
    MaxFiles = 3
    MaxCrashes = 1
    FlushThreshold = 2
    L0MaxTables = 1
    LevelTarget = 1
    LevelRatio = 1
INVARIANTS
    TypeOK
    AckedDurable
    AppliedDurable
    GetLatest
    ReadsReal
    ScanFinds
CHECK_DEADLOCK FALSE
