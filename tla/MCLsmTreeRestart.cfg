SPECIFICATION Spec
CONSTANTS
    t1 = t1
    t2 = t2
    A = A
    B = B
    None = None
    Thread <- TwoThreads
    Symbol <- TwoSymbols
    Timestamp <- TwoTimestamps
    Written <- TwoTicks
    Roles <- PrimaryOnly
    Workloads <- InsertAndGet
    OpenOutcomes <- PanicOnly
    MaxTicks = 3
    MaxBatch = 2
    MaxFiles = 1
    MaxCrashes = 1
    FlushThreshold = 10
    L0MaxTables = 2
    LevelTarget = 1
    LevelRatio = 1
INVARIANT ReadsOwnSymbol
CHECK_DEADLOCK FALSE
