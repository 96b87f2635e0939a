SPECIFICATION Spec
CONSTANTS
    MaxRecords = 2
    MaxBatch = 1
    MaxCrashes = 1
    TornSizes = {0, 2, 4}
    IoErrors = FALSE
INVARIANTS
    CrashNeverBlocksOpen
