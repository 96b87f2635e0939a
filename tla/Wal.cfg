SPECIFICATION Spec
CONSTANTS
    MaxRecords = 4
    MaxBatch = 2
    MaxCrashes = 3
    TornSizes = {0, 2, 4}
    IoErrors = TRUE
INVARIANTS
    TypeOK
    ReplayInOrder
    SequenceAhead
    PagingIsComplete
PROPERTIES
    OpenReplaysAcked
