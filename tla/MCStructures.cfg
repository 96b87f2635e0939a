SPECIFICATION Spec
CONSTANTS
    MapKey = {1, 2, 3}
    Value = {1, 2}
    Absent = 0
    MAX_LEVEL = 2
    CacheKey = {k1, k2, k3}
    Block = {1, 2, 4}
    Capacity = 3
    Miss = 0
    W = 12
    B = 3
    SIG_BITS = 6
    Mantissa = 6
    ColumnValues = {0, 1, 3, 40, 80, 1000, 1002}
    MaxRows = 4
    Names = {"a", "b", "c", "d"}
    IdSpace = 3
    Queries <- SomeQueries
    Edited <- EditedQueries
    Vocabulary <- SomeLexemes
    IntegerLimit = 100
    U64 = 1000
    Stamps <- StampsAroundZero
    Quotes <- TwoQuotes
    Lanes = 2
    Nanos <- ShortNanos
    MaxTicks = 4
INVARIANTS
    PointersLive
    ListIntact
    TimeColumnExact
    PriceColumnExact
    VolumeColumnExact
    IdsResolve
    ParsesGrammar
    ParseSound
    FilterExact
    BarsAreWindows
    AnswersAgree
PROPERTIES
    RefinesMap
    RefinesCache
CHECK_DEADLOCK FALSE
