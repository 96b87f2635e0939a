SPECIFICATION Spec
CONSTANTS
    Tables <- SmallTables
    ColumnsSize = 40
    BloomWords = 1
    DictSize = 10
    INDEX_INTERVAL = 16
    CacheKey = {k1, k2, k3}
    Block = {1, 2}
    Capacity = 3
    Miss = 0
    W = 12
    B = 3
    SIG_BITS = 6
    Mantissa = 6
    ColumnValues = {40, 80, 1000}
    MaxRows = 2
    Queries <- FewQueries
    Edited = {}
    Vocabulary <- SomeLexemes
    IntegerLimit = 100
    U64 = 1000
    Times = {5, 200}
INVARIANT WorksAsDocumented
CHECK_DEADLOCK FALSE
