---------------------------- MODULE AsDocumented ----------------------------
(***************************************************************************)
(* What comments and README.md say of the files, the codecs, the block     *)
(* cache and the query language, held against the models of these parts.   *)
(* A table is written and opened; then every claim is tried on all inputs  *)
(* of the instance, and those that fail get an input that refutes them.    *)
(***************************************************************************)
EXTENDS BlockCache, Columns, GqlParser

CONSTANTS
    Tables, ColumnsSize, BloomWords, DictSize, INDEX_INTERVAL,  \* those of SsTable
    Times                                                       \* what query_range is asked for

VARIABLES file, ticks, opened,  \* those of SsTable
    refuted                     \* for each claim that does not hold, an input

Table == INSTANCE SsTable

others == << bcVars, column, gqlVars >>

(***************************************************************************)
(* For each claim, the inputs that refute it.                              *)
(***************************************************************************)

\* "Open an existing SSTable for reading" (sstable.rs:265).
Opening == IF Table!TableReadsBack THEN {} ELSE {ticks}

SomeColumns == UNION { [1 .. n -> ColumnValues] : n \in 1 .. MaxRows }

\* "Decode delta-encoded timestamps" (delta.rs:57), those at equal distances too.
TimeColumn == { s \in SomeColumns : DeltaDecode(DeltaEncode(s)) # s }

\* "Decode volume column regardless of LZ4 or ZSTD wrapper" (rle_lz4.rs:75).
VolumeColumn ==
    { c \in SomeColumns \X (0 .. 2) \X BOOLEAN : VolumeDecode(encode_for_level(c[1], c[2], c[3])) # c[1] }

\* "LRU block cache with configurable capacity in bytes" (block_cache.rs:23): of two
\* blocks, the one that was just read is kept longer.
LeastRecentlyUsed ==
    { c \in [1 .. 3 -> CacheKey] \X [1 .. 3 -> Block] :
        LET k == c[1]
            b == c[2]
            two == Inserted(Inserted(EmptyCache, k[1], b[1]), k[2], b[2])
            three == Inserted(AfterGet(two, k[1]), k[3], b[3])
        IN  /\ \A i \in 1 .. 3 : b[i] <= Capacity
            /\ Cardinality(Range(k)) = 3 /\ two.map[k[1]] # Nil
            /\ three.map[k[1]] = Nil /\ three.map[k[2]] # Nil }

Reads(q, commas, limitLast) == parse(Written(q, commas, limitLast)) = [ok |-> TRUE, query |-> q]

\* "SELECT close, volume FROM AAPL" (README.md:135): commas between columns.
Commas == { q \in Queries : Reads(q, FALSE, FALSE) /\ ~Reads(q, TRUE, FALSE) }

\* "AGGREGATE OHLCV" and then "LIMIT 1000", planned as Limit(1000) (README.md:269-283).
LimitBehindGroup == { q \in Queries : Reads(q, FALSE, FALSE) /\ ~Reads(q, FALSE, TRUE) }

\* "Query a time range for a symbol" (db.rs:96), in nanoseconds (types.rs:6).
TimeRange == { t \in Times \X Times : ~Reads(RangeQuery(<< word("aapl") >>, t[1], t[2]), FALSE, FALSE) }

Refutations ==
    [opening |-> Opening, time_column |-> TimeColumn, volume_column |-> VolumeColumn,
     lru |-> LeastRecentlyUsed, commas |-> Commas, limit |-> LimitBehindGroup, time_range |-> TimeRange]

(***************************************************************************)
(* The comparison.                                                         *)
(***************************************************************************)

Init ==
    /\ Table!Init /\ refuted = << >>
    /\ CacheInit /\ ColumnsInit
    /\ text = << >> /\ edited = FALSE
    /\ meant = << >>

WriteAndOpen == Table!Next /\ UNCHANGED << refuted, others >>

Compare ==
    /\ opened # Table!NotOpened
    /\ refuted' =
        [c \in { d \in DOMAIN Refutations : Refutations[d] # {} } |-> CHOOSE x \in Refutations[c] : TRUE]
    /\ UNCHANGED << file, ticks, opened, others >>

Next == WriteAndOpen \/ Compare

Spec == Init /\ [][Next]_<< file, ticks, opened, refuted, others >>

\* open reads what write wrote (sstable.rs:265), timestamps and volumes decode to
\* what was encoded (delta.rs:57, rle_lz4.rs:75), the cache is an LRU (block_cache.rs:1
\* and :23), and a query may have its columns and clauses in the ways that README.md
\* shows them (lines 135 and 269-283), its times in nanoseconds (db.rs:96).
WorksAsDocumented == refuted = << >>
=============================================================================
