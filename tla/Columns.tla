------------------------------ MODULE Columns ------------------------------
(***************************************************************************)
(* The encoders of graphite-core/src/compression, one per column of an     *)
(* SSTable: delta.rs for timestamps, gorilla.rs for prices, rle_lz4.rs for *)
(* volumes.  column is the column that SsTable::write collects from its    *)
(* ticks, and the properties say what its decoder returns for it.          *)
(*                                                                         *)
(* Words have W bits instead of 64, bytes B instead of 8.  A header field  *)
(* of fixed width (count, first value, min_delta) is a field of a record.  *)
(***************************************************************************)
EXTENDS Integers, Sequences, FiniteSets, SequencesExt, Bitwise

CONSTANTS
    W,             \* bits of a word
    B,             \* bits of a byte
    SIG_BITS,      \* the most significant bits that gorilla stores by themselves (48)
    Mantissa,      \* bits of a float before it is rounded
    ColumnValues,  \* what a row may hold: words that are floats without rounding
    MaxRows        \* bound: rows of a column

ASSUME ColumnsAssumption ==
    /\ W \in Nat /\ B \in Nat \ {0} /\ SIG_BITS < W /\ Mantissa \in Nat
    /\ ColumnValues \subseteq 0 .. 2^(W - 1) - 1

VARIABLE column

ColumnsInit == column = << >>

\* SsTable::write: one more tick of the flush in the column.
CollectRow(v) == Len(column) < MaxRows /\ column' = Append(column, v)

ColumnsNext == \E v \in ColumnValues : CollectRow(v)

Larger(x, y) == IF x >= y THEN x ELSE y

(***************************************************************************)
(* delta.rs: differences, packed in as many bits as their range needs.     *)
(* The first difference is the first timestamp itself.                     *)
(***************************************************************************)

Deltas(ts) == [i \in DOMAIN ts |-> IF i = 1 THEN ts[1] ELSE ts[i] - ts[i - 1]]

Least(s) == CHOOSE x \in Range(s) : \A y \in Range(s) : x <= y
Greatest(s) == CHOOSE x \in Range(s) : \A y \in Range(s) : x >= y

\* A range of a power of two gets a bit less (mutant).
bits_needed_low(range) == CHOOSE n \in 0 .. W : range <= 2^n /\ (n = 0 \/ range > 2^(n - 1))

bits_needed(range) == CHOOSE n \in 0 .. W : range < 2^n /\ (n = 0 \/ range >= 2^(n - 1))

\* The bytes that a bit buffer of a word gives away, and what is left of it.
Packed(normalized, bits) ==
    LET step[i \in 0 .. Len(normalized)] ==
            IF i = 0
            THEN [bytes |-> << >>, buffer |-> 0, count |-> 0]
            ELSE LET s == step[i - 1]
                     buffer == (s.buffer + normalized[i] * 2^s.count) % 2^W
                     count == s.count + bits
                     full == count \div B
                 IN  [bytes |-> s.bytes \o [j \in 1 .. full |-> (buffer \div 2^(B * (j - 1))) % 2^B],
                      buffer |-> buffer \div 2^(B * full),
                      count |-> count % B]
        end == step[Len(normalized)]
    IN  end.bytes \o (IF end.count > 0 THEN << end.buffer % 2^B >> ELSE << >>)

DeltaEncode(ts) ==
    LET d == Deltas(ts)
        bits == bits_needed(Greatest(d) - Least(d))
    IN  [count |-> Len(ts), first |-> ts[1], bits |-> bits, min |-> Least(d),
         packed |-> Packed([i \in 1 .. Len(d) - 1 |-> d[i + 1] - Least(d)], bits)]

\* The timestamps so far, and the bit buffer: it takes whole bytes until it
\* holds bits bits, and loses what does not fit into a word.
DeltaDecode(e) ==
    LET step[i \in 1 .. e.count] ==
            IF i = 1
            THEN [ts |-> << e.first >>, buffer |-> 0, count |-> 0, next |-> 1]
            ELSE LET s == step[i - 1]
                     n == Larger(0, (e.bits - s.count + B - 1) \div B)
                     read[j \in 0 .. n] ==
                        IF j = 0
                        THEN s.buffer
                        ELSE (read[j - 1] + e.packed[s.next + j - 1] * 2^(s.count + B * (j - 1))) % 2^W
                 IN  [ts |-> Append(s.ts, s.ts[i - 1] + (read[n] % 2^e.bits) + e.min),
                      buffer |-> read[n] \div 2^e.bits,
                      count |-> s.count + B * n - e.bits,
                      next |-> s.next + n]
    IN  IF e.bits = 0 THEN [i \in 1 .. e.count |-> e.first] ELSE step[e.count].ts

(***************************************************************************)
(* gorilla.rs: the exclusive or of a word with the one before it, and the  *)
(* double differences of the prices in place of the prices.                *)
(***************************************************************************)

leading_zeros(x) == W - bits_needed(x)
trailing_zeros(x) == CHOOSE n \in 0 .. W : x % 2^n = 0 /\ x % 2^(n + 1) # 0

\* The last byte is left out unless it is full (mutant).
nbytes_floor(sig) == sig \div B

nbytes(sig) == (sig + B - 1) \div B

BigEndian(x, n) == [j \in 1 .. n |-> (x \div 2^(B * (n - j))) % 2^B]

Word(bytes) ==
    LET read[j \in 0 .. Len(bytes)] == IF j = 0 THEN 0 ELSE read[j - 1] * 2^B + bytes[j]
    IN  read[Len(bytes)]

\* The bytes of one value: a control byte, and what it says.
XorBytes(xor) ==
    LET sig == W - leading_zeros(xor) - trailing_zeros(xor)
    IN  CASE xor = 0 -> << 0 >>
          [] xor # 0 /\ sig <= SIG_BITS ->
                << 1, leading_zeros(xor), trailing_zeros(xor) >>
                    \o BigEndian(xor \div 2^trailing_zeros(xor), nbytes(sig))
          [] OTHER -> << 2 >> \o BigEndian(xor, W \div B)

GorillaEncode(words) ==
    [count |-> Len(words), first |-> words[1],
     bytes |-> FlattenSeq([i \in 1 .. Len(words) - 1 |-> XorBytes(words[i] ^^ words[i + 1])])]

\* The length of the value that begins at byte o, its control byte included.
ValueLength(data, o) ==
    CASE data[o] = 0 -> 1
      [] data[o] = 1 -> IF o + 2 > Len(data) THEN 3 ELSE 3 + nbytes(W - data[o + 1] - data[o + 2])
      [] data[o] = 2 -> 1 + W \div B

ValueXor(data, o) ==
    CASE data[o] = 0 -> 0
      [] data[o] = 1 -> (Word(SubSeq(data, o + 3, o + ValueLength(data, o) - 1)) * 2^data[o + 2]) % 2^W
      [] data[o] = 2 -> Word(SubSeq(data, o + 1, o + W \div B))

\* A value that is cut short ends the column.
GorillaDecode(e) ==
    LET step[i \in 1 .. e.count] ==
            IF i = 1
            THEN [words |-> << e.first >>, next |-> 1]
            ELSE LET s == step[i - 1]
                     cut == \/ s.next > Len(e.bytes)
                            \/ s.next + ValueLength(e.bytes, s.next) - 1 > Len(e.bytes)
                 IN  IF cut
                     THEN s
                     ELSE [words |-> Append(s.words, s.words[Len(s.words)] ^^ ValueXor(e.bytes, s.next)),
                           next |-> s.next + ValueLength(e.bytes, s.next)]
    IN  step[e.count].words

\* A float: an integer that keeps its first Mantissa bits.
Rounded(x) ==
    LET size == IF x < 0 THEN -x ELSE x
        unit == 2^Larger(0, bits_needed(size) - Mantissa)
        near == ((size + unit \div 2) \div unit) * unit
    IN  IF x < 0 THEN -near ELSE near

to_bits(x) == x % 2^W
from_bits(w) == IF w < 2^(W - 1) THEN w ELSE w - 2^W

Differences(s) == [i \in DOMAIN s |-> IF i = 1 THEN s[1] ELSE Rounded(s[i] - s[i - 1])]
compute_double_deltas(values) == Differences(Differences(values))

Sums(s) ==
    LET sum[i \in 0 .. Len(s)] == IF i = 0 THEN 0 ELSE Rounded(sum[i - 1] + s[i])
    IN  [i \in DOMAIN s |-> sum[i]]
reconstruct_from_double_deltas(dd) == Sums(Sums(dd))

encode_double_delta(values) ==
    LET dd == compute_double_deltas(values)
    IN  GorillaEncode([i \in DOMAIN dd |-> to_bits(dd[i])])
decode_double_delta(e) ==
    LET words == GorillaDecode(e)
    IN  reconstruct_from_double_deltas([i \in DOMAIN words |-> from_bits(words[i])])

(***************************************************************************)
(* rle_lz4.rs: runs of equal values, compressed by zstd on level 1 and     *)
(* above and by lz4 on level 0 (both libraries, which give back what they  *)
(* were given; zstd may fail).  The first byte says which.                 *)
(***************************************************************************)

CODE_LZ4 == 0
CODE_ZSTD == 1

\* The rows where a run begins.
Starts(s) == { i \in DOMAIN s : i = 1 \/ s[i] # s[i - 1] }

rle_encode(volumes) ==
    LET starts == SetToSortSeq(Starts(volumes), LAMBDA x, y : x < y)
        End(k) == IF k = Len(starts) THEN Len(volumes) ELSE starts[k + 1] - 1
    IN  [total |-> Len(volumes),
         runs |-> [k \in DOMAIN starts |->
                      [len |-> End(k) - starts[k] + 1, val |-> volumes[starts[k]]]]]

\* A run is taken while there are fewer values than the total, and a run that
\* is cut off the end of the bytes is not there.
rle_decode(rle) ==
    LET step[k \in 0 .. Len(rle.runs)] ==
            IF k = 0
            THEN << >>
            ELSE IF Len(step[k - 1]) < rle.total
                 THEN step[k - 1] \o [j \in 1 .. rle.runs[k].len |-> rle.runs[k].val]
                 ELSE step[k - 1]
    IN  step[Len(rle.runs)]

NoRle == [total |-> 0, runs |-> << >>]

\* The library that compressed the runs of a column: lz4 takes over when zstd
\* returns an error.
CompressedBy(volumes, lvl, zstdWorks) ==
    CASE volumes = << >> -> "none"
      [] volumes # << >> /\ lvl >= 1 /\ zstdWorks -> "zstd"
      [] OTHER -> "lz4"

\* zstd starts on level 1, its code on level 2 (mutant).
encode_for_level_late(volumes, lvl, zstdWorks) ==
    [code |-> IF volumes # << >> /\ lvl > 1 THEN CODE_ZSTD ELSE CODE_LZ4,
     by |-> CompressedBy(volumes, lvl, zstdWorks),
     rle |-> IF volumes = << >> THEN NoRle ELSE rle_encode(volumes)]

\* The code is chosen by the level alone.  An empty column is four zero bytes:
\* the code of lz4 and nothing that lz4 can read.
encode_for_level(volumes, lvl, zstdWorks) ==
    [code |-> IF volumes # << >> /\ lvl >= 1 THEN CODE_ZSTD ELSE CODE_LZ4,
     by |-> CompressedBy(volumes, lvl, zstdWorks),
     rle |-> IF volumes = << >> THEN NoRle ELSE rle_encode(volumes)]

\* A library reads only what it wrote; unwrap_or_default hides its error.
VolumeDecode(data) ==
    LET by == IF data.code = CODE_ZSTD THEN "zstd" ELSE "lz4"
    IN  rle_decode(IF data.by = by THEN data.rle ELSE NoRle)

(***************************************************************************)
(* Properties.                                                             *)
(***************************************************************************)

\* The timestamps of a table come back as they were, except in two cases.  When
\* all differences are equal, the first timestamp among them, and not zero, the
\* range is 0 and decode repeats the first timestamp.  When a difference needs
\* more than W - B + 1 bits (57 in the code: a column that starts with a clock
\* time in nanoseconds needs 61), the bit buffer of decode overflows and drops
\* bits that belong to the next difference.
TimeColumnExact ==
    column # << >> =>
        LET d == Deltas(column)
            e == DeltaEncode(column)
        IN  \/ DeltaDecode(e) = column
            \/ e.bits = 0 /\ Len(column) > 1 /\ column[1] # 0
            \/ e.bits > W - B + 1 /\ \E i \in 2 .. Len(d) : d[i] # e.min

\* A price is a value that is small enough for its double difference to be a word.
IsPriceColumn == column # << >> /\ \A i \in DOMAIN column : column[i] < 2^(W - 3)

\* No difference of prices had to be rounded.
Unrounded ==
    LET Exact(s) == \A i \in 2 .. Len(s) : Rounded(s[i] - s[i - 1]) = s[i] - s[i - 1]
    IN  Exact(column) /\ Exact(Differences(column))

\* Prices come back as they were unless a difference or double difference of
\* theirs was rounded; the exclusive ors by themselves lose nothing, and of a
\* column that is cut short at any byte decode returns the first values.
PriceColumnExact ==
    IsPriceColumn =>
        LET e == encode_double_delta(column)
            Cut(n) == [e EXCEPT !.bytes = SubSeq(@, 1, n)]
            words == [i \in DOMAIN column |-> to_bits(compute_double_deltas(column)[i])]
        IN  /\ GorillaDecode(e) = words
            /\ \A n \in 0 .. Len(e.bytes) : IsPrefix(GorillaDecode(Cut(n)), words)
            /\ Unrounded => decode_double_delta(e) = column

\* Volumes come back as they were on every level of the tree, unless zstd failed
\* and what lz4 wrote got the code of zstd: then nothing comes back.  What is cut
\* off the runs takes only the last values with it.
VolumeColumnExact ==
    /\ \A lvl \in 0 .. 2, zstdWorks \in BOOLEAN :
        LET decoded == VolumeDecode(encode_for_level(column, lvl, zstdWorks))
        IN  decoded = column \/ (lvl >= 1 /\ ~zstdWorks /\ decoded = << >>)
    /\ \A n \in 0 .. Len(rle_encode(column).runs) :
        IsPrefix(rle_decode([rle_encode(column) EXCEPT !.runs = SubSeq(@, 1, n)]), column)
=============================================================================
