------------------------------ MODULE SsTable ------------------------------
(***************************************************************************)
(* The file of an SSTable, graphite-core/src/sstable.rs, byte by byte      *)
(* where open reads it: header, data, sparse index, bloom filter, metadata *)
(* with the symbol dictionary, footer.  The bytes of the columns, of the   *)
(* filter and of the names are Opaque: only their number matters.  Numbers *)
(* are big-endian; one that TLC cannot hold reads as Huge.                 *)
(***************************************************************************)
EXTENDS Integers, Sequences, FiniteSets, SequencesExt

CONSTANTS
    Tables,          \* the ticks of a table: sequences of [symbol_id, timestamp], sorted
    ColumnsSize,     \* bytes of the seven columns together
    BloomWords,      \* words of the filter
    DictSize,        \* bytes of the dictionary
    INDEX_INTERVAL   \* rows per entry of the index (16)

Opaque == 255
Huge == 2^30

VARIABLES
    file,    \* the bytes on disk
    ticks,   \* what was written
    opened   \* what open returned

tableVars == << file, ticks, opened >>

NotOpened == [outcome |-> "none"]

Init == file = << >> /\ ticks = << >> /\ opened = NotOpened

Filler(n) == [i \in 1 .. n |-> Opaque]
Number(x, width) == [j \in 1 .. width |-> IF width - j > 2 THEN 0 ELSE (x \div 256^(width - j)) % 256]

\* from_be_bytes of the bytes from offset o on, offsets counted from 0.
Read(buf, o, width) ==
    LET byte(j) == buf[o + j]
        low[j \in 0 .. width] == IF j = 0 THEN 0 ELSE (low[j - 1] % 2^16) * 256 + byte(j)
    IN  IF \E j \in 1 .. width - 3 : byte(j) # 0 THEN Huge ELSE low[width]

(***************************************************************************)
(* SsTable::write.                                                         *)
(***************************************************************************)

EncodeKey(t) == Number(t.symbol_id, 2) \o Number(t.timestamp, 8)

\* A row of the key block: the length of the prefix it shares with the row
\* before it, the rest of the key, the number of the row.
RowSize(ts, i) ==
    LET key == EncodeKey(ts[i])
        Shares(n) == i > 1 /\ SubSeq(key, 1, n) = SubSeq(EncodeKey(ts[i - 1]), 1, n)
        prefix == IF i = 1 THEN 0 ELSE CHOOSE n \in 0 .. 10 : Shares(n) /\ (n = 10 \/ ~Shares(n + 1))
    IN  1 + (10 - prefix) + 4

RowOffset(ts, i) == FoldLeft(LAMBDA x, j : x + RowSize(ts, j), 0, [j \in 1 .. i - 1 |-> j])

\* Every INDEX_INTERVAL-th row has an entry; only the last one gets a size,
\* as long as the key block is smaller than BLOCK_SIZE.
Index(ts) ==
    LET n == (Len(ts) - 1) \div INDEX_INTERVAL + 1
    IN  [k \in 1 .. n |->
            LET i == (k - 1) * INDEX_INTERVAL + 1
            IN  [symbol_id |-> ts[i].symbol_id, timestamp |-> ts[i].timestamp, offset |-> RowOffset(ts, i),
                 size |-> IF k = n THEN RowOffset(ts, Len(ts) + 1) - RowOffset(ts, i) ELSE 0]]

Header == << 83, 83, 84, 66 >> \o Number(1, 2)

\* "after header"
DataOffset == 8

write(ts) ==
    LET data == Filler(RowOffset(ts, Len(ts) + 1) + 28 + ColumnsSize)
        entry(e) == EncodeKey(e) \o Number(e.offset, 8) \o Number(e.size, 4)
        index == Number(Len(Index(ts)), 4) \o FlattenSeq([k \in DOMAIN Index(ts) |-> entry(Index(ts)[k])])
        bloom == Number(64 * BloomWords, 4) \o Number(1, 4) \o Filler(8 * BloomWords)
        ids == { ts[i].symbol_id : i \in DOMAIN ts }
        Least == CHOOSE x \in ids : \A y \in ids : x <= y
        Greatest == CHOOSE x \in ids : \A y \in ids : x >= y
        meta == Number(ts[1].timestamp, 8) \o Number(ts[Len(ts)].timestamp, 8) \o Number(Least, 2)
                    \o Number(Greatest, 2) \o Number(Len(ts), 8) \o Number(0, 4)
                    \o Number(RowOffset(ts, Len(ts) + 1), 8) \o Number(DictSize, 4) \o Filler(DictSize)
        sizes == << Len(data), Len(index), Len(bloom), Len(meta) >>
        offset[k \in 1 .. 4] == IF k = 1 THEN DataOffset ELSE offset[k - 1] + sizes[k - 1]
        footer == FlattenSeq([k \in 1 .. 4 |-> Number(offset[k], 8) \o Number(sizes[k], 8)])
    IN  Header \o data \o index \o bloom \o meta \o footer

Write(ts) ==
    /\ file = << >>
    /\ file' = write(ts)
    /\ ticks' = ts
    /\ UNCHANGED opened

(***************************************************************************)
(* SsTable::open.                                                          *)
(***************************************************************************)

\* Section k of the footer: data, index, bloom, meta.
Section(k) ==
    LET footer == SubSeq(file, Len(file) - 63, Len(file))
        offset == Read(footer, 16 * (k - 1), 8)
        size == Read(footer, 16 * (k - 1) + 8, 8)
    IN  SubSeq(file, offset + 1, offset + size)

read_metadata ==
    LET buf == Section(4)
    IN  [min_timestamp |-> Read(buf, 0, 8), max_timestamp |-> Read(buf, 8, 8),
         min_symbol_id |-> Read(buf, 16, 2), max_symbol_id |-> Read(buf, 18, 2),
         row_count |-> Read(buf, 20, 8)]

\* The entries, or a panic when the count leads beyond the section.
read_index ==
    LET buf == Section(2)
        count == Read(buf, 0, 4)
        Entry(k) == [symbol_id |-> Read(buf, 4 + 22 * (k - 1), 2), timestamp |-> Read(buf, 6 + 22 * (k - 1), 8),
                     offset |-> Read(buf, 14 + 22 * (k - 1), 8), size |-> Read(buf, 22 + 22 * (k - 1), 4)]
    IN  IF count > (Len(buf) - 4) \div 22
        THEN [outcome |-> "panic"]
        ELSE [outcome |-> "ok", index |-> [k \in 1 .. count |-> Entry(k)]]

\* The dictionary, or a panic when its length leads beyond the section.
read_symbol_dict ==
    LET buf == Section(4)
        len == Read(buf, 40, 4)
    IN  IF 44 + len > Len(buf) THEN [outcome |-> "panic"] ELSE [outcome |-> "ok", size |-> len]

open ==
    /\ file # << >> /\ opened = NotOpened
    /\ opened' =
        CASE SubSeq(file, 1, 4) # SubSeq(Header, 1, 4) -> [outcome |-> "corrupt"]
          [] read_index.outcome = "panic" -> read_index
          [] Len(Section(3)) < 12 -> [outcome |-> "corrupt"]
          [] read_symbol_dict.outcome = "panic" -> read_symbol_dict
          [] OTHER -> [outcome |-> "ok", meta |-> read_metadata, index |-> read_index.index]
    /\ UNCHANGED << file, ticks >>

Next == (\E ts \in Tables : Write(ts)) \/ open

Spec == Init /\ [][Next]_tableVars

\* A table that has been written can be opened ("Open an existing SSTable for
\* reading", sstable.rs:265), and its index and metadata are those of its ticks.
TableReadsBack ==
    opened # NotOpened =>
        /\ opened.outcome = "ok"
        /\ opened.index = Index(ticks)
        /\ opened.meta.row_count = Len(ticks)
        /\ opened.meta.min_timestamp = ticks[1].timestamp
=============================================================================
