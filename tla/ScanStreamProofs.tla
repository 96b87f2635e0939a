-------------------------- MODULE ScanStreamProofs --------------------------
(***************************************************************************)
(* What the archive of tables promises, for all timestamps, batches,       *)
(* set-ups, thresholds and bounds: while tables are flushed, compacted,    *)
(* uploaded, removed from the disk, downloaded by a stream and listed      *)
(* anew by a restart, none that is needed is lost and none that was merged *)
(* comes back; and what a stream returns that runs meanwhile.              *)
(***************************************************************************)
EXTENDS ScanStream, DataLemmas

Rows == [Stamp -> 0 .. MaxBatches]
Table == [level : {0, 1, 2}, rows : Rows, names : BOOLEAN]
Locked == [step : {"idle", "upload", "save", "deeper", "remove", "write"},
           todo : Seq(Nat), merging : Seq(Nat), to : 0 .. 2]

Written == 1 .. Len(table)

Types ==
    /\ status \in {"up", "down", "failed"}
    /\ memtable \in Rows
    /\ table \in Seq(Table) /\ Len(table) <= MaxFiles
    /\ levels \in [1 .. 3 -> Seq(Nat)]
    /\ disk \in [File -> {"absent", "cut", "whole"}]
    /\ sync \in Locked

\* A level has tables that were written for it, so no table is on two levels.
Shelved == \A i \in 1 .. 3 : \A f \in Range(levels[i]) : f \in Written /\ table[f].level = i - 1

\* What is uploaded or has an entry is a table, and an entry has its object.
Archived ==
    /\ Range(sync.todo) \subseteq Written
    /\ manifest \subseteq Written /\ manifest \subseteq store
    /\ saved # Cut => saved \subseteq Written /\ saved \subseteq store

Reachable ==
    status = "up" => \A f \in InUse :
        \/ disk[f] = "whole"
        \/ disk[f] = "absent" /\ f \in manifest
        \/ disk[f] = "cut" /\ << f, "torn" >> \in excuses

\* A merged table has no file any more, or it is known how it came back.
Back(f) == << f, "kept" >> \in excuses \/ << f, "revived" >> \in excuses

Retired ==
    /\ compacted \subseteq Written
    /\ \A f \in compacted : disk[f] = "absent" \/ Back(f)
    /\ \A f \in InUse : f \in compacted => Back(f)

\* A compaction has read the tables that it merges, removes those that are whole, and
\* then makes the last table of all, with their keys.
Compacting == sync.step \in {"remove", "write"}

Underway ==
    /\ Range(sync.merging) \subseteq Written
    /\ ~Compacting => sync.merging = << >>
    /\ Compacting => status = "up" /\ sync.to \in 1 .. 2
    /\ sync.step = "remove" => \A f \in Range(sync.todo) :
            f \notin InUse /\ (f \in compacted \/ disk[f] = "whole")
    /\ sync.step = "write" =>
        /\ Len(table) \in Written \ compacted
        /\ table[Len(table)].level = sync.to
        /\ \A f \in Range(sync.merging) : \A k \in Stamp :
            table[f].rows[k] # 0 => table[Len(table)].rows[k] # 0

\* While a stream downloads a table, its file is missing and then cut, so no compaction
\* merges it; nor is it the table that a compaction writes, which came later.
Fetching ==
    /\ "step" \in DOMAIN stream
    /\ Streaming =>
        /\ {"paths", "idx"} \subseteq DOMAIN stream
        /\ stream.paths \in Seq(Nat) /\ stream.idx \in Nat
        /\ Range(stream.paths) \subseteq Written
        /\ sync.step = "write" => Len(table) \notin Range(stream.paths)
    /\ stream.step \in {"fetch", "write"} => Path \in Range(stream.paths)
    /\ stream.step = "fetch" => disk[Path] = "absent"
    /\ stream.step = "write" =>
        \/ Path \notin compacted /\ disk[Path] = "cut"
        \/ Back(Path)

\* Where a key may be that a table was written with.
Has(f, k) == f \in Written /\ table[f].rows[k] # 0
Gone(f) == << f, "unlisted" >> \in excuses \/ << f, "dropped" >> \in excuses

Serves(k) ==
    \/ memtable[k] # 0
    \/ \E g \in InUse \cup Range(sync.merging) : Has(g, k)
    \/ \E g \in Written : Has(g, k) /\ Gone(g)

\* As long as the database is down, its files count.
Stores(k) ==
    \/ memtable[k] # 0
    \/ \E g \in Written : Has(g, k) /\ (Gone(g) \/ disk[g] # "absent")

Held ==
    /\ status = "up" => \A f \in Written : \A k \in Keys(table[f].rows) : Serves(k)
    /\ status = "down" => \A f \in Written : \A k \in Keys(table[f].rows) : Stores(k)

Inv == Types /\ Shelved /\ Archived /\ Reachable /\ Retired /\ Underway /\ Fetching /\ Held

----------------------------------------------------------------------------

(* There are three levels.                                                 *)
LEMMA ThreeLevels ==
    ASSUME NEW ls, NEW U, \A f : f \in U <=> \E i \in 1 .. 3 : f \in Range(ls[i])
    PROVE  U = Range(ls[1]) \cup Range(ls[2]) \cup Range(ls[3])
<1>1. ASSUME NEW f \in U PROVE f \in Range(ls[1]) \cup Range(ls[2]) \cup Range(ls[3])
  <2>1. PICK i \in 1 .. 3 : f \in Range(ls[i])
    BY <1>1
  <2>2. i = 1 \/ i = 2 \/ i = 3
    BY <2>1
  <2>. QED
    BY <2>1, <2>2
<1>2. ASSUME NEW f \in Range(ls[1]) \cup Range(ls[2]) \cup Range(ls[3]) PROVE f \in U
  <2>1. 1 \in 1 .. 3 /\ 2 \in 1 .. 3 /\ 3 \in 1 .. 3
    OBVIOUS
  <2>. QED
    BY <1>2, <2>1, Zenon
<1>. QED
  BY <1>1, <1>2

(* A table in use is on one of the three levels.                           *)
LEMMA InUseLevels ==
    ASSUME Types
    PROVE  /\ \A f : f \in InUse <=> \E i \in 1 .. 3 : f \in Range(levels[i])
           /\ InUse = Range(levels[1]) \cup Range(levels[2]) \cup Range(levels[3])
<1>1. \A f : f \in InUse <=> \E i \in 1 .. 3 : f \in Range(levels[i])
  BY DEF Types, InUse
<1>. QED
  BY <1>1, ThreeLevels

(* Likewise after a step.                                                  *)
LEMMA InUseOf ==
    ASSUME levels' \in [1 .. 3 -> Seq(Nat)]
    PROVE  InUse' = Range(levels'[1]) \cup Range(levels'[2]) \cup Range(levels'[3])
<1>1. \A f : f \in InUse' <=> \E i \in 1 .. 3 : f \in Range(levels'[i])
  BY DEF InUse
<1>. QED
  BY <1>1, ThreeLevels

(* The tables in use have been written, and a file number is theirs.       *)
LEMMA InUseWritten ==
    ASSUME Types, Shelved
    PROVE  /\ InUse \subseteq Written /\ Written \subseteq File
           /\ Len(table) \in Nat /\ Len(table) <= MaxFiles /\ MaxFiles \in Nat
<1>1. Len(table) \in Nat /\ MaxFiles \in Nat /\ Len(table) <= MaxFiles
  BY ColdAssumption DEF Types
<1>2. Written \subseteq File
  BY <1>1 DEF Written, File
<1>. QED
  BY <1>1, <1>2, InUseLevels DEF Shelved

(* A table behind the others.                                              *)
LEMMA TableAdded ==
    ASSUME Types, NEW t \in Table, Len(table) < MaxFiles, NEW new, new = Len(table) + 1,
           table' = Append(table, t)
    PROVE  /\ table' \in Seq(Table) /\ Len(table') <= MaxFiles
           /\ Written' = Written \cup {new} /\ new \notin Written /\ new \in File
           /\ table'[new] = t
           /\ \A f \in Written : table'[f] = table[f]
<1>1. Len(table) \in Nat /\ MaxFiles \in Nat
  BY ColdAssumption DEF Types
<1>2. table' \in Seq(Table) /\ Len(table') = new
  BY DEF Types
<1>3. Written' = Written \cup {new} /\ new \notin Written /\ new \in File
  BY <1>1, <1>2 DEF Written, File
<1>4. table'[new] = t /\ \A f \in Written : table'[f] = table[f]
  BY <1>1 DEF Types, Written
<1>5. Len(table') <= MaxFiles
  BY <1>1, <1>2
<1>. QED
  BY <1>2, <1>3, <1>4, <1>5, Zenon

(* A table behind the others of a level.                                   *)
LEMMA RangeAppend ==
    ASSUME NEW s \in Seq(Nat), NEW f \in Nat
    PROVE  Append(s, f) \in Seq(Nat) /\ Range(Append(s, f)) = Range(s) \cup {f}
<1>1. PICK u : u = Append(s, f)
  OBVIOUS
<1>2. /\ u \in Seq(Nat) /\ Len(s) \in Nat /\ Len(u) = Len(s) + 1
      /\ DOMAIN u = 1 .. Len(s) + 1 /\ DOMAIN s = 1 .. Len(s)
      /\ u[Len(s) + 1] = f /\ \A i \in 1 .. Len(s) : u[i] = s[i]
  BY <1>1
<1>3. Range(u) = Range(s) \cup {f}
  BY <1>2 DEF Range
<1>. QED
  BY <1>1, <1>2, <1>3

(* The largest number of a batch that has been written.                    *)
LEMMA NewestNumber ==
    ASSUME Types
    PROVE  Newest \in 0 .. MaxBatches
<1>. DEFINE seen == { memtable[k] : k \in Stamp }
                      \cup UNION { { table[f].rows[k] : k \in Stamp } : f \in DOMAIN table }
<1>1. seen \subseteq 0 .. MaxBatches /\ MaxBatches \in Nat
  <2>1. \A f \in DOMAIN table : table[f].rows \in Rows
    <3>1. \A f \in DOMAIN table : table[f] \in Table
      BY DEF Types
    <3>. QED
      BY <3>1 DEF Table
  <2>. QED
    BY <2>1, ColdAssumption, SMTT(60) DEF Types, Rows
<1>. HIDE DEF seen
<1>2. \E v \in seen \cup {0} : \A u \in seen : u <= v
  <2>1. CASE seen \cap (1 .. MaxBatches) = {}
    BY <1>1, <2>1
  <2>2. CASE seen \cap (1 .. MaxBatches) # {}
    <3>1. PICK S : S = seen \cap (1 .. MaxBatches)
      OBVIOUS
    <3>2. PICK v \in S : \A u \in S : u <= v
      BY <1>1, <2>2, <3>1, LastPosition
    <3>. QED
      BY <1>1, <3>1, <3>2
  <2>. QED
    BY <2>1, <2>2
<1>3. Newest = CHOOSE v \in seen \cup {0} : \A u \in seen : u <= v
  BY DEF Newest, seen
<1>4. Newest \in seen \cup {0}
  BY <1>2, <1>3
<1>. QED
  BY <1>1, <1>4

----------------------------------------------------------------------------

(* A step that takes no key away and adds none that is not served.         *)
LEMMA StillHeld ==
    ASSUME Held, status = "up", status' = "up",
           \A f \in Written' : \A k \in Keys(table'[f].rows) :
                (f \in Written /\ k \in Keys(table[f].rows)) \/ Serves(k)',
           \A k \in Stamp : Serves(k) => Serves(k)'
    PROVE  Held'
<1>1. \A f \in Written : \A k \in Keys(table[f].rows) : k \in Stamp /\ Serves(k)
  BY DEF Held, Keys
<1>2. \A f \in Written' : \A k \in Keys(table'[f].rows) : Serves(k)'
  BY <1>1, Zenon
<1>. QED
  BY <1>2 DEF Held, Keys

(* A step that leaves tables and files alone.                              *)
LEMMA SameHeld ==
    ASSUME Held, UNCHANGED << status, memtable, table, levels, disk, excuses >>, sync'.merging = sync.merging
    PROVE  Held'
<1>1. /\ InUse' = InUse /\ Written' = Written
      /\ \A g, k : Has(g, k)' = Has(g, k) /\ Gone(g)' = Gone(g)
  BY DEF InUse, Written, Has, Gone
<1>2. \A k : (Serves(k)' <=> Serves(k)) /\ (Stores(k)' <=> Stores(k))
  BY <1>1 DEF Serves, Stores
<1>. QED
  BY <1>1, <1>2 DEF Held, Keys

(* A compaction under way stays so while others change other files.        *)
LEMMA UnderwayStays ==
    ASSUME Underway, UNCHANGED << status, table, levels, sync, compacted >>,
           \A f : disk[f] = "whole" /\ f \notin InUse => disk'[f] = "whole"
    PROVE  Underway'
<1>1. InUse' = InUse /\ Written' = Written /\ (Compacting' <=> Compacting)
  BY DEF InUse, Written, Compacting
<1>. QED
  BY <1>1 DEF Underway

(* Otherwise none is under way.                                            *)
LEMMA NoneUnderway ==
    ASSUME sync'.step \notin {"remove", "write"}, sync'.merging = << >>
    PROVE  Underway'
<1>1. Range(<< >>) = {}
  BY DEF Range
<1>. QED
  BY <1>1 DEF Underway, Compacting

(* A download goes on while files of others change.                        *)
LEMMA FetchingStays ==
    ASSUME Fetching, stream' = stream, Written \subseteq Written',
           sync'.step = "write" =>
                Len(table') \notin Written \/ (sync.step = "write" /\ table' = table),
           \A f \in Written :
                /\ disk[f] = "absent" \/ (disk[f] = "cut" /\ f \notin compacted) =>
                        disk'[f] = disk[f] \/ (sync.step = "write" /\ f = Len(table))
                /\ f \in compacted' => f \in compacted \/ disk[f] = "whole",
           excuses \subseteq excuses'
    PROVE  Fetching'
<1>0. PICK p : p = Path
  OBVIOUS
<1>1. Path' = p /\ (Streaming' <=> Streaming)
  BY <1>0 DEF Path, Streaming
<1>2. ASSUME Streaming
      PROVE  /\ Range(stream.paths) \subseteq Written'
             /\ sync'.step = "write" => Len(table') \notin Range(stream.paths)
  BY <1>2 DEF Fetching
<1>3. ASSUME stream.step \in {"fetch", "write"}
      PROVE  /\ p \in Range(stream.paths) /\ p \in Written
             /\ disk[p] = "absent" \/ (disk[p] = "cut" /\ p \notin compacted) => disk'[p] = disk[p]
  <2>1. Streaming /\ p \in Range(stream.paths)
    BY <1>0, <1>3 DEF Fetching, Streaming
  <2>2. p \in Written /\ ~(sync.step = "write" /\ p = Len(table))
    BY <2>1 DEF Fetching
  <2>. QED
    BY <2>1, <2>2
<1>4. Back(p) => Back(p)'
  BY DEF Back
<1>. QED
  BY <1>0, <1>1, <1>2, <1>3, <1>4 DEF Fetching

(* The tables of two sequences, one after the other.                       *)
LEMMA RangeJoin ==
    ASSUME NEW a \in Seq(Nat), NEW b \in Seq(Nat)
    PROVE  a \o b \in Seq(Nat) /\ Range(a \o b) \subseteq Range(a) \cup Range(b)
<1>1. PICK c : c = a \o b
  OBVIOUS
<1>2. /\ c \in Seq(Nat) /\ Len(a) \in Nat /\ Len(b) \in Nat /\ DOMAIN c = 1 .. Len(a) + Len(b)
      /\ DOMAIN a = 1 .. Len(a) /\ DOMAIN b = 1 .. Len(b)
  BY <1>1
<1>3. \A i \in 1 .. Len(a) + Len(b) : c[i] = IF i <= Len(a) THEN a[i] ELSE b[i - Len(a)]
  BY <1>1
<1>4. ASSUME NEW i \in DOMAIN c PROVE c[i] \in Range(a) \cup Range(b)
  <2>1. CASE i <= Len(a)
    BY <1>2, <1>3, <2>1 DEF Range
  <2>2. CASE ~(i <= Len(a))
    <3>1. PICK j : j = i - Len(a)
      OBVIOUS
    <3>2. j \in DOMAIN b /\ c[i] = b[j]
      BY <1>2, <1>3, <2>2, <3>1
    <3>. QED
      BY <3>2 DEF Range
  <2>. QED
    BY <2>1, <2>2
<1>5. Range(c) \subseteq Range(a) \cup Range(b)
  BY <1>4 DEF Range
<1>. QED
  BY <1>1, <1>2, <1>5

(* A selection of the tables in use.                                       *)
LEMMA SelectedTables ==
    ASSUME Types, Shelved, NEW P \in SUBSET DOMAIN AllTables
    PROVE  SelectAt(AllTables, P) \in Seq(Nat) /\ Range(SelectAt(AllTables, P)) \subseteq Written
<1>1. PICK a, b, c, ab, all : /\ a = levels[1] /\ b = levels[2] /\ c = levels[3]
                              /\ ab = a \o b /\ all = ab \o c
  OBVIOUS
<1>2. a \in Seq(Nat) /\ b \in Seq(Nat) /\ c \in Seq(Nat)
  BY <1>1 DEF Types
<1>3. Range(a) \subseteq Written /\ Range(b) \subseteq Written /\ Range(c) \subseteq Written
  BY <1>1 DEF Shelved
<1>4. ab \in Seq(Nat) /\ Range(ab) \subseteq Written
  <2>1. ab \in Seq(Nat) /\ Range(ab) \subseteq Range(a) \cup Range(b)
    BY <1>1, <1>2, RangeJoin
  <2>. QED
    BY <1>3, <2>1
<1>5. all \in Seq(Nat) /\ Range(all) \subseteq Written
  <2>1. ab \o c \in Seq(Nat) /\ Range(ab \o c) \subseteq Range(ab) \cup Range(c)
    BY <1>2, <1>4, RangeJoin, Zenon
  <2>. QED
    BY <1>1, <1>3, <1>4, <2>1, Zenon
<1>6. AllTables = all
  BY <1>1 DEF AllTables
<1>7. PICK n \in Nat : n = Len(all) /\ DOMAIN all = 1 .. n
  BY <1>5
<1>8. P \in SUBSET (1 .. n)
  BY <1>6, <1>7
<1>9. PICK u, m : u = SelectAt(all, P) /\ m = Cardinality(P)
  OBVIOUS
<1>10. /\ m \in Nat /\ DOMAIN u = 1 .. m
       /\ \A j \in 1 .. m : Nth(P, j) \in P /\ u[j] = all[Nth(P, j)]
  BY <1>8, <1>9, Selected, Zenon
<1>11. \A j \in 1 .. m : u[j] \in Nat /\ u[j] \in Range(all)
  <2>1. \A p \in P : all[p] \in Nat /\ all[p] \in Range(all)
    BY <1>5, <1>7, <1>8 DEF Range
  <2>. QED
    BY <1>10, <2>1
<1>12. u \in Seq(Nat)
  <2>1. u = [j \in 1 .. m |-> u[j]]
    BY <1>9, <1>10 DEF SelectAt
  <2>2. u \in [1 .. m -> Nat]
    BY <1>11, <2>1
  <2>. QED
    BY <1>10, <2>2
<1>13. Range(u) \subseteq Range(all)
  BY <1>10, <1>11 DEF Range
<1>. QED
  BY <1>5, <1>6, <1>9, <1>12, <1>13

(* A step that leaves tables, files and archive alone.                     *)
LEMMA QuietKeeps ==
    ASSUME Inv, UNCHANGED << status, memtable, table, levels, disk, store, manifest, saved, sync, compacted, excuses >>,
           Fetching'
    PROVE  Inv'
<1>1. Types'
  BY DEF Inv, Types
<1>2. Shelved' /\ Archived'
  BY DEF Inv, Shelved, Archived, Written
<1>3. Reachable' /\ Retired'
  BY DEF Inv, Reachable, Retired, InUse, Written, Back
<1>4. Underway'
  BY UnderwayStays DEF Inv
<1>5. Held'
  BY SameHeld DEF Inv
<1>. QED
  BY <1>1, <1>2, <1>3, <1>4, <1>5 DEF Inv

(* The steps of a stream that write no file.                               *)
LEMMA StreamKeeps ==
    ASSUME Inv,
           \/ \E range \in Params : scan_stream(range) \/ symbol_not_found(range)
           \/ ensure_sstable_batch \/ load_next_sstable_batch \/ next_tick \/ DropStream
           \/ ensure_local_error
    PROVE  Inv'
<1>1. UNCHANGED << status, memtable, table, levels, disk, store, manifest, saved, sync, compacted, excuses >>
  BY DEF scan_stream, symbol_not_found, ensure_sstable_batch, load_next_sstable_batch, next_tick, DropStream,
         ensure_local_error, coldVars
<1>2. Written' = Written
  BY <1>1 DEF Written
<1>3. CASE \E range \in Params : scan_stream(range)
  <2>1. PICK range \in Params : scan_stream(range)
    BY <1>3
  <2>2. PICK P \in SUBSET DOMAIN AllTables :
            P = { p \in DOMAIN AllTables :
                    overlaps_time_range(AllTables[p], range) /\ ~PassedOver(AllTables[p], range) }
    OBVIOUS
  <2>3. PICK paths : paths = SelectAt(AllTables, P) /\ paths \in Seq(Nat) /\ Range(paths) \subseteq Written
    BY SelectedTables DEF Inv
  <2>4. /\ "step" \in DOMAIN stream' /\ {"paths", "idx"} \subseteq DOMAIN stream'
        /\ stream'.step = "next" /\ stream'.paths = paths /\ stream'.idx = 0
    BY <2>1, <2>2, <2>3 DEF scan_stream
  <2>5. sync.step # "write"
    BY <2>1 DEF scan_stream
  <2>6. Fetching'
    BY <1>1, <1>2, <2>3, <2>4, <2>5 DEF Fetching
  <2>. QED
    BY <1>1, <2>6, QuietKeeps
<1>4. CASE (\E range \in Params : symbol_not_found(range)) \/ DropStream
  <2>1. "step" \in DOMAIN stream' /\ stream'.step \in {"none", "refused"}
    BY <1>4 DEF symbol_not_found, DropStream, NoStream
  <2>2. Fetching'
    BY <2>1 DEF Fetching, Streaming
  <2>. QED
    BY <1>1, <2>2, QuietKeeps
<1>5. CASE ensure_sstable_batch
  <2>1. PICK paths \in Seq(Nat), i \in Nat :
            /\ paths = stream.paths /\ i = stream.idx /\ i < Len(paths)
            /\ Range(paths) \subseteq Written /\ (sync.step = "write" => Len(table) \notin Range(paths))
            /\ {"step", "paths", "idx"} \subseteq DOMAIN stream
    BY <1>5 DEF ensure_sstable_batch, NeedsBatch, Inv, Fetching, Streaming
  <2>2. PICK f : f = paths[i + 1]
    OBVIOUS
  <2>3. f \in Range(paths)
    <3>1. i + 1 \in DOMAIN paths
      BY <2>1
    <3>. QED
      BY <2>2, <3>1 DEF Range
  <2>4. PICK st : st = IF disk[f] = "absent" THEN "fetch" ELSE "open"
    OBVIOUS
  <2>5. stream' = [stream EXCEPT !.idx = i + 1, !.step = st]
    BY <1>5, <2>1, <2>2, <2>4 DEF ensure_sstable_batch
  <2>6. /\ DOMAIN stream' = DOMAIN stream
        /\ stream'.step = st /\ stream'.paths = paths /\ stream'.idx = i + 1 /\ i + 1 \in Nat
    BY <2>1, <2>5
  <2>7. Path' = f
    BY <2>2, <2>6 DEF Path
  <2>8. Fetching'
    BY <1>1, <1>2, <2>1, <2>3, <2>4, <2>6, <2>7 DEF Fetching
  <2>. QED
    BY <1>1, <2>8, QuietKeeps
<1>6. CASE load_next_sstable_batch \/ next_tick \/ ensure_local_error
  <2>1. /\ stream.step \notin {"none", "refused"} /\ {"step", "paths", "idx"} \subseteq DOMAIN stream
    BY <1>6 DEF load_next_sstable_batch, next_tick, ensure_local_error, Inv, Fetching, Streaming
  <2>2. /\ DOMAIN stream' = DOMAIN stream /\ stream'.step \notin {"fetch", "write"}
        /\ stream'.paths = stream.paths /\ stream'.idx = stream.idx
    <3>1. CASE load_next_sstable_batch
      <4>1. CASE disk[Path] # "whole"
        BY <2>1, <3>1, <4>1 DEF load_next_sstable_batch
      <4>2. CASE disk[Path] = "whole" /\ setup.opens = "panic"
        BY <2>1, <3>1, <4>2 DEF load_next_sstable_batch
      <4>3. CASE disk[Path] = "whole" /\ setup.opens # "panic"
        BY <2>1, <3>1, <4>3 DEF load_next_sstable_batch
      <4>. QED
        BY <4>1, <4>2, <4>3
    <3>2. CASE next_tick
      <4>1. CASE stream.mem = << >> /\ stream.batch = << >>
        BY <2>1, <3>2, <4>1 DEF next_tick
      <4>2. CASE ~(stream.mem = << >> /\ stream.batch = << >>)
        BY <2>1, <3>2, <4>2 DEF next_tick
      <4>. QED
        BY <4>1, <4>2
    <3>3. CASE ensure_local_error
      BY <2>1, <3>3 DEF ensure_local_error
    <3>. QED
      BY <1>6, <3>1, <3>2, <3>3
  <2>3. Fetching'
    BY <1>1, <1>2, <2>1, <2>2 DEF Inv, Fetching, Streaming
  <2>. QED
    BY <1>1, <2>3, QuietKeeps
<1>. QED
  BY <1>3, <1>4, <1>5, <1>6

(* insert_batch takes no key away from the memtable.                       *)
LEMMA InsertKeeps ==
    ASSUME Inv, NEW keys \in Batches, insert_batch(keys), UNCHANGED streamVars
    PROVE  Inv'
<1>1. PICK v : v = Newest + 1
  OBVIOUS
<1>2. v \in 1 .. MaxBatches
  BY <1>1, NewestNumber, ColdAssumption DEF Inv, insert_batch
<1>3. memtable' = [k \in Stamp |-> IF k \in keys THEN v ELSE memtable[k]]
  BY <1>1 DEF insert_batch
<1>4. memtable' \in Rows /\ \A k \in Stamp : memtable[k] # 0 => memtable'[k] # 0
  BY <1>2, <1>3 DEF Inv, Types, Rows
<1>5. UNCHANGED << status, table, levels, disk, store, manifest, saved, sync, compacted, excuses, stream >>
  BY DEF insert_batch, streamVars
<1>6. Types'
  BY <1>4, <1>5 DEF Inv, Types
<1>7. Shelved' /\ Archived'
  BY <1>5 DEF Inv, Shelved, Archived, Written
<1>8. Reachable' /\ Retired'
  BY <1>5 DEF Inv, Reachable, Retired, InUse, Written, Back
<1>9. Fetching' /\ Underway'
  BY <1>5, UnderwayStays, FetchingStays DEF Inv, Written
<1>10. Held'
  <2>1. InUse' = InUse /\ Written' = Written /\ \A g, k : Has(g, k)' = Has(g, k) /\ Gone(g)' = Gone(g)
    BY <1>5 DEF InUse, Written, Has, Gone
  <2>2. \A k \in Stamp : Serves(k) => Serves(k)'
    <3>1. sync'.merging = sync.merging
      BY <1>5
    <3>. QED
      BY <1>4, <2>1, <3>1, Zenon DEF Serves
  <2>3. status = "up" /\ status' = "up" /\ table' = table
    BY <1>5 DEF insert_batch
  <2>. QED
    BY <2>1, <2>2, <2>3, StillHeld DEF Inv
<1>. QED
  BY <1>6, <1>7, <1>8, <1>9, <1>10 DEF Inv

(* The first of a sequence, and the others.                                *)
LEMMA HeadAndTail ==
    ASSUME NEW s \in Seq(Nat), s # << >>
    PROVE  /\ Head(s) \in Range(s) /\ Tail(s) \in Seq(Nat) /\ Range(Tail(s)) \subseteq Range(s)
<1>1. PICK n \in Nat : n = Len(s)
  OBVIOUS
<1>2. PICK t : t = Tail(s)
  OBVIOUS
<1>3. /\ n >= 1 /\ DOMAIN s = 1 .. n /\ t \in Seq(Nat) /\ DOMAIN t = 1 .. n - 1
      /\ \A i \in 1 .. n - 1 : t[i] = s[i + 1]
  BY <1>1, <1>2
<1>4. Head(s) = s[1] /\ 1 \in 1 .. n /\ \A i \in 1 .. n - 1 : i + 1 \in 1 .. n
  BY <1>3
<1>5. Head(s) \in Range(s)
  BY <1>3, <1>4 DEF Range
<1>6. Range(t) \subseteq Range(s)
  <2>1. \A i \in 1 .. n - 1 : t[i] \in Range(s)
    BY <1>3, <1>4 DEF Range
  <2>. QED
    BY <1>3, <2>1 DEF Range
<1>7. Tail(s) \in Seq(Nat) /\ Range(Tail(s)) \subseteq Range(s)
  <2>1. t \in Seq(Nat)
    BY <1>3
  <2>. QED
    BY <1>2, <1>6, <2>1, Zenon
<1>. QED
  BY <1>5, <1>7, Zenon

(* A step of a sync, or the end of a compaction, changes the archive only. *)
LEMMA ArchiveKeeps ==
    ASSUME Inv, UNCHANGED << status, memtable, table, levels, disk, compacted, excuses, stream >>,
           ~Compacting, sync' \in Locked, sync'.step \notin {"remove", "write"}, sync'.merging = << >>,
           manifest \subseteq manifest', Archived'
    PROVE  Inv'
<1>1. Types'
  BY DEF Inv, Types
<1>2. Shelved' /\ Reachable'
  BY DEF Inv, Shelved, Reachable, Written, InUse
<1>3. Retired'
  BY DEF Inv, Retired, InUse, Written, Back
<1>4. Underway' /\ Fetching'
  BY NoneUnderway, FetchingStays DEF Inv, Written
<1>5. Held'
  <2>1. sync.merging = << >>
    BY DEF Inv, Underway
  <2>. QED
    BY <2>1, SameHeld DEF Inv
<1>. QED
  BY <1>1, <1>2, <1>3, <1>4, <1>5 DEF Inv

(* sync_tables with its uploads, and save_manifest, half done or failed.   *)
LEMMA SyncKeeps ==
    ASSUME Inv, UNCHANGED streamVars,
           \/ compact_end \/ sync_cold_tier \/ sync_table
           \/ save_manifest_truncate \/ save_manifest_write \/ save_manifest_error
    PROVE  Inv'
<1>1. UNCHANGED << status, memtable, table, levels, disk, compacted, excuses, stream >>
  BY DEF compact_end, sync_cold_tier, sync_table, save_manifest_truncate, save_manifest_write,
         save_manifest_error, streamVars
<1>2. /\ sync \in Locked /\ Range(sync.todo) \subseteq Written
      /\ manifest \subseteq Written /\ manifest \subseteq store
      /\ saved # Cut => saved \subseteq Written /\ saved \subseteq store
  BY DEF Inv, Types, Archived
<1>3. Written' = Written
  BY <1>1 DEF Written
<1>4. /\ Idle \in Locked /\ Range(Idle.todo) = {}
      /\ Idle.step = "idle" /\ Idle.merging = << >>
  BY DEF Idle, Locked, Range
<1>5. ~Compacting /\ sync.merging = << >> /\ sync.step \notin {"remove", "write"}
  <2>1. ~Compacting
    BY DEF compact_end, sync_cold_tier, sync_table, save_manifest_truncate, save_manifest_write,
           save_manifest_error, Idle, Deeper, Compacting
  <2>. QED
    BY <2>1 DEF Inv, Underway, Compacting
<1>6. CASE compact_end \/ save_manifest_write \/ save_manifest_error
  <2>1. /\ sync' = Idle /\ UNCHANGED << manifest, store >>
        /\ saved' = saved \/ saved' = manifest
    BY <1>6 DEF compact_end, save_manifest_write, save_manifest_error
  <2>2. Archived'
    BY <1>2, <1>3, <1>4, <2>1 DEF Archived
  <2>. QED
    BY <1>1, <1>4, <1>5, <2>1, <2>2, ArchiveKeeps
<1>7. CASE sync_cold_tier
  <2>1. PICK P \in SUBSET DOMAIN AllTables :
            sync' = [Idle EXCEPT !.step = "upload", !.todo = SelectAt(AllTables, P)]
    BY <1>7 DEF sync_cold_tier
  <2>2. PICK todo : todo = SelectAt(AllTables, P) /\ todo \in Seq(Nat) /\ Range(todo) \subseteq Written
    BY SelectedTables DEF Inv
  <2>3. sync' = [step |-> "upload", todo |-> todo, merging |-> << >>, to |-> 0]
    BY <2>1, <2>2 DEF Idle
  <2>4. sync' \in Locked /\ sync'.step = "upload" /\ sync'.merging = << >> /\ sync'.todo = todo
    BY <2>2, <2>3 DEF Locked
  <2>5. UNCHANGED << manifest, store, saved >>
    BY <1>7 DEF sync_cold_tier
  <2>6. Archived'
    BY <1>2, <1>3, <2>2, <2>4, <2>5 DEF Archived
  <2>. QED
    BY <1>1, <1>5, <2>4, <2>5, <2>6, ArchiveKeeps
<1>8. CASE sync_table
  <2>1. PICK f, t : f = Head(sync.todo) /\ t = Tail(sync.todo)
    OBVIOUS
  <2>2. f \in Written /\ t \in Seq(Nat) /\ Range(t) \subseteq Written
    <3>1. sync.todo \in Seq(Nat) /\ sync.todo # << >>
      BY <1>2, <1>8 DEF sync_table, Locked
    <3>. QED
      BY <1>2, <2>1, <3>1, HeadAndTail
  <2>3. sync' = [sync EXCEPT !.todo = t] \/ sync' = Idle
    BY <1>8, <2>1 DEF sync_table, Upload
  <2>4. /\ sync' \in Locked /\ sync'.step \notin {"remove", "write"} /\ sync'.merging = << >>
        /\ Range(sync'.todo) \subseteq Written
    <3>1. CASE sync' = Idle
      BY <1>4, <3>1
    <3>2. CASE sync' = [sync EXCEPT !.todo = t]
      BY <1>2, <1>5, <2>2, <3>2 DEF Locked
    <3>. QED
      BY <2>3, <3>1, <3>2
  <2>5. /\ saved' = saved
        /\ \/ store' = store \cup {f} /\ manifest' = manifest \cup {f}
           \/ UNCHANGED << store, manifest >>
    BY <1>8, <2>1 DEF sync_table, Upload
  <2>6. Archived'
    BY <1>2, <1>3, <2>2, <2>4, <2>5 DEF Archived
  <2>. QED
    BY <1>1, <1>5, <2>4, <2>5, <2>6, ArchiveKeeps
<1>9. CASE save_manifest_truncate
  <2>1. /\ sync' = [sync EXCEPT !.step = "save"] /\ saved' = Cut /\ UNCHANGED << manifest, store >>
    BY <1>9 DEF save_manifest_truncate
  <2>2. /\ sync' \in Locked /\ sync'.step = "save" /\ sync'.merging = << >>
        /\ sync'.todo = sync.todo
    BY <1>2, <1>5, <2>1 DEF Locked
  <2>3. Archived'
    BY <1>2, <1>3, <2>1, <2>2 DEF Archived
  <2>. QED
    BY <1>1, <1>5, <2>1, <2>2, <2>3, ArchiveKeeps
<1>. QED
  BY <1>6, <1>7, <1>8, <1>9

(* flush_memtable puts the memtable into a table of level 0.               *)
LEMMA FlushKeeps ==
    ASSUME Inv, flush_memtable, UNCHANGED streamVars
    PROVE  Inv'
<1>1. PICK new, names, t :
        /\ names \in BOOLEAN
        /\ new = Len(table) + 1 /\ t = [level |-> 0, rows |-> memtable, names |-> names]
        /\ table' = Append(table, t)
  <2>1. Filters(named) \subseteq BOOLEAN
    BY DEF Filters
  <2>2. \E names \in Filters(named) :
            table' = Append(table, [level |-> 0, rows |-> memtable, names |-> names])
    BY DEF flush_memtable
  <2>. QED
    BY <2>1, <2>2
<1>2. /\ t \in Table /\ t.level = 0 /\ t.rows = memtable
      /\ status = "up" /\ Len(table) < MaxFiles /\ sync = Idle
      /\ memtable' = NoTicks /\ levels' = [levels EXCEPT ![1] = Append(@, new)]
      /\ disk' = [disk EXCEPT ![new] = "whole"]
      /\ UNCHANGED << status, store, manifest, saved, sync, compacted, excuses, stream >>
  <2>1. t \in Table /\ t.level = 0 /\ t.rows = memtable
    BY <1>1 DEF Inv, Types, Table
  <2>. QED
    BY <1>1, <2>1 DEF flush_memtable, streamVars
<1>3. /\ table' \in Seq(Table) /\ Len(table') <= MaxFiles
      /\ Written' = Written \cup {new} /\ new \notin Written /\ new \in File
      /\ table'[new] = t /\ \A f \in Written : table'[f] = table[f]
  BY <1>1, <1>2, TableAdded DEF Inv
<1>4. /\ levels' \in [1 .. 3 -> Seq(Nat)]
      /\ Range(levels'[1]) = Range(levels[1]) \cup {new}
      /\ levels'[2] = levels[2] /\ levels'[3] = levels[3]
  <2>1. levels[1] \in Seq(Nat) /\ new \in Nat
    BY <1>1 DEF Inv, Types
  <2>2. PICK u \in Seq(Nat) : u = Append(levels[1], new) /\ Range(u) = Range(levels[1]) \cup {new}
    BY <2>1, RangeAppend
  <2>3. levels' = [levels EXCEPT ![1] = u]
    BY <1>2, <2>2
  <2>. QED
    BY <2>2, <2>3 DEF Inv, Types
<1>5. InUse' = InUse \cup {new}
  <2>1. InUse = Range(levels[1]) \cup Range(levels[2]) \cup Range(levels[3])
    BY InUseLevels DEF Inv
  <2>2. InUse' = Range(levels'[1]) \cup Range(levels'[2]) \cup Range(levels'[3])
    BY <1>4, InUseOf
  <2>. QED
    BY <1>4, <2>1, <2>2
<1>6. Shelved'
  <2>1. \A f \in Range(levels[1]) : f \in Written /\ table[f].level = 0
    BY DEF Inv, Shelved
  <2>2. \A i \in {2, 3} : \A f \in Range(levels[i]) : f \in Written /\ table[f].level = i - 1
    BY DEF Inv, Shelved
  <2>3. \A f \in Range(levels'[1]) : f \in Written' /\ table'[f].level = 0
    BY <1>2, <1>3, <1>4, <2>1
  <2>4. \A i \in {2, 3} : \A f \in Range(levels'[i]) : f \in Written' /\ table'[f].level = i - 1
    BY <1>3, <1>4, <2>2
  <2>. QED
    BY <2>3, <2>4 DEF Shelved
<1>7. memtable' \in Rows
  BY <1>2, ColdAssumption DEF NoTicks, Rows
<1>8. disk' \in [File -> {"absent", "cut", "whole"}] /\ disk'[new] = "whole"
      /\ \A f \in File \ {new} : disk'[f] = disk[f]
  BY <1>2, <1>3 DEF Inv, Types
<1>9. InUse \subseteq Written /\ Written \subseteq File
  BY InUseWritten DEF Inv
<1>10. Types'
  BY <1>2, <1>3, <1>4, <1>7, <1>8 DEF Inv, Types
<1>11. Archived'
  BY <1>2, <1>3 DEF Inv, Archived
<1>12. Reachable'
  BY <1>2, <1>3, <1>5, <1>8, <1>9 DEF Inv, Reachable
<1>13. Retired'
  BY <1>2, <1>3, <1>5, <1>8, <1>9 DEF Inv, Retired, Back
<1>14. Underway' /\ Fetching'
  <2>1. sync'.step \notin {"remove", "write"} /\ sync'.merging = << >>
    BY <1>2 DEF Idle
  <2>2. \A f \in Written : disk'[f] = disk[f]
    BY <1>3, <1>8, <1>9
  <2>. QED
    BY <1>2, <1>3, <2>1, <2>2, NoneUnderway, FetchingStays DEF Inv
<1>15. Held'
  <2>1. \A f \in Written : \A k : Has(f, k) => Has(f, k)'
    BY <1>3 DEF Has
  <2>2. \A k : t.rows[k] # 0 => Serves(k)'
    BY <1>3, <1>5 DEF Serves, Has
  <2>3. ASSUME NEW k \in Stamp, Serves(k) PROVE Serves(k)'
    <3>1. CASE memtable[k] # 0
      BY <1>2, <2>2, <3>1
    <3>2. ASSUME NEW g \in InUse \cup Range(sync.merging), Has(g, k) PROVE Serves(k)'
      BY <1>2, <1>5, <2>1, <3>2 DEF Serves, Has
    <3>3. ASSUME NEW g \in Written, Has(g, k), Gone(g) PROVE Serves(k)'
      BY <1>2, <1>3, <2>1, <3>3 DEF Serves, Gone
    <3>. QED
      BY <2>3, <3>1, <3>2, <3>3 DEF Serves
  <2>4. \A f \in Written' : \A k \in Keys(table'[f].rows) :
            (f \in Written /\ k \in Keys(table[f].rows)) \/ Serves(k)'
    BY <1>3, <2>2 DEF Keys
  <2>. QED
    BY <1>2, <2>3, <2>4, StillHeld DEF Inv
<1>. QED
  BY <1>6, <1>10, <1>11, <1>12, <1>13, <1>14, <1>15 DEF Inv

(* A merged table has every key of the tables it was made of, and no other. *)
LEMMA MergedKeys ==
    ASSUME Types, NEW s \in Seq(Nat), Range(s) \subseteq Written
    PROVE  /\ Merged(s) \in Rows
           /\ \A k \in Stamp : \A f \in Range(s) : table[f].rows[k] # 0 => Merged(s)[k] # 0
           /\ \A k \in Stamp : Merged(s)[k] # 0 => \E f \in Range(s) : table[f].rows[k] # 0
<1>1. /\ DOMAIN s = 1 .. Len(s) /\ Len(s) \in Nat
      /\ \A j \in 1 .. Len(s) : s[j] \in Range(s) /\ s[j] \in Written
  <2>1. DOMAIN s = 1 .. Len(s) /\ Len(s) \in Nat
    OBVIOUS
  <2>2. \A j \in DOMAIN s : s[j] \in Range(s)
    BY DEF Range
  <2>. QED
    BY <2>1, <2>2
<1>2. \A f \in Written : table[f].rows \in Rows
  <2>1. \A f \in Written : table[f] \in Table
    BY DEF Types, Written
  <2>. QED
    BY <2>1 DEF Table
<1>3. ASSUME NEW k \in Stamp
      PROVE  /\ Merged(s)[k] \in 0 .. MaxBatches
             /\ \A f \in Range(s) : table[f].rows[k] # 0 => Merged(s)[k] # 0
             /\ Merged(s)[k] # 0 => \E f \in Range(s) : table[f].rows[k] # 0
  <2>1. PICK with : with = { j \in DOMAIN s : table[s[j]].rows[k] # 0 }
    OBVIOUS
  <2>2. Merged(s)[k] = IF with = {} THEN 0 ELSE table[s[Min(with)]].rows[k]
    BY <2>1 DEF Merged
  <2>3. CASE with = {}
    <3>1. \A j \in DOMAIN s : table[s[j]].rows[k] = 0
      BY <2>1, <2>3
    <3>2. \A f \in Range(s) : table[f].rows[k] = 0
      BY <3>1 DEF Range
    <3>3. Merged(s)[k] = 0 /\ 0 \in 0 .. MaxBatches
      BY <2>2, <2>3, ColdAssumption
    <3>. QED
      BY <3>2, <3>3
  <2>4. CASE with # {}
    <3>1. with \in SUBSET Nat
      BY <1>1, <2>1
    <3>2. \E x \in with : \A y \in with : x <= y
      BY <2>4, <3>1, LeastNatural
    <3>3. PICK x : x = Min(with)
      OBVIOUS
    <3>4. x \in with
      BY <3>2, <3>3 DEF Min
    <3>5. x \in DOMAIN s /\ table[s[x]].rows[k] # 0
      BY <2>1, <3>4
    <3>6. table[s[x]].rows[k] \in 0 .. MaxBatches
      BY <1>1, <1>2, <3>5 DEF Rows
    <3>. QED
      BY <1>1, <2>2, <2>4, <3>3, <3>5, <3>6
  <2>. QED
    BY <2>3, <2>4
<1>4. Merged(s) = [k \in Stamp |-> Merged(s)[k]]
  BY DEF Merged
<1>5. Merged(s) \in Rows
  BY <1>3, <1>4 DEF Rows
<1>. QED
  BY <1>3, <1>5

(* compact_level takes the tables of a level out of use.                   *)
LEMMA CompactKeeps ==
    ASSUME Inv, NEW i \in 0 .. 1, compact_level(i), UNCHANGED streamVars
    PROVE  Inv'
<1>1. PICK n, s : n = i + 1 /\ s = levels[n]
  OBVIOUS
<1>2. n \in 1 .. 2 /\ n \in 1 .. 3 /\ s \in Seq(Nat)
  BY <1>1 DEF Inv, Types
<1>3. /\ status = "up" /\ \A j \in DOMAIN s : disk[s[j]] = "whole"
      /\ sync' = [step |-> "remove", todo |-> s, merging |-> s, to |-> n]
      /\ levels' = [levels EXCEPT ![n] = << >>]
      /\ UNCHANGED << status, memtable, table, disk, store, manifest, saved, compacted, excuses, stream >>
  BY <1>1 DEF compact_level, MayCompact, streamVars
<1>4. sync' \in Locked /\ sync'.step = "remove" /\ sync'.todo = s /\ sync'.merging = s /\ sync'.to = n
  BY <1>2, <1>3 DEF Locked
<1>5. ~Compacting /\ sync.merging = << >> /\ Range(sync.merging) = {}
  <2>1. ~Compacting
    BY DEF compact_level, MayCompact, Idle, Deeper, Compacting
  <2>. QED
    BY <2>1 DEF Inv, Underway, Range
<1>6. /\ levels' \in [1 .. 3 -> Seq(Nat)] /\ levels'[n] = << >> /\ Range(levels'[n]) = {}
      /\ \A m \in 1 .. 3 : m # n => levels'[m] = levels[m]
  <2>1. PICK e \in Seq(Nat) : e = << >> /\ Range(e) = {}
    <3>1. << >> \in Seq(Nat) /\ Range(<< >>) = {}
      BY DEF Range
    <3>. QED
      BY <3>1
  <2>2. levels' = [levels EXCEPT ![n] = e]
    BY <1>3, <2>1
  <2>. QED
    BY <1>2, <2>1, <2>2 DEF Inv, Types
<1>7. \A m \in 1 .. 3 : \A f \in Range(levels[m]) : f \in Written /\ table[f].level = m - 1
  BY DEF Inv, Shelved
<1>8. InUse' \subseteq InUse /\ InUse \subseteq InUse' \cup Range(s) /\ InUse' \cap Range(s) = {}
  <2>1. InUse = Range(levels[1]) \cup Range(levels[2]) \cup Range(levels[3])
    BY InUseLevels DEF Inv
  <2>2. InUse' = Range(levels'[1]) \cup Range(levels'[2]) \cup Range(levels'[3])
    BY <1>6, InUseOf
  <2>3. \A m \in 1 .. 3 : m # n => Range(levels[m]) \cap Range(s) = {}
    <3>1. \A m \in 1 .. 3 : m # n => m - 1 # n - 1
      BY <1>2
    <3>. QED
      BY <1>1, <1>2, <1>7, <3>1, Zenon
  <2>4. CASE n = 1
    BY <1>1, <1>6, <2>1, <2>2, <2>3, <2>4
  <2>5. CASE n = 2
    BY <1>1, <1>6, <2>1, <2>2, <2>3, <2>5
  <2>. QED
    BY <1>2, <2>4, <2>5
<1>9. Written' = Written /\ Range(s) \subseteq Written /\ \A f \in Range(s) : disk[f] = "whole"
  BY <1>1, <1>2, <1>3, <1>7 DEF Range, Written
<1>10. Types'
  BY <1>3, <1>4, <1>6 DEF Inv, Types
<1>11. Shelved'
  BY <1>3, <1>6, <1>7, <1>9 DEF Shelved
<1>12. Archived'
  BY <1>3, <1>4, <1>9 DEF Inv, Archived
<1>13. Reachable'
  BY <1>3, <1>8 DEF Inv, Reachable
<1>14. Retired'
  BY <1>3, <1>8, <1>9 DEF Inv, Retired, Back
<1>15. Underway'
  BY <1>2, <1>3, <1>4, <1>8, <1>9 DEF Underway, Compacting
<1>16. Fetching'
  BY <1>3, <1>4, <1>9, FetchingStays DEF Inv
<1>17. Held'
  <2>1. \A g, k : Has(g, k)' = Has(g, k) /\ Gone(g)' = Gone(g)
    BY <1>3, <1>9 DEF Has, Gone
  <2>2. \A k \in Stamp : Serves(k) => Serves(k)'
    BY <1>3, <1>4, <1>5, <1>8, <1>9, <2>1 DEF Serves
  <2>. QED
    BY <1>3, <1>9, <2>2, StillHeld DEF Inv
<1>. QED
  BY <1>10, <1>11, <1>12, <1>13, <1>14, <1>15, <1>16, <1>17 DEF Inv

(* remove_file takes the file of a table that nobody uses, or leaves it.   *)
LEMMA UnlinkKeeps ==
    ASSUME Inv, remove_file, UNCHANGED streamVars
    PROVE  Inv'
<1>1. PICK f, t : f = Head(sync.todo) /\ t = Tail(sync.todo)
  OBVIOUS
<1>2. /\ status = "up" /\ sync.step = "remove" /\ sync.todo # << >> /\ sync \in Locked
      /\ sync' = [sync EXCEPT !.todo = t]
      /\ compacted' = compacted \cup {f}
      /\ \/ disk' = [disk EXCEPT ![f] = "absent"] /\ excuses' = excuses
         \/ disk' = disk /\ excuses' = excuses \cup { << f, "kept" >> }
      /\ UNCHANGED << status, memtable, table, levels, store, manifest, saved, stream >>
  BY <1>1 DEF remove_file, Unlink, streamVars, Inv, Types
<1>3. f \in Range(sync.todo) /\ t \in Seq(Nat) /\ Range(t) \subseteq Range(sync.todo)
  <2>1. sync.todo \in Seq(Nat)
    BY <1>2 DEF Locked
  <2>. QED
    BY <1>1, <1>2, <2>1, HeadAndTail
<1>4. /\ sync' \in Locked /\ sync'.todo = t
      /\ sync'.step = sync.step /\ sync'.merging = sync.merging /\ sync'.to = sync.to
  BY <1>2, <1>3 DEF Locked
<1>5. InUse' = InUse /\ Written' = Written /\ InUse \subseteq Written /\ Written \subseteq File
  <2>1. InUse \subseteq Written /\ Written \subseteq File
    BY InUseWritten DEF Inv
  <2>. QED
    BY <1>2, <2>1 DEF InUse, Written
<1>6. f \in Written /\ f \in File /\ f \notin InUse /\ (f \in compacted \/ disk[f] = "whole")
  BY <1>2, <1>3, <1>5 DEF Inv, Archived, Underway
<1>7. /\ disk' \in [File -> {"absent", "cut", "whole"}]
      /\ \A g \in File \ {f} : disk'[g] = disk[g]
      /\ excuses \subseteq excuses'
      /\ disk'[f] = "absent" \/ Back(f)'
  BY <1>2, <1>6 DEF Inv, Types, Back
<1>8. Types'
  BY <1>2, <1>4, <1>7 DEF Inv, Types
<1>9. Shelved' /\ Archived'
  BY <1>2, <1>3, <1>4, <1>5 DEF Inv, Shelved, Archived
<1>10. Reachable'
  BY <1>2, <1>5, <1>6, <1>7 DEF Inv, Reachable
<1>11. Retired'
  BY <1>2, <1>5, <1>6, <1>7 DEF Inv, Retired, Back
<1>12. Fetching'
  <2>1. \A g \in Written : disk[g] = "absent" \/ (disk[g] = "cut" /\ g \notin compacted) => disk'[g] = disk[g]
    BY <1>2, <1>5, <1>6, <1>7
  <2>. QED
    BY <1>2, <1>4, <1>5, <1>6, <1>7, <2>1, FetchingStays DEF Inv
<1>13. Underway'
  <2>1. ASSUME NEW g \in Range(t)
        PROVE  g \notin InUse' /\ (g \in compacted' \/ disk'[g] = "whole")
    <3>1. g \in Written /\ g \notin InUse /\ (g \in compacted \/ disk[g] = "whole")
      BY <1>2, <1>3, <2>1 DEF Inv, Archived, Underway
    <3>. QED
      BY <1>2, <1>5, <1>7, <3>1
  <2>. QED
    BY <1>2, <1>4, <1>5, <2>1 DEF Inv, Underway, Compacting
<1>14. Held'
  <2>1. \A g, k : Has(g, k)' = Has(g, k) /\ (Gone(g) => Gone(g)')
    BY <1>2, <1>5, <1>7 DEF Has, Gone
  <2>2. \A k \in Stamp : Serves(k) => Serves(k)'
    BY <1>2, <1>4, <1>5, <2>1 DEF Serves
  <2>. QED
    BY <1>2, <1>5, <2>2, StillHeld DEF Inv
<1>. QED
  BY <1>8, <1>9, <1>10, <1>11, <1>12, <1>13, <1>14 DEF Inv

(* SsTable::write creates the file of the merged table.                    *)
LEMMA NewTableKeeps ==
    ASSUME Inv, compact_create, UNCHANGED streamVars
    PROVE  Inv'
<1>1. PICK s, new, names, t :
        /\ names \in BOOLEAN
        /\ s = sync.merging /\ new = Len(table) + 1
        /\ t = [level |-> sync.to, rows |-> Merged(s), names |-> names]
        /\ table' = Append(table, t)
  BY DEF compact_create, Filters
<1>2. /\ status = "up" /\ sync.step = "remove" /\ Len(table) < MaxFiles /\ sync \in Locked
      /\ disk' = [disk EXCEPT ![new] = "cut"]
      /\ sync' = [sync EXCEPT !.step = "write"]
      /\ UNCHANGED << status, memtable, levels, store, manifest, saved, compacted, excuses, stream >>
  BY <1>1 DEF compact_create, streamVars, Inv, Types
<1>3. /\ sync' \in Locked /\ sync'.step = "write"
      /\ sync'.todo = sync.todo /\ sync'.merging = s /\ sync'.to = sync.to /\ s \in Seq(Nat)
  BY <1>1, <1>2 DEF Locked
<1>4. sync.to \in 1 .. 2 /\ Range(s) \subseteq Written
  BY <1>1, <1>2 DEF Inv, Underway, Compacting
<1>5. /\ Merged(s) \in Rows
      /\ \A k \in Stamp : \A f \in Range(s) : table[f].rows[k] # 0 => Merged(s)[k] # 0
      /\ \A k \in Stamp : Merged(s)[k] # 0 => \E f \in Range(s) : table[f].rows[k] # 0
  BY <1>3, <1>4, MergedKeys DEF Inv
<1>6. t \in Table /\ t.level = sync.to /\ t.rows = Merged(s)
  BY <1>1, <1>4, <1>5 DEF Table
<1>7. /\ table' \in Seq(Table) /\ Len(table') <= MaxFiles
      /\ Written' = Written \cup {new} /\ new \notin Written /\ new \in File
      /\ table'[new] = t /\ \A f \in Written : table'[f] = table[f]
  BY <1>1, <1>2, <1>6, TableAdded DEF Inv
<1>8. Len(table') = new
  BY <1>1 DEF Inv, Types
<1>9. InUse' = InUse /\ InUse \subseteq Written /\ Written \subseteq File
  <2>1. InUse \subseteq Written /\ Written \subseteq File
    BY InUseWritten DEF Inv
  <2>. QED
    BY <1>2, <2>1 DEF InUse
<1>10. /\ disk' \in [File -> {"absent", "cut", "whole"}]
       /\ \A f \in File \ {new} : disk'[f] = disk[f]
       /\ \A f \in Written : disk'[f] = disk[f]
  BY <1>2, <1>7, <1>9 DEF Inv, Types
<1>11. Types'
  BY <1>2, <1>3, <1>7, <1>10 DEF Inv, Types
<1>12. Shelved' /\ Archived'
  BY <1>2, <1>3, <1>7 DEF Inv, Shelved, Archived
<1>13. Reachable' /\ Retired'
  BY <1>2, <1>7, <1>9, <1>10 DEF Inv, Reachable, Retired, Back
<1>14. Underway'
  <2>1. new \in Written' \ compacted' /\ table'[new].level = sync'.to
    BY <1>2, <1>3, <1>6, <1>7 DEF Inv, Retired
  <2>2. \A f \in Range(s) : \A k \in Stamp : table'[f].rows[k] # 0 => table'[new].rows[k] # 0
    BY <1>4, <1>5, <1>6, <1>7
  <2>. QED
    BY <1>2, <1>3, <1>4, <1>7, <1>8, <2>1, <2>2 DEF Underway, Compacting
<1>15. Fetching'
  BY <1>2, <1>7, <1>8, <1>10, FetchingStays DEF Inv
<1>16. Held'
  <2>1. \A f \in Written : \A k : Has(f, k) => Has(f, k)'
    BY <1>7 DEF Has
  <2>2. \A k \in Stamp : Serves(k) => Serves(k)'
    BY <1>1, <1>2, <1>3, <1>7, <1>9, <2>1 DEF Serves, Has, Gone
  <2>3. ASSUME NEW k \in Keys(table'[new].rows) PROVE Serves(k)'
    <3>1. k \in Stamp /\ Merged(s)[k] # 0
      BY <1>6, <1>7 DEF Keys
    <3>2. PICK f \in Range(s) : table[f].rows[k] # 0
      BY <1>5, <3>1
    <3>3. Has(f, k)'
      BY <1>4, <2>1, <3>2 DEF Has
    <3>. QED
      BY <1>3, <3>3 DEF Serves
  <2>4. \A f \in Written' : \A k \in Keys(table'[f].rows) :
            (f \in Written /\ k \in Keys(table[f].rows)) \/ Serves(k)'
    BY <1>7, <2>3 DEF Keys
  <2>. QED
    BY <1>2, <2>2, <2>4, StillHeld DEF Inv
<1>. QED
  BY <1>11, <1>12, <1>13, <1>14, <1>15, <1>16 DEF Inv

(* The merged table is written and added to its level.                     *)
LEMMA TableWrittenKeeps ==
    ASSUME Inv, compact_write, UNCHANGED streamVars
    PROVE  Inv'
<1>1. PICK s, new, n : s = sync.merging /\ new = Len(table) /\ n = sync.to + 1
  OBVIOUS
<1>2. /\ status = "up" /\ sync.step = "write" /\ sync \in Locked
      /\ disk' = [disk EXCEPT ![new] = "whole"]
      /\ levels' = [levels EXCEPT ![n] = Append(@, new)]
      /\ sync' \in {Deeper, Idle}
      /\ UNCHANGED << status, memtable, table, store, manifest, saved, compacted, excuses, stream >>
  BY <1>1 DEF compact_write, streamVars, Inv, Types
<1>3. /\ sync.to \in 1 .. 2 /\ n \in 2 .. 3 /\ n \in 1 .. 3 /\ n - 1 = sync.to
      /\ new \in Written /\ new \notin compacted /\ table[new].level = sync.to
      /\ Range(s) \subseteq Written
      /\ \A f \in Range(s) : \A k \in Stamp : table[f].rows[k] # 0 => table[new].rows[k] # 0
  <2>1. /\ sync.to \in 1 .. 2
        /\ new \in Written /\ new \notin compacted /\ table[new].level = sync.to
        /\ Range(s) \subseteq Written
        /\ \A f \in Range(s) : \A k \in Stamp : table[f].rows[k] # 0 => table[new].rows[k] # 0
    BY <1>1, <1>2 DEF Inv, Underway, Compacting
  <2>2. n \in 2 .. 3 /\ n \in 1 .. 3 /\ n - 1 = sync.to
    BY <1>1, <2>1
  <2>. QED
    BY <2>1, <2>2, Zenon
<1>4. /\ sync' \in Locked /\ sync'.step \notin {"remove", "write"} /\ sync'.merging = << >>
      /\ Range(sync'.todo) = {} /\ Range(sync'.merging) = {}
  <2>1. \E st \in {"idle", "deeper"} : sync' = [step |-> st, todo |-> << >>, merging |-> << >>, to |-> 0]
    BY <1>2 DEF Deeper, Idle
  <2>2. /\ sync' \in Locked /\ sync'.step \notin {"remove", "write"}
        /\ sync'.todo = << >> /\ sync'.merging = << >>
    BY <2>1 DEF Locked
  <2>3. Range(<< >>) = {}
    BY DEF Range
  <2>. QED
    BY <2>2, <2>3
<1>5. /\ levels' \in [1 .. 3 -> Seq(Nat)]
      /\ Range(levels'[n]) = Range(levels[n]) \cup {new}
      /\ \A m \in 1 .. 3 : m # n => levels'[m] = levels[m]
  <2>1. levels[n] \in Seq(Nat) /\ new \in Nat
    BY <1>1, <1>3 DEF Inv, Types
  <2>2. PICK v \in Seq(Nat) : v = Append(levels[n], new) /\ Range(v) = Range(levels[n]) \cup {new}
    BY <2>1, RangeAppend
  <2>3. levels' = [levels EXCEPT ![n] = v]
    BY <1>2, <2>2
  <2>. QED
    BY <1>3, <2>2, <2>3 DEF Inv, Types
<1>6. InUse' = InUse \cup {new}
  <2>1. InUse = Range(levels[1]) \cup Range(levels[2]) \cup Range(levels[3])
    BY InUseLevels DEF Inv
  <2>2. InUse' = Range(levels'[1]) \cup Range(levels'[2]) \cup Range(levels'[3])
    BY <1>5, InUseOf
  <2>3. CASE n = 2
    BY <1>5, <2>1, <2>2, <2>3
  <2>4. CASE n = 3
    BY <1>5, <2>1, <2>2, <2>4
  <2>. QED
    BY <1>3, <2>3, <2>4
<1>7. Written' = Written /\ InUse \subseteq Written /\ Written \subseteq File
  <2>1. InUse \subseteq Written /\ Written \subseteq File
    BY InUseWritten DEF Inv
  <2>. QED
    BY <1>2, <2>1 DEF Written
<1>8. /\ disk' \in [File -> {"absent", "cut", "whole"}] /\ disk'[new] = "whole"
      /\ \A f \in File \ {new} : disk'[f] = disk[f]
  BY <1>2, <1>3, <1>7 DEF Inv, Types
<1>9. Types'
  BY <1>2, <1>4, <1>5, <1>8 DEF Inv, Types
<1>10. Shelved'
  <2>1. \A m \in 1 .. 3 : \A f \in Range(levels[m]) : f \in Written /\ table[f].level = m - 1
    BY DEF Inv, Shelved
  <2>2. ASSUME NEW m \in 1 .. 3, NEW f \in Range(levels'[m]) PROVE f \in Written /\ table[f].level = m - 1
    <3>1. CASE m = n
      BY <1>3, <1>5, <2>1, <2>2, <3>1
    <3>2. CASE m # n
      BY <1>5, <2>1, <2>2, <3>2
    <3>. QED
      BY <3>1, <3>2
  <2>. QED
    BY <1>2, <1>7, <2>2 DEF Shelved
<1>11. Archived'
  BY <1>2, <1>4, <1>7 DEF Inv, Archived
<1>12. Reachable'
  BY <1>2, <1>6, <1>7, <1>8 DEF Inv, Reachable
<1>13. Retired'
  BY <1>2, <1>3, <1>6, <1>7, <1>8 DEF Inv, Retired, Back
<1>14. Underway'
  BY <1>4, NoneUnderway
<1>15. Fetching'
  <2>1. \A f \in Written : disk'[f] = disk[f] \/ f = Len(table)
    BY <1>1, <1>7, <1>8
  <2>. QED
    BY <1>2, <1>4, <1>7, <2>1, FetchingStays DEF Inv
<1>16. Held'
  <2>1. \A g, k : Has(g, k)' = Has(g, k) /\ Gone(g)' = Gone(g)
    BY <1>2, <1>7 DEF Has, Gone
  <2>2. ASSUME NEW k \in Stamp, NEW g \in Range(s), Has(g, k) PROVE Serves(k)'
    <3>1. Has(new, k)'
      BY <1>3, <2>1, <2>2 DEF Has
    <3>. QED
      BY <1>6, <3>1 DEF Serves
  <2>3. ASSUME NEW k \in Stamp, Serves(k) PROVE Serves(k)'
    BY <1>1, <1>2, <1>6, <1>7, <2>1, <2>2, <2>3 DEF Serves
  <2>. QED
    BY <1>2, <1>7, <2>3, StillHeld DEF Inv
<1>. QED
  BY <1>9, <1>10, <1>11, <1>12, <1>13, <1>14, <1>15, <1>16 DEF Inv

(* compact returns an error, and what it has merged is in no table.        *)
LEMMA CompactFails ==
    ASSUME Inv, compact_error, UNCHANGED streamVars
    PROVE  Inv'
<1>1. /\ status = "up" /\ sync' = Idle
      /\ excuses' = excuses \cup { << f, "dropped" >> : f \in Range(sync.merging) }
      /\ UNCHANGED << status, memtable, table, levels, disk, store, manifest, saved, compacted, stream >>
  BY DEF compact_error, streamVars
<1>2. /\ sync' \in Locked /\ sync'.step \notin {"remove", "write"} /\ sync'.merging = << >>
      /\ Range(sync'.todo) = {}
  BY <1>1 DEF Idle, Locked, Range
<1>3. InUse' = InUse /\ Written' = Written /\ Range(sync.merging) \subseteq Written
  BY <1>1 DEF InUse, Written, Inv, Underway
<1>4. Types' /\ Shelved' /\ Archived'
  BY <1>1, <1>2, <1>3 DEF Inv, Types, Shelved, Archived
<1>5. Reachable' /\ Retired'
  BY <1>1, <1>3 DEF Inv, Reachable, Retired, Back
<1>6. Underway' /\ Fetching'
  BY <1>1, <1>2, <1>3, NoneUnderway, FetchingStays DEF Inv
<1>7. Held'
  <2>1. /\ \A g, k : Has(g, k)' = Has(g, k)
        /\ \A g : Gone(g) => Gone(g)'
        /\ \A g \in Range(sync.merging) : Gone(g)'
    BY <1>1, <1>3 DEF Has, Gone
  <2>2. \A k \in Stamp : Serves(k) => Serves(k)'
    BY <1>1, <1>3, <2>1 DEF Serves
  <2>. QED
    BY <1>1, <1>3, <2>2, StillHeld DEF Inv
<1>. QED
  BY <1>4, <1>5, <1>6, <1>7 DEF Inv

(* Of a table that is in the archive the local copy may go.                *)
LEMMA RemoveKeeps ==
    ASSUME Inv, NEW f \in File, RemoveLocal(f), UNCHANGED streamVars
    PROVE  Inv'
<1>1. /\ status = "up" /\ f \in InUse /\ f \in manifest /\ disk[f] = "whole"
      /\ disk' = [disk EXCEPT ![f] = "absent"]
      /\ UNCHANGED << status, memtable, table, levels, store, manifest, saved, sync, compacted, excuses, stream >>
  BY DEF RemoveLocal, streamVars
<1>2. /\ disk' \in [File -> {"absent", "cut", "whole"}]
      /\ disk'[f] = "absent" /\ \A g \in File \ {f} : disk'[g] = disk[g]
  BY <1>1 DEF Inv, Types
<1>3. InUse \subseteq File /\ Written \subseteq File /\ InUse' = InUse /\ Written' = Written
  <2>1. InUse \subseteq File /\ Written \subseteq File
    BY InUseWritten DEF Inv
  <2>. QED
    BY <1>1, <2>1 DEF InUse, Written
<1>4. Types'
  BY <1>1, <1>2 DEF Inv, Types
<1>5. Shelved' /\ Archived'
  BY <1>1 DEF Inv, Shelved, Archived, Written
<1>6. Reachable'
  BY <1>1, <1>2, <1>3 DEF Inv, Reachable
<1>7. \A g : Back(g)' = Back(g)
  BY <1>1 DEF Back
<1>8. Retired'
  BY <1>1, <1>2, <1>3, <1>7 DEF Inv, Retired
<1>9. Underway' /\ Fetching'
  <2>1. \A g \in Written : g # f => disk'[g] = disk[g]
    BY <1>2, <1>3
  <2>2. \A g : disk[g] = "whole" /\ g \notin InUse => disk'[g] = "whole"
    BY <1>1
  <2>. QED
    BY <1>1, <1>3, <2>1, <2>2, UnderwayStays, FetchingStays DEF Inv
<1>10. Held'
  <2>1. \A g, k : Has(g, k)' = Has(g, k) /\ Gone(g)' = Gone(g)
    BY <1>1 DEF Has, Gone, Written
  <2>2. \A k \in Stamp : Serves(k) => Serves(k)'
    BY <1>1, <1>3, <2>1 DEF Serves
  <2>3. status = "up" /\ status' = "up" /\ table' = table
    BY <1>1
  <2>. QED
    BY <1>3, <2>2, <2>3, StillHeld DEF Inv
<1>. QED
  BY <1>4, <1>5, <1>6, <1>8, <1>9, <1>10 DEF Inv

(* A download makes a cut file of a table that has none or another.        *)
LEMMA CreateKeeps ==
    ASSUME Inv, ensure_local_create
    PROVE  Inv'
<1>1. CASE Path \notin manifest
  <2>1. /\ UNCHANGED << status, memtable, table, levels, disk, store, manifest, saved, sync, compacted, excuses >>
        /\ stream' = [stream EXCEPT !.step = "open"]
    BY <1>1 DEF ensure_local_create
  <2>2. stream.step = "fetch" /\ "step" \in DOMAIN stream /\ {"paths", "idx"} \subseteq DOMAIN stream
    BY DEF ensure_local_create, Inv, Fetching, Streaming
  <2>3. /\ DOMAIN stream' = DOMAIN stream /\ stream'.step = "open"
        /\ stream'.paths = stream.paths /\ stream'.idx = stream.idx
    BY <2>1, <2>2
  <2>4. Fetching'
    BY <2>1, <2>2, <2>3 DEF Inv, Fetching, Streaming, Written
  <2>. QED
    BY <2>1, <2>4, QuietKeeps
<1>2. CASE Path \in manifest
  <2>. PICK p : p = Path
    OBVIOUS
  <2>1. /\ status = "up" /\ stream.step = "fetch"
        /\ stream' = [stream EXCEPT !.step = "write"]
        /\ disk' = [disk EXCEPT ![p] = "cut"]
        /\ excuses' = excuses \cup { << p, "torn" >> } \cup (IF p \in InUse THEN {} ELSE { << p, "revived" >> })
        /\ UNCHANGED << status, memtable, table, levels, store, manifest, saved, sync, compacted >>
    BY <1>2 DEF ensure_local_create
  <2>2. InUse \subseteq File /\ Written \subseteq File /\ InUse' = InUse /\ Written' = Written
    <3>1. InUse \subseteq File /\ Written \subseteq File
      BY InUseWritten DEF Inv
    <3>. QED
      BY <2>1, <3>1 DEF InUse, Written
  <2>3. p \in Written /\ p \in File
    BY <1>2, <2>2 DEF Inv, Archived
  <2>4. /\ disk' \in [File -> {"absent", "cut", "whole"}]
        /\ disk'[p] = "cut" /\ \A g \in File \ {p} : disk'[g] = disk[g]
    BY <2>1, <2>3 DEF Inv, Types
  <2>5. excuses \subseteq excuses' /\ << p, "torn" >> \in excuses'
    BY <2>1
  <2>6. \A g : Back(g) => Back(g)'
    BY <2>5 DEF Back
  <2>7. p \notin InUse => Back(p)'
    BY <2>1 DEF Back
  <2>8. p \in compacted => Back(p)'
    BY <2>6, <2>7 DEF Inv, Retired
  <2>9. Types'
    BY <2>1, <2>4 DEF Inv, Types
  <2>10. Shelved' /\ Archived'
    BY <2>1 DEF Inv, Shelved, Archived, Written
  <2>11. Reachable'
    BY <2>1, <2>2, <2>4, <2>5 DEF Inv, Reachable
  <2>12. Retired'
    BY <2>1, <2>2, <2>4, <2>6, <2>8 DEF Inv, Retired
  <2>13. Fetching'
    <3>1. "step" \in DOMAIN stream /\ {"paths", "idx"} \subseteq DOMAIN stream
      BY <2>1 DEF Inv, Fetching, Streaming
    <3>2. /\ DOMAIN stream' = DOMAIN stream /\ stream'.step = "write"
          /\ stream'.paths = stream.paths /\ stream'.idx = stream.idx
      BY <2>1, <3>1
    <3>3. Path' = p
      BY <3>2 DEF Path
    <3>4. Streaming /\ Streaming'
      BY <2>1, <3>2 DEF Streaming
    <3>5. p \in Range(stream.paths)
      BY <2>1, <3>4 DEF Inv, Fetching
    <3>. QED
      BY <2>1, <2>2, <2>4, <2>8, <3>1, <3>2, <3>3, <3>4, <3>5 DEF Inv, Fetching
  <2>14. Underway'
    <3>1. disk[p] = "absent"
      BY <2>1 DEF Inv, Fetching
    <3>2. \A g : disk[g] = "whole" /\ g \notin InUse => disk'[g] = "whole"
      BY <2>1, <3>1
    <3>. QED
      BY <2>1, <3>2, UnderwayStays DEF Inv
  <2>15. Held'
    <3>1. \A g, k : Has(g, k)' = Has(g, k) /\ (Gone(g) => Gone(g)')
      BY <2>1, <2>5 DEF Has, Gone, Written
    <3>2. \A k \in Stamp : Serves(k) => Serves(k)'
      BY <2>1, <2>2, <3>1 DEF Serves
    <3>3. status = "up" /\ status' = "up" /\ table' = table
      BY <2>1
    <3>. QED
      BY <2>2, <3>2, <3>3, StillHeld DEF Inv
  <2>. QED
    BY <2>9, <2>10, <2>11, <2>12, <2>13, <2>14, <2>15 DEF Inv
<1>. QED
  BY <1>1, <1>2

(* The end of a download makes the file whole.                             *)
LEMMA WriteKeeps ==
    ASSUME Inv, ensure_local_write
    PROVE  Inv'
<1>. PICK p : p = Path
  OBVIOUS
<1>1. /\ status = "up" /\ stream.step = "write"
      /\ stream' = [stream EXCEPT !.step = "open"]
      /\ disk' = [disk EXCEPT ![p] = "whole"]
      /\ excuses' = excuses \ { << p, "torn" >> }
      /\ UNCHANGED << status, memtable, table, levels, store, manifest, saved, sync, compacted >>
  BY DEF ensure_local_write
<1>2. InUse \subseteq File /\ Written \subseteq File /\ InUse' = InUse /\ Written' = Written
  <2>1. InUse \subseteq File /\ Written \subseteq File
    BY InUseWritten DEF Inv
  <2>. QED
    BY <1>1, <2>1 DEF InUse, Written
<1>3. p \in Written /\ p \in File /\ (p \in compacted => Back(p))
  BY <1>1, <1>2 DEF Inv, Fetching, Streaming
<1>4. /\ disk' \in [File -> {"absent", "cut", "whole"}]
      /\ disk'[p] = "whole" /\ \A g \in File \ {p} : disk'[g] = disk[g]
  BY <1>1, <1>3 DEF Inv, Types
<1>5. \A g : (Back(g) => Back(g)') /\ (Gone(g) => Gone(g)')
  BY <1>1 DEF Back, Gone
<1>6. \A g : g # p /\ << g, "torn" >> \in excuses => << g, "torn" >> \in excuses'
  BY <1>1
<1>7. Types'
  BY <1>1, <1>4 DEF Inv, Types
<1>8. Shelved' /\ Archived'
  BY <1>1 DEF Inv, Shelved, Archived, Written
<1>9. Reachable'
  BY <1>1, <1>2, <1>4, <1>6 DEF Inv, Reachable
<1>10. Retired'
  BY <1>1, <1>2, <1>3, <1>4, <1>5 DEF Inv, Retired
<1>11. Fetching'
  <2>1. "step" \in DOMAIN stream /\ {"paths", "idx"} \subseteq DOMAIN stream
    BY <1>1 DEF Inv, Fetching, Streaming
  <2>2. /\ DOMAIN stream' = DOMAIN stream /\ stream'.step = "open"
        /\ stream'.paths = stream.paths /\ stream'.idx = stream.idx
    BY <1>1, <2>1
  <2>. QED
    BY <1>1, <1>2, <2>1, <2>2 DEF Inv, Fetching, Streaming
<1>12. Underway'
  <2>1. \A g : disk[g] = "whole" => disk'[g] = "whole"
    BY <1>1
  <2>. QED
    BY <1>1, <2>1, UnderwayStays DEF Inv
<1>13. Held'
  <2>1. \A g, k : Has(g, k)' = Has(g, k)
    BY <1>1 DEF Has, Written
  <2>2. \A k \in Stamp : Serves(k) => Serves(k)'
    BY <1>1, <1>2, <1>5, <2>1 DEF Serves
  <2>3. status = "up" /\ status' = "up" /\ table' = table
    BY <1>1
  <2>. QED
    BY <1>2, <2>2, <2>3, StillHeld DEF Inv
<1>. QED
  BY <1>7, <1>8, <1>9, <1>10, <1>11, <1>12, <1>13 DEF Inv

(* A crash forgets the levels; the files are what is left of them.         *)
LEMMA CrashKeeps ==
    ASSUME Inv, Crash
    PROVE  Inv'
<1>1. /\ status = "up" /\ status' = "down" /\ manifest' = {} /\ sync' = Idle /\ stream' = NoStream
      /\ levels' = << << >>, << >>, << >> >>
      /\ excuses' = excuses
                \cup { << f, "unlisted" >> : f \in { g \in InUse : disk[g] = "absent" } }
                \cup { << f, "dropped" >> : f \in { g \in Range(sync.merging) : disk[g] = "absent" } }
      /\ UNCHANGED << memtable, table, disk, store, saved, compacted >>
  BY DEF Crash, CrashCold
<1>2. << >> \in Seq(Nat) /\ Range(<< >>) = {}
  BY DEF Range
<1>3. levels' \in [1 .. 3 -> Seq(Nat)] /\ \A i \in 1 .. 3 : levels'[i] = << >>
  <2>1. PICK e \in Seq(Nat) : e = << >>
    BY <1>2
  <2>2. levels' = << e, e, e >>
    BY <1>1, <2>1
  <2>3. levels' \in [1 .. 3 -> Seq(Nat)] /\ \A i \in 1 .. 3 : levels'[i] = e
    BY <2>2
  <2>. QED
    BY <2>1, <2>3
<1>4. InUse' = {} /\ Written' = Written
  <2>1. InUse' = Range(levels'[1]) \cup Range(levels'[2]) \cup Range(levels'[3])
    BY <1>3, InUseOf
  <2>2. InUse' = {}
    BY <1>2, <1>3, <2>1
  <2>. QED
    BY <1>1, <2>2 DEF Written
<1>5. Types'
  BY <1>1, <1>2, <1>3 DEF Inv, Types, Idle, Locked
<1>6. Shelved'
  BY <1>2, <1>3 DEF Shelved
<1>7. Archived'
  BY <1>1, <1>2, <1>4 DEF Inv, Archived, Idle
<1>8. Reachable'
  BY <1>1 DEF Reachable
<1>9. \A g : Back(g) => Back(g)'
  BY <1>1 DEF Back
<1>10. Retired'
  BY <1>1, <1>4, <1>9 DEF Inv, Retired
<1>11. Fetching' /\ Underway'
  <2>1. Fetching'
    BY <1>1 DEF Fetching, NoStream, Streaming
  <2>2. Underway'
    BY <1>1, NoneUnderway DEF Idle
  <2>. QED
    BY <2>1, <2>2
<1>12. Held'
  <2>1. /\ \A g, k : Has(g, k)' = Has(g, k)
        /\ \A g : Gone(g) => Gone(g)'
        /\ \A g \in InUse \cup Range(sync.merging) : disk[g] = "absent" => Gone(g)'
    BY <1>1 DEF Has, Gone, Written
  <2>2. InUse \subseteq Written /\ Range(sync.merging) \subseteq Written
    BY InUseWritten DEF Inv, Underway
  <2>3. \A k : Serves(k) => Stores(k)'
    BY <1>1, <1>4, <2>1, <2>2 DEF Serves, Stores
  <2>4. \A f \in Written : \A k \in Keys(table[f].rows) : Serves(k)
    BY <1>1 DEF Inv, Held
  <2>. QED
    BY <1>1, <1>4, <2>3, <2>4 DEF Held, Keys
<1>. QED
  BY <1>5, <1>6, <1>7, <1>8, <1>10, <1>11, <1>12 DEF Inv

(* A level as load_sstables lists it.                                      *)
LEMMA OrderOf ==
    ASSUME Types, NEW S \in SUBSET Written, NEW s \in Orders(S)
    PROVE  s \in Seq(Nat) /\ Range(s) = S
<1>1. PICK m : m = Cardinality(S)
  OBVIOUS
<1>2. m \in Nat
  <2>1. Len(table) \in Nat
    BY DEF Types
  <2>2. IsFiniteSet(1 .. Len(table))
    BY <2>1, CountTo
  <2>3. IsFiniteSet(S)
    BY <2>2, FS_Subset, Zenon DEF Written
  <2>. QED
    BY <1>1, <2>3, FS_CardinalityType
<1>3. s \in [1 .. m -> S] /\ Range(s) = S
  BY <1>1 DEF Orders
<1>4. S \subseteq Nat
  BY DEF Types, Written
<1>5. s \in [1 .. m -> Nat]
  BY <1>3, <1>4
<1>. QED
  BY <1>2, <1>3, <1>5

(* LsmTree::open lists every table that is whole, each on its own level.   *)
LEMMA OpenKeeps ==
    ASSUME Inv, open, UNCHANGED streamVars
    PROVE  Inv'
<1>1. /\ status = "down"
      /\ UNCHANGED << memtable, table, disk, store, saved, sync, compacted, excuses, stream >>
  BY DEF open, streamVars
<1>2. PICK fails : fails <=> (\/ saved = Cut
                             \/ \E f \in File : disk[f] = "cut" \/ (disk[f] = "whole" /\ setup.opens = "panic"))
  OBVIOUS
<1>3. Underway' /\ Fetching'
  <2>1. sync.step \notin {"remove", "write"} /\ sync.merging = << >>
    BY <1>1 DEF Inv, Underway, Compacting
  <2>. QED
    BY <1>1, <2>1, NoneUnderway, FetchingStays DEF Inv, Written
<1>4. CASE fails
  <2>1. status' = "failed" /\ UNCHANGED << manifest, levels >>
    BY <1>2, <1>4 DEF open
  <2>2. Types' /\ Shelved' /\ Archived'
    BY <1>1, <2>1 DEF Inv, Types, Shelved, Archived, Written
  <2>3. Reachable' /\ Held'
    BY <2>1 DEF Reachable, Held
  <2>4. Retired'
    BY <1>1, <2>1 DEF Inv, Retired, InUse, Written, Back
  <2>. QED
    BY <1>3, <2>2, <2>3, <2>4 DEF Inv
<1>5. CASE ~fails
  <2>. DEFINE Of(i) == { f \in DOMAIN table : disk[f] = "whole" /\ table[f].level = i }
  <2>1. /\ status' = "up" /\ manifest' = saved
        /\ \E a \in Orders(Of(0)), b \in Orders(Of(1)), c \in Orders(Of(2)) : levels' = << a, b, c >>
    BY <1>2, <1>5 DEF open
  <2>2. DOMAIN table = Written
    BY DEF Inv, Types, Written
  <2>3. PICK a \in Orders(Of(0)), b \in Orders(Of(1)), c \in Orders(Of(2)) : levels' = << a, b, c >>
    BY <2>1, Zenon
  <2>4. Of(0) \subseteq Written /\ Of(1) \subseteq Written /\ Of(2) \subseteq Written
    BY <2>2
  <2>5. \A f, i : f \in Of(i) <=> f \in Written /\ disk[f] = "whole" /\ table[f].level = i
    BY <2>2
  <2>. HIDE DEF Of
  <2>6. /\ a \in Seq(Nat) /\ b \in Seq(Nat) /\ c \in Seq(Nat)
        /\ Range(a) = Of(0) /\ Range(b) = Of(1) /\ Range(c) = Of(2)
    BY <2>3, <2>4, OrderOf DEF Inv
  <2>7. /\ levels' \in [1 .. 3 -> Seq(Nat)]
        /\ levels'[1] = a /\ levels'[2] = b /\ levels'[3] = c
    BY <2>3, <2>6
  <2>8. InUse' = Of(0) \cup Of(1) \cup Of(2) /\ Written' = Written
    <3>1. InUse' = Range(levels'[1]) \cup Range(levels'[2]) \cup Range(levels'[3])
      BY <2>7, InUseOf
    <3>. QED
      BY <1>1, <2>6, <2>7, <3>1 DEF Written
  <2>9. Types'
    BY <1>1, <2>1, <2>7 DEF Inv, Types
  <2>10. Shelved'
    <3>1. \A i \in 1 .. 3 : Range(levels'[i]) = Of(i - 1)
      BY <2>6, <2>7
    <3>. QED
      BY <1>1, <2>5, <2>8, <3>1 DEF Shelved
  <2>11. Archived'
    BY <1>1, <1>2, <1>5, <2>1, <2>8 DEF Inv, Archived
  <2>12. \A f \in InUse' : disk'[f] = "whole" /\ f \in Written
    BY <1>1, <2>5, <2>8
  <2>13. Reachable'
    BY <2>12 DEF Reachable
  <2>14. \A g : Back(g)' = Back(g)
    BY <1>1 DEF Back
  <2>15. Retired'
    BY <1>1, <2>8, <2>12, <2>14 DEF Inv, Retired
  <2>16. Held'
    <3>1. \A g, k : Has(g, k)' = Has(g, k) /\ Gone(g)' = Gone(g)
      BY <1>1 DEF Has, Gone, Written
    <3>2. ASSUME NEW g \in Written, disk[g] # "absent" PROVE g \in InUse'
      <4>1. disk[g] = "whole"
        <5>1. Written \subseteq File
          BY InUseWritten DEF Inv
        <5>2. disk[g] \in {"absent", "cut", "whole"} /\ disk[g] # "cut"
          BY <1>2, <1>5, <5>1 DEF Inv, Types
        <5>. QED
          BY <3>2, <5>2
      <4>2. table[g].level \in {0, 1, 2}
        <5>1. table[g] \in Table
          BY DEF Inv, Types, Written
        <5>. QED
          BY <5>1 DEF Table
      <4>. QED
        BY <2>5, <2>8, <4>1, <4>2
    <3>3. \A k : Stores(k) => Serves(k)'
      BY <1>1, <2>8, <3>1, <3>2 DEF Serves, Stores
    <3>4. \A f \in Written : \A k \in Keys(table[f].rows) : Stores(k)
      BY <1>1 DEF Inv, Held
    <3>. QED
      BY <1>1, <2>1, <2>8, <3>3, <3>4 DEF Held, Keys
  <2>. QED
    BY <2>9, <2>10, <2>11, <2>13, <2>15, <2>16, <1>3 DEF Inv
<1>. QED
  BY <1>4, <1>5

----------------------------------------------------------------------------

(* At first there is no table.                                             *)
LEMMA InitInv ==
    ASSUME StreamInit
    PROVE  Inv
<1>. USE DEF StreamInit, ColdInit
<1>1. << >> \in Seq(Nat) /\ Range(<< >>) = {} /\ << >> \in Seq(Table) /\ Len(<< >>) = 0
  BY DEF Range
<1>2. levels \in [1 .. 3 -> Seq(Nat)] /\ \A i \in 1 .. 3 : levels[i] = << >>
  <2>1. PICK e \in Seq(Nat) : e = << >>
    BY <1>1
  <2>2. levels = << e, e, e >>
    BY <2>1
  <2>3. levels \in [1 .. 3 -> Seq(Nat)] /\ \A i \in 1 .. 3 : levels[i] = e
    BY <2>2
  <2>. QED
    BY <2>1, <2>3
<1>3. Types
  BY <1>1, <1>2, ColdAssumption DEF Types, Rows, NoTicks, Idle, Locked
<1>4. Written = {}
  BY <1>1 DEF Written
<1>5. InUse = {}
  BY <1>1, <1>2, <1>3, InUseLevels
<1>6. Shelved /\ Archived
  BY <1>1, <1>2 DEF Shelved, Archived, Idle
<1>7. Reachable /\ Retired
  BY <1>5 DEF Reachable, Retired
<1>8. Fetching /\ Underway /\ Held
  BY <1>1, <1>4 DEF Fetching, Streaming, Underway, Compacting, Idle, Held, NoStream
<1>. QED
  BY <1>3, <1>6, <1>7, <1>8 DEF Inv

(* Every step keeps the invariant.                                         *)
LEMMA NextKeeps ==
    ASSUME Inv, [Next]_<< coldVars, streamVars >>
    PROVE  Inv'
<1>1. CASE ColdNext /\ UNCHANGED streamVars
  <2>1. ASSUME NEW keys \in Batches, insert_batch(keys) PROVE Inv'
    BY <1>1, <2>1, InsertKeeps
  <2>2. CASE flush_memtable
    BY <1>1, <2>2, FlushKeeps
  <2>3. ASSUME NEW i \in 0 .. 1, compact_level(i) PROVE Inv'
    BY <1>1, <2>3, CompactKeeps
  <2>4. CASE \/ compact_end \/ sync_cold_tier \/ sync_table
             \/ save_manifest_truncate \/ save_manifest_write \/ save_manifest_error
    BY <1>1, <2>4, SyncKeeps
  <2>5. ASSUME NEW f \in File, RemoveLocal(f) PROVE Inv'
    BY <1>1, <2>5, RemoveKeeps
  <2>6. CASE open
    BY <1>1, <2>6, OpenKeeps
  <2>7. CASE remove_file \/ compact_create \/ compact_write \/ compact_error
    BY <1>1, <2>7, UnlinkKeeps, NewTableKeeps, TableWrittenKeeps, CompactFails
  <2>. QED
    BY <1>1, <2>1, <2>2, <2>3, <2>4, <2>5, <2>6, <2>7 DEF ColdNext
<1>2. CASE \/ \E range \in Params : scan_stream(range) \/ symbol_not_found(range)
           \/ ensure_sstable_batch \/ load_next_sstable_batch \/ next_tick \/ DropStream
           \/ ensure_local_error
  BY <1>2, StreamKeeps
<1>3. CASE ensure_local_create
  BY <1>3, CreateKeeps
<1>4. CASE ensure_local_write
  BY <1>4, WriteKeeps
<1>5. CASE Crash
  BY <1>5, CrashKeeps
<1>6. CASE UNCHANGED << coldVars, streamVars >>
  <2>1. UNCHANGED << status, memtable, table, levels, disk, store, manifest, saved, sync, compacted, excuses, stream >>
    BY <1>6 DEF coldVars, streamVars
  <2>2. Fetching'
    BY <2>1 DEF Inv, Fetching, Streaming, Path, Written, Back
  <2>. QED
    BY <2>1, <2>2, QuietKeeps
<1>. QED
  BY <1>1, <1>2, <1>3, <1>4, <1>5, <1>6 DEF Next

(* So it holds in every state.                                             *)
LEMMA AlwaysInv == Spec => []Inv
BY InitInv, NextKeeps, PTL DEF Spec

(* Through every flush, compaction, upload, failed save of the manifest,   *)
(* freed copy, broken download and restart, a table in use is on the disk  *)
(* or its entry leads to its object, and no entry of the manifest, in      *)
(* memory or on disk, is without its object: upload_sstable makes the      *)
(* entry only behind the put.                                              *)
THEOREM TablesReachable == Spec => []ArchiveReachable
<1>1. ASSUME Inv PROVE ArchiveReachable
  BY <1>1 DEF Inv, Archived, Reachable, ArchiveReachable
<1>. QED
  BY <1>1, AlwaysInv, PTL

(* A key that was flushed, merged, archived or looked for by a restart is  *)
(* still in the memtable, in a table in use or in one that compact_level   *)
(* has read and is merging; unless a table that has it had no local copy   *)
(* when LsmTree::open listed the directory, or compact_level had removed   *)
(* it (compaction.rs:126) and SsTable::write (:156) then failed or never   *)
(* came to its end.                                                        *)
THEOREM NoKeyLost == Spec => []NothingLost
<1>1. ASSUME Inv PROVE NothingLost
  <2>1. DOMAIN table = Written
    BY <1>1 DEF Inv, Types, Written
  <2>2. ASSUME status = "up", NEW f \in Written, NEW k \in Keys(table[f].rows)
        PROVE  \/ memtable[k] # 0 \/ \E g \in InUse \cup Range(sync.merging) : table[g].rows[k] # 0
               \/ \E g \in Written :
                    /\ table[g].rows[k] # 0
                    /\ << g, "unlisted" >> \in excuses \/ << g, "dropped" >> \in excuses
    <3>1. Serves(k)
      BY <1>1, <2>2 DEF Inv, Held
    <3>. QED
      BY <3>1 DEF Serves, Has, Gone
  <2>. QED
    BY <2>1, <2>2 DEF NothingLost
<1>. QED
  BY <1>1, AlwaysInv, PTL

(* A table that compact_level merged is not listed again by a restart,     *)
(* unless remove_file left its file or a stream downloaded it again.       *)
THEOREM MergedTablesStayAway == Spec => []NoTableReturns
<1>1. ASSUME Inv PROVE NoTableReturns
  BY <1>1 DEF Inv, Retired, Back, NoTableReturns
<1>. QED
  BY <1>1, AlwaysInv, PTL

----------------------------------------------------------------------------

(***************************************************************************)
(* What a stream has taken, has before it and has returned.                *)
(***************************************************************************)
Entry == [key : Stamp, ver : Nat]
Opening == {"fetch", "write", "open", "panicked"}

Span == [t1 : Int, t2 : Int, symbol : BOOLEAN]

StreamRecord ==
    [step : {"next", "merge", "ended"} \cup Opening, range : Span,
     mem : Seq(Entry), paths : Seq(Nat), idx : Nat, batch : Seq(Entry), last : Nat,
     snapshot : Rows, wanted : SUBSET Stamp, out : Seq(Entry),
     failed : SUBSET Nat, hollow : SUBSET Nat, skipped : SUBSET Nat]

KeysOf(s) == { s[i].key : i \in DOMAIN s }
Increasing(s) == \A i, j \in DOMAIN s : i < j => s[i].key < s[j].key

\* Whether a table was passed over, or had no tick in the range.
Missed == stream.failed \cup stream.hollow # {}

\* The keys of the j-th table of the stream that are scanned.
Scanned(j) == Keys(table[stream.paths[j]].rows) \cap (stream.range.t1 .. stream.range.t2)

\* The tables that are not opened yet, and the keys that are still to come.
Pending == { j \in DOMAIN stream.paths : j > stream.idx \/ (j = stream.idx /\ stream.step \in Opening) }
Ahead(k) == \E j \in Pending : k \in Scanned(j)
Waiting(k) == k \in KeysOf(stream.mem) \/ k \in KeysOf(stream.batch) \/ Ahead(k)

\* Where the stream is: it opens a table when its batch is used up.
Placed ==
    /\ Range(stream.paths) \subseteq Written /\ stream.skipped \subseteq Written
    /\ stream.idx <= Len(stream.paths)
    /\ stream.step \in Opening => stream.idx \in DOMAIN stream.paths /\ stream.batch = << >>
    /\ stream.step = "merge" => stream.batch # << >> \/ Missed
    /\ stream.step = "ended" =>
        stream.mem = << >> /\ stream.batch = << >> /\ (stream.idx = Len(stream.paths) \/ Missed)

\* Where its ticks are from.
Drawn ==
    /\ \A i \in DOMAIN stream.mem :
        stream.mem[i].ver = stream.snapshot[stream.mem[i].key] /\ stream.mem[i].ver # 0
    /\ stream.batch # << >> => stream.idx \in DOMAIN stream.paths
    /\ \A i \in DOMAIN stream.batch :
        stream.batch[i].key \in Scanned(stream.idx) /\ stream.batch[i].ver = table[Path].rows[stream.batch[i].key]
    /\ \A i \in DOMAIN stream.out : stream.out[i].ver \in Candidates(stream.out[i].key)

\* What is in the range has been returned or is still to come, but for the keys of
\* tables that were passed over.
Told ==
    /\ \A k : k \in OutKeys \/ Waiting(k) => k \in stream.wanted
    /\ ~Missed => \A k \in stream.wanted : k \in OutKeys \/ Waiting(k) \/ k \in Unseen
    /\ stream.last # 0 => stream.last \in OutKeys

\* The key returned last is between what was returned and what is to come.
Advancing ==
    /\ Increasing(stream.out)
    /\ \A k \in OutKeys : k <= stream.last
    /\ \A k : Waiting(k) => stream.last < k
    /\ \A k \in stream.wanted : stream.snapshot[k] # 0 => k \in KeysOf(stream.mem) \/ k <= stream.last
    /\ \A i \in DOMAIN stream.out :
        LET mine == stream.snapshot[stream.out[i].key] IN mine # 0 => stream.out[i].ver = mine

Merging ==
    /\ Increasing(stream.mem) /\ Increasing(stream.batch)
    /\ InOrder /\ ~Missed => Advancing

StreamInv ==
    /\ Streaming => stream \in StreamRecord /\ Placed /\ Drawn /\ Told /\ Merging
    /\ stream.step = "refused" => stream.written = {} \/ stream.forgotten

----------------------------------------------------------------------------

\* A sequence has the ticks of the rows that are in a range, in the order of the keys.
InKeyOrder(s, rows, range) ==
    /\ s \in Seq(Entry) /\ Increasing(s)
    /\ \A i \in DOMAIN s :
        s[i].key \in Keys(rows) \cap (range.t1 .. range.t2) /\ s[i].ver = rows[s[i].key] /\ s[i].ver # 0
    /\ \A k : k \in KeysOf(s) <=> k \in Keys(rows) \cap (range.t1 .. range.t2)

(* That is what Sorted returns.                                            *)
LEMMA SortedRows ==
    ASSUME NEW rows \in Rows, NEW range \in Span
    PROVE  InKeyOrder(Sorted(rows, range), rows, range)
<1>0. PICK in, s : in = Keys(rows) \cap (range.t1 .. range.t2) /\ s = Sorted(rows, range)
  OBVIOUS
<1>1. PICK n, c : n = (IF range.t2 >= 0 THEN range.t2 ELSE 0) /\ c = Cardinality(in)
  OBVIOUS
<1>2. n \in Nat /\ in \in SUBSET (1 .. n) /\ in \subseteq Stamp
  <2>1. range.t1 \in Int /\ range.t2 \in Int
    BY DEF Span
  <2>2. Keys(rows) \subseteq Stamp /\ \A k \in Stamp : k \in Int /\ k >= 1
    BY ColdAssumption DEF Keys
  <2>. QED
    BY <1>0, <1>1, <2>1, <2>2
<1>3. /\ c \in Nat /\ \A j \in 1 .. c : Nth(in, j) \in in /\ Rank(in, Nth(in, j)) = j
  BY <1>1, <1>2, Selected, Zenon
<1>4. /\ \A i \in in : Rank(in, i) \in 1 .. c
      /\ \A i, k \in in : i < k => Rank(in, i) < Rank(in, k)
      /\ \A i, k \in in : Rank(in, i) = Rank(in, k) => i = k
  <2>1. IsFiniteSet(in)
    BY <1>2, CountTo, FS_Subset
  <2>2. in \in SUBSET Int
    BY <1>2
  <2>. QED
    BY <1>1, <2>1, <2>2, Ranks, Zenon
<1>5. { k \in Keys(rows) : k \in range.t1 .. range.t2 } = in
  BY <1>0
<1>6. s = [i \in 1 .. c |-> [key |-> Nth(in, i), ver |-> rows[Nth(in, i)]]]
  BY <1>0, <1>1, <1>5 DEF Sorted
<1>7. DOMAIN s = 1 .. c /\ \A i \in 1 .. c : s[i] = [key |-> Nth(in, i), ver |-> rows[Nth(in, i)]]
  BY <1>6
<1>8. \A i \in 1 .. c : /\ s[i].key = Nth(in, i) /\ s[i].ver = rows[Nth(in, i)]
                        /\ s[i].key \in in /\ s[i].ver # 0 /\ s[i] \in Entry
  <2>1. \A k \in in : k \in Stamp /\ rows[k] \in Nat /\ rows[k] # 0
    BY <1>0, <1>2, ColdAssumption DEF Keys, Rows
  <2>2. SUFFICES ASSUME NEW i \in 1 .. c
                 PROVE  /\ s[i].key = Nth(in, i) /\ s[i].ver = rows[Nth(in, i)]
                        /\ s[i].key \in in /\ s[i].ver # 0 /\ s[i] \in Entry
    OBVIOUS
  <2>3. PICK k, e : k = Nth(in, i) /\ e = s[i]
    OBVIOUS
  <2>4. k \in in /\ e = [key |-> k, ver |-> rows[k]]
    BY <1>3, <1>7, <2>2, <2>3
  <2>5. e.key = k /\ e.ver = rows[k] /\ e \in Entry /\ rows[k] # 0
    BY <2>1, <2>4 DEF Entry
  <2>. QED
    BY <2>3, <2>4, <2>5
<1>9. s \in Seq(Entry)
  <2>1. s \in [1 .. c -> Entry]
    BY <1>6, <1>7, <1>8
  <2>. QED
    BY <1>3, <2>1, NumberedSeq
<1>10. Increasing(s)
  <2>1. SUFFICES ASSUME NEW i \in 1 .. c, NEW j \in 1 .. c, i < j PROVE Nth(in, i) < Nth(in, j)
    <3>1. \A i \in 1 .. c : s[i].key = Nth(in, i)
      BY <1>8
    <3>2. DOMAIN s = 1 .. c
      BY <1>7
    <3>. QED
      BY <3>1, <3>2, Zenon DEF Increasing
  <2>2. PICK a, b : a = Nth(in, i) /\ b = Nth(in, j)
    OBVIOUS
  <2>3. a \in in /\ b \in in /\ Rank(in, a) = i /\ Rank(in, b) = j /\ a \in Int /\ b \in Int
    <3>1. a \in in /\ b \in in /\ Rank(in, a) = i /\ Rank(in, b) = j
      BY <1>3, <2>2
    <3>2. in \subseteq Int
      BY <1>2
    <3>. QED
      BY <3>1, <3>2
  <2>4. ~(b < a)
    <3>1. b < a => Rank(in, b) < Rank(in, a)
      BY <1>4, <2>3
    <3>. QED
      BY <1>3, <2>1, <2>3, <3>1
  <2>5. a # b
    BY <2>1, <2>3
  <2>. QED
    BY <2>2, <2>3, <2>4, <2>5
<1>11. ASSUME NEW k PROVE k \in KeysOf(s) <=> k \in in
  <2>1. ASSUME k \in in PROVE k \in KeysOf(s)
    <3>1. PICK i \in 1 .. c : i = Rank(in, k)
      BY <1>4, <2>1
    <3>2. Nth(in, i) = k
      BY <1>3, <1>4, <2>1, <3>1
    <3>. QED
      BY <1>7, <1>8, <3>2 DEF KeysOf
  <2>. QED
    BY <1>7, <1>8, <2>1 DEF KeysOf
<1>12. \A i \in DOMAIN s : s[i].key \in in /\ s[i].ver = rows[s[i].key] /\ s[i].ver # 0
  <2>1. \A i \in 1 .. c : s[i].key \in in /\ s[i].ver = rows[s[i].key] /\ s[i].ver # 0
    BY <1>8
  <2>2. DOMAIN s = 1 .. c
    BY <1>7
  <2>. QED
    BY <2>1, <2>2
<1>. QED
  BY <1>0, <1>9, <1>10, <1>11, <1>12 DEF InKeyOrder

\* What is left of a sequence of ticks behind its first.
Behind(s, t) ==
    /\ t \in Seq(Entry) /\ s[1] \in Entry /\ s[1].key \in Nat /\ 1 \in DOMAIN s
    /\ Increasing(t)
    /\ \A i \in DOMAIN t : \E j \in DOMAIN s : t[i] = s[j]
    /\ \A k : k \in KeysOf(s) <=> k = s[1].key \/ k \in KeysOf(t)
    /\ \A k \in KeysOf(t) : s[1].key < k
    /\ \A k \in KeysOf(s) : s[1].key <= k

(* That is its tail.                                                       *)
LEMMA TailOf ==
    ASSUME NEW s \in Seq(Entry), s # << >>, Increasing(s)
    PROVE  Behind(s, Tail(s))
<1>0. PICK t : t = Tail(s)
  OBVIOUS
<1>1. PICK n \in Nat : n = Len(s)
  OBVIOUS
<1>2. /\ n >= 1 /\ DOMAIN s = 1 .. n /\ \A i \in 1 .. n : s[i] \in Entry
      /\ t \in Seq(Entry) /\ DOMAIN t = 1 .. n - 1 /\ \A i \in 1 .. n - 1 : t[i] = s[i + 1]
  BY <1>0, <1>1
<1>3. \A i \in 1 .. n - 1 : i + 1 \in 1 .. n
  BY <1>2
<1>4. \A i \in 1 .. n : i = 1 \/ i - 1 \in 1 .. n - 1
  BY <1>2
<1>5. ASSUME NEW k PROVE k \in KeysOf(s) <=> k = s[1].key \/ k \in KeysOf(t)
  <2>1. ASSUME NEW i \in 1 .. n, k = s[i].key PROVE k = s[1].key \/ k \in KeysOf(t)
    <3>1. CASE i = 1
      BY <2>1, <3>1
    <3>2. CASE i # 1
      <4>1. PICK j \in 1 .. n - 1 : i = j + 1
        BY <1>2, <1>4, <3>2
      <4>. QED
        BY <1>2, <2>1, <4>1 DEF KeysOf
    <3>. QED
      BY <3>1, <3>2
  <2>2. 1 \in 1 .. n
    BY <1>2
  <2>. QED
    BY <1>2, <1>3, <2>1, <2>2 DEF KeysOf
<1>6. \A i \in 1 .. n : s[i].key \in Nat
  BY <1>2, ColdAssumption DEF Entry
<1>7. Increasing(t) /\ \A k \in KeysOf(t) : s[1].key < k
  <2>1. \A i, j \in 1 .. n : i < j => s[i].key < s[j].key
    BY <1>2 DEF Increasing
  <2>2. \A i \in 1 .. n - 1 : s[1].key < s[i + 1].key
    BY <1>2, <1>3, <2>1
  <2>3. \A i, j \in 1 .. n - 1 : i < j => s[i + 1].key < s[j + 1].key
    BY <1>2, <1>3, <2>1
  <2>. QED
    BY <1>2, <2>2, <2>3 DEF Increasing, KeysOf
<1>8. ASSUME NEW k \in KeysOf(s) PROVE s[1].key <= k
  <2>1. s[1].key \in Nat /\ k \in Nat
    BY <1>2, <1>6 DEF KeysOf
  <2>. QED
    BY <1>5, <1>7, <1>8, <2>1
<1>9. \A i \in DOMAIN t : \E j \in DOMAIN s : t[i] = s[j]
  BY <1>2, <1>3
<1>10. s[1] \in Entry /\ s[1].key \in Nat /\ 1 \in DOMAIN s
  BY <1>2, <1>6
<1>. QED
  BY <1>0, <1>2, <1>5, <1>7, <1>8, <1>9, <1>10 DEF Behind

(* Every table of the two is in the joined sequence.                       *)
LEMMA RangeJoined ==
    ASSUME NEW a \in Seq(Nat), NEW b \in Seq(Nat)
    PROVE  a \o b \in Seq(Nat) /\ Range(a \o b) = Range(a) \cup Range(b)
<1>0. PICK c : c = a \o b
  OBVIOUS
<1>1. c \in Seq(Nat) /\ Range(c) \subseteq Range(a) \cup Range(b)
  BY <1>0, RangeJoin
<1>2. PICK n, m : n = Len(a) /\ m = Len(b)
  OBVIOUS
<1>3. /\ n \in Nat /\ m \in Nat /\ DOMAIN c = 1 .. n + m /\ DOMAIN a = 1 .. n /\ DOMAIN b = 1 .. m
      /\ \A i \in 1 .. n + m : c[i] = IF i <= n THEN a[i] ELSE b[i - n]
  BY <1>0, <1>2
<1>4. ASSUME NEW i \in 1 .. n PROVE a[i] \in Range(c)
  <2>1. i \in 1 .. n + m /\ i <= n
    BY <1>3, <1>4
  <2>. QED
    BY <1>3, <2>1 DEF Range
<1>5. ASSUME NEW i \in 1 .. m PROVE b[i] \in Range(c)
  <2>1. PICK j : j = n + i
    OBVIOUS
  <2>2. j \in 1 .. n + m /\ ~(j <= n) /\ j - n = i
    BY <1>3, <1>5, <2>1
  <2>. QED
    BY <1>3, <2>2 DEF Range
<1>6. Range(a) \cup Range(b) \subseteq Range(c)
  BY <1>3, <1>4, <1>5 DEF Range
<1>. QED
  BY <1>0, <1>1, <1>6

(* The three levels, one after the other: each table in use is there.      *)
LEMMA TablesListed ==
    ASSUME Types, Shelved
    PROVE  /\ DOMAIN AllTables = 1 .. Len(AllTables) /\ Len(AllTables) \in Nat
           /\ \A f \in InUse : \E p \in DOMAIN AllTables : AllTables[p] = f
           /\ \A p \in DOMAIN AllTables : AllTables[p] \in InUse
<1>1. PICK a, b, c, ab, all : /\ a = levels[1] /\ b = levels[2] /\ c = levels[3]
                              /\ ab = a \o b /\ all = ab \o c
  OBVIOUS
<1>2. a \in Seq(Nat) /\ b \in Seq(Nat) /\ c \in Seq(Nat)
  BY <1>1 DEF Types
<1>3. ab \in Seq(Nat) /\ Range(ab) = Range(a) \cup Range(b)
  <2>1. a \o b \in Seq(Nat) /\ Range(a \o b) = Range(a) \cup Range(b)
    BY <1>2, RangeJoined
  <2>. QED
    BY <1>1, <2>1
<1>4. all \in Seq(Nat) /\ Range(all) = Range(ab) \cup Range(c)
  <2>1. ab \o c \in Seq(Nat) /\ Range(ab \o c) = Range(ab) \cup Range(c)
    BY <1>2, <1>3, RangeJoined
  <2>. QED
    BY <1>1, <2>1
<1>5. AllTables = all
  BY <1>1 DEF AllTables
<1>6. InUse = Range(all)
  <2>1. InUse = Range(a) \cup Range(b) \cup Range(c)
    BY <1>1, InUseLevels
  <2>. QED
    BY <1>3, <1>4, <2>1
<1>7. DOMAIN all = 1 .. Len(all) /\ Len(all) \in Nat
  BY <1>4
<1>8. \A f : f \in Range(all) <=> \E p \in DOMAIN all : all[p] = f
  BY DEF Range
<1>. QED
  BY <1>5, <1>6, <1>7, <1>8

(* What happens to the tables leaves those alone that are written.         *)
LEMMA TablesStay ==
    ASSUME Types, Types', [Next]_<< coldVars, streamVars >>
    PROVE  \A f \in Written : f \in Written' /\ table'[f] = table[f]
<1>1. table \in Seq(Table) /\ table' \in Seq(Table) /\ Len(table) \in Nat
  BY DEF Types
<1>2. CASE UNCHANGED table
  BY <1>2 DEF Written
<1>3. ASSUME NEW t, table' = Append(table, t) PROVE \A f \in Written : f \in Written' /\ table'[f] = table[f]
  <2>1. Len(table') = Len(table) + 1 /\ \A f \in 1 .. Len(table) : table'[f] = table[f]
    BY <1>1, <1>3
  <2>. QED
    BY <1>1, <2>1 DEF Written
<1>4. CASE ColdNext
  <2>1. CASE flush_memtable
    BY <1>3, <2>1 DEF flush_memtable
  <2>2. CASE compact_create
    BY <1>3, <2>2 DEF compact_create
  <2>3. CASE ~flush_memtable /\ ~compact_create
    <3>1. UNCHANGED table
      BY <1>4, <2>3, Zenon DEF ColdNext, insert_batch, compact_level, remove_file,
         compact_write, compact_error, compact_end, sync_cold_tier, sync_table, save_manifest_truncate,
         save_manifest_write, save_manifest_error, RemoveLocal, open
    <3>. QED
      BY <1>2, <3>1
  <2>. QED
    BY <2>1, <2>2, <2>3
<1>5. CASE ~ColdNext
  <2>1. UNCHANGED table
    BY <1>5, Zenon DEF Next, scan_stream, symbol_not_found, ensure_sstable_batch, load_next_sstable_batch, next_tick, ensure_local_create,
        ensure_local_write, ensure_local_error, DropStream, Crash, CrashCold, coldVars
  <2>. QED
    BY <1>2, <2>1
<1>. QED
  BY <1>4, <1>5

(* A new stream has all that is in its range before it.                    *)
LEMMA NewStream ==
    ASSUME Inv, NEW range \in Params, scan_stream(range)
    PROVE  StreamInv'
<1>. DEFINE P == { p \in DOMAIN AllTables :
                    overlaps_time_range(AllTables[p], range) /\ ~PassedOver(AllTables[p], range) }
            In(f) == Keys(table[f].rows) \cap (range.t1 .. range.t2)
<1>1. PICK mem, paths, wanted, skipped :
        /\ mem = Sorted(memtable, range) /\ paths = SelectAt(AllTables, P)
        /\ wanted = { k \in Stamp \cap (range.t1 .. range.t2) : memtable[k] # 0 \/ \E f \in InUse : table[f].rows[k] # 0 }
        /\ skipped = { f \in InUse : PassedOver(f, range) }
  OBVIOUS
<1>2. stream' = [step |-> "next", range |-> range, mem |-> mem, paths |-> paths, idx |-> 0, batch |-> << >>,
                 last |-> 0, snapshot |-> memtable, wanted |-> wanted, out |-> << >>, failed |-> {}, hollow |-> {},
                 skipped |-> skipped]
  BY <1>1 DEF scan_stream
<1>3. /\ stream'.step = "next" /\ stream'.range = range /\ stream'.mem = mem /\ stream'.paths = paths
      /\ stream'.idx = 0 /\ stream'.batch = << >> /\ stream'.last = 0 /\ stream'.snapshot = memtable
      /\ stream'.wanted = wanted /\ stream'.out = << >> /\ stream'.failed = {} /\ stream'.hollow = {}
      /\ stream'.skipped = skipped
  BY <1>2
<1>4. table' = table /\ Types /\ Shelved /\ memtable \in Rows /\ range \in Span
  <2>1. range \in Span
    BY ParamsAssumption DEF Span
  <2>2. table' = table
    BY DEF scan_stream, coldVars
  <2>3. Types /\ Shelved /\ memtable \in Rows
    BY DEF Inv, Types
  <2>. QED
    BY <2>1, <2>2, <2>3
<1>5. PICK here : here = Keys(memtable) \cap (range.t1 .. range.t2)
  OBVIOUS
<1>6. /\ mem \in Seq(Entry) /\ Increasing(mem)
      /\ \A i \in DOMAIN mem : mem[i].key \in here /\ mem[i].ver = memtable[mem[i].key] /\ mem[i].ver # 0
      /\ \A k : k \in KeysOf(mem) <=> k \in here
  <2>1. InKeyOrder(mem, memtable, range)
    BY <1>1, <1>4, SortedRows, Zenon
  <2>. QED
    BY <1>5, <2>1 DEF InKeyOrder
<1>7. /\ paths \in Seq(Nat) /\ Range(paths) \subseteq Written
      /\ \A p \in P : \E j \in DOMAIN paths : paths[j] = AllTables[p]
      /\ \A j \in DOMAIN paths : paths[j] \in InUse
  <2>1. P \in SUBSET DOMAIN AllTables
    OBVIOUS
  <2>2. paths \in Seq(Nat) /\ Range(paths) \subseteq Written
    BY <1>1, <1>4, <2>1, SelectedTables
  <2>3. PICK n \in Nat : DOMAIN AllTables = 1 .. n
    BY <1>4, TablesListed
  <2>4. PICK m : m = Cardinality(P)
    OBVIOUS
  <2>5. P \in SUBSET (1 .. n)
    BY <2>3
  <2>6. /\ DOMAIN paths = 1 .. m
        /\ \A j \in 1 .. m : Nth(P, j) \in P /\ paths[j] = AllTables[Nth(P, j)]
        /\ \A p \in P : Rank(P, p) \in 1 .. m /\ Nth(P, Rank(P, p)) = p
    <3>. HIDE DEF P
    <3>. QED
      BY <1>1, <2>4, <2>5, Selected, ZenonT(60)
  <2>7. ASSUME NEW p \in P PROVE \E j \in DOMAIN paths : paths[j] = AllTables[p]
    <3>. HIDE DEF P
    <3>. QED
      BY <2>6, <2>7, Zenon
  <2>8. \A j \in DOMAIN paths : paths[j] \in InUse
    <3>1. \A p \in P : AllTables[p] \in InUse
      BY <1>4, <2>1, TablesListed
    <3>. HIDE DEF P
    <3>. QED
      BY <2>6, <3>1
  <2>. HIDE DEF P
  <2>. QED
    BY <2>2, <2>7, <2>8
<1>8. /\ \A k : k \in here \/ (\E j \in DOMAIN paths : k \in In(paths[j])) => k \in wanted
      /\ \A k \in wanted : \/ k \in here \/ \E j \in DOMAIN paths : k \in In(paths[j])
                           \/ \E f \in skipped : table[f].rows[k] # 0
  <2>1. ASSUME NEW j \in DOMAIN paths, NEW k \in In(paths[j]) PROVE k \in wanted
    <3>1. paths[j] \in InUse /\ k \in Stamp \cap (range.t1 .. range.t2) /\ table[paths[j]].rows[k] # 0
      BY <1>7, <2>1 DEF Keys
    <3>. QED
      BY <1>1, <3>1, Zenon
  <2>2. ASSUME NEW k \in here PROVE k \in wanted
    BY <1>1, <1>5, <2>2 DEF Keys
  <2>3. ASSUME NEW k \in wanted, k \notin here
        PROVE  \/ \E j \in DOMAIN paths : k \in In(paths[j])
               \/ \E f \in skipped : table[f].rows[k] # 0
    <3>1. k \in Stamp /\ k \in range.t1 .. range.t2 /\ memtable[k] = 0
      BY <1>1, <1>5, <2>3 DEF Keys
    <3>2. PICK f \in InUse : table[f].rows[k] # 0
      BY <1>1, <2>3, <3>1
    <3>3. PICK p \in DOMAIN AllTables : AllTables[p] = f
      BY <1>4, TablesListed
    <3>4. k \in In(f) /\ k >= range.t1 /\ k <= range.t2
      BY <1>4, <3>1, <3>2 DEF Keys
    <3>5. overlaps_time_range(f, range)
      BY <3>4 DEF overlaps_time_range
    <3>6. CASE PassedOver(f, range)
      <4>1. f \in skipped
        BY <1>1, <3>6
      <4>. QED
        BY <3>2, <4>1
    <3>7. CASE ~PassedOver(f, range)
      <4>1. p \in P
        BY <3>3, <3>5, <3>7
      <4>2. PICK j \in DOMAIN paths : paths[j] = f
        BY <1>7, <3>3, <4>1
      <4>. QED
        BY <3>4, <4>2
    <3>. QED
      BY <3>6, <3>7
  <2>. QED
    BY <2>1, <2>2, <2>3
<1>. HIDE DEF P
<1>9. stream' \in StreamRecord
  <2>1. << >> \in Seq(Entry)
    OBVIOUS
  <2>2. wanted \subseteq Stamp
    BY <1>1
  <2>3. skipped \subseteq Nat
    BY <1>1, <1>4, InUseWritten DEF Written
  <2>. QED
    BY <1>2, <1>4, <1>6, <1>7, <2>1, <2>2, <2>3 DEF StreamRecord
<1>10. ~Missed'
  BY <1>3 DEF Missed
<1>11. \A j : Scanned(j)' = In(paths[j])
  BY <1>3, <1>4 DEF Scanned, Keys
<1>. HIDE DEF In
<1>12. \A j : j \in Pending' <=> j \in DOMAIN paths
  <2>1. \A j \in DOMAIN paths : j > 0
    BY <1>7
  <2>. QED
    BY <1>3, <2>1 DEF Pending
<1>13. KeysOf(<< >>) = {}
  BY DEF KeysOf
<1>14. /\ \A k : Waiting(k)' => k \in wanted
       /\ \A k \in wanted : Waiting(k)' \/ k \in Unseen'
  <2>1. \A k : Waiting(k)' <=> k \in KeysOf(mem) \/ k \in {} \/ Ahead(k)'
    BY <1>3, <1>13 DEF Waiting
  <2>2. \A k : Ahead(k)' <=> \E j \in DOMAIN paths : k \in In(paths[j])
    BY <1>11, <1>12 DEF Ahead
  <2>3. \A k : Waiting(k)' <=> k \in here \/ \E j \in DOMAIN paths : k \in In(paths[j])
    BY <1>6, <2>1, <2>2
  <2>4. ASSUME NEW k \in wanted, ~Waiting(k)' PROVE k \in Unseen'
    <3>1. PICK f \in skipped : table[f].rows[k] # 0
      BY <1>8, <2>3, <2>4
    <3>2. k \in Stamp /\ k \in range.t1 .. range.t2
      BY <1>1
    <3>3. memtable[k] = 0
      BY <1>5, <2>3, <2>4, <3>2 DEF Keys
    <3>4. ASSUME NEW g \in Range(paths) PROVE table[g].rows[k] = 0
      <4>1. PICK j \in DOMAIN paths : paths[j] = g
        BY DEF Range
      <4>2. k \notin In(g)
        BY <2>3, <2>4, <4>1
      <4>. QED
        BY <3>2, <4>2 DEF In, Keys
    <3>5. Candidates(k)' = {}
      BY <1>3, <1>4, <3>3, <3>4 DEF Candidates
    <3>. QED
      BY <1>3, <1>4, <3>1, <3>5 DEF Unseen
  <2>. QED
    BY <1>8, <2>3, <2>4
<1>15. OutKeys' = {}
  BY <1>3 DEF OutKeys
<1>16. Placed'
  <2>1. Written' = Written /\ Len(paths) \in Nat /\ skipped \subseteq Written
    BY <1>1, <1>4, <1>7, InUseWritten DEF Written
  <2>. QED
    BY <1>3, <1>7, <2>1 DEF Placed, Opening
<1>17. Drawn'
  BY <1>3, <1>6 DEF Drawn
<1>18. Told'
  BY <1>3, <1>10, <1>14, <1>15 DEF Told
<1>19. Merging'
  <2>1. Increasing(<< >>)
    BY DEF Increasing
  <2>2. \A k \in wanted : 0 < k /\ (memtable[k] # 0 => k \in KeysOf(mem))
    BY <1>1, <1>5, <1>6, ColdAssumption DEF Keys
  <2>3. Advancing'
    <3>1. Increasing(stream'.out)
      BY <1>3, <2>1
    <3>2. \A k : Waiting(k)' => stream'.last < k
      BY <1>3, <1>14, <2>2
    <3>3. \A k \in stream'.wanted : stream'.snapshot[k] # 0 => k \in KeysOf(stream'.mem) \/ k <= stream'.last
      BY <1>3, <2>2
    <3>4. DOMAIN stream'.out = {}
      BY <1>3
    <3>. QED
      BY <1>15, <3>1, <3>2, <3>3, <3>4 DEF Advancing
  <2>. QED
    BY <1>3, <1>6, <2>1, <2>3 DEF Merging
<1>. QED
  BY <1>3, <1>9, <1>16, <1>17, <1>18, <1>19 DEF StreamInv, Streaming

\* A step of a stream leaves what it was made with.
SameRange ==
    /\ stream'.paths = stream.paths /\ stream'.range = stream.range
    /\ stream'.snapshot = stream.snapshot /\ stream'.wanted = stream.wanted
    /\ stream'.skipped = stream.skipped

\* The tables that a stream has stay as they are.
TablesKept == \A f \in Written : f \in Written' /\ table'[f] = table[f]

(* So it has the same keys before it, whatever happens to the files.       *)
LEMMA SameTables ==
    ASSUME stream \in StreamRecord, Placed, TablesKept, SameRange
    PROVE  /\ Range(stream'.paths) \subseteq Written' /\ stream'.skipped \subseteq Written'
           /\ \A j \in DOMAIN stream.paths :
                stream.paths[j] \in Written /\ table'[stream.paths[j]] = table[stream.paths[j]]
           /\ \A j \in DOMAIN stream.paths : Scanned(j)' = Scanned(j)
           /\ InOrder' <=> InOrder
           /\ \A k : Candidates(k)' = Candidates(k)
           /\ Unseen' = Unseen
<1>1. PICK paths \in Seq(Nat) : paths = stream.paths /\ stream'.paths = paths
  BY DEF StreamRecord, SameRange
<1>2. \A j \in DOMAIN paths : paths[j] \in Written /\ paths[j] \in Written' /\ table'[paths[j]] = table[paths[j]]
  BY <1>1 DEF Placed, Range, TablesKept
<1>3. \A j \in DOMAIN paths : Scanned(j)' = Scanned(j)
  BY <1>1, <1>2 DEF Scanned, SameRange, Keys
<1>4. InOrder' <=> InOrder
  <2>1. InOrder <=> \A i, j \in DOMAIN paths : i < j => \A a \in Scanned(i), b \in Scanned(j) : a < b
    BY <1>1 DEF InOrder, Scanned
  <2>2. InOrder' <=> \A i, j \in DOMAIN paths : i < j => \A a \in Scanned(i)', b \in Scanned(j)' : a < b
    BY <1>1 DEF InOrder, Scanned, Keys
  <2>. QED
    BY <1>3, <2>1, <2>2
<1>5. ASSUME NEW k PROVE Candidates(k)' = Candidates(k)
  <2>1. { table'[f].rows[k] : f \in Range(paths) } = { table[f].rows[k] : f \in Range(paths) }
    BY <1>2 DEF Range
  <2>. QED
    BY <1>1, <2>1 DEF Candidates, SameRange
<1>6. Range(paths) \subseteq Written' /\ stream'.skipped \subseteq Written'
  BY <1>2 DEF Range, Placed, TablesKept, SameRange
<1>7. Unseen' = Unseen
  <2>1. \A f \in stream.skipped : table'[f] = table[f]
    BY DEF Placed, TablesKept
  <2>2. /\ stream'.wanted = stream.wanted /\ stream'.skipped = stream.skipped
    BY DEF SameRange
  <2>3. \A k : k \in Unseen' <=> k \in Unseen
    BY <1>5, <2>1, <2>2 DEF Unseen
  <2>. QED
    BY <2>3
<1>. QED
  BY <1>1, <1>2, <1>3, <1>4, <1>5, <1>6, <1>7

(* A step that takes no tick and finds none.                               *)
LEMMA NothingTaken ==
    ASSUME stream \in StreamRecord, Placed, Drawn, Told, Merging, TablesKept, SameRange,
           stream'.mem = stream.mem, stream'.batch = stream.batch,
           stream'.last = stream.last, stream'.out = stream.out,
           stream.batch # << >> => stream'.idx = stream.idx,
           \/ Missed' = Missed /\ Pending' = Pending
           \/ Missed' /\ Pending' \subseteq Pending
    PROVE  Drawn' /\ Told' /\ Merging'
<1>1. /\ \A j \in DOMAIN stream.paths : Scanned(j)' = Scanned(j)
      /\ \A j \in DOMAIN stream.paths : table'[stream.paths[j]] = table[stream.paths[j]]
      /\ InOrder' <=> InOrder
      /\ \A k : Candidates(k)' = Candidates(k)
      /\ Unseen' = Unseen
  BY SameTables
<1>2. OutKeys' = OutKeys
  BY DEF OutKeys
<1>3. /\ \A k : Ahead(k)' <=> \E j \in Pending' : k \in Scanned(j)
      /\ \A k : Ahead(k) <=> \E j \in Pending : k \in Scanned(j)
  <2>1. Pending \subseteq DOMAIN stream.paths /\ Pending' \subseteq DOMAIN stream.paths
    BY DEF Pending, SameRange
  <2>. QED
    BY <1>1, <2>1 DEF Ahead
<1>4. Pending' \subseteq Pending
  OBVIOUS
<1>5. \A k : Waiting(k)' => Waiting(k)
  BY <1>3, <1>4 DEF Waiting
<1>6. ~Missed' => ~Missed /\ \A k : Waiting(k)' <=> Waiting(k)
  BY <1>3 DEF Waiting
<1>7. Drawn'
  <2>0. PICK n : n = stream.idx
    OBVIOUS
  <2>1. ASSUME NEW i \in DOMAIN stream.batch
        PROVE  /\ stream'.batch[i].key \in Scanned(n)' /\ Path' = Path
               /\ stream'.batch[i].ver = table'[Path'].rows[stream.batch[i].key]
               /\ stream'.idx = n
    <3>1. stream.batch # << >>
      BY <2>1
    <3>2. stream.idx \in DOMAIN stream.paths /\ stream'.idx = stream.idx
      BY <3>1 DEF Drawn
    <3>3. Path' = Path /\ Path = stream.paths[stream.idx]
      BY <3>2 DEF Path, SameRange
    <3>4. stream.batch[i].key \in Scanned(stream.idx) /\ stream.batch[i].ver = table[Path].rows[stream.batch[i].key]
      BY <2>1 DEF Drawn
    <3>. QED
      BY <1>1, <2>0, <3>2, <3>3, <3>4
  <2>2. ASSUME NEW i \in DOMAIN stream'.batch
        PROVE  /\ stream'.batch[i].key \in Scanned(stream.idx)'
               /\ stream'.batch[i].ver = table'[Path'].rows[stream'.batch[i].key]
    <3>1. i \in DOMAIN stream.batch
      OBVIOUS
    <3>. QED
      BY <2>1, <3>1 DEF Scanned
  <2>. QED
    BY <1>1, <2>2 DEF Drawn, SameRange
<1>8. Told'
  BY <1>1, <1>2, <1>5, <1>6 DEF Told, SameRange
<1>9. Merging'
  <2>1. ASSUME InOrder', ~Missed' PROVE Advancing'
    <3>1. Advancing /\ \A k : Waiting(k)' <=> Waiting(k)
      BY <1>1, <1>6, <2>1 DEF Merging
    <3>. QED
      BY <1>2, <3>1 DEF Advancing, SameRange
  <2>. QED
    BY <2>1 DEF Merging
<1>. QED
  BY <1>7, <1>8, <1>9

(* Files, tables and the archive change behind the stream.                 *)
LEMMA StreamRests ==
    ASSUME StreamInv, TablesKept, UNCHANGED stream
    PROVE  StreamInv'
<1>1. CASE ~Streaming
  BY <1>1 DEF StreamInv, Streaming
<1>2. CASE Streaming
  <2>1. stream \in StreamRecord /\ Placed /\ Drawn /\ Told /\ Merging
    BY <1>2 DEF StreamInv, Streaming
  <2>2. SameRange /\ Missed' = Missed /\ Pending' = Pending
    BY DEF SameRange, Missed, Pending
  <2>3. Drawn' /\ Told' /\ Merging'
    BY <2>1, <2>2, NothingTaken
  <2>4. Placed'
    BY <2>1, <2>2, SameTables DEF Placed
  <2>. QED
    BY <2>1, <2>3, <2>4 DEF StreamInv, Streaming
<1>. QED
  BY <1>1, <1>2

(* The fields of a stream.                                                 *)
LEMMA Fields ==
    ASSUME stream \in StreamRecord
    PROVE  /\ stream.range \in Span /\ stream.mem \in Seq(Entry)
           /\ stream.paths \in Seq(Nat) /\ stream.idx \in Nat /\ stream.batch \in Seq(Entry)
           /\ stream.last \in Nat /\ stream.snapshot \in Rows /\ stream.wanted \subseteq Stamp
           /\ stream.out \in Seq(Entry)
           /\ Len(stream.paths) \in Nat /\ DOMAIN stream.paths = 1 .. Len(stream.paths)
BY DEF StreamRecord

(* ensure_sstable_batch goes on to the next table, which is still to come. *)
LEMMA NextTable ==
    ASSUME StreamInv, TablesKept, ensure_sstable_batch
    PROVE  StreamInv'
<1>1. stream \in StreamRecord /\ Placed /\ Drawn /\ Told /\ Merging
  BY DEF StreamInv, Streaming, ensure_sstable_batch
<1>2. PICK i, st : /\ i = stream.idx + 1 /\ st \in {"fetch", "open"}
                   /\ stream' = [stream EXCEPT !.idx = i, !.step = st]
  BY DEF ensure_sstable_batch
<1>3. stream.batch = << >> /\ stream.idx < Len(stream.paths) /\ stream.step = "next"
  BY DEF ensure_sstable_batch, NeedsBatch
<1>4. /\ i \in DOMAIN stream.paths /\ i \in Nat /\ stream.idx \in Nat
      /\ DOMAIN stream.paths = 1 .. Len(stream.paths) /\ Len(stream.paths) \in Nat
  BY <1>1, <1>2, <1>3, Fields
<1>5. /\ stream' \in StreamRecord /\ SameRange
      /\ stream'.mem = stream.mem /\ stream'.batch = stream.batch
      /\ stream'.last = stream.last /\ stream'.out = stream.out
      /\ stream'.failed = stream.failed /\ stream'.hollow = stream.hollow
      /\ stream'.idx = i /\ stream'.step = st
  BY <1>1, <1>2, <1>4 DEF StreamRecord, SameRange, Opening
<1>6. Missed' = Missed
  BY <1>5 DEF Missed
<1>7. Pending' = Pending
  <2>1. \A j \in DOMAIN stream.paths : (j > i \/ j = i) <=> j > stream.idx
    BY <1>2, <1>4
  <2>2. stream'.step \in Opening /\ stream.step \notin Opening /\ stream'.paths = stream.paths
    BY <1>2, <1>3, <1>5 DEF Opening, SameRange
  <2>. QED
    BY <1>5, <2>1, <2>2 DEF Pending
<1>8. Drawn' /\ Told' /\ Merging'
  BY <1>1, <1>3, <1>5, <1>6, <1>7, NothingTaken
<1>9. Placed'
  <2>1. Range(stream'.paths) \subseteq Written' /\ stream'.skipped \subseteq Written'
    BY <1>1, <1>5, SameTables
  <2>2. stream'.batch = << >> /\ stream'.step \in {"fetch", "open"} /\ stream'.paths = stream.paths
    BY <1>2, <1>3, <1>5 DEF SameRange
  <2>3. stream'.idx \in DOMAIN stream'.paths /\ stream'.idx <= Len(stream'.paths)
    BY <1>4, <1>5, <2>2
  <2>. QED
    BY <2>1, <2>2, <2>3 DEF Placed, Opening
<1>. QED
  BY <1>2, <1>5, <1>8, <1>9 DEF StreamInv, Streaming

(* A download, done or failed, leaves the table to be opened.              *)
LEMMA Downloads ==
    ASSUME StreamInv, TablesKept,
           ensure_local_create \/ ensure_local_write \/ ensure_local_error
    PROVE  StreamInv'
<1>1. PICK st \in {"write", "open"} : stream' = [stream EXCEPT !.step = st] /\ stream.step \in {"fetch", "write"}
  BY DEF ensure_local_create, ensure_local_write, ensure_local_error
<1>2. stream \in StreamRecord /\ Placed /\ Drawn /\ Told /\ Merging
  BY <1>1 DEF StreamInv, Streaming
<1>3. /\ stream' \in StreamRecord /\ SameRange
      /\ stream'.mem = stream.mem /\ stream'.batch = stream.batch
      /\ stream'.last = stream.last /\ stream'.out = stream.out
      /\ stream'.failed = stream.failed /\ stream'.hollow = stream.hollow
      /\ stream'.idx = stream.idx /\ stream'.step = st
  BY <1>1, <1>2 DEF StreamRecord, SameRange, Opening
<1>4. stream.step \in Opening /\ stream'.step \in Opening
  BY <1>1, <1>3 DEF Opening
<1>5. Missed' = Missed /\ Pending' = Pending
  BY <1>3, <1>4 DEF Missed, Pending, SameRange
<1>6. Drawn' /\ Told' /\ Merging'
  BY <1>2, <1>3, <1>5, NothingTaken
<1>7. Placed'
  <2>1. Range(stream'.paths) \subseteq Written' /\ stream'.skipped \subseteq Written'
    BY <1>2, <1>3, SameTables
  <2>. QED
    BY <1>1, <1>2, <1>3, <1>4, <2>1 DEF Placed, SameRange
<1>. QED
  BY <1>3, <1>6, <1>7 DEF StreamInv

(* A table that cannot be opened, or has no tick in the range, is missed.  *)
LEMMA TableMissed ==
    ASSUME StreamInv, TablesKept, stream.step = "open",
           NEW failed \in SUBSET Nat, NEW hollow \in SUBSET Nat, failed \cup hollow # {},
           stream' = [stream EXCEPT !.failed = failed, !.hollow = hollow, !.step = "merge"]
    PROVE  StreamInv'
<1>1. stream \in StreamRecord /\ Placed /\ Drawn /\ Told /\ Merging
  BY DEF StreamInv, Streaming
<1>2. /\ stream' \in StreamRecord /\ SameRange
      /\ stream'.mem = stream.mem /\ stream'.batch = stream.batch
      /\ stream'.last = stream.last /\ stream'.out = stream.out
      /\ stream'.failed = failed /\ stream'.hollow = hollow
      /\ stream'.idx = stream.idx /\ stream'.step = "merge"
  BY <1>1 DEF StreamRecord, SameRange
<1>3. Missed'
  BY <1>2 DEF Missed
<1>4. Pending' \subseteq Pending
  BY <1>2 DEF Pending, SameRange, Opening
<1>5. Drawn' /\ Told' /\ Merging'
  BY <1>1, <1>2, <1>3, <1>4, NothingTaken
<1>6. Placed'
  <2>1. Range(stream'.paths) \subseteq Written' /\ stream'.skipped \subseteq Written'
    BY <1>1, <1>2, SameTables
  <2>. QED
    BY <1>1, <1>2, <1>3, <2>1 DEF Placed, SameRange, Opening
<1>. QED
  BY <1>2, <1>5, <1>6 DEF StreamInv

(* The ticks of a table in the range become the batch.                     *)
LEMMA TableOpened ==
    ASSUME Types, StreamInv, TablesKept, stream.step = "open",
           NEW b, b = Sorted(table[Path].rows, stream.range), b # << >>,
           stream' = [stream EXCEPT !.batch = b, !.step = "merge"]
    PROVE  StreamInv'
<1>1. stream \in StreamRecord /\ Placed /\ Drawn /\ Told /\ Merging
  BY DEF StreamInv, Streaming
<1>2. PICK i : i = stream.idx
  OBVIOUS
<1>3. /\ i \in DOMAIN stream.paths /\ stream.batch = << >> /\ i \in Nat
      /\ DOMAIN stream.paths = 1 .. Len(stream.paths) /\ Len(stream.paths) \in Nat
      /\ stream.range \in Span
  BY <1>1, <1>2, Fields DEF Placed, Opening
<1>4. Path = stream.paths[i] /\ Path \in Written
  BY <1>1, <1>2, <1>3 DEF Path, Placed, Range
<1>5. table[Path].rows \in Rows
  <2>1. PICK f : f = Path /\ f \in 1 .. Len(table)
    BY <1>4 DEF Written
  <2>2. table[f] \in Table
    BY <2>1 DEF Types
  <2>3. table[f].rows \in Rows
    BY <2>2 DEF Table
  <2>. QED
    BY <2>1, <2>3
<1>6. InKeyOrder(b, table[Path].rows, stream.range)
  BY <1>3, <1>5, SortedRows, Zenon
<1>7. /\ b \in Seq(Entry) /\ Increasing(b)
      /\ \A j \in DOMAIN b : b[j].key \in Scanned(i) /\ b[j].ver = table[Path].rows[b[j].key]
      /\ \A k : k \in KeysOf(b) <=> k \in Scanned(i)
  BY <1>4, <1>6 DEF InKeyOrder, Scanned
<1>8. /\ stream' \in StreamRecord /\ SameRange
      /\ stream'.mem = stream.mem /\ stream'.batch = b
      /\ stream'.last = stream.last /\ stream'.out = stream.out
      /\ stream'.failed = stream.failed /\ stream'.hollow = stream.hollow
      /\ stream'.idx = i /\ stream'.step = "merge"
  BY <1>1, <1>2, <1>7 DEF StreamRecord, SameRange
<1>9. /\ Range(stream'.paths) \subseteq Written' /\ stream'.skipped \subseteq Written'
      /\ \A j \in DOMAIN stream.paths : Scanned(j)' = Scanned(j)
      /\ \A j \in DOMAIN stream.paths : table'[stream.paths[j]] = table[stream.paths[j]]
      /\ InOrder' <=> InOrder
      /\ \A k : Candidates(k)' = Candidates(k)
      /\ Unseen' = Unseen
  BY <1>1, <1>8, SameTables
<1>10. OutKeys' = OutKeys /\ (Missed' <=> Missed)
  BY <1>8 DEF OutKeys, Missed
<1>11. /\ \A j : j \in Pending <=> j = i \/ j \in Pending'
       /\ Pending' \subseteq DOMAIN stream.paths
  BY <1>2, <1>3, <1>8 DEF Pending, SameRange, Opening
<1>12. \A k : Waiting(k)' <=> Waiting(k)
  <2>1. \A k : Ahead(k)' <=> \E j \in Pending' : k \in Scanned(j)
    BY <1>9, <1>11 DEF Ahead
  <2>2. \A k : Ahead(k) <=> k \in Scanned(i) \/ Ahead(k)'
    BY <1>11, <2>1 DEF Ahead
  <2>3. KeysOf(stream.batch) = {}
    BY <1>3 DEF KeysOf
  <2>4. \A k : Waiting(k)' <=> k \in KeysOf(stream.mem) \/ k \in KeysOf(b) \/ Ahead(k)'
    BY <1>8 DEF Waiting
  <2>. QED
    BY <1>7, <2>2, <2>3, <2>4 DEF Waiting
<1>13. Placed'
  BY <1>1, <1>2, <1>3, <1>8, <1>9 DEF Placed, SameRange, Opening
<1>14. Drawn'
  <2>1. Path' = Path /\ table'[Path] = table[Path]
    BY <1>2, <1>3, <1>4, <1>8, <1>9 DEF Path, SameRange
  <2>2. Scanned(i)' = Scanned(i)
    BY <1>3, <1>9
  <2>3. ASSUME NEW j \in DOMAIN stream'.batch
        PROVE  /\ stream'.batch[j].key \in Scanned(stream.idx)'
               /\ stream'.batch[j].ver = table'[Path'].rows[stream'.batch[j].key]
    BY <1>7, <1>8, <2>1, <2>2, <2>3 DEF Scanned
  <2>. QED
    BY <1>1, <1>3, <1>8, <1>9, <2>3 DEF Drawn, SameRange
<1>15. Told'
  BY <1>1, <1>8, <1>9, <1>10, <1>12 DEF Told, SameRange
<1>16. Merging'
  <2>1. ASSUME InOrder', ~Missed' PROVE Advancing'
    <3>1. Advancing
      BY <1>1, <1>9, <1>10, <2>1 DEF Merging
    <3>. QED
      BY <1>8, <1>10, <1>12, <3>1 DEF Advancing, SameRange
  <2>. QED
    BY <1>1, <1>7, <1>8, <2>1 DEF Merging
<1>. QED
  BY <1>8, <1>13, <1>14, <1>15, <1>16 DEF StreamInv

(* load_next_sstable_batch, with each of its outcomes.                     *)
LEMMA TableLoaded ==
    ASSUME Types, StreamInv, TablesKept, load_next_sstable_batch
    PROVE  StreamInv'
<1>. DEFINE b == Sorted(table[Path].rows, stream.range)
<1>1. stream.step = "open" /\ stream \in StreamRecord /\ Placed /\ Drawn /\ Told /\ Merging
  BY DEF StreamInv, Streaming, load_next_sstable_batch
<1>2. PICK failed \in SUBSET Nat, hollow \in SUBSET Nat : failed = stream.failed /\ hollow = stream.hollow
  BY <1>1 DEF StreamRecord
<1>3. Path \in Nat
  <2>1. Path \in Written
    BY <1>1 DEF Path, Placed, Range, Opening
  <2>. QED
    BY <2>1 DEF Types, Written
<1>. HIDE DEF b
<1>4. CASE disk[Path] # "whole"
  <2>1. stream' = [stream EXCEPT !.failed = failed \cup {Path}, !.hollow = hollow, !.step = "merge"]
    BY <1>1, <1>2, <1>4 DEF load_next_sstable_batch, StreamRecord
  <2>2. PICK f \in SUBSET Nat : f = failed \cup {Path}
    <3>1. failed \cup {Path} \in SUBSET Nat
      BY <1>3
    <3>. QED
      BY <3>1, Zenon
  <2>3. f \cup hollow # {}
    BY <2>2
  <2>. QED
    BY <1>1, <1>2, <2>1, <2>2, <2>3, TableMissed
<1>5. CASE disk[Path] = "whole" /\ setup.opens = "panic"
  <2>1. stream' = [stream EXCEPT !.step = "panicked"]
    BY <1>5 DEF load_next_sstable_batch
  <2>2. /\ stream' \in StreamRecord /\ SameRange
        /\ stream'.mem = stream.mem /\ stream'.batch = stream.batch
        /\ stream'.last = stream.last /\ stream'.out = stream.out
        /\ stream'.failed = stream.failed /\ stream'.hollow = stream.hollow
        /\ stream'.idx = stream.idx /\ stream'.step = "panicked"
    BY <1>1, <2>1 DEF StreamRecord, SameRange, Opening
  <2>3. Missed' = Missed /\ Pending' = Pending
    BY <1>1, <2>2 DEF Missed, Pending, SameRange, Opening
  <2>4. Drawn' /\ Told' /\ Merging'
    BY <1>1, <2>2, <2>3, NothingTaken
  <2>5. Placed'
    <3>1. Range(stream'.paths) \subseteq Written' /\ stream'.skipped \subseteq Written'
      BY <1>1, <2>2, SameTables
    <3>. QED
      BY <1>1, <2>2, <3>1 DEF Placed, SameRange, Opening
  <2>. QED
    BY <2>2, <2>4, <2>5 DEF StreamInv, Streaming
<1>6. CASE disk[Path] = "whole" /\ setup.opens # "panic"
  <2>1. stream' = [stream EXCEPT !.batch = b, !.step = "merge",
                                 !.hollow = IF b = << >> THEN @ \cup {Path} ELSE @]
    BY <1>6 DEF load_next_sstable_batch, b
  <2>2. CASE b = << >>
    <3>1. stream.batch = << >>
      BY <1>1 DEF Placed, Opening
    <3>2. stream' = [stream EXCEPT !.failed = failed, !.hollow = hollow \cup {Path}, !.step = "merge"]
      BY <1>1, <1>2, <2>1, <2>2, <3>1 DEF StreamRecord
    <3>3. PICK h \in SUBSET Nat : h = hollow \cup {Path}
      <4>1. hollow \cup {Path} \in SUBSET Nat
        BY <1>3
      <4>. QED
        BY <4>1, Zenon
    <3>4. failed \cup h # {}
      BY <3>3
    <3>. QED
      BY <1>1, <1>2, <3>2, <3>3, <3>4, TableMissed
  <2>3. CASE b # << >>
    <3>1. stream' = [stream EXCEPT !.batch = b, !.step = "merge"]
      BY <1>1, <2>1, <2>3 DEF StreamRecord
    <3>2. PICK c : c = b
      OBVIOUS
    <3>. QED
      BY <1>1, <2>3, <3>1, <3>2, TableOpened DEF b
  <2>. QED
    BY <2>2, <2>3
<1>. QED
  BY <1>4, <1>5, <1>6

\* The tick e is the first of m and b, mt and bt are what is left of them.
Taken(m, b, e, mt, bt) ==
    /\ e \in Entry /\ mt \in Seq(Entry) /\ bt \in Seq(Entry)
    /\ Increasing(mt) /\ Increasing(bt)
    /\ \A k : k \in KeysOf(m) \/ k \in KeysOf(b) <=> k = e.key \/ k \in KeysOf(mt) \/ k \in KeysOf(bt)
    /\ \A k \in KeysOf(m) : k = e.key \/ k \in KeysOf(mt)
    /\ \A k : k \in KeysOf(mt) \/ k \in KeysOf(bt) => e.key < k
    /\ \A i \in DOMAIN mt : \E j \in DOMAIN m : mt[i] = m[j]
    /\ \A i \in DOMAIN bt : \E j \in DOMAIN b : bt[i] = b[j]
    /\ \/ 1 \in DOMAIN m /\ e = m[1]
       \/ 1 \in DOMAIN b /\ e = b[1] /\ \A k \in KeysOf(m) : e.key < k
    /\ b # << >> => 1 \in DOMAIN b /\ e.key <= b[1].key

(* next_tick merges the memtable and the batch.                            *)
LEMMA MergeTakes ==
    ASSUME NEW m \in Seq(Entry), NEW b \in Seq(Entry), Increasing(m), Increasing(b),
           ~(m = << >> /\ b = << >>)
    PROVE  Taken(m, b, IF TakesMem(m, b) THEN m[1] ELSE b[1],
                 IF TakesMem(m, b) THEN Tail(m) ELSE m, IF TakesSst(m, b) THEN Tail(b) ELSE b)
<1>1. PICK mt, bt : mt = Tail(m) /\ bt = Tail(b)
  OBVIOUS
<1>2. \A x \in Entry : x.key \in Nat
  BY ColdAssumption DEF Entry
<1>3. ASSUME m # << >>
      PROVE  /\ mt \in Seq(Entry) /\ m[1] \in Entry /\ m[1].key \in Nat /\ 1 \in DOMAIN m
             /\ Increasing(mt)
             /\ \A i \in DOMAIN mt : \E j \in DOMAIN m : mt[i] = m[j]
             /\ \A k : k \in KeysOf(m) <=> k = m[1].key \/ k \in KeysOf(mt)
             /\ \A k \in KeysOf(mt) : m[1].key < k
             /\ \A k \in KeysOf(m) : m[1].key <= k
  <2>1. Behind(m, mt)
    BY <1>1, <1>3, TailOf, Zenon
  <2>. QED
    BY <2>1 DEF Behind
<1>4. ASSUME b # << >>
      PROVE  /\ bt \in Seq(Entry) /\ b[1] \in Entry /\ b[1].key \in Nat /\ 1 \in DOMAIN b
             /\ Increasing(bt)
             /\ \A i \in DOMAIN bt : \E j \in DOMAIN b : bt[i] = b[j]
             /\ \A k : k \in KeysOf(b) <=> k = b[1].key \/ k \in KeysOf(bt)
             /\ \A k \in KeysOf(bt) : b[1].key < k
             /\ \A k \in KeysOf(b) : b[1].key <= k
  <2>1. Behind(b, bt)
    BY <1>1, <1>4, TailOf, Zenon
  <2>. QED
    BY <2>1 DEF Behind
<1>5. KeysOf(<< >>) = {}
  BY DEF KeysOf
<1>6. \A k : k \in KeysOf(m) \/ k \in KeysOf(b) => k \in Nat
  BY <1>2 DEF KeysOf
<1>7. CASE TakesMem(m, b) /\ TakesSst(m, b)
  <2>1. m # << >> /\ b # << >> /\ m[1].key = b[1].key
    <3>1. m # << >> /\ b # << >>
      BY <1>7 DEF TakesMem, TakesSst
    <3>2. m[1].key <= b[1].key /\ b[1].key <= m[1].key
      BY <1>7, <3>1 DEF TakesMem, TakesSst
    <3>. QED
      BY <1>3, <1>4, <3>1, <3>2
  <2>2. Taken(m, b, m[1], mt, bt)
    BY <1>3, <1>4, <2>1 DEF Taken
  <2>. QED
    BY <1>1, <1>7, <2>2, Zenon
<1>8. CASE TakesMem(m, b) /\ ~TakesSst(m, b)
  <2>1. m # << >> /\ (b # << >> => m[1].key < b[1].key)
    <3>1. m # << >> /\ (b # << >> => ~(b[1].key <= m[1].key))
      BY <1>8 DEF TakesMem, TakesSst
    <3>. QED
      BY <1>3, <1>4, <3>1
  <2>2. \A k \in KeysOf(b) : m[1].key < k
    <3>1. CASE b = << >>
      BY <1>5, <3>1
    <3>2. CASE b # << >>
      BY <1>3, <1>4, <1>6, <2>1, <3>2
    <3>. QED
      BY <3>1, <3>2
  <2>3. b # << >> => 1 \in DOMAIN b /\ m[1].key <= b[1].key
    BY <1>3, <1>4, <2>1
  <2>4. Taken(m, b, m[1], mt, b)
    BY <1>3, <2>1, <2>2, <2>3 DEF Taken
  <2>. QED
    BY <1>1, <1>8, <2>4, Zenon
<1>9. CASE ~TakesMem(m, b)
  <2>1. b # << >> /\ (m # << >> => b[1].key < m[1].key)
    <3>1. b # << >> /\ (m # << >> => ~(m[1].key <= b[1].key))
      BY <1>9 DEF TakesMem
    <3>. QED
      BY <1>3, <1>4, <3>1
  <2>2. \A k \in KeysOf(m) : b[1].key < k
    <3>1. CASE m = << >>
      BY <1>5, <3>1
    <3>2. CASE m # << >>
      BY <1>3, <1>4, <1>6, <2>1, <3>2
    <3>. QED
      BY <3>1, <3>2
  <2>3. TakesSst(m, b)
    BY <1>3, <1>4, <2>1 DEF TakesSst
  <2>4. b[1].key <= b[1].key
    BY <1>4, <2>1
  <2>5. Taken(m, b, b[1], m, bt)
    BY <1>4, <2>1, <2>2, <2>4 DEF Taken
  <2>. QED
    BY <1>1, <1>9, <2>3, <2>5, Zenon
<1>. QED
  BY <1>7, <1>8, <1>9

(* At the end of a stream nothing is before it, unless it missed a table.  *)
LEMMA StreamEnds ==
    ASSUME StreamInv, TablesKept, next_tick, stream.mem = << >>, stream.batch = << >>
    PROVE  StreamInv'
<1>1. stream' = [stream EXCEPT !.step = "ended"]
  BY DEF next_tick
<1>2. stream.step \in {"next", "merge"} /\ (stream.step = "next" => ~NeedsBatch)
  BY DEF next_tick
<1>3. stream \in StreamRecord /\ Placed /\ Drawn /\ Told /\ Merging
  BY <1>2 DEF StreamInv, Streaming
<1>4. /\ stream' \in StreamRecord /\ SameRange
      /\ stream'.mem = stream.mem /\ stream'.batch = stream.batch
      /\ stream'.last = stream.last /\ stream'.out = stream.out
      /\ stream'.failed = stream.failed /\ stream'.hollow = stream.hollow
      /\ stream'.idx = stream.idx /\ stream'.step = "ended"
  BY <1>1, <1>3 DEF StreamRecord, SameRange
<1>5. Missed' = Missed /\ Pending' = Pending
  BY <1>2, <1>4 DEF Missed, Pending, SameRange, Opening
<1>6. Drawn' /\ Told' /\ Merging'
  BY <1>3, <1>4, <1>5, NothingTaken
<1>7. Placed'
  <2>1. Range(stream'.paths) \subseteq Written' /\ stream'.skipped \subseteq Written'
    BY <1>3, <1>4, SameTables
  <2>2. stream.idx = Len(stream.paths) \/ Missed
    <3>1. stream.step = "next" => ~(stream.idx < Len(stream.paths))
      BY <1>2 DEF NeedsBatch
    <3>2. stream.idx \in Nat /\ Len(stream.paths) \in Nat
      BY <1>3, Fields
    <3>. QED
      BY <1>2, <1>3, <3>1, <3>2 DEF Placed
  <2>. QED
    BY <1>3, <1>4, <1>5, <2>1, <2>2 DEF Placed, SameRange, Opening
<1>. QED
  BY <1>4, <1>6, <1>7 DEF StreamInv

(* next_tick returns the first of what is to come, once.                   *)
LEMMA TickReturned ==
    ASSUME StreamInv, TablesKept, next_tick, ~(stream.mem = << >> /\ stream.batch = << >>)
    PROVE  StreamInv'
<1>1. stream.step \in {"next", "merge"} /\ (stream.step = "next" => ~NeedsBatch)
  BY DEF next_tick
<1>2. stream \in StreamRecord /\ Placed /\ Drawn /\ Told /\ Merging
  BY <1>1 DEF StreamInv, Streaming
<1>3. PICK m, b, out : m = stream.mem /\ b = stream.batch /\ out = stream.out
  OBVIOUS
<1>4. PICK e, mt, bt : /\ e = (IF TakesMem(m, b) THEN m[1] ELSE b[1])
                       /\ mt = (IF TakesMem(m, b) THEN Tail(m) ELSE m)
                       /\ bt = (IF TakesSst(m, b) THEN Tail(b) ELSE b)
  OBVIOUS
<1>5. PICK res : res = IF stream.last = e.key THEN out ELSE Append(out, e)
  OBVIOUS
<1>6. stream' = [stream EXCEPT !.step = "next", !.mem = mt, !.batch = bt, !.last = e.key, !.out = res]
  BY <1>2, <1>3, <1>4, <1>5 DEF next_tick, StreamRecord
<1>7. m \in Seq(Entry) /\ b \in Seq(Entry) /\ out \in Seq(Entry) /\ stream.last \in Nat /\ stream.idx \in Nat
  BY <1>2, <1>3, Fields
<1>8. Taken(m, b, e, mt, bt)
  <2>1. Increasing(m) /\ Increasing(b) /\ ~(m = << >> /\ b = << >>)
    BY <1>2, <1>3 DEF Merging
  <2>. QED
    BY <1>4, <1>7, <2>1, MergeTakes, Zenon
<1>9. e \in Entry /\ mt \in Seq(Entry) /\ bt \in Seq(Entry) /\ e.key \in Stamp /\ e.key \in Nat /\ e.key # 0
  BY <1>8, ColdAssumption DEF Taken, Entry
<1>10. res \in Seq(Entry)
  BY <1>5, <1>7, <1>9
<1>11. /\ stream' \in StreamRecord /\ SameRange
       /\ stream'.mem = mt /\ stream'.batch = bt /\ stream'.last = e.key /\ stream'.out = res
       /\ stream'.failed = stream.failed /\ stream'.hollow = stream.hollow
       /\ stream'.idx = stream.idx /\ stream'.step = "next"
  BY <1>2, <1>6, <1>9, <1>10 DEF StreamRecord, SameRange
<1>12. /\ Range(stream'.paths) \subseteq Written' /\ stream'.skipped \subseteq Written'
       /\ \A j \in DOMAIN stream.paths : Scanned(j)' = Scanned(j)
       /\ \A j \in DOMAIN stream.paths : table'[stream.paths[j]] = table[stream.paths[j]]
       /\ InOrder' <=> InOrder
       /\ \A k : Candidates(k)' = Candidates(k)
       /\ Unseen' = Unseen
  BY <1>2, <1>11, SameTables
<1>13. Missed' = Missed /\ Pending' = Pending /\ Pending \subseteq DOMAIN stream.paths
  BY <1>1, <1>11 DEF Missed, Pending, SameRange, Opening
<1>14. /\ \A k : Ahead(k)' <=> Ahead(k)
       /\ \A k : Waiting(k)' <=> k \in KeysOf(mt) \/ k \in KeysOf(bt) \/ Ahead(k)
  <2>1. \A k : Ahead(k)' <=> Ahead(k)
    BY <1>12, <1>13 DEF Ahead
  <2>. QED
    BY <1>11, <2>1 DEF Waiting
<1>15. \A k : Waiting(k) <=> k = e.key \/ Waiting(k)'
  <2>1. \A k : k \in KeysOf(m) \/ k \in KeysOf(b) <=> k = e.key \/ k \in KeysOf(mt) \/ k \in KeysOf(bt)
    BY <1>8 DEF Taken
  <2>2. \A k : Waiting(k) <=> k \in KeysOf(m) \/ k \in KeysOf(b) \/ Ahead(k)
    BY <1>3 DEF Waiting
  <2>. QED
    BY <1>14, <2>1, <2>2
<1>16. OutKeys = KeysOf(out) /\ OutKeys' = KeysOf(res)
  BY <1>3, <1>11 DEF OutKeys, KeysOf
<1>17. /\ stream.last # e.key =>
            /\ DOMAIN res = 1 .. Len(out) + 1 /\ res[Len(out) + 1] = e
            /\ \A i \in DOMAIN out : res[i] = out[i]
       /\ DOMAIN out = 1 .. Len(out) /\ Len(out) \in Nat
  BY <1>5, <1>7, <1>9
<1>18. \A k : k \in OutKeys' <=> k = e.key \/ k \in OutKeys
  <2>1. CASE stream.last = e.key
    BY <1>2, <1>5, <1>9, <1>16, <2>1 DEF Told
  <2>2. CASE stream.last # e.key
    <3>1. \A i \in DOMAIN res : i = Len(out) + 1 \/ i \in DOMAIN out
      BY <1>17, <2>2
    <3>2. \A i \in DOMAIN out : i \in DOMAIN res
      BY <1>17, <2>2
    <3>3. Len(out) + 1 \in DOMAIN res
      BY <1>17, <2>2
    <3>. QED
      BY <1>16, <1>17, <2>2, <3>1, <3>2, <3>3 DEF KeysOf
  <2>. QED
    BY <2>1, <2>2
<1>19. Placed'
  BY <1>2, <1>11, <1>12 DEF Placed, SameRange, Opening
<1>20. /\ \A i \in DOMAIN m : m[i].ver = stream.snapshot[m[i].key] /\ m[i].ver # 0
       /\ b # << >> => stream.idx \in DOMAIN stream.paths
       /\ \A i \in DOMAIN b : b[i].key \in Scanned(stream.idx) /\ b[i].ver = table[Path].rows[b[i].key]
       /\ \A i \in DOMAIN out : out[i].ver \in Candidates(out[i].key)
  BY <1>2, <1>3 DEF Drawn
<1>21. PICK idx : idx = stream.idx
  OBVIOUS
<1>22. e.ver \in Candidates(e.key)
  <2>1. CASE 1 \in DOMAIN m /\ e = m[1]
    BY <1>20, <2>1 DEF Candidates
  <2>2. CASE 1 \in DOMAIN b /\ e = b[1]
    <3>1. idx \in DOMAIN stream.paths
      BY <1>20, <1>21, <2>2
    <3>2. Path \in Range(stream.paths) /\ Path = stream.paths[idx]
      BY <1>21, <3>1 DEF Path, Range
    <3>3. e.key \in Scanned(idx) /\ e.ver = table[Path].rows[e.key]
      BY <1>20, <1>21, <2>2
    <3>4. e.ver # 0
      BY <3>2, <3>3 DEF Scanned, Keys
    <3>. QED
      BY <3>2, <3>3, <3>4 DEF Candidates
  <2>. QED
    BY <1>8, <2>1, <2>2 DEF Taken
<1>23. Drawn'
  <2>1. \A i \in DOMAIN mt : mt[i].ver = stream.snapshot[mt[i].key] /\ mt[i].ver # 0
    <3>1. \A i \in DOMAIN mt : \E j \in DOMAIN m : mt[i] = m[j]
      BY <1>8 DEF Taken
    <3>. QED
      BY <1>20, <3>1
  <2>2. ASSUME NEW i \in DOMAIN bt
        PROVE  /\ idx \in DOMAIN stream.paths
               /\ bt[i].key \in Scanned(idx)' /\ bt[i].ver = table'[Path'].rows[bt[i].key]
    <3>1. PICK j \in DOMAIN b : bt[i] = b[j]
      BY <1>8, <2>2 DEF Taken
    <3>2. idx \in DOMAIN stream.paths /\ Path' = Path /\ Path = stream.paths[idx]
      BY <1>11, <1>20, <1>21, <3>1 DEF Path, SameRange
    <3>3. b[j].key \in Scanned(idx) /\ b[j].ver = table[Path].rows[b[j].key]
      BY <1>20, <1>21
    <3>. QED
      BY <1>12, <3>1, <3>2, <3>3
  <2>3. bt # << >> => stream'.idx \in DOMAIN stream'.paths
    <3>1. bt # << >> => 1 \in DOMAIN bt
      BY <1>9
    <3>. QED
      BY <1>11, <1>21, <2>2, <3>1 DEF SameRange
  <2>4. \A i \in DOMAIN res : res[i].ver \in Candidates(res[i].key)
    <3>1. CASE stream.last = e.key
      BY <1>5, <1>20, <3>1
    <3>2. CASE stream.last # e.key
      <4>1. \A i \in DOMAIN res : i = Len(out) + 1 \/ i \in DOMAIN out
        BY <1>17, <3>2
      <4>. QED
        BY <1>17, <1>20, <1>22, <3>2, <4>1
    <3>. QED
      BY <3>1, <3>2
  <2>5. ASSUME NEW i \in DOMAIN stream'.batch
        PROVE  /\ stream'.batch[i].key \in Scanned(stream.idx)'
               /\ stream'.batch[i].ver = table'[Path'].rows[stream'.batch[i].key]
    BY <1>11, <1>21, <2>2, <2>5 DEF Scanned
  <2>. QED
    BY <1>11, <1>12, <2>1, <2>3, <2>4, <2>5 DEF Drawn, SameRange
<1>24. Told'
  <2>1. \A k : k \in OutKeys' \/ Waiting(k)' => k \in stream.wanted
    BY <1>2, <1>15, <1>18 DEF Told
  <2>2. ~Missed' => \A k \in stream.wanted : k \in OutKeys' \/ Waiting(k)' \/ k \in Unseen'
    BY <1>2, <1>12, <1>13, <1>15, <1>18 DEF Told
  <2>3. stream'.last \in OutKeys'
    BY <1>11, <1>18
  <2>. QED
    BY <1>11, <2>1, <2>2, <2>3 DEF Told, SameRange
<1>25. ASSUME InOrder', ~Missed' PROVE Advancing'
  <2>1. Advancing /\ InOrder /\ ~Missed
    BY <1>2, <1>12, <1>13, <1>25 DEF Merging
  <2>2. stream.last < e.key
    BY <1>15, <2>1 DEF Advancing
  <2>3. /\ DOMAIN res = 1 .. Len(out) + 1 /\ res[Len(out) + 1] = e
        /\ \A i \in DOMAIN out : res[i] = out[i]
        /\ DOMAIN out = 1 .. Len(out) /\ Len(out) \in Nat
    BY <1>7, <1>9, <1>17, <2>2
  <2>4. \A i \in DOMAIN out : out[i].key \in Nat /\ out[i].key < e.key
    <3>1. \A i \in DOMAIN out : out[i].key \in OutKeys /\ out[i].key \in Nat
      <4>1. \A i \in DOMAIN out : out[i] \in Entry
        BY <1>7
      <4>2. \A x \in Entry : x.key \in Nat
        BY ColdAssumption DEF Entry
      <4>3. \A i \in DOMAIN out : out[i].key \in OutKeys
        BY <1>3 DEF OutKeys
      <4>. QED
        BY <4>1, <4>2, <4>3
    <3>. QED
      BY <1>7, <1>9, <2>1, <2>2, <3>1 DEF Advancing
  <2>5. Increasing(res)
    <3>1. \A i, j \in 1 .. Len(out) : i < j => out[i].key < out[j].key
      BY <1>3, <2>1, <2>3 DEF Advancing, Increasing
    <3>2. ASSUME NEW i \in 1 .. Len(out) + 1, NEW j \in 1 .. Len(out) + 1, i < j PROVE res[i].key < res[j].key
      <4>1. i \in 1 .. Len(out) /\ (j \in 1 .. Len(out) \/ j = Len(out) + 1)
        BY <2>3, <3>2
      <4>. QED
        BY <2>3, <2>4, <3>1, <3>2, <4>1
    <3>. QED
      BY <2>3, <3>2 DEF Increasing
  <2>6. \A k \in OutKeys' : k <= e.key
    <3>1. \A k \in OutKeys : k <= stream.last /\ k \in Nat
      <4>1. \A k \in OutKeys : k \in Nat
        BY <1>3, <2>4 DEF OutKeys
      <4>. QED
        BY <2>1, <4>1 DEF Advancing
    <3>2. \A k \in OutKeys : k <= e.key
      BY <1>7, <1>9, <2>2, <3>1
    <3>3. e.key <= e.key
      BY <1>9
    <3>. QED
      BY <1>18, <3>2, <3>3, Zenon
  <2>7. ASSUME NEW k, Waiting(k)' PROVE e.key < k
    <3>1. CASE k \in KeysOf(mt) \/ k \in KeysOf(bt)
      BY <1>8, <3>1 DEF Taken
    <3>2. CASE Ahead(k)
      <4>1. PICK j \in Pending : k \in Scanned(j)
        BY <3>2 DEF Ahead
      <4>2. j \in DOMAIN stream.paths /\ j > stream.idx
        BY <1>1, <4>1 DEF Pending, Opening
      <4>3. b # << >>
        <5>1. stream.idx < Len(stream.paths)
          BY <1>2, <1>7, <4>2, Fields, SMTT(60)
        <5>. QED
          BY <1>1, <1>2, <1>3, <2>1, <5>1 DEF NeedsBatch, Placed
      <4>4. b[1].key \in Scanned(idx) /\ idx \in DOMAIN stream.paths /\ e.key <= b[1].key /\ 1 \in DOMAIN b
        BY <1>8, <1>20, <1>21, <4>3 DEF Taken
      <4>5. b[1].key < k
        <5>1. \A i, h \in DOMAIN stream.paths : i < h => \A a \in Scanned(i), c \in Scanned(h) : a < c
          BY <2>1 DEF InOrder, Scanned
        <5>2. idx < j
          BY <1>7, <1>21, <1>2, <4>2, Fields
        <5>. QED
          BY <4>1, <4>2, <4>4, <5>1, <5>2
      <4>6. b[1].key \in Nat /\ k \in Nat
        BY <4>1, <4>4, ColdAssumption DEF Scanned, Keys
      <4>. QED
        BY <1>9, <4>4, <4>5, <4>6
    <3>. QED
      BY <1>14, <2>7, <3>1, <3>2
  <2>8. ASSUME NEW k \in stream.wanted, stream.snapshot[k] # 0 PROVE k \in KeysOf(mt) \/ k <= e.key
    <3>1. k \in KeysOf(m) \/ k <= stream.last
      BY <1>3, <2>1, <2>8 DEF Advancing
    <3>2. CASE k \in KeysOf(m)
      BY <1>8, <1>9, <3>2 DEF Taken
    <3>3. CASE k <= stream.last
      <4>1. k \in Nat
        BY <1>2, <2>8, Fields, ColdAssumption
      <4>. QED
        BY <1>7, <1>9, <2>2, <3>3, <4>1
    <3>. QED
      BY <3>1, <3>2, <3>3
  <2>9. stream.snapshot[e.key] # 0 => e.ver = stream.snapshot[e.key]
    <3>1. CASE 1 \in DOMAIN m /\ e = m[1]
      BY <1>20, <3>1
    <3>2. CASE \A k \in KeysOf(m) : e.key < k
      <4>1. e.key \in stream.wanted
        BY <1>2, <1>15 DEF Told
      <4>2. e.key \notin KeysOf(m) /\ ~(e.key <= stream.last)
        BY <1>7, <1>9, <2>2, <3>2
      <4>. QED
        BY <1>3, <2>1, <4>1, <4>2 DEF Advancing
    <3>. QED
      BY <1>8, <3>1, <3>2 DEF Taken
  <2>10. \A i \in DOMAIN res : stream.snapshot[res[i].key] # 0 => res[i].ver = stream.snapshot[res[i].key]
    <3>1. \A i \in DOMAIN out : stream.snapshot[out[i].key] # 0 => out[i].ver = stream.snapshot[out[i].key]
      BY <1>3, <2>1 DEF Advancing
    <3>2. \A i \in DOMAIN res : i = Len(out) + 1 \/ i \in DOMAIN out
      BY <2>3
    <3>. QED
      BY <2>3, <2>9, <3>1, <3>2
  <2>. QED
    BY <1>11, <2>5, <2>6, <2>7, <2>8, <2>10 DEF Advancing, SameRange
<1>26. Merging'
  BY <1>8, <1>11, <1>25 DEF Merging, Taken
<1>. QED
  BY <1>11, <1>19, <1>23, <1>24, <1>26 DEF StreamInv

\* Before the first tick of the symbol there is no key anywhere.
Nameless ==
    /\ named \in {"never", "named", "forgotten"}
    /\ named = "never" => Keys(memtable) = {} /\ \A f \in Written : Keys(table[f].rows) = {}

(* insert_batch names the symbol; no table and no restart adds a key.      *)
LEMMA NamelessStays ==
    ASSUME Inv, Inv', Nameless, [Next]_<< coldVars, streamVars >>
    PROVE  Nameless'
<1>1. CASE UNCHANGED << memtable, table, named >>
  BY <1>1 DEF Nameless, Written
<1>2. ASSUME NEW keys, insert_batch(keys) PROVE Nameless'
  BY <1>2 DEF insert_batch, Nameless
<1>3. ASSUME NEW t, Len(table) < MaxFiles, t \in Table, table' = Append(table, t), named' = named,
             named = "never" => Keys(t.rows) = {} /\ Keys(memtable') = {}
      PROVE  Nameless'
  <2>1. Written' = Written \cup {Len(table) + 1} /\ table'[Len(table) + 1] = t
        /\ \A f \in Written : table'[f] = table[f]
    BY <1>3, TableAdded DEF Inv
  <2>. QED
    BY <1>3, <2>1 DEF Nameless, Keys
<1>4. CASE flush_memtable
  <2>1. PICK names \in BOOLEAN :
            table' = Append(table, [level |-> 0, rows |-> memtable, names |-> names])
    <3>1. Filters(named) \subseteq BOOLEAN
      BY DEF Filters
    <3>. QED
      BY <1>4, <3>1 DEF flush_memtable
  <2>2. PICK t : t = [level |-> 0, rows |-> memtable, names |-> names]
    OBVIOUS
  <2>3. t \in Table /\ t.rows = memtable
    BY <2>2 DEF Inv, Types, Table
  <2>4. Len(table) < MaxFiles /\ named' = named /\ Keys(memtable') = {}
    BY <1>4 DEF flush_memtable, NoTicks, Keys
  <2>. QED
    BY <1>3, <2>1, <2>2, <2>3, <2>4 DEF Nameless
<1>5. CASE compact_create
  <2>1. PICK names \in BOOLEAN : table' = Append(table,
            [level |-> sync.to, rows |-> Merged(sync.merging), names |-> names])
    BY <1>5 DEF compact_create, Filters
  <2>2. PICK s, t : s = sync.merging /\ t = [level |-> sync.to, rows |-> Merged(s), names |-> names]
    OBVIOUS
  <2>3. /\ s \in Seq(Nat) /\ Range(s) \subseteq Written /\ sync.to \in {0, 1, 2}
    BY <2>2 DEF Inv, Types, Locked, Underway
  <2>4. /\ Merged(s) \in Rows
        /\ \A k \in Stamp : Merged(s)[k] # 0 => \E f \in Range(s) : table[f].rows[k] # 0
    BY <2>3, MergedKeys DEF Inv
  <2>5. t \in Table /\ t.rows = Merged(s)
    BY <2>2, <2>3, <2>4 DEF Table
  <2>6. Len(table) < MaxFiles /\ named' = named /\ memtable' = memtable
    BY <1>5 DEF compact_create
  <2>7. named = "never" => Keys(t.rows) = {}
    <3>1. named = "never" => \A f \in Range(s) : \A k \in Stamp : ~(table[f].rows[k] # 0)
      BY <2>3 DEF Nameless, Keys
    <3>. QED
      BY <2>4, <2>5, <3>1 DEF Keys
  <2>. QED
    BY <1>3, <2>1, <2>2, <2>5, <2>6, <2>7 DEF Nameless
<1>6. CASE Crash
  BY <1>6 DEF Crash, CrashCold, Nameless, Written
<1>7. CASE ColdNext /\ ~flush_memtable /\ ~compact_create /\ ~\E keys \in Batches : insert_batch(keys)
  <2>1. UNCHANGED << memtable, table, named >>
    BY <1>7 DEF ColdNext, compact_level, remove_file, compact_write, compact_error, compact_end,
       sync_cold_tier, sync_table, save_manifest_truncate, save_manifest_write, save_manifest_error,
       RemoveLocal, open
  <2>. QED
    BY <1>1, <2>1
<1>8. CASE ~ColdNext /\ ~Crash
  <2>1. UNCHANGED << memtable, table, named >>
    BY <1>8 DEF Next, scan_stream, symbol_not_found, ensure_sstable_batch, load_next_sstable_batch, next_tick,
       ensure_local_create, ensure_local_write, ensure_local_error, DropStream, coldVars
  <2>. QED
    BY <1>1, <2>1
<1>. QED
  BY <1>2, <1>4, <1>5, <1>6, <1>7, <1>8

(* So a stream that is refused then misses nothing.                        *)
LEMMA Refused ==
    ASSUME Types, Nameless, NEW range \in Params, symbol_not_found(range)
    PROVE  StreamInv'
<1>1. PICK written : written = UNION ({ Keys(table[f].rows) : f \in DOMAIN table } \cup { Keys(memtable) })
  OBVIOUS
<1>2. /\ stream' = [step |-> "refused", range |-> range, forgotten |-> named = "forgotten", written |-> written]
      /\ named # "named"
  BY <1>1 DEF symbol_not_found
<1>3. named = "never" => written = {}
  <2>1. DOMAIN table = Written
    BY DEF Types, Written
  <2>2. named = "never" => \A K \in { Keys(table[f].rows) : f \in Written } \cup { Keys(memtable) } : K = {}
    BY DEF Nameless
  <2>3. written = UNION ({ Keys(table[f].rows) : f \in Written } \cup { Keys(memtable) })
    BY <1>1, <2>1
  <2>. QED
    BY <2>2, <2>3, Zenon
<1>4. named \in {"never", "forgotten"}
  BY <1>2 DEF Nameless
<1>5. stream'.step = "refused" /\ stream'.written = written /\ (named = "forgotten" => stream'.forgotten)
  BY <1>2
<1>. QED
  BY <1>3, <1>4, <1>5 DEF StreamInv, Streaming

(* Every step keeps what is said of the stream.                            *)
LEMMA StreamStep ==
    ASSUME Inv, Types', Nameless, StreamInv, [Next]_<< coldVars, streamVars >>
    PROVE  StreamInv'
<1>1. TablesKept /\ Types
  BY TablesStay DEF Inv, TablesKept
<1>2. CASE UNCHANGED stream
  BY <1>1, <1>2, StreamRests
<1>3. ASSUME NEW range \in Params, scan_stream(range) PROVE StreamInv'
  BY <1>3, NewStream
<1>9. ASSUME NEW range \in Params, symbol_not_found(range) PROVE StreamInv'
  BY <1>1, <1>9, Refused
<1>4. CASE ensure_sstable_batch
  BY <1>1, <1>4, NextTable
<1>5. CASE load_next_sstable_batch
  BY <1>1, <1>5, TableLoaded
<1>6. CASE next_tick
  <2>1. CASE stream.mem = << >> /\ stream.batch = << >>
    BY <1>1, <1>6, <2>1, StreamEnds
  <2>2. CASE ~(stream.mem = << >> /\ stream.batch = << >>)
    BY <1>1, <1>6, <2>2, TickReturned
  <2>. QED
    BY <2>1, <2>2
<1>7. CASE ensure_local_create \/ ensure_local_write \/ ensure_local_error
  BY <1>1, <1>7, Downloads
<1>8. CASE DropStream \/ Crash
  BY <1>8 DEF DropStream, Crash, NoStream, StreamInv, Streaming
<1>. QED
  BY <1>2, <1>3, <1>4, <1>5, <1>6, <1>7, <1>8, <1>9 DEF Next, streamVars

(* So it holds in every state.                                             *)
LEMMA AlwaysStreamInv == Spec => [](Types /\ StreamInv)
<1>1. StreamInit => StreamInv /\ Nameless
  <2>1. ASSUME StreamInit PROVE StreamInv
    BY <2>1 DEF StreamInit, NoStream, StreamInv, Streaming
  <2>2. ASSUME StreamInit PROVE Nameless
    BY <2>2 DEF StreamInit, ColdInit, Nameless, NoTicks, Keys, Written
  <2>. QED
    BY <2>1, <2>2
<1>2. Inv /\ Inv' /\ Nameless /\ StreamInv /\ [Next]_<< coldVars, streamVars >> => StreamInv' /\ Nameless'
  BY StreamStep, NamelessStays DEF Inv
<1>3. Inv => Types
  BY DEF Inv
<1>. QED
  BY <1>1, <1>2, <1>3, AlwaysInv, PTL DEF Spec

(* Whatever is flushed, compacted, archived, removed and downloaded while  *)
(* it runs, a stream returns only what was in its range when it was made;  *)
(* and at its end all of it, but for the tables that ScanStream::new       *)
(* passed over because their filter does not have the symbol, if next_tick *)
(* had no table that it could not open or that was empty.  scan_params     *)
(* refuses a stream only before the first tick or behind a restart.        *)
THEOREM StreamsComplete == Spec => []StreamComplete
<1>1. ASSUME StreamInv PROVE StreamComplete
  <2>1. SUFFICES ASSUME Streaming PROVE StreamComplete
    BY <1>1 DEF StreamComplete, StreamInv, Streaming
  <2>2. stream \in StreamRecord /\ Placed /\ Drawn /\ Told /\ Merging
    BY <1>1, <2>1 DEF StreamInv
  <2>3. OutKeys \subseteq stream.wanted
    BY <2>2 DEF Told
  <2>4. \A i \in DOMAIN stream.out : stream.out[i].ver \in Candidates(stream.out[i].key)
    BY <2>2 DEF Drawn
  <2>5. ASSUME stream.step = "ended", stream.failed \cup stream.hollow = {} PROVE OutKeys = stream.wanted \ Unseen
    <3>1. ~Missed
      BY <2>5 DEF Missed
    <3>2. stream.mem = << >> /\ stream.batch = << >> /\ stream.idx = Len(stream.paths)
      BY <2>2, <2>5, <3>1 DEF Placed
    <3>3. Pending = {}
      <4>1. \A j \in DOMAIN stream.paths : ~(j > stream.idx)
        BY <2>2, <3>2, Fields
      <4>. QED
        BY <2>5, <4>1 DEF Pending, Opening
    <3>4. \A k : ~Waiting(k)
      BY <3>2, <3>3 DEF Waiting, Ahead, KeysOf
    <3>5. \A k \in OutKeys : k \notin Unseen
      BY <2>4 DEF OutKeys, Unseen
    <3>. QED
      BY <2>2, <2>3, <3>1, <3>4, <3>5 DEF Told
  <2>. QED
    BY <2>1, <2>3, <2>4, <2>5 DEF StreamComplete, Streaming
<1>. QED
  BY <1>1, AlwaysStreamInv, PTL

(* A stream over tables that follow each other returns its ticks in the    *)
(* order of their keys, once each, and those of the memtable rather than   *)
(* those of a table: next_tick merges the memtable with one table after    *)
(* the other.                                                              *)
THEOREM StreamsSorted == Spec => []StreamSorted
<1>1. ASSUME StreamInv PROVE StreamSorted
  <2>1. SUFFICES ASSUME Streaming, InOrder, stream.failed \cup stream.hollow = {},
                        NEW i \in DOMAIN stream.out
                 PROVE  /\ i > 1 => stream.out[i - 1].key < stream.out[i].key
                        /\ LET mine == stream.snapshot[stream.out[i].key]
                           IN mine # 0 => stream.out[i].ver = mine
    BY DEF StreamSorted
  <2>2. stream \in StreamRecord /\ Advancing
    BY <1>1, <2>1 DEF StreamInv, Merging, Missed
  <2>3. i > 1 => stream.out[i - 1].key < stream.out[i].key
    <3>1. PICK n \in Nat : DOMAIN stream.out = 1 .. n
      BY <2>2, Fields
    <3>2. i > 1 => i - 1 \in DOMAIN stream.out /\ i - 1 < i
      BY <2>1, <3>1
    <3>. QED
      BY <2>1, <2>2, <3>2 DEF Advancing, Increasing
  <2>. QED
    BY <2>1, <2>2, <2>3 DEF Advancing
<1>. QED
  BY <1>1, AlwaysStreamInv, PTL
=============================================================================
