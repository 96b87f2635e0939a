------------------------------ MODULE ColdTier ------------------------------
(***************************************************************************)
(* The archive of SSTables in an object store, graphite-core/src/          *)
(* cold_tier.rs, and the life of a table around it: flush and compaction   *)
(* write and remove tables, sync_cold_tier uploads them, an operator frees *)
(* local space, a reader downloads what is missing (module ScanStream),    *)
(* and LsmTree::open loads what it finds.                                  *)
(*                                                                         *)
(* There is one symbol; a key is a timestamp, and the batches written are  *)
(* numbered from 1.  A flush is one step and the log keeps what is in the  *)
(* memtable: module LsmTree takes it apart.  A compaction removes, creates *)
(* and writes one file in a step.                                          *)
(***************************************************************************)
EXTENDS Integers, Sequences, FiniteSets, SequencesExt, Selection

CONSTANTS
    Stamp,        \* timestamps: naturals
    Batches,      \* the sets of timestamps that are written together
    Setups,       \* how the database may be set up: see Setup
    L0_MAX_TABLES,
    LevelTarget,  \* the rows above which level 1 is compacted
    MaxBatches,   \* bound: batches written
    MaxFiles,     \* bound: tables written
    MaxFaults,    \* bound: I/O errors and crashes
    MaxRemoved    \* bound: local copies that the operator removes

\* config.cold_tier_min_level, and what SsTable::open does with a whole file
\* (OpenOutcomes of module LsmTree).
Setup == [min_level : Nat, opens : {"rows", "panic"}]

ASSUME ColdAssumption ==
    /\ Stamp \subseteq Nat \ {0} /\ Batches \subseteq SUBSET Stamp
    /\ Setups \subseteq Setup
    /\ MaxBatches \in Nat /\ MaxFiles \in Nat

File == 1 .. MaxFiles
NoTicks == [k \in Stamp |-> 0]

VARIABLES
    setup,      \* the configuration
    status,     \* "up", "down", or "failed": LsmTree::open failed
    memtable,   \* memtable[k]: the last tick written for key k, or 0
    named,      \* the symbol is in the dictionary ("named"), was not yet ("never"), or
                \* is not since the last restart ("forgotten")
    table,      \* table[f]: level and rows of the tables written so far, and whether the
                \* bloom filter answers yes to the name of the symbol (names)
    levels,     \* levels[i + 1]: the tables of level i, in memory
    disk,       \* disk[f]: "absent", "cut" or "whole": the file of table f
    store,      \* the tables in the object store
    manifest,   \* the entries of the manifest, in memory
    saved,      \* cold_manifest.json: its entries, or Cut
    sync,       \* who holds the compaction lock: sync_tables ("upload" or "save", and the
                \* tables to do), compact ("remove" and the files to do, "write", or
                \* "deeper"; with the tables it merges and the level it writes to), or
                \* nobody ("idle")
    faults, removed,  \* the numbers of faults and of removed copies so far
    compacted,  \* history: tables that a compaction has merged and removed
    excuses     \* history: what has happened to tables (below)

coldVars == << setup, status, memtable, named, table, levels, disk, store, manifest, saved, sync,
               faults, removed, compacted, excuses >>

Cut == {-1}
Idle == [step |-> "idle", todo |-> << >>, merging |-> << >>, to |-> 0]
Deeper == [Idle EXCEPT !.step = "deeper"]

(***************************************************************************)
(* Excuses, each a pair with the table it happened to:                     *)
(*   torn      a download was broken off and left a part of the file       *)
(*   revived   a table was downloaded after a compaction had removed it    *)
(*   kept      a compaction could not remove the file                      *)
(*   unlisted  a restart found no local copy of a table in use             *)
(*   dropped   a compaction removed the table and did not write the one it *)
(*             merged it into                                              *)
(***************************************************************************)
ColdInit ==
    /\ setup \in Setups
    /\ status = "up"
    /\ memtable = NoTicks /\ named = "never"
    /\ table = << >>
    /\ levels = << << >>, << >>, << >> >>
    /\ disk = [f \in File |-> "absent"]
    /\ store = {} /\ manifest = {} /\ saved = {}
    /\ sync = Idle
    /\ faults = 0 /\ removed = 0
    /\ compacted = {} /\ excuses = {}

InUse == UNION { Range(levels[i]) : i \in DOMAIN levels }
AllTables == levels[1] \o levels[2] \o levels[3]
Keys(rows) == { k \in Stamp : rows[k] # 0 }

Fault == faults < MaxFaults /\ faults' = faults + 1

(***************************************************************************)
(* The engine, without threads.                                            *)
(***************************************************************************)

Newest ==
    LET seen == { memtable[k] : k \in Stamp } \cup UNION { { table[f].rows[k] : k \in Stamp } : f \in DOMAIN table }
    IN  CHOOSE v \in seen \cup {0} : \A u \in seen : u <= v

\* All ticks of a batch get the number of the batch.
insert_batch(keys) ==
    /\ status = "up" /\ Newest < MaxBatches
    /\ memtable' = [k \in Stamp |-> IF k \in keys THEN Newest + 1 ELSE memtable[k]]
    /\ named' = "named"
    /\ UNCHANGED << setup, status, table, levels, disk, store, manifest, saved, sync,
                    faults, removed, compacted, excuses >>

\* The filter of a table holds the names that the dictionary it is written with has
\* for its ids, and "UNKNOWN" for an id without a name; it may answer yes to others.
Filters(dict) == IF dict = "named" THEN {TRUE} ELSE BOOLEAN

\* flush_memtable: the compaction lock that sync_tables or compact holds keeps it out.
flush_memtable ==
    /\ status = "up" /\ sync = Idle
    /\ memtable # NoTicks /\ Len(table) < MaxFiles
    /\ LET f == Len(table) + 1
       IN  /\ \E names \in Filters(named) :
                table' = Append(table, [level |-> 0, rows |-> memtable, names |-> names])
           /\ levels' = [levels EXCEPT ![1] = Append(@, f)]
           /\ disk' = [disk EXCEPT ![f] = "whole"]
    /\ memtable' = NoTicks
    /\ UNCHANGED << setup, status, named, store, manifest, saved, sync, faults, removed, compacted, excuses >>

RowCount(i) == FoldLeft(LAMBDA n, f : n + Cardinality(Keys(table[f].rows)), 0, levels[i + 1])

needs_compaction(i) ==
    CASE i = 0 -> Len(levels[1]) >= L0_MAX_TABLES
      [] i = 1 -> RowCount(1) > LevelTarget

\* The rows of the last table only (mutant).
Merged_last(files) == table[Last(files)].rows

\* Of two rows with a key the one of the first table stays.
Merged(files) ==
    [k \in Stamp |->
        LET with == { i \in DOMAIN files : table[files[i]].rows[k] # 0 }
        IN  IF with = {} THEN 0 ELSE table[files[Min(with)]].rows[k]]

\* compact() takes level 0 first and then level 1, under one lock.
MayCompact(i) ==
    /\ status = "up"
    /\ needs_compaction(i) /\ Len(table) < MaxFiles
    /\ setup.opens = "rows"
    /\ \A j \in DOMAIN levels[i + 1] : disk[levels[i + 1][j]] = "whole"
    /\ \/ sync = Idle /\ (i = 1 => ~needs_compaction(0))
       \/ sync = Deeper /\ i = 1

\* compact_level opens and reads all tables of the level: one that is missing is
\* not downloaded and makes it return an error (and one that cannot be read makes
\* it panic), before anything is changed.  The handles are dropped behind the loop
\* that removes the files: under the lock nobody sees them in between.
compact_level(i) ==
    /\ MayCompact(i)
    /\ sync' = [step |-> "remove", todo |-> levels[i + 1], merging |-> levels[i + 1], to |-> i + 1]
    /\ levels' = [levels EXCEPT ![i + 1] = << >>]
    /\ UNCHANGED << setup, status, memtable, named, table, disk, store, manifest, saved,
                    faults, removed, compacted, excuses >>

\* The file stays (mutant).
Unlink_keeping(f) == UNCHANGED << disk, faults, excuses >>

\* An error of remove_file is ignored, and the file stays (kept).
Unlink(f) ==
    \/ disk' = [disk EXCEPT ![f] = "absent"] /\ UNCHANGED << faults, excuses >>
    \/ Fault /\ excuses' = excuses \cup { << f, "kept" >> } /\ UNCHANGED disk

remove_file ==
    /\ status = "up" /\ sync.step = "remove" /\ sync.todo # << >>
    /\ Unlink(Head(sync.todo))
    /\ compacted' = compacted \cup {Head(sync.todo)}
    /\ sync' = [sync EXCEPT !.todo = Tail(@)]
    /\ UNCHANGED << setup, status, memtable, named, table, levels, store, manifest, saved, removed >>

\* SsTable::write creates the file, with the empty dictionary that the
\* CompactionManager was made with.
compact_create ==
    /\ status = "up" /\ sync.step = "remove" /\ sync.todo = << >> /\ Len(table) < MaxFiles
    /\ \E names \in Filters("never") :
        table' = Append(table, [level |-> sync.to, rows |-> Merged(sync.merging), names |-> names])
    /\ disk' = [disk EXCEPT ![Len(table) + 1] = "cut"]
    /\ sync' = [sync EXCEPT !.step = "write"]
    /\ UNCHANGED << setup, status, memtable, named, levels, store, manifest, saved,
                    faults, removed, compacted, excuses >>

\* And writes it; then the table is added to its level.  It is the last one of all:
\* the lock keeps flushes out.
compact_write ==
    /\ status = "up" /\ sync.step = "write"
    /\ disk' = [disk EXCEPT ![Len(table)] = "whole"]
    /\ levels' = [levels EXCEPT ![sync.to + 1] = Append(@, Len(table))]
    /\ sync' = IF sync.to = 1 THEN Deeper ELSE Idle
    /\ UNCHANGED << setup, status, memtable, named, table, store, manifest, saved,
                    faults, removed, compacted, excuses >>

\* The disk is full: compact returns the error, what it has merged is dropped.
compact_error ==
    /\ status = "up"
    /\ sync.step = "write" \/ (sync.step = "remove" /\ sync.todo = << >>)
    /\ Fault
    /\ excuses' = excuses \cup { << f, "dropped" >> : f \in Range(sync.merging) }
    /\ sync' = Idle
    /\ UNCHANGED << setup, status, memtable, named, table, levels, disk, store, manifest, saved,
                    removed, compacted >>

compact_end ==
    /\ sync = Deeper /\ ~MayCompact(1)
    /\ sync' = Idle
    /\ UNCHANGED << setup, status, memtable, named, table, levels, disk, store, manifest, saved,
                    faults, removed, compacted, excuses >>

(***************************************************************************)
(* sync_tables, under the compaction lock (for reading) and the lock of    *)
(* the manifest from its beginning to its end.                             *)
(***************************************************************************)

Skipped(f) == table[f].level < setup.min_level \/ f \in manifest \/ disk[f] = "absent"

\* The tables that are not skipped are the same now as when their turn comes: both
\* locks are held, and a copy that has no entry is neither removed nor downloaded.
\* With none of them sync_tables changes nothing.
sync_cold_tier ==
    LET todo == SelectAt(AllTables, { p \in DOMAIN AllTables : ~Skipped(AllTables[p]) })
    IN  /\ status = "up" /\ sync = Idle /\ todo # << >>
        /\ sync' = [Idle EXCEPT !.step = "upload", !.todo = todo]
        /\ UNCHANGED << setup, status, memtable, named, table, levels, disk, store, manifest, saved,
                        faults, removed, compacted, excuses >>

\* The entry is made before the upload (mutant).
Upload_entry_first(f) ==
    /\ manifest' = manifest \cup {f}
    /\ \/ store' = store \cup {f} /\ sync' = [sync EXCEPT !.todo = Tail(@)]
          /\ UNCHANGED faults
       \/ Fault /\ sync' = Idle /\ UNCHANGED store

\* The file is read and put into the store, then gets its entry.  An error ends
\* the sync at once, and the entries made before it are not saved.
Upload(f) ==
    \/ /\ store' = store \cup {f}
       /\ manifest' = manifest \cup {f}
       /\ sync' = [sync EXCEPT !.todo = Tail(@)]
       /\ UNCHANGED faults
    \/ Fault /\ sync' = Idle /\ UNCHANGED << store, manifest >>

sync_table ==
    /\ status = "up" /\ sync.step = "upload" /\ sync.todo # << >>
    /\ Upload(Head(sync.todo))
    /\ UNCHANGED << setup, status, memtable, named, table, levels, disk, saved, removed, compacted, excuses >>

\* save_manifest: the file is truncated, then written.
save_manifest_truncate ==
    /\ status = "up" /\ sync.step = "upload" /\ sync.todo = << >>
    /\ sync' = [sync EXCEPT !.step = "save"]
    /\ saved' = Cut
    /\ UNCHANGED << setup, status, memtable, named, table, levels, disk, store, manifest,
                    faults, removed, compacted, excuses >>

save_manifest_write ==
    /\ status = "up" /\ sync.step = "save"
    /\ saved' = manifest
    /\ sync' = Idle
    /\ UNCHANGED << setup, status, memtable, named, table, levels, disk, store, manifest,
                    faults, removed, compacted, excuses >>

\* The disk is full: sync_tables returns an error, the file stays as it is.
save_manifest_error ==
    /\ status = "up" /\ sync.step = "save"
    /\ Fault
    /\ sync' = Idle
    /\ UNCHANGED << setup, status, memtable, named, table, levels, disk, store, manifest, saved,
                    removed, compacted, excuses >>

(***************************************************************************)
(* The environment.                                                        *)
(***************************************************************************)

\* An operator frees the local copy of a table that ColdTier::is_synced.
RemoveLocal(f) ==
    /\ status = "up" /\ removed < MaxRemoved
    /\ f \in InUse /\ f \in manifest /\ disk[f] = "whole"
    /\ disk' = [disk EXCEPT ![f] = "absent"]
    /\ removed' = removed + 1
    /\ UNCHANGED << setup, status, memtable, named, table, levels, store, manifest, saved, sync,
                    faults, compacted, excuses >>

\* The process ends; the operator opens the database again.
CrashCold ==
    /\ status = "up" /\ Fault
    /\ status' = "down"
    /\ named' = IF named = "never" THEN "never" ELSE "forgotten"
    /\ excuses' = excuses
            \cup { << f, "unlisted" >> : f \in { g \in InUse : disk[g] = "absent" } }
            \cup { << f, "dropped" >> : f \in { g \in Range(sync.merging) : disk[g] = "absent" } }
    /\ levels' = << << >>, << >>, << >> >>
    /\ manifest' = {}
    /\ sync' = Idle
    /\ UNCHANGED << setup, memtable, table, disk, store, saved, removed, compacted >>

\* The sequences of the members of S, one for each order that read_dir may have.
Orders(S) == { s \in [1 .. Cardinality(S) -> S] : Range(s) = S }

\* LsmTree::open: the manifest must parse, and load_sstables opens every table in
\* the directory, and no other; one that cannot be opened is the end of it.
open ==
    /\ status = "down"
    /\ IF \/ saved = Cut
          \/ \E f \in File : disk[f] = "cut" \/ (disk[f] = "whole" /\ setup.opens = "panic")
       THEN status' = "failed" /\ UNCHANGED << manifest, levels >>
       ELSE LET Of(i) == { f \in DOMAIN table : disk[f] = "whole" /\ table[f].level = i }
            IN  /\ status' = "up"
                /\ manifest' = saved
                /\ \E a \in Orders(Of(0)), b \in Orders(Of(1)), c \in Orders(Of(2)) : levels' = << a, b, c >>
    /\ UNCHANGED << setup, memtable, named, table, disk, store, saved, sync, faults, removed, compacted, excuses >>

ColdNext ==
    \/ \E keys \in Batches : insert_batch(keys)
    \/ flush_memtable
    \/ \E i \in 0 .. 1 : compact_level(i)
    \/ remove_file \/ compact_create \/ compact_write \/ compact_error \/ compact_end
    \/ sync_cold_tier \/ sync_table
    \/ save_manifest_truncate \/ save_manifest_write \/ save_manifest_error
    \/ \E f \in File : RemoveLocal(f)
    \/ open
=============================================================================
