------------------------------- MODULE LsmTree -------------------------------
(***************************************************************************)
(* The storage engine of graphite-core/src/lsm.rs with compaction.rs: what *)
(* the operations do to the memtable, the WAL, the SSTables, the symbol    *)
(* dictionary and the replication tracker, one action per region between   *)
(* two lock operations, so that the steps of concurrent calls interleave   *)
(* as the locks allow.  A crash may fall between any two steps.            *)
(*                                                                         *)
(* A tick is the key (symbol id, timestamp) and a version: the ticks       *)
(* written are numbered from 1, and the number stands for prices and       *)
(* volume.  A set of rows maps every key to a version, 0 meaning absent.   *)
(*                                                                         *)
(* Only locks that are held from one action to the next are variables      *)
(* (module LsmLocks has all of them).  The WAL is the list of records that *)
(* replay() returns; module Wal justifies that an appended record survives *)
(* a crash and says when the log cannot be opened at all.                  *)
(***************************************************************************)
EXTENDS Naturals, Sequences, FiniteSets, SequencesExt, Selection

CONSTANTS
    Thread,          \* the threads that use the LsmTree
    None,            \* "no thread"
    Symbol,          \* symbol names
    Timestamp,       \* timestamps: a set of naturals
    Written,         \* the (symbol, timestamp) pairs that clients write
    Roles,           \* the roles a node may be configured with
    Workloads,       \* what the threads may be set to do: see Workload
    MaxTicks,        \* bound: ticks written
    MaxBatch,        \* bound: ticks of one batch
    MaxFiles,        \* bound: SSTable files written
    MaxCrashes,      \* bound: crashes
    FlushThreshold,  \* config.memtable_flush_threshold
    L0MaxTables,     \* L0_MAX_TABLES
    LevelTarget,     \* block_size_target(), in rows
    LevelRatio,      \* LEVEL_SIZE_RATIO
    OpenOutcomes     \* what SsTable::open does: subset of {"rows", "panic"}

(***************************************************************************)
(* OpenOutcomes.  SsTable::open documents that it opens a table for        *)
(* reading: "rows".  With the header of 6 bytes that write() produces and  *)
(* the data offset of 8 it records, read_index takes a count of at least   *)
(* 65536 from the wrong place and slices out of bounds: "panic".  Both are *)
(* checked, the second being the code as it stands, the first what the     *)
(* engine above the file format makes of readable tables.                  *)
(***************************************************************************)

OpNames == {"insert", "insert_batch", "apply", "flush", "get", "scan", "compact"}

\* A workload: the operations that each thread calls, and, a bound, the failed
\* writes to the WAL, to SSTables and to the directory.
Workload == [ops : [Thread -> SUBSET OpNames], maxIoErrors : Nat]

ASSUME LsmAssumption ==
    /\ None \notin Thread
    /\ IsFiniteSet(Symbol)
    /\ Timestamp \subseteq Nat /\ IsFiniteSet(Timestamp)
    /\ Written \subseteq Symbol \X Timestamp
    /\ Roles \subseteq {"Primary", "Replica"}
    /\ Workloads \subseteq Workload
    /\ {MaxTicks, MaxBatch, MaxFiles, MaxCrashes, FlushThreshold} \subseteq Nat
    /\ {L0MaxTables, LevelTarget, LevelRatio} \subseteq Nat \ {0}
    /\ OpenOutcomes \subseteq {"rows", "panic"}

Id == 0 .. Cardinality(Symbol) - 1
Key == Id \X Timestamp
Version == 0 .. MaxTicks
Rows == [Key -> Version]
NoRows == [k \in Key |-> 0]

Tick == [key : Key, ver : Version]

VARIABLES
    work,        \* the workload
    role,        \* config.node_role
    opens,       \* which SsTable::open is in place
    status,      \* "up", "down", or "failed": LsmTree::open failed
    dict,        \* symbol_dict: names in the order of their ids
    mem,         \* memtable
    wal,         \* the records in wal.log
    files,       \* files[f]: the SSTable files in the data directory
    nextFile,    \* the clock that file names are made from
    levels,      \* levels[i + 1]: the tables of level i, in memory
    applied,     \* last_primary_sequence in memory, 0 for None
    recorded,    \* the same in replication.json, or Cut
    pc,          \* pc[t]: what thread t does next
    loc,         \* loc[t]: its local variables
    dictW,       \* the thread that holds symbol_dict for writing, or None
    dictR,       \* the threads that hold it for reading
    memW,        \* the thread that holds memtable for writing, or None
    compW,       \* the thread that holds compaction for writing, or None
    origin,      \* history: origin[v]: symbol, timestamp and id version v was written with
    acked,       \* history: versions whose call returned Ok
    replicated,  \* history: the replication batches, each the set of its versions
    hazards,     \* history: what has happened that excuses a loss (below)
    answer,      \* the result of the read that ended in the last step
    crashes,     \* history: for each crash, how many ticks had been written by then
    ioErrors     \* the number of failed writes so far

shared == << dict, mem, wal, files, nextFile, levels, applied, recorded >>
locks == << dictW, dictR, memW, compW >>
history == << origin, acked, replicated, hazards, crashes, ioErrors >>
vars == << work, role, opens, status, shared, pc, loc, locks, history, answer >>

(***************************************************************************)
(* Local variables of a call.                                              *)
(***************************************************************************)
NoLoc == [ticks |-> << >>, rows |-> NoRows, after |-> "idle", file |-> 0,
          level |-> 0, bound |-> 0, pair |-> << >>, key |-> << >>,
          found |-> 0, owed |-> 0, gap |-> FALSE]

Loc == [ticks : Seq(Tick), rows : Rows, after : {"idle", "a_advance"}, file : 0 .. MaxFiles,
        level : Nat, bound : Nat, pair : (Symbol \X Timestamp) \cup {<< >>},
        key : Key \cup {<< >>}, found : Version, owed : Version, gap : BOOLEAN]

NoAnswer == [op |-> "none"]

\* A replication.json that was cut short.
Cut == MaxTicks + 1

Pc == {"idle", "i_wal", "i_mem", "i_len", "b_mem", "b_wal", "b_len",
       "a_wal", "a_mem", "a_advance", "f_drain", "f_write", "f_sync", "f_add",
       "f_truncate", "g_mem", "g_tables", "s_mem", "s_tables",
       "c_read", "c_write", "c_sync", "c_next"}

(***************************************************************************)
(* Hazards: the circumstances under which the engine does lose, hide or    *)
(* confuse ticks.  The properties say that nothing else does.              *)
(*   overlap    while a flush was between its drain and its truncate, a    *)
(*              tick was logged, was between the log and the memtable, or  *)
(*              was drained by a second flush                              *)
(*   failed     a flush or a compaction could not write its table          *)
(*   merged     a compaction merged two tables with the same key           *)
(*   torn       a crash hit a compaction that had begun to remove tables   *)
(*   crossed    a replication batch was applied beside another write       *)
(*   remapped   after a restart a symbol got the id of another one         *)
(*   reloaded   a restart loaded two tables of a level, in any order       *)
(*   kept       a compaction could not remove one of its tables            *)
(*   unnamed    a table was written without the names of its symbols       *)
(*   skewed     a table was written whose time range leaves out a row      *)
(***************************************************************************)
HazardNames ==
    {"overlap", "failed", "merged", "torn", "crossed", "remapped", "reloaded",
     "kept", "unnamed", "skewed"}

TypeOK ==
    /\ work \in Workloads
    /\ role \in Roles
    /\ opens \in OpenOutcomes
    /\ status \in {"up", "down", "failed"}
    /\ dict \in Seq(Symbol) /\ Len(dict) = Cardinality({ dict[i] : i \in DOMAIN dict })
    /\ mem \in Rows
    /\ wal \in Seq(Tick)
    /\ DOMAIN files \subseteq 1 .. MaxFiles
    /\ \A f \in DOMAIN files :
        files[f] \in [rows : Rows, level : Nat, whole : BOOLEAN, names : SUBSET (Symbol \cup {None})]
    /\ levels \in Seq(Seq([file : 1 .. MaxFiles, size : Nat])) /\ levels # << >>
    /\ nextFile \in 1 .. MaxFiles + 1
    /\ applied \in 0 .. MaxTicks /\ recorded \in 0 .. MaxTicks \cup {Cut}
    /\ pc \in [Thread -> Pc]
    /\ loc \in [Thread -> Loc]
    /\ {dictW, memW, compW} \subseteq Thread \cup {None}
    /\ dictR \subseteq Thread
    /\ origin \in Seq(Symbol \X Timestamp \X Id) /\ Len(origin) <= MaxTicks
    /\ acked \cup UNION replicated \subseteq 1 .. Len(origin)
    /\ hazards \subseteq HazardNames
    /\ crashes \in Seq(0 .. MaxTicks) /\ Len(crashes) <= MaxCrashes /\ ioErrors \in 0 .. work.maxIoErrors

Init ==
    /\ work \in Workloads
    /\ role \in Roles
    /\ opens \in OpenOutcomes
    /\ status = "up"
    /\ dict = << >>
    /\ mem = NoRows
    /\ wal = << >>
    /\ files = << >>
    /\ nextFile = 1
    /\ levels = << << >> >>
    /\ applied = 0 /\ recorded = 0
    /\ pc = [t \in Thread |-> "idle"]
    /\ loc = [t \in Thread |-> NoLoc]
    /\ dictW = None /\ dictR = {} /\ memW = None /\ compW = None
    /\ origin = << >>
    /\ acked = {} /\ replicated = {} /\ hazards = {}
    /\ answer = NoAnswer
    /\ crashes = << >> /\ ioErrors = 0

(***************************************************************************)
(* Helpers.                                                                *)
(***************************************************************************)

Known(d) == { d[i] : i \in 1 .. Len(d) }

\* A symbol that is known gets another id (mutant).
get_or_insert_always(d, s) == Append(d, s)

\* SymbolDictionary::get_or_insert and get_id.
get_or_insert(d, s) == IF s \in Known(d) THEN d ELSE Append(d, s)
get_id(d, s) == (CHOOSE i \in 1 .. Len(d) : d[i] = s) - 1
\* get_symbol(id).unwrap_or("UNKNOWN"); None stands for "UNKNOWN".
name_of(d, id) == IF id + 1 \in 1 .. Len(d) THEN d[id + 1] ELSE None

\* A key that is there keeps its value (mutant).
mem_insert_keeping(m, ticks) ==
    [k \in Key |->
        LET mine == { i \in 1 .. Len(ticks) : ticks[i].key = k }
        IN  IF mine = {} \/ m[k] # 0 THEN m[k] ELSE ticks[Max(mine)].ver]

\* SkipList::insert: the last write to a key wins.
mem_insert(m, ticks) ==
    [k \in Key |->
        LET mine == { i \in 1 .. Len(ticks) : ticks[i].key = k }
        IN  IF mine = {} THEN m[k] ELSE ticks[Max(mine)].ver]

PresentKeys(rows) == { k \in Key : rows[k] # 0 }
mem_len(m) == Cardinality(PresentKeys(m))
\* SkipList::get, 0 standing for None.
mem_get(m, key) == m[key]

\* The dictionary after the symbols of a batch, in its order.
resolve_all(d, pairs) ==
    LET after[i \in 0 .. Len(pairs)] ==
            IF i = 0 THEN d ELSE get_or_insert(after[i - 1], pairs[i][1])
    IN  after[Len(pairs)]

\* Every tick of the batch gets the id of its first symbol (mutant).
ticks_of_one_symbol(d, pairs) ==
    [i \in 1 .. Len(pairs) |->
        [key |-> << get_id(d, pairs[1][1]), pairs[i][2] >>, ver |-> Len(origin) + i]]

\* The ticks of a batch: versions follow the ones given out so far.
ticks_of(d, pairs) ==
    [i \in 1 .. Len(pairs) |->
        [key |-> << get_id(d, pairs[i][1]), pairs[i][2] >>, ver |-> Len(origin) + i]]

Origins(d, pairs) ==
    [i \in 1 .. Len(pairs) |-> << pairs[i][1], pairs[i][2], get_id(d, pairs[i][1]) >>]

\* Some symbol of the batch has an id that an earlier tick of another one has.
Remaps(d, pairs) ==
    \E v \in 1 .. Len(origin), i \in 1 .. Len(pairs) :
        /\ origin[v][1] # pairs[i][1]
        /\ origin[v][3] = get_id(d, pairs[i][1])

Versions(ticks) == { ticks[i].ver : i \in 1 .. Len(ticks) }

\* Threads between logging a tick and putting it into the memtable.
Logged == { t \in Thread : pc[t] \in {"i_mem", "a_mem"} }
\* Threads between the drain and the add_table, or the truncate, of a flush.
Draining == { t \in Thread : pc[t] \in {"f_write", "f_sync", "f_add"} }
Flushing == Draining \cup { t \in Thread : pc[t] = "f_truncate" }
\* Threads in a write, and those of them that apply a replication batch.
Applying == { t \in Thread : pc[t] \in {"a_wal", "a_mem", "a_advance"}
                                \/ loc[t].after = "a_advance" }
Writing == { t \in Thread : pc[t] \in {"i_wal", "i_mem", "i_len", "b_mem", "b_wal", "b_len"} }
             \cup Applying

Reading == { t \in Thread : pc[t] \in {"g_mem", "g_tables", "s_mem", "s_tables"} }

Note(hs) == hazards' = hazards \cup hs
When(condition, h) == IF condition THEN {h} ELSE {}

Goto(t, label) == pc' = [pc EXCEPT ![t] = label]

\* Thread t's call ends; ticks are the ones it acknowledges.
Return(t, vers) ==
    /\ pc' = [pc EXCEPT ![t] = "idle"]
    /\ loc' = [loc EXCEPT ![t] = NoLoc]
    /\ acked' = acked \cup vers

Up == status = "up"
May(t, op) == Up /\ pc[t] = "idle" /\ op \in work.ops[t]
DictFree == dictW = None /\ dictR = {}

\* The versions that can be brought back from the disk: logged, or in a table
\* that has been written completely.
DurableVersions ==
    Versions(wal) \cup { files[f].rows[k] : f \in { g \in DOMAIN files : files[g].whole }, k \in Key }

(***************************************************************************)
(* insert.  The dictionary is held for writing until the call returns.     *)
(***************************************************************************)

insert(t) ==
    /\ May(t, "insert")
    /\ role = "Primary"
    /\ DictFree
    /\ Len(origin) < MaxTicks
    /\ \E pair \in Written :
        /\ dict' = get_or_insert(dict, pair[1])
        /\ loc' = [loc EXCEPT ![t].ticks = ticks_of(dict', << pair >>)]
        /\ origin' = origin \o Origins(dict', << pair >>)
        /\ Note(When(Remaps(dict', << pair >>), "remapped"))
    /\ dictW' = t
    /\ Goto(t, "i_wal")
    /\ answer' = NoAnswer
    /\ UNCHANGED << work, role, opens, status, mem, wal, files, nextFile, levels, applied, recorded, dictR, memW,
                    compW, acked, replicated, crashes, ioErrors >>

\* append (or append_batch) of the ticks of t, then on to the next label.
Log(t, label) ==
    /\ wal' = wal \o loc[t].ticks
    /\ Note(When(Flushing # {}, "overlap"))
    /\ Goto(t, label)
    /\ answer' = NoAnswer
    /\ UNCHANGED << work, role, opens, status, dict, mem, files, nextFile, levels, applied, recorded, loc, locks,
                    origin, acked, replicated, crashes, ioErrors >>

insert_wal(t) == Up /\ pc[t] = "i_wal" /\ Log(t, "i_mem")

\* memtable.write().insert of the ticks of t.
Put(t) == mem' = mem_insert(mem, loc[t].ticks)

insert_memtable(t) ==
    /\ Up /\ pc[t] = "i_mem"
    /\ memW = None
    /\ Put(t)
    /\ Goto(t, "i_len")
    /\ answer' = NoAnswer
    /\ UNCHANGED << work, role, opens, status, dict, wal, files, nextFile, levels, applied, recorded, loc, locks, history >>

\* The flush runs with the dictionary still held for writing.
insert_done(t) ==
    /\ Up /\ pc[t] = "i_len"
    /\ memW = None
    /\ IF mem_len(mem) >= FlushThreshold
       THEN /\ Goto(t, "f_drain")
            /\ UNCHANGED << loc, dictW, acked >>
       ELSE /\ Return(t, Versions(loc[t].ticks))
            /\ dictW' = None
    /\ answer' = NoAnswer
    /\ UNCHANGED << work, role, opens, status, shared, dictR, memW, compW,
                    origin, replicated, hazards, crashes, ioErrors >>

\* A failed append: some of the records may be in the log, the ? returns and
\* drops the guards; a batch has by then changed the memtable.
wal_error(t) ==
    /\ ioErrors < work.maxIoErrors
    /\ ioErrors' = ioErrors + 1
    /\ Up /\ pc[t] \in {"i_wal", "b_wal", "a_wal"}
    /\ \E n \in 0 .. Len(loc[t].ticks) : wal' = wal \o SubSeq(loc[t].ticks, 1, n)
    /\ Return(t, {})
    /\ dictW' = IF dictW = t THEN None ELSE dictW
    /\ memW' = IF memW = t THEN None ELSE memW
    /\ answer' = NoAnswer
    /\ UNCHANGED << work, role, opens, status, dict, mem, files, nextFile, levels, applied, recorded, dictR,
                    compW, origin, replicated, hazards, crashes >>

(***************************************************************************)
(* insert_batch and insert_multi: memtable first, then the WAL, with both  *)
(* guards held.  Neither looks at the role.                                *)
(***************************************************************************)

Batches == UNION { [1 .. n -> Written] : n \in 1 .. MaxBatch }

insert_batch(t) ==
    /\ May(t, "insert_batch")
    /\ DictFree
    /\ \E pairs \in Batches :
        /\ Len(origin) + Len(pairs) <= MaxTicks
        /\ dict' = resolve_all(dict, pairs)
        /\ loc' = [loc EXCEPT ![t].ticks = ticks_of(dict', pairs)]
        /\ origin' = origin \o Origins(dict', pairs)
        /\ Note(When(Remaps(dict', pairs), "remapped") \cup When(Applying # {}, "crossed"))
    /\ dictW' = t
    /\ Goto(t, "b_mem")
    /\ answer' = NoAnswer
    /\ UNCHANGED << work, role, opens, status, mem, wal, files, nextFile, levels, applied, recorded, dictR, memW,
                    compW, acked, replicated, crashes, ioErrors >>

batch_memtable(t) ==
    /\ Up /\ pc[t] = "b_mem"
    /\ memW = None
    /\ memW' = t
    /\ Put(t)
    /\ Goto(t, "b_wal")
    /\ answer' = NoAnswer
    /\ UNCHANGED << work, role, opens, status, dict, wal, files, nextFile, levels, applied, recorded, loc, dictW,
                    dictR, compW, history >>

batch_wal(t) == Up /\ pc[t] = "b_wal" /\ Log(t, "b_len")

batch_done(t) ==
    /\ Up /\ pc[t] = "b_len"
    /\ memW' = None
    /\ IF mem_len(mem) >= FlushThreshold
       THEN /\ Goto(t, "f_drain")
            /\ UNCHANGED << loc, dictW, acked >>
       ELSE /\ Return(t, Versions(loc[t].ticks))
            /\ dictW' = None
    /\ answer' = NoAnswer
    /\ UNCHANGED << work, role, opens, status, shared, dictR, compW, origin, replicated,
                    hazards, crashes, ioErrors >>

(***************************************************************************)
(* apply_replication_batch.  An entry's sequence number is its version.    *)
(***************************************************************************)

\* ReplicationTracker::advance: never back.
advance(current, sequence) == IF sequence >= current THEN sequence ELSE current

\* The tracker advances before the batch is logged (mutant).
apply_replication_batch_early(t) ==
    /\ May(t, "apply")
    /\ role = "Replica"
    /\ DictFree
    /\ \E pairs \in Batches :
        /\ Len(origin) + Len(pairs) <= MaxTicks
        /\ dict' = resolve_all(dict, pairs)
        /\ loc' = [loc EXCEPT ![t].ticks = ticks_of(dict', pairs)]
        /\ origin' = origin \o Origins(dict', pairs)
        /\ Note(When(Remaps(dict', pairs), "remapped") \cup When(Writing # {}, "crossed"))
        /\ applied' = advance(applied, Len(origin'))
        /\ replicated' = replicated \cup {Versions(ticks_of(dict', pairs))}
    /\ Goto(t, "a_wal")
    /\ answer' = NoAnswer
    /\ UNCHANGED << work, role, opens, status, mem, wal, files, nextFile, levels, recorded, locks, acked,
                    crashes, ioErrors >>

apply_replication_batch(t) ==
    /\ May(t, "apply")
    /\ role = "Replica"
    /\ DictFree
    /\ \E pairs \in Batches :
        /\ Len(origin) + Len(pairs) <= MaxTicks
        /\ dict' = resolve_all(dict, pairs)
        /\ loc' = [loc EXCEPT ![t].ticks = ticks_of(dict', pairs)]
        /\ origin' = origin \o Origins(dict', pairs)
        /\ Note(When(Remaps(dict', pairs), "remapped") \cup When(Writing # {}, "crossed"))
        /\ replicated' = replicated \cup {Versions(ticks_of(dict', pairs))}
    /\ Goto(t, "a_wal")
    /\ answer' = NoAnswer
    /\ UNCHANGED << work, role, opens, status, mem, wal, files, nextFile, levels, applied, recorded, locks, acked,
                    crashes, ioErrors >>

apply_wal(t) == Up /\ pc[t] = "a_wal" /\ Log(t, "a_mem")

apply_memtable(t) ==
    /\ Up /\ pc[t] = "a_mem"
    /\ memW = None
    /\ Put(t)
    /\ IF mem_len(mem') >= FlushThreshold
       THEN /\ Goto(t, "f_drain")
            /\ loc' = [loc EXCEPT ![t].after = "a_advance"]
       ELSE /\ Goto(t, "a_advance")
            /\ UNCHANGED loc
    /\ answer' = NoAnswer
    /\ UNCHANGED << work, role, opens, status, dict, wal, files, nextFile, levels, applied, recorded, locks, history >>

apply_advance(t) ==
    /\ Up /\ pc[t] = "a_advance"
    /\ applied' = advance(applied, Max(Versions(loc[t].ticks)))
    /\ recorded' = IF applied' = applied THEN recorded ELSE applied'
    /\ Return(t, Versions(loc[t].ticks))
    /\ answer' = NoAnswer
    /\ UNCHANGED << work, role, opens, status, dict, mem, wal, files, nextFile, levels, locks, origin,
                    replicated, hazards, crashes, ioErrors >>

\* The write of replication.json fails, after the state in memory has changed.
advance_error(t) ==
    /\ ioErrors < work.maxIoErrors
    /\ ioErrors' = ioErrors + 1
    /\ Up /\ pc[t] = "a_advance"
    /\ applied' = advance(applied, Max(Versions(loc[t].ticks)))
    /\ applied' # applied
    /\ recorded' \in {recorded, Cut}
    /\ Return(t, {})
    /\ answer' = NoAnswer
    /\ UNCHANGED << work, role, opens, status, dict, mem, wal, files, nextFile, levels, locks, origin,
                    replicated, hazards, crashes >>

(***************************************************************************)
(* flush_memtable, called by a client or at the end of a write.            *)
(***************************************************************************)

\* Where the call that ran the flush goes on.  (An insert drops its guard.)
AfterFlush(t) ==
    IF loc[t].after = "a_advance"
    THEN /\ Goto(t, "a_advance")
         /\ loc' = [loc EXCEPT ![t].after = "idle", ![t].rows = NoRows, ![t].file = 0]
         /\ UNCHANGED << dictW, acked >>
    ELSE /\ Return(t, Versions(loc[t].ticks))
         /\ dictW' = IF dictW = t THEN None ELSE dictW

flush_memtable(t) ==
    /\ May(t, "flush")
    /\ Goto(t, "f_drain")
    /\ answer' = NoAnswer
    /\ UNCHANGED << work, role, opens, status, shared, loc, locks, history >>

flush_drain(t) ==
    /\ Up /\ pc[t] = "f_drain"
    /\ memW = None
    /\ mem' = NoRows
    /\ IF mem = NoRows
       THEN AfterFlush(t) /\ UNCHANGED hazards
       ELSE /\ Goto(t, "f_write")
            /\ loc' = [u \in Thread |->
                        CASE u = t -> [loc[u] EXCEPT !.rows = mem]
                          [] u \in Reading -> [loc[u] EXCEPT !.gap = TRUE]
                          [] OTHER -> loc[u]]
            /\ Note(When(Logged # {} \/ Flushing # {}, "overlap"))
            /\ UNCHANGED << dictW, acked >>
    /\ answer' = NoAnswer
    /\ UNCHANGED << work, role, opens, status, dict, wal, files, nextFile, levels, applied, recorded, dictR, memW,
                    compW, origin, replicated, crashes, ioErrors >>

Before(j, k) == j[1] < k[1] \/ (j[1] = k[1] /\ j[2] < k[2])

\* overlaps_time_range: the range is taken from the first and the last row in
\* the order of (symbol id, timestamp).
overlaps_time(rows, ts) ==
    \E first, last \in PresentKeys(rows) :
        /\ \A k \in PresentKeys(rows) : ~Before(k, first) /\ ~Before(last, k)
        /\ first[2] <= ts /\ ts <= last[2]

\* The upper bound is exclusive (mutant).
overlaps_symbol_below(rows, id) ==
    \E j, k \in PresentKeys(rows) : j[1] <= id /\ id < k[1]

overlaps_symbol(rows, id) ==
    \E j, k \in PresentKeys(rows) : j[1] <= id /\ id <= k[1]

\* The file SsTable::write makes of rows; the names go into its bloom filter.
Table(rows, level, d, whole) ==
    [rows |-> rows, level |-> level, whole |-> whole,
     names |-> { name_of(d, k[1]) : k \in PresentKeys(rows) }]

\* SsTable::write creates the file; its contents are there after the sync.
CreateFile(t, level, d) ==
    /\ nextFile <= MaxFiles
    /\ files' = [g \in DOMAIN files \cup {nextFile} |->
                    IF g = nextFile THEN Table(loc[t].rows, level, d, FALSE) ELSE files[g]]
    /\ nextFile' = nextFile + 1
    /\ loc' = [loc EXCEPT ![t].file = nextFile]
    /\ Note(When(None \in files'[nextFile].names, "unnamed") \cup
            When(\E k \in PresentKeys(loc[t].rows) : ~overlaps_time(loc[t].rows, k[2]), "skewed"))

SyncFile(t) == files' = [files EXCEPT ![loc[t].file].whole = TRUE]

\* The handle that add_table keeps in memory.
Handle(f) == [file |-> f, size |-> mem_len(files[f].rows)]

\* The WAL is emptied before the table has been synced (mutant).
flush_write_truncating(t) ==
    /\ Up /\ pc[t] = "f_write"
    /\ dictW = None
    /\ CreateFile(t, 0, dict)
    /\ wal' = << >>
    /\ Goto(t, "f_sync")
    /\ answer' = NoAnswer
    /\ UNCHANGED << work, role, opens, status, dict, mem, levels, applied, recorded, locks,
                    origin, acked, replicated, crashes, ioErrors >>

flush_write(t) ==
    /\ Up /\ pc[t] = "f_write"
    /\ dictW = None
    /\ CreateFile(t, 0, dict)
    /\ Goto(t, "f_sync")
    /\ answer' = NoAnswer
    /\ UNCHANGED << work, role, opens, status, dict, mem, wal, levels, applied, recorded, locks,
                    origin, acked, replicated, crashes, ioErrors >>

flush_sync(t) ==
    /\ Up /\ pc[t] = "f_sync"
    /\ SyncFile(t)
    /\ Goto(t, "f_add")
    /\ answer' = NoAnswer
    /\ UNCHANGED << work, role, opens, status, dict, mem, wal, nextFile, levels, applied, recorded, loc,
                    locks, history >>

\* SsTable::write fails: the drained or merged rows are in no table, and a file
\* that it has created stays.
write_error(t) ==
    /\ ioErrors < work.maxIoErrors
    /\ ioErrors' = ioErrors + 1
    /\ Up /\ pc[t] \in {"f_write", "f_sync", "c_write", "c_sync"}
    /\ pc[t] = "f_write" => dictW = None
    /\ Return(t, {})
    /\ dictW' = IF dictW = t THEN None ELSE dictW
    /\ compW' = IF compW = t THEN None ELSE compW
    /\ Note({"failed"})
    /\ answer' = NoAnswer
    /\ UNCHANGED << work, role, opens, status, shared, dictR, memW, origin, replicated, crashes >>

flush_add(t) ==
    /\ Up /\ pc[t] = "f_add"
    /\ compW = None
    /\ levels' = [levels EXCEPT ![1] = Append(@, Handle(loc[t].file))]
    /\ Goto(t, "f_truncate")
    /\ answer' = NoAnswer
    /\ UNCHANGED << work, role, opens, status, dict, mem, wal, files, nextFile, applied, recorded, loc,
                    locks, history >>

flush_truncate(t) ==
    /\ Up /\ pc[t] = "f_truncate"
    /\ wal' = << >>
    /\ AfterFlush(t)
    /\ answer' = NoAnswer
    /\ UNCHANGED << work, role, opens, status, dict, mem, files, nextFile, levels, applied, recorded, dictR,
                    memW, compW, origin, replicated, hazards, crashes, ioErrors >>

\* The sync of truncate fails, or its set_len: the ? of the caller returns.
truncate_error(t) ==
    /\ ioErrors < work.maxIoErrors
    /\ ioErrors' = ioErrors + 1
    /\ Up /\ pc[t] = "f_truncate"
    /\ wal' \in {wal, << >>}
    /\ Return(t, {})
    /\ dictW' = IF dictW = t THEN None ELSE dictW
    /\ answer' = NoAnswer
    /\ UNCHANGED << work, role, opens, status, dict, mem, files, nextFile, levels, applied, recorded,
                    dictR, memW, compW, origin, replicated, hazards, crashes >>

(***************************************************************************)
(* Reading.                                                                *)
(***************************************************************************)

RowsOf(h) == files[h.file].rows
FilesOf(tables) == { tables[i].file : i \in DOMAIN tables }

\* The places of tables: the number of the level and the one in it.
Places == UNION { {i} \X DOMAIN levels[i] : i \in DOMAIN levels }
TableAt(p) == levels[p[1]][p[2]]

\* get looks at a level's newest table first, scan collects oldest first and
\* keeps the first of the rows with one key.
OldestFirst(p, q) == p[1] < q[1] \/ (p[1] = q[1] /\ p[2] <= q[2])
NewestFirst(p, q) == p[1] < q[1] \/ (p[1] = q[1] /\ p[2] >= q[2])
Comes(first, p, q) == IF first = "newest" THEN NewestFirst(p, q) ELSE OldestFirst(p, q)

\* The tables that a read of a key goes on to open.
get_opens(h, key) == overlaps_time(RowsOf(h), key[2]) /\ overlaps_symbol(RowsOf(h), key[1])
\* The bloom filter of a table has every name that was inserted into it.
may_contain_symbol(h, name) == name \in files[h.file].names
scan_opens(h, key) == get_opens(h, key) /\ may_contain_symbol(h, name_of(dict, key[1]))
\* A bloom filter may also let a key or a symbol through that is not in the table.

\* The version of a key in the table that comes first of those, at the given
\* places, that have it: of a level the newest or the oldest.
FirstFound(places, first, key) ==
    LET hits == { p \in places : RowsOf(TableAt(p))[key] # 0 }
        hit == CHOOSE p \in hits : \A q \in hits : Comes(first, p, q)
    IN  IF hits = {} THEN 0 ELSE RowsOf(TableAt(hit))[key]

\* The symbol and the timestamp that version v was written for.
PairOf(v) == << origin[v][1], origin[v][2] >>

\* The newest acknowledged version for a symbol and a timestamp.
Owed(pair) ==
    LET vs == { v \in acked : PairOf(v) = pair }
    IN  IF vs = {} THEN 0 ELSE Max(vs)

StartRead(t, op, label) ==
    /\ May(t, op)
    /\ dictW = None
    /\ \E pair \in Known(dict) \X Timestamp :
           loc' = [loc EXCEPT ![t].pair = pair,
                              ![t].key = << get_id(dict, pair[1]), pair[2] >>,
                              ![t].owed = Owed(pair), ![t].gap = Draining # {}]
    /\ Goto(t, label)
    /\ answer' = NoAnswer

\* A symbol that the dictionary does not have: both return SymbolNotFound, from
\* under the dictionary's guard.
read_not_found(t) ==
    /\ \E op \in {"get", "scan"}, pair \in Symbol \X Timestamp :
        /\ May(t, op)
        /\ dictW = None
        /\ pair[1] \notin Known(dict)
        /\ answer' = [op |-> op, pair |-> pair, ver |-> 0, owed |-> Owed(pair), gap |-> FALSE]
    /\ UNCHANGED << work, role, opens, status, shared, pc, loc, locks, history >>

Answer(t, op, ver) ==
    answer' = [op |-> op, pair |-> loc[t].pair, ver |-> ver,
               owed |-> loc[t].owed, gap |-> loc[t].gap]

\* get holds the dictionary for reading until it returns.
get(t) ==
    /\ StartRead(t, "get", "g_mem")
    /\ dictR' = dictR \cup {t}
    /\ UNCHANGED << work, role, opens, status, shared, dictW, memW, compW, history >>

get_memtable(t) ==
    /\ Up /\ pc[t] = "g_mem"
    /\ memW = None
    /\ IF mem_get(mem, loc[t].key) # 0
       THEN /\ Answer(t, "get", mem_get(mem, loc[t].key))
            /\ Return(t, {})
            /\ dictR' = dictR \ {t}
       ELSE /\ Goto(t, "g_tables")
            /\ answer' = NoAnswer
            /\ UNCHANGED << loc, dictR, acked >>
    /\ UNCHANGED << work, role, opens, status, shared, dictW, memW, compW, origin, replicated,
                    hazards, crashes, ioErrors >>

get_tables(t) ==
    /\ Up /\ pc[t] = "g_tables"
    /\ compW = None
    /\ LET key == loc[t].key
           found == FirstFound({ p \in Places : get_opens(TableAt(p), key) }, "newest", key)
       IN  /\ found # 0 => opens = "rows"
           /\ Answer(t, "get", found)
    /\ Return(t, {})
    /\ dictR' = dictR \ {t}
    /\ UNCHANGED << work, role, opens, status, shared, dictW, memW, compW, origin, replicated,
                    hazards, crashes, ioErrors >>

\* scan takes the dictionary only to look the symbol up.
scan(t) ==
    /\ StartRead(t, "scan", "s_mem")
    /\ UNCHANGED << work, role, opens, status, shared, locks, history >>

scan_memtable(t) ==
    /\ Up /\ pc[t] = "s_mem"
    /\ memW = None
    /\ loc' = [loc EXCEPT ![t].found = mem[loc[t].key]]
    /\ Goto(t, "s_tables")
    /\ answer' = NoAnswer
    /\ UNCHANGED << work, role, opens, status, shared, locks, history >>

scan_tables(t) ==
    /\ Up /\ pc[t] = "s_tables"
    /\ compW = None
    /\ LET key == loc[t].key
           inRange == { p \in Places : overlaps_time(RowsOf(TableAt(p)), key[2]) }
       IN  /\ inRange # {} => dictW = None
           /\ \E falsePositives \in SUBSET inRange :
                LET opened == { p \in inRange : \/ scan_opens(TableAt(p), key)
                                                \/ (p \in falsePositives /\ get_opens(TableAt(p), key)) }
                    found == FirstFound(opened, "oldest", key)
                IN  /\ opens = "panic" => opened = {}
                    /\ Answer(t, "scan", IF loc[t].found # 0 THEN loc[t].found ELSE found)
    /\ Return(t, {})
    /\ UNCHANGED << work, role, opens, status, shared, locks, origin, replicated, hazards, crashes, ioErrors >>

\* A read that opens a table, which panics: no answer, and the guards drop.
read_panic(t) ==
    /\ opens = "panic"
    /\ Up
    /\ compW = None
    /\ \/ /\ pc[t] = "g_tables"
          /\ \E p \in Places : get_opens(TableAt(p), loc[t].key)
       \/ /\ pc[t] = "s_tables"
          /\ dictW = None
          /\ \E p \in Places : get_opens(TableAt(p), loc[t].key)
    /\ Return(t, {})
    /\ dictR' = dictR \ {t}
    /\ answer' = NoAnswer
    /\ UNCHANGED << work, role, opens, status, shared, dictW, memW, compW, origin, replicated,
                    hazards, crashes, ioErrors >>

(***************************************************************************)
(* Compaction, under the compaction lock from the first step to the last.  *)
(***************************************************************************)

total_size(level) == FoldLeft(LAMBDA n, h : n + h.size, 0, level)

\* Level i (from 1) exceeds its target.
TooLarge(ls, i) == total_size(ls[i + 1]) > LevelRatio^i * LevelTarget

needs_compaction ==
    \/ Len(levels[1]) >= L0MaxTables
    \/ \E i \in 1 .. Len(levels) - 1 : TooLarge(levels, i)

\* Where compact() goes after level i, when the loop ends before level bound.
NextLevel(t, i, bound) ==
    LET large == { j \in i + 1 .. bound - 1 : TooLarge(levels, j) }
    IN  IF large = {}
        THEN /\ Return(t, {})
             /\ compW' = None
        ELSE /\ Goto(t, "c_read")
             /\ loc' = [loc EXCEPT ![t].level = Min(large), ![t].bound = bound]
             /\ compW' = t
             /\ UNCHANGED acked

\* The background thread asks needs_compaction first; compact asks again.
compact(t) ==
    /\ May(t, "compact")
    /\ compW = None
    /\ needs_compaction
    /\ IF Len(levels[1]) >= L0MaxTables
       THEN /\ Goto(t, "c_read")
            /\ compW' = t
            /\ UNCHANGED << loc, acked >>
       ELSE NextLevel(t, 0, Len(levels))
    /\ answer' = NoAnswer
    /\ UNCHANGED << work, role, opens, status, shared, dictW, dictR, memW, origin, replicated,
                    hazards, crashes, ioErrors >>

\* A stable sort and dedup_by: of equal keys the row of the first table stays.
merge(tables) ==
    [k \in Key |->
        LET have == { i \in DOMAIN tables : RowsOf(tables[i])[k] # 0 }
        IN  IF have = {} THEN 0 ELSE RowsOf(tables[Min(have)])[k]]

Tables(t) == levels[loc[t].level + 1]

\* The merge discards a row that is newer than the one it keeps.
Stale(tables) ==
    \E i \in DOMAIN tables, k \in Key : RowsOf(tables[i])[k] > merge(tables)[k]

\* An error of remove_file is ignored: the file stays, in no level.
compact_read(t) ==
    /\ Up /\ pc[t] = "c_read"
    /\ opens = "rows"
    /\ loc' = [loc EXCEPT ![t].rows = merge(Tables(t))]
    /\ \E kept \in SUBSET FilesOf(Tables(t)) :
        /\ ioErrors + Cardinality(kept) <= work.maxIoErrors
        /\ ioErrors' = ioErrors + Cardinality(kept)
        /\ files' = [f \in DOMAIN files \ (FilesOf(Tables(t)) \ kept) |-> files[f]]
        /\ Note(When(Stale(Tables(t)), "merged") \cup When(kept # {}, "kept"))
    /\ levels' = [i \in 1 .. Max({Len(levels), loc[t].level + 2}) |->
                    IF i = loc[t].level + 1 \/ i > Len(levels) THEN << >> ELSE levels[i]]
    /\ Goto(t, "c_write")
    /\ answer' = NoAnswer
    /\ UNCHANGED << work, role, opens, status, dict, mem, wal, nextFile, applied, recorded, locks, origin,
                    acked, replicated, crashes >>

\* SsTable::open panics before anything has been removed; the guard drops.
compact_panic(t) ==
    /\ Up /\ pc[t] = "c_read"
    /\ opens = "panic"
    /\ Return(t, {})
    /\ compW' = None
    /\ answer' = NoAnswer
    /\ UNCHANGED << work, role, opens, status, shared, dictW, dictR, memW, origin, replicated,
                    hazards, crashes, ioErrors >>

\* The dictionary of the CompactionManager is the empty one it was made with.
compact_write(t) ==
    /\ Up /\ pc[t] = "c_write"
    /\ CreateFile(t, loc[t].level + 1, << >>)
    /\ Goto(t, "c_sync")
    /\ answer' = NoAnswer
    /\ UNCHANGED << work, role, opens, status, dict, mem, wal, levels, applied, recorded, locks,
                    origin, acked, replicated, crashes, ioErrors >>

compact_sync(t) ==
    /\ Up /\ pc[t] = "c_sync"
    /\ SyncFile(t)
    /\ levels' = [levels EXCEPT ![loc[t].level + 2] = Append(@, Handle(loc[t].file))]
    /\ Goto(t, "c_next")
    /\ answer' = NoAnswer
    /\ UNCHANGED << work, role, opens, status, dict, mem, wal, nextFile, applied, recorded, loc,
                    locks, history >>

compact_next(t) ==
    /\ Up /\ pc[t] = "c_next"
    /\ NextLevel(t, loc[t].level, IF loc[t].level = 0 THEN Len(levels) ELSE loc[t].bound)
    /\ answer' = NoAnswer
    /\ UNCHANGED << work, role, opens, status, shared, dictW, dictR, memW, origin, replicated,
                    hazards, crashes, ioErrors >>

(***************************************************************************)
(* Crash and restart.                                                      *)
(***************************************************************************)

\* What a crash leaves of the WAL: one append may have got part of the way.
WalAfterCrash ==
    {wal} \cup UNION { { wal \o SubSeq(loc[t].ticks, 1, n) : n \in 1 .. Len(loc[t].ticks) } :
                         t \in { u \in Thread : pc[u] \in {"i_wal", "b_wal", "a_wal"} } }

\* The files a crash may catch a compaction having removed.
Removable == UNION { FilesOf(Tables(t)) : t \in { u \in Thread : pc[u] = "c_read" /\ opens = "rows" } }

\* A record that is cut short keeps LsmTree::open from succeeding (module Wal),
\* and so does a replication.json.
MayTear == \E t \in Thread : pc[t] \in {"i_wal", "b_wal", "a_wal"}
MayCut == \E t \in Thread : pc[t] = "a_advance"

crash ==
    /\ Up /\ Len(crashes) < MaxCrashes
    /\ crashes' = Append(crashes, Len(origin))
    /\ status' \in {"down"} \cup When(MayTear, "failed")
    /\ recorded' \in {recorded} \cup When(MayCut, Cut)
    /\ wal' \in WalAfterCrash
    /\ \E gone \in SUBSET Removable :
        /\ files' = [f \in DOMAIN files \ gone |-> files[f]]
        /\ Note(When(gone # {} \/ \E t \in Thread : pc[t] \in {"c_write", "c_sync"}, "torn"))
    /\ dict' = << >> /\ mem' = NoRows /\ levels' = << << >> >> /\ applied' = 0
    /\ pc' = [t \in Thread |-> "idle"]
    /\ loc' = [t \in Thread |-> NoLoc]
    /\ dictW' = None /\ dictR' = {} /\ memW' = None /\ compW' = None
    /\ answer' = NoAnswer
    /\ UNCHANGED << work, role, opens, nextFile, origin, acked, replicated, ioErrors >>

\* LsmTree::open can read replication.json and every table in the data directory.
Loadable ==
    /\ recorded # Cut
    /\ \A f \in DOMAIN files : files[f].whole /\ opens = "rows"

\* The handle of a table that was read from disk: read_metadata sets file_size to 0.
LoadedHandle(f) == [file |-> f, size |-> 0]

\* The levels that load_sstables makes of the files in directory order: the
\* places of the files of level i - 1.
AtLevel(order, i) == { p \in 1 .. Len(order) : files[order[p]].level = i - 1 }
Loaded(order) ==
    [i \in 1 .. Max({0} \cup { files[f].level : f \in DOMAIN files }) + 1 |->
        [j \in 1 .. Cardinality(AtLevel(order, i)) |-> LoadedHandle(order[Nth(AtLevel(order, i), j)])]]

\* LsmTree::open: an empty dictionary, the log replayed into the memtable, and
\* the tables in the order in which the directory lists them.
open ==
    /\ status = "down"
    /\ Loadable
    /\ status' = "up"
    /\ applied' = recorded
    /\ mem' = mem_insert(NoRows, wal)
    /\ \E order \in SetToSeqs(DOMAIN files) : levels' = Loaded(order)
    /\ Note(When(\E i \in DOMAIN levels' : Len(levels'[i]) > 1, "reloaded"))
    /\ answer' = NoAnswer
    /\ UNCHANGED << work, role, opens, dict, wal, files, nextFile, recorded, pc, loc, locks,
                    origin, acked, replicated, crashes, ioErrors >>

\* LsmTree::open returns an error, or panics, however often it is tried.
open_failed ==
    /\ status = "failed" \/ (status = "down" /\ ~Loadable)
    /\ status' = "failed"
    /\ answer' = NoAnswer
    /\ UNCHANGED << work, role, opens, shared, pc, loc, locks, history >>

Step(t) ==
    \/ insert(t) \/ insert_wal(t) \/ insert_memtable(t) \/ insert_done(t) \/ wal_error(t)
    \/ insert_batch(t) \/ batch_memtable(t) \/ batch_wal(t) \/ batch_done(t)
    \/ apply_replication_batch(t) \/ apply_wal(t) \/ apply_memtable(t) \/ apply_advance(t)
    \/ advance_error(t)
    \/ flush_memtable(t) \/ flush_drain(t) \/ flush_write(t) \/ flush_sync(t)
    \/ write_error(t) \/ flush_add(t) \/ flush_truncate(t) \/ truncate_error(t)
    \/ read_not_found(t) \/ get(t) \/ get_memtable(t) \/ get_tables(t)
    \/ scan(t) \/ scan_memtable(t) \/ scan_tables(t) \/ read_panic(t)
    \/ compact(t) \/ compact_read(t) \/ compact_panic(t) \/ compact_write(t)
    \/ compact_sync(t) \/ compact_next(t)

Next == (\E t \in Thread : Step(t)) \/ crash \/ open \/ open_failed

Spec == Init /\ [][Next]_vars

(***************************************************************************)
(* Properties.                                                             *)
(***************************************************************************)

\* Every version of vs is on disk, or a later one of the same tick is.
AllCovered(vs) ==
    LET durable == DurableVersions \ {0}
    IN  \A v \in vs : \E w \in durable : w >= v /\ PairOf(w) = PairOf(v)

\* The merged rows of a compaction that has removed its tables are in memory only.
MidCompaction == \E t \in Thread : pc[t] \in {"c_write", "c_sync"}

Lossy == {"overlap", "failed", "merged", "torn", "crossed", "remapped"}

\* Every tick whose insert, insert_batch or apply_replication_batch returned Ok
\* is in the WAL or in a complete SSTable, whatever flushes, reads,
\* compactions, restarts and failed appends went on beside it: the code of
\* flush_memtable, compact_level and LsmTree::open loses a tick only in the
\* circumstances that are named by hazards.
AckedDurable ==
    hazards \cap Lossy = {} /\ ~MidCompaction => AllCovered(acked)

\* Every acknowledged tick is on disk, with no exception: "fsync on commit, full
\* replay on crash recovery" (README).
AckedSurvives == AllCovered(acked)

\* The ticks that had been written when the engine was last restarted.
BeforeRestart == IF crashes = << >> THEN 0 ELSE Last(crashes)

\* No call has named the symbol since the last restart: LsmTree::open makes an
\* empty dictionary, and only writes fill it.
Forgotten(s) == \A v \in BeforeRestart + 1 .. Len(origin) : origin[v][1] # s

\* get returns the newest tick acknowledged before the call, or a newer one, and
\* no error, wherever the tick is, memtable or any table of any level: unless a
\* flush was between its drain and its add_table during the call, or the symbol
\* has not been written since the last restart.
GetLatest ==
    answer.op = "get" /\ ~answer.gap /\ hazards \cap (Lossy \cup {"reloaded", "kept", "skewed"}) = {}
        => (Forgotten(answer.pair[1]) \/ answer.ver >= answer.owed)

\* What get and scan return was written for the symbol and the timestamp they
\* were asked for, after restarts too, unless a restart gave the id of the
\* symbol to another one.
ReadsReal ==
    answer.op # "none" /\ answer.ver # 0 /\ "remapped" \notin hazards
        => PairOf(answer.ver) = answer.pair

\* The same without the exception: what the memtable holds after "full replay on
\* crash recovery" (README) belongs to the symbol it is read for.
ReadsOwnSymbol ==
    answer.op # "none" /\ answer.ver # 0
        => PairOf(answer.ver) = answer.pair

\* scan finds some version of a tick acknowledged before the call, unless a
\* flush was in its window, a table has been written without its names, or the
\* symbol has not been written since the last restart.
ScanFinds ==
    answer.op = "scan" /\ ~answer.gap /\ hazards \cap (Lossy \cup {"unnamed", "skewed"}) = {}
        => (answer.owed # 0 => Forgotten(answer.pair[1]) \/ answer.ver # 0)

\* The batch whose last sequence number the tracker of a replica records is on
\* disk as a whole, so that a replica that restarts and asks for what follows
\* skips nothing of it.
AppliedDurable ==
    hazards \cap Lossy = {} /\ ~MidCompaction
        => AllCovered(UNION { batch \in replicated : Max(batch) \in {applied, recorded} })
=============================================================================
