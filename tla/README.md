# A TLA+ verification of graphite-tsdb

graphite-tsdb is an embedded time-series database in Rust: an LSM tree
(`graphite-core`), a facade with a query language (`graphite`), an HTTP server
with primary/replica replication (`graphite-server`), and a command line and
Python bindings. This directory holds TLA+ models of its core, the TLC
configurations that check them, and TLAPS proofs. Source paths below are relative
to the repository; line numbers are in the `map` of `PROJECT.json`.

## 1. The system

| Part | State | Operations | Uses |
|---|---|---|---|
| `LsmTree` (`lsm.rs`, `batch.rs`) | five `RwLock`s: `symbol_dict`, `memtable`, `wal`, `compaction`, `replication`; statistics | `open`, `insert`, `insert_batch`, `insert_multi`, `apply_replication_batch`, `get`, `scan`, `scan_stream`, `flush_memtable`, `compact`, `read_wal_for_replication`, status calls | everything below |
| Write-ahead log (`wal.rs`) | a file of checksummed records, the next sequence number, the replayed ticks | `open`/`replay`, `append`, `append_batch`, `truncate`, `read_for_replication` | the file system |
| MemTable (`skip_list.rs`) | ordered map from (symbol id, timestamp) to tick | `insert`, `get`, `iter`, `drain`, `len` | - |
| Symbol dictionary (`compression/dictionary.rs`) | names in the order of their 16-bit ids; memory only | `get_or_insert`, `get_id`, `get_symbol` | - |
| SSTable (`sstable.rs`), bloom filter, column codecs (`compression/`) | immutable column file; footer with level, ranges, filter | `write`, `open`, `scan`; `encode`, `decode` | codecs, cache |
| Block cache (`block_cache.rs`) | an array of nodes with a linked list, a free list and a map | `insert`, `get`, `clear` | - |
| Compaction (`compaction.rs`, `compaction_scheduler.rs`) | the levels: lists of tables in memory | `needs_compaction`, `compact`, `compact_level`, `add_table`; a background thread | SSTables |
| Replication tracker (`replication.rs`) | `last_primary_sequence`, in memory and in `replication.json` | `open`, `advance` | - |
| Server (`graphite-server/src/main.rs`) | `last_pushed_seq`, the replica URLs | `POST /tick`, `/ws`, `push_to_replicas`, `replica_sync_loop`, `/replication/wal`, `/replication/apply` | `LsmTree`, HTTP |
| Streaming scan (`scan_iter.rs`) | a snapshot of the memtable, the tables still to read | `next` | SSTables |
| Cold tier (`cold_tier.rs`, cargo feature) | a manifest of uploaded tables, in memory and in `cold_manifest.json` | `open`, `sync_tables`, `ensure_local` | object store |
| GQL (`gql/parser.rs`, `gql/executor.rs`) | none of its own | `parse`, `execute` | `LsmTree::scan` |
| DB facade, CLI, Python, benchmarks | none of their own | pass calls on | `LsmTree` |

How the parts meet. Client threads, the server's tasks and the background
compactor share one `LsmTree`. No operation is atomic: each takes its locks one
after another and releases some of them in between, so calls interleave at the
lock boundaries. A write is acknowledged once its record has been synced to the
WAL; a flush moves the memtable into a table and truncates the WAL; a compaction
merges tables of one level into the next. On the primary every insert spawns a
task that reads the WAL behind `last_pushed_seq` and posts it to each replica; each
replica also pulls in a loop behind its tracker. Both end in
`apply_replication_batch`, and so run concurrently with each other and with
clients. A streaming scan copies its part of the memtable and the paths of the
tables and then runs without any lock, beside compactions that remove those files;
with a cold tier, tables are uploaded under the compaction lock, and a reader
downloads what is missing.

What is hard: five locks taken in different orders by different calls, with
writer preference; a flush that is not atomic with the inserts it overlaps; crashes
between (and inside) a WAL record, a table, a removal and a tracker update; ids
that do not survive a restart while the ticks that use them do; merges that must
keep the newest version; pushes and pulls that overlap, are lost, repeated, late
or refused. `PROJECT.json` lists these as `hazards`, each at its line.

What makes the parts correct:

* locks: no two threads inside a write guard; calls never block each other for
  good; every call returns;
* WAL: whatever was acknowledged is replayed, in order, with increasing sequence
  numbers; paging through it skips and repeats nothing;
* engine: acknowledged ticks are on disk at all times; reads find the newest
  version and only what was written for their symbol; the tracker of a replica
  never gets ahead of its log;
* replication: no gap behind the tracker; a replica serves what the tracker says;
  every record arrives in the end;
* streams and the cold tier: a stream returns what was there when it was made, in
  order and once; a key that was written stays in the memtable or in a table in use,
  and such a table can be reached, here or in the archive; a table that was merged
  does not come back;
* structures: the skip list is a map and the cache a bounded cache, whatever the
  levels and the order of evictions; columns and dictionary come back as they were
  written; a query is parsed to what was written and answered accordingly.

## 2. The modules

### LsmLocks - the lock protocol

Every operation is written as the sequence of lock steps it executes
(`insert`, `insert_batch`, `flush_memtable`, `get_paths`, ...), guards being
released where Rust drops them: temporaries at the end of their statement, `let`
guards at the end of their scope or at `drop()`. `write()` is two steps, claiming
the writer bit and entering when the readers have left, which is how parking_lot
makes later readers wait for a waiting writer. Actions: `Call`, `ReadLock`,
`ClaimWrite`, `EnterWrite`, `Unlock`. `Ordered(p)` says that a path acquires locks
upwards in `Rank` (dict < mem < wal < comp < repl). All the paths are ordered
except `insert_flush` and `insert_batch_flush` (which hold `symbol_dict` for
writing and take it again), `scan_stream` (compaction, memtable, dictionary) and
`scan_symbol` (the dictionary under compaction, which needs a get, an insert and a
compaction beside it, four threads in all, to close a circle). The mutexes of the block cache
and of the cold-tier manifest are leaves, held over no other acquisition, and left out.

### Wal - the log and its file

`cache` is the file the running system sees and `disk` what the last sync made
durable, both a list of whole records and a number of stray bytes behind them,
classified by what `replay()` does there: 0 end of file, 1-3 a short read of the
magic, which also counts as the end, `Bad` an error. Actions: `open`, `open_error`,
the calls, `write_all` and `sync_all` with their failures, `truncate`, `Kill` (the
page cache survives, a write may be cut) and `PowerLoss` (any prefix at least as
long as `disk`, cut anywhere; with an unsynced `set_len` the old file or a prefix
of the new one). `read_for_replication` is an operator on the state. Assumption: a
successful sync also makes durable what an earlier, failed one was to write.

### LsmTree - the engine

One action per region between two lock operations; `pc[t]` and `loc[t]` are the
position and the local variables of a thread, and only locks that are held from
one action to the next are variables. A tick is its key (symbol id, timestamp) and
a version, numbered in the order of writing; `Rows` maps keys to versions. The WAL
is the list of records that a replay returns (module Wal says why an appended
record survives, and that a torn one keeps the log from opening: `MayTear`).

`insert`, `insert_batch` (with `insert_multi`), `apply_replication_batch`,
`flush_memtable`, `get`, `scan` and `compact` are split into
`insert_wal`, `insert_memtable`, `flush_drain`, `flush_write`, ... in the order of
the code, with `wal_error`, `write_error`, `truncate_error`, `advance_error` where a
`?` leaves the call. `crash` may come at any point, also in the middle of the
appends, of the removals of `compact_level` and of the write of
`replication.json`; `open` rebuilds memory from disk with an empty dictionary and
the tables in any directory order. `get` and `scan` look the symbol up before anything
else: `read_not_found` is their return of `SymbolNotFound`, which after a restart is the
answer for every symbol, however much of it has been replayed, until a call names it
again. `crashes` keeps how much had been written at each restart, and `Forgotten(s)` says
that no call has named `s` since: the only case in which `GetLatest` and `ScanFinds` let
a refused read owe a tick.

`SsTable::write` produces a header of 6 bytes while the offsets it records are
counted from 8, so `SsTable::open` reads its index from the wrong place and
panics. `opens` chooses, per behaviour, between that (`"panic"`, the code as it
stands) and a table that can be read as `sstable.rs:265` documents (`"rows"`); the
passing runs contain both, so the rest of the engine is examined beyond the panic.

The engine loses or hides ticks in some circumstances. A history variable
`hazards` records when one has occurred, and the properties say that nothing
happens otherwise:

| Name | Circumstance | Code |
|---|---|---|
| `overlap` | a tick was logged, or between log and memtable, or drained by a second flush, during another thread's flush | `lsm.rs:466-483` |
| `failed` | a flush or a compaction could not write its table | `lsm.rs:480`, `compaction.rs:156` |
| `merged` | a compaction merged two tables with the same key; the older version stays | `compaction.rs:134` |
| `torn` | a crash hit a compaction that had begun to remove its inputs | `compaction.rs:126` |
| `crossed` | a replication batch was applied beside another write | `lsm.rs:557` |
| `remapped` | after a restart a symbol got the id of another one | `lsm.rs:100` |
| `reloaded` | a restart loaded two tables of a level, in directory order | `lsm.rs:213` |
| `kept` | an input table could not be removed | `compaction.rs:126` |
| `unnamed` | a table was written without the names of its symbols | `compaction.rs:156` |
| `skewed` | a table's time range leaves out one of its rows | `sstable.rs:203` |

Two of these, `overlap` and `remapped`, have violation runs of their own.

Beside these, two exceptions of the reads are no loss but a wrong answer, and so belong
to the read and not to the history: `gap`, a flush was between its drain and its
`add_table` while the read looked, and `Forgotten`, above.

### Replication - primary, replicas and the requests between them

`log`, `dict` and `pushed` are the primary's; `rdict`, `rlog`, `replay`, `rmem`
and `applied` the replicas'. A `job` is a push task or the sync loop of a replica;
its steps are those of the code: `load` and `store` of `last_pushed_seq`,
`read_wal`, `name_entries` (the dictionary is read after the WAL has been
released), then on a replica `apply_log`, `apply_memtable`, `apply_advance`. Faults:
`lost` (the request fails), `give_up` (the client stops waiting, the handler goes
on), `apply_error` (an append fails part of the way), `restart_primary` and
`restart_replica`. The primary's log is never truncated: the server calls no
flush, and the one an insert starts at the threshold does not get that far (module
LsmLocks). Resolving the ids of a batch and logging it are one step here, and
`replication.json` is written atomically; module LsmTree has these apart.
`refused`, `late` and `restarted` are history, used by the properties as their
exceptions.

The configurations that are checked side by side, the replicas that run, the
pushes that may overlap, the entries of a batch, are the elements of
`Deployments`; a behaviour has one of them (`conf`). `Workloads` in LsmTree does
the same for what the threads do.

### ColdTier and ScanStream - the archive and the streaming scan

ColdTier is the life of a table around the archive. `flush_memtable` writes a table;
a compaction reads the tables of a level (`compact_level`), removes them one by one
(`remove_file`), creates the merged one (`compact_create`) and writes it
(`compact_write`), with an error in place of the last two (`compact_error`) and a crash
possible between any two; `sync.merging` is what it holds in memory meanwhile.
`sync_table` uploads tables one by one, `save_manifest_truncate` and
`save_manifest_write` are the two halves of `fs::write`, `RemoveLocal` is an operator
freeing space after `is_synced`, and `open` loads the tables of the directory. `table`
is what was written, and whether the filter of the table has the name of the symbol
(`names`): that of a compacted table does not, since the dictionary it is written with is
empty, unless it answers yes by chance. `named` is whether the dictionary has the
symbol, which a restart makes it forget. `disk` is the state of each file (absent, cut,
whole), `store` the objects, `manifest` and `saved` the entries in memory and on disk.
There is one symbol, a flush is a single step and the log keeps what the memtable holds:
LsmTree has these apart.

ScanStream adds one stream (`stream`). `symbol_not_found` is the refusal of `scan_params`. `scan_stream` takes its
part of the memtable and the paths of the tables that overlap the range and, for a stream
by symbol, whose filter has the symbol; the others are `PassedOver` and kept in
`stream.skipped`, and `Unseen` are the keys that only those have. The steps are those of
`next_tick`: `ensure_sstable_batch` looks for the file, `ensure_local_create` and
`ensure_local_write` download it, `load_next_sstable_batch` opens and scans it,
`next_tick` takes a tick from the memtable or from the batch. Between any two of
them the engine, the archive and the operator may move. `excuses` records per
table what the properties except:

| Name | Circumstance | Code |
|---|---|---|
| `torn` | a download was broken off and its part of the file is in the way | `cold_tier.rs:158` |
| `revived` | a stream downloaded a table that had been compacted away | `scan_iter.rs:99` |
| `kept` | a compaction could not remove the file | `compaction.rs:126` |
| `unlisted` | a restart found no local copy of a table in use | `lsm.rs:213` |
| `dropped` | a compaction removed the table, and failed or was cut off before it had written the merged one | `compaction.rs:126` |

In the stream, `failed` and `hollow` are the tables that could not be opened and
those without a tick in the range. Either one makes `next_tick` return `None` when
the memtable has nothing left, with tables still to come. `StreamSorted` needs
tables whose scanned keys follow each other; two flushes of overlapping times are
enough to break the order and the de-duplication that `scan_iter.rs:145` states.

### SsTable - the file

The bytes that `open` reads, as `write` lays them out: header, key block and
columns, sparse index, filter, metadata, footer. `read_index` and
`read_symbol_dict` panic where the code slices beyond its buffer.

### Structures

* `SkipList`: nodes with forward pointers, `level` and `len`; `SkipListInsert`
  chooses the level of the new node freely (`random_level`), `SkipListDrain` lists
  and frees. It implements `OrderedMap` with `contents` mapped to what `get`
  returns.
* `BlockCache`: `nodes`, `map`, `head`, `tail` and the free list, with the helper
  functions of the code as operators on that record. It implements
  `BoundedCache`: entries in the order of their last insertion, the longest prefix
  that fits. `get` moves nothing (`AfterGet`), so the age of a block is that of its
  insertion. The code calls this an LRU, which AsDocumented refutes.
* `Columns`: the three codecs on words of `W` bits and bytes of `B` bits, so that
  the boundary of the bit buffer and of the mantissa are met by small numbers. zstd may
  return an error (`zstdWorks`), for which `encode_for_level` falls back on lz4 and
  keeps the code of zstd.
* `Dictionary`: ids modulo `IdSpace`.
* `GqlParser`: lexemes to tokens to a query; `Written` is how a client writes a
  query (by the grammar of README.md:94-99, with commas as in README.md:135, with
  `LIMIT` last as in README.md:269-272, or as `query_range` does), and `Edit`
  changes, drops or inserts a lexeme. `Unreadable` lists what the parser does not read
  as it was meant; of these `ParsesGrammar` claims nothing but that a wrong query is not
  taken from them, and AsDocumented refutes those that README.md shows.
* `GqlExecutor`: the filters with their lanes, the bars with division towards
  zero, the aggregates and the plan of `EXPLAIN`.

### AsDocumented - what the comments say of files, codecs, cache and queries

A table is written and opened, by the actions of SsTable; then `Compare` tries each of
seven documented claims on all inputs of the instance and notes in `refuted` an input
for every claim that does not hold. None of them does, and the last state of the trace
has the seven inputs; `findings` quotes the claims.

### Others

`MCLsmLocks`, `MCLsmTree`, `MCReplication`, `MCScanStream`, `MCAsDocumented` and
`MCStructures` give constants their values for TLC; the last one puts the
structures, which share no state, side by side, one per behaviour (`subject`).
`LsmLocksProofs`, `WalProofs`, `ReplicationProofs`, `LsmTreeProofs`,
`StructureProofs` and `ScanStreamProofs` contain the theorems, `LsmTreeLemmas` the
invariant of LsmTree and the proof that every action keeps it, so that
`LsmTreeProofs` has the theorems and what they need besides, mostly about reads;
`DataLemmas` is what several of them need of numbers, finite sets, sequences and
lists linked by pointers.
`Selection` filters a sequence
by positions (`SelectAt`) where the code has a `filter` or an `if ... push` in a
loop; unlike `SelectSeq`, it is open to the provers.
Operators named for a
defect (`read_inclusive`, `sync_all_skipped`, `ReadLockIgnoringWriter`, ...) are
altered versions of the definition after them; the specifications do not use them.
They exist to show that a property fails when the code has that defect, see
`mutants` in `PROJECT.json`.

## 3. What TLC checks

| Run | Checks | Result |
|---|---|---|
| `lsm_locks` | `TypeOK`, `MutualExclusion`, `NoCircularWait`, `EveryCallReturns` | holds |
| `lsm_locks_threshold` | `NoCircularWait` | violated: the insert that reaches `memtable_flush_threshold` waits for itself |
| `lsm_locks_stream` | `NoCircularWait` | violated: `scan_stream` and `insert_batch` wait for each other |
| `wal` | `TypeOK`, `OpenReplaysAcked`, `ReplayInOrder`, `SequenceAhead`, `PagingIsComplete` | holds |
| `wal_torn` | `CrashNeverBlocksOpen` | violated: a record cut by a crash makes `Wal::open` fail for good |
| `lsm_tree` | `TypeOK`, `AckedDurable`, `AppliedDurable`, `GetLatest`, `ReadsReal`, `ScanFinds` | holds |
| `lsm_flush_race` | `AckedSurvives` | violated: a flush truncates the record of an insert it overlaps |
| `lsm_restart` | `ReadsOwnSymbol` | violated: after a restart a new symbol reads the ticks of an old one |
| `replication` | `TypeOK`, `NoGap`, `ReplicaCurrent`, `EveryTickReplicated` | holds |
| `read_path` | `StreamComplete`, `StreamSorted`, `ArchiveReachable`, `NothingLost`, `NoTableReturns` | holds |
| `structures` | refinements `RefinesMap`, `RefinesCache`; `PointersLive`, `ListIntact`; `TimeColumnExact`, `PriceColumnExact`, `VolumeColumnExact`, `IdsResolve`; `ParsesGrammar`, `ParseSound`, `FilterExact`, `BarsAreWindows`, `AnswersAgree` | holds |
| `as_documented` | `WorksAsDocumented` | violated, by seven claims: `open` panics on what `write` wrote; two timestamps at equal distances from 0 decode to the first one twice; volumes that lz4 packed when zstd failed decode to nothing; the block read last is evicted before an older one; commas between columns are refused; `LIMIT` behind `GROUP BY` is dropped; `query_range` on a time of 1e15 or more does not parse |

The six violated properties are what the documentation says of the program;
`findings` quotes it. The exceptions of the other properties (`hazards`, `excuses`,
`refused`, `late`, ...) are losses too, or wrong answers: for those that `PROJECT.json`
says so of, TLC finds the case as soon as the exception is dropped. They have no runs of
their own, so what is checked of them is that they are the only ones.

Bounds, and why they are enough to be of interest:

* `MCLsmLocks.cfg`: three threads, each repeatedly making any of six calls, which
  between them hold every combination of locks that an ordered path holds. Three is
  the least number at which a reader, a waiting writer and a reader held up by it
  meet. The calls below the flush threshold are used, since those at it deadlock.
  The theorems cover any number of threads and all ordered paths.
* `Wal.cfg`: four records, batches of two, three crashes. That is enough for stray
  bytes behind an acknowledged record, an append behind the stray bytes, and a
  third opening; torn sizes 0, 2, 4 are one of each class that replay tells apart.
* `MCLsmTree.cfg` (1.05 million states): two threads, two symbols with a tick each at different
  timestamps (so that the order by symbol contradicts the order by time), two ticks
  written, three tables, one crash; one workload writes with an I/O error, one
  reads beside writes, one has two threads that flush beside a batch that may fail
  to be logged. A flush threshold of 2 and one table per level make
  automatic flushes and compactions of levels 0 and 1 happen within these few
  ticks. Deadlock is not checked: an insert that reaches the threshold really stops
  the engine (run `lsm_locks_threshold`), and so does the exhaustion of the bounds.
* `MCReplication.cfg`: one push task and two replicas that also pull, pages of
  one record; or two push tasks that overlap, one replica, pages of two; one fault
  of any kind. Instances with two faults, or with two tasks and two replicas (3.1
  and 4.4 million states), were explored as well without a violation.
* `MCScanStream.cfg` (2.8 million states): three batches, two tables and the one they
  are merged into, one stream, one fault, one removed copy. The two kinds of batches
  overlap each other or themselves, or follow each other, depending on the range; one of
  the two scans is by symbol, the other is not. Two tables are enough for a compaction
  that has removed one input and not the other. Deadlock is not checked: the bounds run
  out.
* `MCStructures.cfg`: three keys and three levels; three cache keys and blocks
  that fill a part, most, or more than the capacity; columns of four values from
  both sides of every boundary of a word of 12 bits; four symbols for three ids;
  every combination of clauses and, for the shortest and the longest query, every
  single change of a lexeme; four ticks on both sides of zero and filters of two
  lanes.
* `MCAsDocumented.cfg`: tables of 1, 2 and 40 rows, that is one to three index entries;
  columns of two values, blocks of which two or three fill the cache, queries with and
  without each of the clauses in question, times on both sides of the widest Integer.

Symmetry is not used: the sets are small, and liveness is checked in two of the
modules.

Fairness. `LsmLocks` assumes strong fairness of every thread's lock steps:
parking_lot hands a contended lock to the waiter at least every half millisecond,
so a step that is possible again and again is taken; no thread is obliged to make
a call. `Replication` assumes weak fairness of each replica's sync loop and of the
handling of its requests: `replica_sync_loop` is a `loop` whose sleep elapses and
whose failures are logged and retried. Nothing is assumed of the push tasks, and
faults are finitely many (`MaxFaults`), without which no retry can succeed.

## 4. What is proved

`LsmLocksProofs`, for any threads and any set of calls that are `Ordered`:

* `LocksTyped`: `TypeOK`.
* `LocksExclude`: `MutualExclusion`. The lock words alone do not imply it; the
  invariant `Inv == TypeOK /\ OnCalls /\ WordsMatch` ties them to the positions of
  the threads: a thread owns exactly the writer bits it has claimed and not
  dropped, is a reader of exactly what it has read-locked and not dropped, and a
  lock that has been entered has no readers. `SinceStep` says what one step does to
  what a path holds, and each action follows from it.
* `OrderedCallsNeverDeadlock`: `NoCircularWait`. In any set of threads take one
  that waits for a lock of the highest rank. Whoever it waits for holds that lock,
  so waits, if at all, for a lock of a higher rank (`BlockerHigher`), and none in the set does.
  Writer preference makes no difference: a claimed writer bit counts as held.

`MCLsmLocks` has TLC evaluate that the paths of `lsm.rs` listed there are ordered.

`WalProofs`, for all bounds, torn sizes and with or without I/O errors:

* `WalTyped`: `TypeOK`.
* `WalDurable`: `OpenReplaysAcked`. The property speaks of the moment of opening;
  the invariant `Durable` says that at all times the cached file, and the synced
  one unless a truncate is pending, either contain all acknowledged records or
  cannot be replayed at all, and that the synced file is a prefix of the cached
  one, stray bytes included. Every survivor of a power loss lies between the two
  (`SurvivorContains`). This is why the silent end at 1-3 stray bytes loses
  nothing: whatever is appended behind them makes the file unreadable instead.

* `WalReplaysInOrder`: `ReplayInOrder`, and `WalSequenceAhead`: `SequenceAhead`.
  The invariant `Ordering` says that the ids grow along the cached file and along
  the synced one, which a power loss after an unsynced truncate brings back, that
  the sequence numbers grow too until an I/O error has occurred, and that `sequence`
  is above every cached record, except that it equals the last one while `append`
  is between its write and its sync.
* `WalPagesComplete`: `PagingIsComplete`, for pages of any size. Since sequence
  numbers grow along the file, the records above that of the (i - 1)-th are those
  from i on (`SelectedRest`).

`ReplicationProofs`, for any tasks, replicas, deployments and faults:

* `ReplicationTyped`: `TypeOK`.
* `ReplicationHasNoGap`: `NoGap`, and `ReplicasAreCurrent`: `ReplicaCurrent`. A
  batch is applied without a look at the tracker, so the property depends on what
  comes before the batch. The invariant: as long as nothing was refused, every
  replica has all records up to its tracker, every URL those up to `pushed`
  (`Fronts`), the replicas a job goes to those before its batch (`JobFront`), and
  the ones it has been to the batch itself (`JobDone`, `JobHere`). "Has" is in the
  log and, as long as the replica is clean, in the memtable (`Has`). Batches are
  runs of the primary's log (`BatchOK`), rows of a clean replica belong to their
  keys (`RowsOK`). No step but a restart takes anything away (`Progress`), so each
  action has to be looked at only for the job that moves.

`LsmTreeLemmas` and `LsmTreeProofs`, for any threads, workloads, symbols, timestamps
and values of the bounds, thresholds and targets, with tables that can be read and
tables that panic:

* `LsmTyped`: `TypeOK`.
* `AckedTicksDurable`: `AckedDurable`, and `AppliedTicksDurable`: `AppliedDurable`.
* `LsmReadsReal`: `ReadsReal`.
* `LsmScanFinds`: `ScanFinds`, and `LsmGetLatest`: `GetLatest`.

The invariant (`Steady`) has a part that always holds: rows and ticks anywhere carry
the key they were written with (`Genuine`); the tables of a level are whole files of
that level, and a file being written belongs to one call (`Shelved`); a call at a
given step holds the locks it should (`Held`); batches are numbered upwards and the
tracker is at none that has not begun (`Batched`); a read looks for the key of its
pair (`Asking`); a symbol that has an id has the one its ticks were written with,
unless `remapped` (`Named`). The other part (`Safe`) holds until a circumstance that
loses ticks has occurred. `Orderly`: one id per symbol, one write and one flush at a
time, what is being written is newer than what log and memtable have. `Kept`: let a
version be promised when it is acknowledged, when its call has done its log and
memtable steps, or when the tracker records its batch. A promised version, or a newer one
of its key, is in a whole table, in the rows a compaction has merged, or in the log
(`Logs`); as long as there is no flush, in a table or in the memtable (`Serves`), so
that the next flush may truncate the log; during a flush, in a table or among the
drained rows (`Drained`), so that this one may. Neither half of this is inductive
alone: `Logs` does not survive a truncate without `Drained`, which a drain gets from
`Serves`, which a restart gets from `Logs` by replaying the log in order.

The steps are sorted by what they do (`Begins`, `LogsTicks`, `PutsTicks`, `Passes`,
`Reads`, `Turns`, `Takes`, `Truncates`), each shown once to keep the invariant; frame
lemmas say which parts a step of one thread cannot disturb.

What reads find rests on two more invariants, which are proved from `Steady`. Let the
stock be the rows of the tables, level by level and oldest first.

`Readable`, for scans. `FilesShown`: a key of a whole file that no flush is about to
add is in the stock or in the rows of a compaction (`Shown`); a compaction between its
removals and its new table is the only way for a key to leave the stock, and it holds
the compaction lock, so no read looks meanwhile. `Timed` and `Labelled`: the time range
and the filter of a table let its own rows through. `IdsKnown`: the dictionary gives a
symbol the id of its ticks.
`Registered`: it has every symbol written since the last restart, so a read that is
refused asked for one that is `Forgotten`. `Seeking`: a read that is owed a version and has met no
drain looks for the key of that version, and a scan that has passed the memtable in
vain has its key among what is shown. `StepsAlone` is why this is kept: a step changes
the local variables of its own thread only, except that a drain marks every read under
way, whose answer is then excepted.

`Gettable`, for gets, where not any version but the newest one has to come first.
`Top(k, n)`: the first level with key `k` has version `n` or a later one in its newest
table with that key, or the rows of a compaction have, above which no level has the key.
A compaction moves it from tables to rows and back, and only a flush that adds an older
row on top can break it (`TopStays`). So `Latest` says where the promised versions are:
replaying the log gives the memtable the version or a later one, or the log has nothing
of its key and the version is on top (`Replayed`); no flush under way, the memtable has
it, or has nothing of its key and it is on top (`InReach`); during a flush the same holds
of the drained rows (`InFlush`); a call that is logging or inserting has newer ticks than
anything promised (`Fresh`). A crash turns "on top" into "on disk in the lowest level
that has the key", which takes that every file is listed in a level or being written
(`Listed`), and `open` turns it back, when it loads one table of each level; with two,
the order of the directory decides, which is what `reloaded` excepts. `GetSeeking`: a
get that has passed the memtable in vain has its version on top. Knowing that some table
has the version (`Kept`) is not enough, nor is the age of the tables in a level: an older
version in a level above would be found first.

The proof found a gap in an earlier version of the model. `Drained` is not kept when a
flush drains while another one is under way, which nothing ruled out: a batch that is
put into the memtable and fails to be logged lets a second flush drain, finish and
truncate the log while the first has its rows in a local variable only. TLC finds it
with a workload of two flushing threads, which is now part of the run; `overlap`
records it.

`StructureProofs`, for any symbols and any number of ids that is not zero; for any
keys, capacity and sizes of blocks; for any keys, values and number of levels:

* `DictionaryResolves`: `IdsResolve`. The invariant `Listed` says that the list has
  every symbol once and that its id is its position modulo `IdSpace`, which `IdsResolve`
  alone does not: two symbols could swap ids beyond the first `IdSpace`.
* `CacheListIntact`: `ListIntact`, and `CacheRefines`: `RefinesCache`. What follows the
  pointers is a recursive function, so the invariant does not speak of it: `CacheInv`
  says that there is a sequence `s` of nodes which the pointers of the nodes spell out
  (`Pointers`), that every node is in `s` or on the free list, once (`Apart`), that the
  map leads to the nodes of `s` (`Mapped`) and that `size` is the last of the sums of
  the blocks of `s` (`Summed`; a sum over a sequence is given by its partial sums).
  remove_tail, move_to_head and add_to_head each give a new `s`; `Evicted` is the
  induction over the calls of remove_tail. `ListFollowed` shows that `LinkedList` is `s`.
  `ListIntact` has a part about the nodes (`Woven`) and one about the bytes (`Accounted`:
  `size` is the sum of the blocks in the list, and not above the capacity).
* `SkipListPointersLive`: `PointersLive`, and `SkipListRefines`: `RefinesMap`. `SkipInv`
  says that there are nodes `1 .. n` and a set of them for every level, each in the one
  below, level 0 with all of them, none above `level`; on every level a node points to
  the one with the next key, or nowhere if it has the highest (`Threaded`). The search
  along a level (`AlongIs`) and from level to level (`BeforeIs`) ends at the last node
  below the key, whatever the levels; from there get, insert and drain follow.
  `PointersLive` alone is not inductive: it does not say that the levels are in the
  order of the keys, and an insertion found by a search would not keep it.

`ScanStreamProofs`, for any timestamps, batches, set-ups, thresholds, ranges and
bounds:

* `TablesReachable`: `ArchiveReachable`; `NoKeyLost`: `NothingLost`, with compactions
  that remove, create and write one file at a time and may fail or be cut off anywhere;
  `MergedTablesStayAway`: `NoTableReturns`.
* `StreamsComplete`: `StreamComplete`, for streams by symbol, which pass over tables, and
  others; and `StreamsSorted`: `StreamSorted`.

The first three share one invariant. `Shelved`: a level has written tables of that level, so
none is on two levels and a compaction empties what it merges. `Archived`: the
uploads to do and the entries are written tables, and entries have objects; the saved
manifest too, unless it is cut. `Retired`: a merged table, in use or not, has no file
or a known reason to be back. `Underway`: what a compaction has read is out of use and has files
until it has removed them, and the table it writes is the newest of all, of the level
below. `Fetching`: while a stream downloads a table its file is
missing and then cut; compact_level does not open such a file, so the table cannot be
merged between the two halves of the download, and the reason noted at its start is still
good at its end; nor is it the table that a compaction writes at that time, which is
newer than every path of the stream. `Held`: while the database is up a key is served
from the memtable, a table in use, the rows a compaction has read, or a table that is
unlisted or dropped; while it is down from the memtable (the log), a file that is not
absent or such a table. The second half is what a restart starts from: it lists
every whole file, and with a cut one it fails. A crash in the middle of a compaction
turns the rows it has read into files that are still there, or into dropped tables.

What a stream returns rests on `StreamInv`, which speaks of the stream and of the rows
of the tables only: they never change once written (`TablesStay`), so that whatever
happens to files, levels and the archive meanwhile leaves it alone (`StreamRests`).
A stream by symbol is refused before the first tick, when `Nameless` says that there is no
key anywhere, or after a restart. A key is still to come (`Waiting`) if the stream has it in what it took of the
memtable, in the batch, or in a table it has not opened, the one being downloaded
included. `Told`: what was returned or is to come was wanted, and the other way round
until a table was missed, the keys of `Unseen` excepted. `Placed`: with an empty batch behind a table that was opened
the stream has missed one, and it ends with tables left only then; so at the end
nothing is to come. For the order, `Advancing`, as long as the tables follow each
other and none was missed: the key returned last is not below any that was returned,
below all that are to come, and not below one of the memtable that is gone. That a
tick of the memtable is below the tables not opened yet takes the batch: it is not
above the first of the batch (`Taken`), which is below them. With the batch empty
and tables left next_tick would break it, but then it opens a table first.

Assumptions of all of these are those named in the modules (`LsmAssumption`, ...):
finite sets of symbols and timestamps, natural bounds, sizes that are not zero. TLC
evaluates them on every run. The invariants were checked by TLC before they were
proved.

Only model-checked:

* liveness (`EveryCallReturns`, `EveryTickReplicated`), outside what TLAPS supports
  here, like ENABLED;
* what the codecs, the parser and the executor compute, which are recursive
  (`RECURSIVE`, or by folds): a statement about every input needs an induction that
  the installed provers cannot instantiate.

Modules that take operators from SequencesExt can be proved about; facts by
induction over numbers are proved from the well-foundedness of the naturals for
a set instead of a predicate (`SetInduction`).

## 5. What is not modelled

* Byte formats other than that of the SSTable: WAL records, JSON. In `Wal` a
  record's bytes count only for where a cut falls.
* `decode_ticks` and the cached read of a block: no table gets past `open`
  (`as_documented`), and below the model of a readable table they would be judged on
  bytes the program never produces.
* Downloads by `get` and `scan`, which call `ensure_local` as the stream does, but
  under the compaction lock; two readers downloading one file at the same time.
* `scan` over all symbols and over ranges of more than one timestamp; the split of
  a compaction's output into chunks of 10000 rows; statistics.
* The hash functions and the size of the bloom filter: it is a set without false
  negatives.
* Command line, Python bindings, benchmarks: conversions around the facade.

## 6. Plan

Done, in this order: LsmLocks and its proofs; Wal and its proofs; LsmTree;
Replication; SkipList with OrderedMap, BlockCache with BoundedCache, Columns,
Dictionary, GqlParser and GqlExecutor; SsTable; ColdTier and ScanStream; AsDocumented.

Proved, in this order: the locks and the durability of the log; the order of the
log and its paging; replication; the engine's types, durability and reads; the
dictionary; the archive; the block cache and the skip list with their refinements;
what scans and gets of the engine find; what a stream returns. Then, with compactions
step by step in ColdTier, filters and refusals in ScanStream and refusals in LsmTree,
the theorems about these again.

Next, modelling: downloads by `get` and `scan` in ColdTier; an abstract key-value
store that LsmTree implements while `hazards` is empty; narrower exceptions, so that a
property says of a hazard not only that nothing else goes wrong but also when it does.
