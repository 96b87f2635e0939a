----------------------------- MODULE ScanStream -----------------------------
(***************************************************************************)
(* The streaming scan of graphite-core/src/scan_iter.rs above the tables   *)
(* of module ColdTier.  A stream takes its part of the memtable and the    *)
(* paths of the tables when it is made, holds no lock afterwards, and      *)
(* opens one table after the other, downloading those that are gone.       *)
(***************************************************************************)
EXTENDS ColdTier

CONSTANTS
    Params,        \* what is scanned: a time range [t1, t2], of the symbol or of all
    MaxStreams     \* bound: streams

ASSUME ParamsAssumption == Params \subseteq [t1 : Int, t2 : Int, symbol : BOOLEAN]

VARIABLES
    stream,   \* the ScanStream
    streams   \* the number of streams so far

streamVars == << stream, streams >>

NoStream == [step |-> "none"]

StreamInit ==
    /\ ColdInit
    /\ stream = NoStream
    /\ streams = 0

\* The ticks of a set of rows that are in the range, in the order of their keys.
Sorted(rows, range) ==
    LET in == { k \in Keys(rows) : k \in range.t1 .. range.t2 }
    IN  [i \in 1 .. Cardinality(in) |-> [key |-> Nth(in, i), ver |-> rows[Nth(in, i)]]]

\* A table that begins or ends with the range is left out (mutant).
overlaps_time_range_strict(f, range) ==
    /\ \E k \in Keys(table[f].rows) : k > range.t1
    /\ \E k \in Keys(table[f].rows) : k < range.t2

overlaps_time_range(f, range) ==
    /\ \E k \in Keys(table[f].rows) : k >= range.t1
    /\ \E k \in Keys(table[f].rows) : k <= range.t2

\* may_contain_symbol; overlaps_symbol holds, as there is one symbol and one id.
PassedOver(f, range) == range.symbol /\ ~table[f].names

\* scan_params: the dictionary does not know the symbol.
symbol_not_found(range) ==
    /\ status = "up" /\ stream.step = "none" /\ streams < MaxStreams
    /\ range.symbol /\ named # "named"
    /\ stream' = [step |-> "refused", range |-> range, forgotten |-> named = "forgotten",
                  written |-> UNION ({ Keys(table[f].rows) : f \in DOMAIN table } \cup { Keys(memtable) })]
    /\ streams' = streams + 1
    /\ UNCHANGED coldVars

\* ScanStream::new, under the compaction lock for reading.  The last fields are
\* history: what is in the range, the ticks returned, the tables that could not be
\* opened, those that had no tick in the range, and those that were passed over
\* because their filter does not have the symbol.
scan_stream(range) ==
    /\ status = "up" /\ sync.step \in {"idle", "upload", "save"}
    /\ stream.step = "none" /\ streams < MaxStreams
    /\ range.symbol => named = "named"
    /\ stream' =
        [step |-> "next", range |-> range, mem |-> Sorted(memtable, range),
         paths |-> SelectAt(AllTables, { p \in DOMAIN AllTables :
            overlaps_time_range(AllTables[p], range) /\ ~PassedOver(AllTables[p], range) }),
         idx |-> 0, batch |-> << >>, last |-> 0,
         snapshot |-> memtable,
         wanted |-> { k \in Stamp \cap (range.t1 .. range.t2) : memtable[k] # 0 \/ \E f \in InUse : table[f].rows[k] # 0 },
         out |-> << >>, failed |-> {}, hollow |-> {},
         skipped |-> { f \in InUse : PassedOver(f, range) }]
    /\ streams' = streams + 1
    /\ UNCHANGED coldVars

Path == stream.paths[stream.idx]

\* ensure_sstable_batch: the next table, if the batch is used up.
NeedsBatch == stream.batch = << >> /\ stream.idx < Len(stream.paths)

ensure_sstable_batch ==
    /\ status = "up" /\ stream.step = "next" /\ NeedsBatch
    /\ stream' = [stream EXCEPT !.idx = @ + 1,
                                !.step = IF disk[stream.paths[stream.idx + 1]] = "absent" THEN "fetch" ELSE "open"]
    /\ UNCHANGED << coldVars, streams >>

\* ensure_local: under the lock of the manifest, which a sync holds, the entry is
\* looked up; then the object is read, and fs::write creates the file.
ensure_local_create ==
    /\ status = "up" /\ stream.step = "fetch" /\ sync.step \notin {"upload", "save"}
    /\ IF Path \in manifest
       THEN /\ stream' = [stream EXCEPT !.step = "write"]
            /\ disk' = [disk EXCEPT ![Path] = "cut"]
            /\ excuses' = excuses \cup { << Path, "torn" >> }
                                  \cup (IF Path \in InUse THEN {} ELSE { << Path, "revived" >> })
       ELSE stream' = [stream EXCEPT !.step = "open"] /\ UNCHANGED << disk, excuses >>
    /\ UNCHANGED << setup, status, memtable, named, table, levels, store, manifest, saved, sync,
                    faults, removed, compacted, streams >>

ensure_local_write ==
    /\ status = "up" /\ stream.step = "write"
    /\ stream' = [stream EXCEPT !.step = "open"]
    /\ disk' = [disk EXCEPT ![Path] = "whole"]
    /\ excuses' = excuses \ { << Path, "torn" >> }
    /\ UNCHANGED << setup, status, memtable, named, table, levels, store, manifest, saved, sync,
                    faults, removed, compacted, streams >>

\* The store or the disk fails; the error is ignored.
ensure_local_error ==
    /\ status = "up" /\ stream.step \in {"fetch", "write"} /\ Fault
    /\ stream' = [stream EXCEPT !.step = "open"]
    /\ UNCHANGED << setup, status, memtable, named, table, levels, disk, store, manifest, saved, sync,
                    removed, compacted, excuses, streams >>

\* SsTable::open and scan.  A table that cannot be opened is passed over.
load_next_sstable_batch ==
    /\ status = "up" /\ stream.step = "open"
    /\ stream' =
        LET batch == Sorted(table[Path].rows, stream.range)
        IN  CASE disk[Path] # "whole" -> [stream EXCEPT !.failed = @ \cup {Path}, !.step = "merge"]
              [] disk[Path] = "whole" /\ setup.opens = "panic" -> [stream EXCEPT !.step = "panicked"]
              [] OTHER -> [stream EXCEPT !.batch = batch, !.step = "merge",
                                         !.hollow = IF batch = << >> THEN @ \cup {Path} ELSE @]
    /\ UNCHANGED << coldVars, streams >>

\* On equal keys the tick of the table wins (mutant).
TakesMem_strict(mem, sst) == mem # << >> /\ (sst = << >> \/ mem[1].key < sst[1].key)

\* Whether the memtable, and the table, advance; on equal keys both do.
TakesMem(mem, sst) == mem # << >> /\ (sst = << >> \/ mem[1].key <= sst[1].key)
TakesSst(mem, sst) == sst # << >> /\ (mem = << >> \/ sst[1].key <= mem[1].key)

\* The part of next_tick behind ensure_sstable_batch; a key that repeats the last
\* one is left out, and the loop goes on.
next_tick ==
    LET mem == stream.mem
        sst == stream.batch
        next == IF TakesMem(mem, sst) THEN mem[1] ELSE sst[1]
    IN  /\ status = "up"
        /\ \/ stream.step = "merge"
           \/ stream.step = "next" /\ ~NeedsBatch
        /\ stream' =
            IF mem = << >> /\ sst = << >>
            THEN [stream EXCEPT !.step = "ended"]
            ELSE [stream EXCEPT !.step = "next",
                                !.mem = IF TakesMem(mem, sst) THEN Tail(@) ELSE @,
                                !.batch = IF TakesSst(mem, sst) THEN Tail(@) ELSE @,
                                !.last = next.key,
                                !.out = IF stream.last = next.key THEN @ ELSE Append(@, next)]
        /\ UNCHANGED << coldVars, streams >>

\* The client drops the stream.
DropStream ==
    /\ stream.step \in {"refused", "ended", "panicked"}
    /\ stream' = NoStream
    /\ UNCHANGED << coldVars, streams >>

Crash == CrashCold /\ stream' = NoStream /\ UNCHANGED streams

Next ==
    \/ ColdNext /\ UNCHANGED streamVars
    \/ \E range \in Params : scan_stream(range) \/ symbol_not_found(range)
    \/ ensure_sstable_batch \/ load_next_sstable_batch \/ next_tick
    \/ ensure_local_create \/ ensure_local_write \/ ensure_local_error
    \/ DropStream \/ Crash

Spec == StreamInit /\ [][Next]_<< coldVars, streamVars >>

(***************************************************************************)
(* Properties.                                                             *)
(***************************************************************************)

OutKeys == { stream.out[i].key : i \in DOMAIN stream.out }

\* The rows a stream may return for a key: of the memtable and of its tables.
Candidates(k) == ({ stream.snapshot[k] } \cup { table[f].rows[k] : f \in Range(stream.paths) }) \ {0}

\* The call gave a stream.
Streaming == stream.step \notin {"none", "refused"}

\* The keys that only tables have which were passed over for the symbol.
Unseen ==
    { k \in stream.wanted : Candidates(k) = {} /\ \E f \in stream.skipped : table[f].rows[k] # 0 }

\* What a stream returns is in its range and was in the memtable or a table when
\* it was made, whatever is flushed, compacted, archived and downloaded while it
\* runs.  At its end it has returned every key, but for those of tables whose filter
\* does not have the symbol, unless a table could not be opened
\* or had no tick in the range: then it passes over the tick or, with nothing else
\* at hand at that moment, ends before the tables that are left.  A stream is
\* refused before the first tick of the symbol, or when a restart has emptied the
\* dictionary.
StreamComplete ==
    /\ stream.step = "refused" => stream.written = {} \/ stream.forgotten
    /\ Streaming =>
        /\ OutKeys \subseteq stream.wanted
        /\ \A i \in DOMAIN stream.out : stream.out[i].ver \in Candidates(stream.out[i].key)
    /\ stream.step = "ended" /\ stream.failed \cup stream.hollow = {} =>
        OutKeys = stream.wanted \ Unseen

\* The tables follow each other in the order of the keys that are scanned.
InOrder ==
    LET Scanned(i) == Keys(table[stream.paths[i]].rows) \cap (stream.range.t1 .. stream.range.t2)
    IN  \A i, j \in DOMAIN stream.paths : i < j => \A a \in Scanned(i), b \in Scanned(j) : a < b

\* Ticks come in the order of their keys, once each, and with the version of the
\* memtable where there is one, if the tables follow each other in that order and
\* every one gave a tick.  With tables that overlap, as on level 0 after two
\* flushes, none of this holds: next_tick merges the memtable with one table at a
\* time, in the order of the paths.
StreamSorted ==
    Streaming /\ InOrder /\ stream.failed \cup stream.hollow = {} =>
        \A i \in DOMAIN stream.out :
            /\ i > 1 => stream.out[i - 1].key < stream.out[i].key
            /\ LET mine == stream.snapshot[stream.out[i].key] IN mine # 0 => stream.out[i].ver = mine

\* A table in use is on the disk, or the manifest has an entry for it and the store
\* the object, even when an upload or the saving of the manifest fails half way;
\* only a download that broke off leaves a file that hides the object.  No entry,
\* in memory or on disk, is without its object.
ArchiveReachable ==
    /\ manifest \subseteq store /\ (saved = Cut \/ saved \subseteq store)
    /\ status = "up" => \A f \in InUse :
        \/ disk[f] = "whole"
        \/ disk[f] = "absent" /\ f \in manifest
        \/ disk[f] = "cut" /\ << f, "torn" >> \in excuses

\* A key that was ever written is in the memtable, in a table in use or in one that
\* a compaction under way has read, through compactions, archiving and restarts,
\* unless a restart found no local copy of its table (LsmTree::open looks for tables
\* in the directory only, not in the manifest), or a compaction removed it and then
\* failed, or was cut off by a crash, before the merged table was written.
NothingLost ==
    status = "up" =>
        \A f \in DOMAIN table : \A k \in Keys(table[f].rows) :
            \/ memtable[k] # 0 \/ \E g \in InUse \cup Range(sync.merging) : table[g].rows[k] # 0
            \/ \E g \in DOMAIN table :
                /\ table[g].rows[k] # 0
                /\ << g, "unlisted" >> \in excuses \/ << g, "dropped" >> \in excuses

\* A table that a compaction has merged and removed does not come back into use after a
\* restart, unless its file could not be removed or a stream that was made before
\* the compaction has downloaded it again.
NoTableReturns ==
    \A f \in InUse \cap compacted : << f, "kept" >> \in excuses \/ << f, "revived" >> \in excuses
=============================================================================
