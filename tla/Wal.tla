--------------------------------- MODULE Wal ---------------------------------
(***************************************************************************)
(* The write-ahead log of graphite-core/src/wal.rs on a file that can lose *)
(* what has not been synced and can keep part of a record.                 *)
(*                                                                         *)
(* A record is its sequence number and an id that stands for its payload;  *)
(* the magic, version, length and checksum of the format are abstracted to *)
(* what replay() makes of the bytes behind the last whole record:          *)
(*   0       nothing there: replay stops at the end of the file            *)
(*   1..3    the read of the 4-byte magic fails: replay stops, silently    *)
(*   Bad     a short read further on, a bad magic or a checksum mismatch:  *)
(*           replay returns an error                                       *)
(* Whatever is appended behind stray bytes is part of a bad region, since  *)
(* 1..3 bytes of a magic followed by a magic are not a magic.              *)
(*                                                                         *)
(* Calls do not interleave: the LsmTree keeps the Wal under a RwLock and   *)
(* all operations that write take &mut self.                               *)
(***************************************************************************)
EXTENDS Naturals, Sequences, FiniteSets, Selection

CONSTANTS
    MaxRecords,   \* bound: records written in a behaviour
    MaxBatch,     \* bound: records of one append_batch
    MaxCrashes,   \* bound: kills and power losses
    TornSizes,    \* stray bytes an interrupted write may leave, capped at Bad
    IoErrors      \* whether a write or a sync may return an error

Bad == 4

ASSUME WalAssumption ==
    /\ MaxRecords \in Nat
    /\ MaxBatch \in Nat
    /\ MaxCrashes \in Nat
    /\ TornSizes \subseteq 0 .. Bad
    /\ IoErrors \in BOOLEAN

Record == [seq : Nat, id : Nat]
Content == [recs : Seq(Record), tail : 0 .. Bad]
Empty == [recs |-> << >>, tail |-> 0]

Ids(recs) == { recs[i].id : i \in 1 .. Len(recs) }

VARIABLES
    cache,      \* the file as the running system sees it
    disk,       \* the file as the last sync left it
    cut,        \* a set_len(0) has not been synced yet
    status,     \* closed, open, or refused: Wal::open returned an error
    sequence,   \* Wal.sequence
    replayed,   \* Wal.replayed: the ids replay() returned
    op,         \* the call in progress: its kind and what it has left to write
    written,    \* the ids the call in progress has written
    nextId,     \* the number of records written so far
    crashes,    \* the number of crashes so far
    acked,      \* history: ids whose append returned Ok since the last truncate
    ioErr       \* history: an I/O error has occurred

vars == << cache, disk, cut, status, sequence, replayed, op, written, nextId,
           crashes, acked, ioErr >>

Idle == [kind |-> "idle", left |-> 0]

TypeOK ==
    /\ cache \in Content
    /\ disk \in Content
    /\ cut \in BOOLEAN
    /\ status \in {"closed", "open", "refused"}
    /\ sequence \in Nat
    /\ replayed \in Seq(Nat)
    /\ op \in [kind : {"idle", "append", "append_batch", "truncate"}, left : Nat]
    /\ written \in SUBSET Nat
    /\ nextId \in Nat
    /\ crashes \in Nat
    /\ acked \in SUBSET Nat
    /\ ioErr \in BOOLEAN

Init ==
    /\ cache = Empty
    /\ disk = Empty
    /\ cut = FALSE
    /\ status = "closed"
    /\ sequence = 0
    /\ replayed = << >>
    /\ op = Idle
    /\ written = {}
    /\ nextId = 0
    /\ crashes = 0
    /\ acked = {}
    /\ ioErr = FALSE

(***************************************************************************)
(* Opening.                                                                *)
(***************************************************************************)

\* replay() reads the file without an error.
Replays(f) == f.tail # Bad

\* The sequence of the last record instead of the one behind it.
NextSequenceOffByOne(recs) == IF recs = << >> THEN 0 ELSE recs[Len(recs)].seq

NextSequence(recs) == IF recs = << >> THEN 0 ELSE recs[Len(recs)].seq + 1

open ==
    /\ status = "closed"
    /\ Replays(cache)
    /\ status' = "open"
    /\ replayed' = [i \in 1 .. Len(cache.recs) |-> cache.recs[i].id]
    /\ sequence' = NextSequence(cache.recs)
    /\ UNCHANGED << cache, disk, cut, op, written, nextId, crashes, acked, ioErr >>

\* A further attempt fails on the same bytes: the file has not changed.
open_error ==
    /\ status \in {"closed", "refused"}
    /\ ~Replays(cache)
    /\ status' = "refused"
    /\ UNCHANGED << cache, disk, cut, sequence, replayed, op, written, nextId,
                    crashes, acked, ioErr >>

(***************************************************************************)
(* Appending.  append() advances the sequence after the sync, append_batch *)
(* after each write.                                                       *)
(***************************************************************************)

\* Stray bytes that are not folded into one bad region.
StrayUncapped(f, b) == [f EXCEPT !.tail = @ + b]

\* b more stray bytes behind f.
Stray(f, b) == [f EXCEPT !.tail = IF @ + b > Bad THEN Bad ELSE @ + b]

\* A whole record behind f.
Put(f, r) ==
    IF f.tail = 0 THEN [f EXCEPT !.recs = Append(@, r)] ELSE [f EXCEPT !.tail = Bad]

Start(kind, n) ==
    /\ status = "open"
    /\ op = Idle
    /\ op' = [kind |-> kind, left |-> n]
    /\ written' = {}

append_call ==
    /\ Start("append", 1)
    /\ UNCHANGED << cache, disk, cut, status, sequence, replayed, nextId, crashes,
                    acked, ioErr >>

append_batch_call ==
    /\ \E n \in 0 .. MaxBatch : Start("append_batch", n)
    /\ UNCHANGED << cache, disk, cut, status, sequence, replayed, nextId, crashes,
                    acked, ioErr >>

\* write_all of a batch record that leaves the sequence for the sync to advance.
write_all_same_sequence ==
    /\ op.left > 0
    /\ nextId < MaxRecords
    /\ cache' = Put(cache, [seq |-> sequence, id |-> nextId])
    /\ nextId' = nextId + 1
    /\ written' = written \cup {nextId}
    /\ op' = [op EXCEPT !.left = @ - 1]
    /\ UNCHANGED << disk, cut, status, sequence, replayed, crashes, acked, ioErr >>

write_all ==
    /\ op.left > 0
    /\ nextId < MaxRecords
    /\ cache' = Put(cache, [seq |-> sequence, id |-> nextId])
    /\ nextId' = nextId + 1
    /\ written' = written \cup {nextId}
    /\ op' = [op EXCEPT !.left = @ - 1]
    /\ sequence' = IF op.kind = "append_batch" THEN sequence + 1 ELSE sequence
    /\ UNCHANGED << disk, cut, status, replayed, crashes, acked, ioErr >>

\* write_all fails part of the way through a record: `?` returns the error.
write_all_error ==
    /\ IoErrors
    /\ op.left > 0
    /\ \E b \in TornSizes : cache' = Stray(cache, b)
    /\ op' = Idle
    /\ written' = {}
    /\ ioErr' = TRUE
    /\ UNCHANGED << disk, cut, status, sequence, replayed, nextId, crashes, acked >>

\* A log that acknowledges without making the record durable.
sync_all_skipped ==
    /\ op.kind # "idle"
    /\ op.left = 0
    /\ acked' = acked \cup written
    /\ op' = Idle
    /\ written' = {}
    /\ sequence' = IF op.kind = "append" THEN sequence + 1 ELSE sequence
    /\ UNCHANGED << cache, disk, cut, status, replayed, nextId, crashes, ioErr >>

\* The sync that ends append, append_batch and truncate: the call returns Ok.
sync_all ==
    /\ op.kind # "idle"
    /\ op.left = 0
    /\ disk' = cache
    /\ cut' = FALSE
    /\ acked' = acked \cup written
    /\ op' = Idle
    /\ written' = {}
    /\ sequence' = IF op.kind = "append" THEN sequence + 1 ELSE sequence
    /\ UNCHANGED << cache, status, replayed, nextId, crashes, ioErr >>

sync_all_error ==
    /\ IoErrors
    /\ op.kind # "idle"
    /\ op.left = 0
    /\ op' = Idle
    /\ written' = {}
    /\ ioErr' = TRUE
    /\ UNCHANGED << cache, disk, cut, status, sequence, replayed, nextId, crashes,
                    acked >>

(***************************************************************************)
(* truncate(): set_len(0), then the sync above.  The sequence goes on.     *)
(***************************************************************************)

truncate ==
    /\ Start("truncate", 0)
    /\ cache' = Empty
    /\ cut' = TRUE
    /\ acked' = {}
    /\ UNCHANGED << disk, status, sequence, replayed, nextId, crashes, ioErr >>

(***************************************************************************)
(* Crashes.  A kill keeps what the page cache has; a write in progress may *)
(* have got part of its record there.  A power loss keeps at least what    *)
(* was synced: the file as it was before an unsynced set_len, or any       *)
(* prefix of what has been written since, cut inside a record or not.      *)
(***************************************************************************)

\* The process is gone: what was in its memory is reset by the next open.
Down ==
    /\ crashes < MaxCrashes
    /\ crashes' = crashes + 1
    /\ status' = "closed"
    /\ op' = Idle
    /\ written' = {}
    /\ replayed' = << >>
    /\ sequence' = 0

Kill ==
    /\ Down
    /\ \E b \in TornSizes \cup {0} :
        /\ b > 0 => op.left > 0
        /\ cache' = Stray(cache, b)
    /\ UNCHANGED << disk, cut, nextId, acked, ioErr >>

\* The records of a power loss' survivor: k of those in the cache.
Prefix(recs, k) == SubSeq(recs, 1, k)

\* What a power loss can leave.
Survivors ==
    LET least == IF cut THEN 0 ELSE Len(disk.recs)
    IN  (IF cut THEN {disk} ELSE {})
        \cup { [recs |-> Prefix(cache.recs, k), tail |-> b] :
                 k \in least .. Len(cache.recs) - 1, b \in TornSizes \cup {0} }
        \cup { [recs |-> cache.recs, tail |-> b] :
                 b \in { c \in 0 .. Bad :
                          /\ c <= cache.tail
                          /\ ~cut /\ disk.recs = cache.recs => disk.tail <= c } }

PowerLoss ==
    /\ Down
    /\ \E f \in Survivors :
        /\ cache' = f
        /\ disk' = f
    /\ cut' = FALSE
    /\ UNCHANGED << nextId, acked, ioErr >>

Next ==
    \/ open \/ open_error
    \/ append_call \/ append_batch_call
    \/ write_all \/ write_all_error
    \/ sync_all \/ sync_all_error
    \/ truncate
    \/ Kill \/ PowerLoss

Spec == Init /\ [][Next]_vars

(***************************************************************************)
(* read_for_replication(after, limit): up to limit records with a sequence *)
(* greater than after; after is an Option, a set of at most one number. The *)
(* scan stops at the limit before it looks at the next record, so a bad    *)
(* region is an error only if the scan gets there.                         *)
(***************************************************************************)
ReadError == << "error" >>

Page(wanted, limit) ==
    LET found == SelectAt(cache.recs, wanted)
    IN  IF Len(found) >= limit THEN SubSeq(found, 1, limit)
        ELSE IF Replays(cache) THEN found ELSE ReadError

\* The filter of a reader that takes the record it was given last once more.
read_inclusive(after, limit) ==
    Page({ i \in 1 .. Len(cache.recs) : \A a \in after : cache.recs[i].seq >= a }, limit)

read_for_replication(after, limit) ==
    Page({ i \in 1 .. Len(cache.recs) : \A a \in after : cache.recs[i].seq > a }, limit)

(***************************************************************************)
(* Properties.                                                             *)
(***************************************************************************)

(* Whenever Wal::open succeeds, after any sequence of crashes, torn writes *)
(* and I/O errors, replay() returns every record whose append or           *)
(* append_batch returned Ok since the last truncate.                       *)
OpenReplaysAcked ==
    [][status = "closed" /\ status' = "open" =>
            \A id \in acked : \E i \in 1 .. Len(replayed') : replayed'[i] = id]_vars

(* Records are replayed in the order in which they were appended, none     *)
(* twice, and until an I/O call fails their sequence numbers increase      *)
(* strictly, although truncate and reopening set them differently.         *)
ReplayInOrder ==
    \A i, j \in 1 .. Len(cache.recs) : i < j =>
        /\ cache.recs[i].id < cache.recs[j].id
        /\ ioErr \/ cache.recs[i].seq < cache.recs[j].seq

(* A sequence number handed to a new record is above those of all records  *)
(* in the file, so a replica that asks for what follows its last sequence  *)
(* is given the record.                                                    *)
SequenceAhead ==
    status = "open" /\ ~ioErr =>
        \A i \in 1 .. Len(cache.recs) :
            \/ cache.recs[i].seq < sequence
            \/ op.kind = "append" /\ op.left = 0 /\ i = Len(cache.recs)

(* A replica that pulls page after page, each from the last sequence       *)
(* number of the page before, is given every record of the file exactly    *)
(* once, as long as no I/O failed: a page goes on where the last one ended *)
(* and has as many records as were asked for or all that are left.  Behind *)
(* the last whole record a page ends with an error if there is part of one *)
(* that cannot be read.                                                    *)
PagingIsComplete ==
    status = "open" /\ ~ioErr =>
        \A i \in 1 .. Len(cache.recs) + 1, limit \in 0 .. Len(cache.recs) + 1 :
            LET after == IF i = 1 THEN {} ELSE {cache.recs[i - 1].seq}
                rest == SubSeq(cache.recs, i, Len(cache.recs))
            IN  read_for_replication(after, limit)
                  = IF limit <= Len(rest) THEN SubSeq(rest, 1, limit)
                    ELSE IF Replays(cache) THEN rest ELSE ReadError

(* A crash never makes the log unreadable: Wal::open succeeds ("full       *)
(* replay on crash recovery").                                             *)
CrashNeverBlocksOpen == status # "refused"

=============================================================================
