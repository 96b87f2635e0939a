------------------------------ MODULE WalProofs ------------------------------
(***************************************************************************)
(* Proofs about Wal for every bound, every set of torn sizes and with or   *)
(* without I/O errors.                                                     *)
(***************************************************************************)
EXTENDS Wal, DataLemmas

(***************************************************************************)
(* The inductive invariant.  OpenReplaysAcked speaks of the moment of      *)
(* opening; it holds because at all times both the cached file and the     *)
(* synced one, and so whatever a power loss leaves between them, contain   *)
(* the acknowledged records or cannot be replayed at all.                  *)
(***************************************************************************)
Contains(f, ids) == Replays(f) => ids \subseteq Ids(f.recs)

Extends(short, long) ==
    /\ Len(short) <= Len(long)
    /\ \A i \in 1 .. Len(short) : short[i] = long[i]

\* The synced file is a prefix of the cached one, stray bytes included.
Behind ==
    /\ Extends(disk.recs, cache.recs)
    /\ disk.tail # 0 => disk.recs = cache.recs
    /\ disk.recs = cache.recs => disk.tail <= cache.tail

Durable ==
    /\ Contains(cache, acked)
    /\ Contains(cache, written)
    /\ cut => acked = {}
    /\ ~cut => Contains(disk, acked) /\ Behind

Inv == TypeOK /\ Durable

(***************************************************************************)
(* The order of the records.  The synced file is part of it, since a power *)
(* loss after an unsynced truncate brings it back; the sequence number of  *)
(* the next record is above all others except while append() is between    *)
(* its write and its sync.                                                 *)
(***************************************************************************)
Ordered(recs) ==
    /\ \A i \in 1 .. Len(recs) : recs[i].id < nextId
    /\ \A i, j \in 1 .. Len(recs) : i < j =>
        recs[i].id < recs[j].id /\ (ioErr \/ recs[i].seq < recs[j].seq)

Pending == op.kind = "append" /\ op.left = 0

OpOK ==
    /\ op.left > 0 => status = "open" /\ op.kind \in {"append", "append_batch"}
    /\ op.kind = "append" => op.left <= 1

Ahead ==
    status = "open" /\ ~ioErr =>
        \A i \in 1 .. Len(cache.recs) :
            \/ cache.recs[i].seq < sequence
            \/ Pending /\ i = Len(cache.recs) /\ cache.recs[i].seq = sequence

Ordering == Ordered(cache.recs) /\ Ordered(disk.recs) /\ OpOK /\ Ahead

----------------------------------------------------------------------------

(* A longer log has the ids of a shorter one.                              *)
LEMMA ExtendsIds ==
    ASSUME NEW a \in Seq(Record), NEW b \in Seq(Record), Extends(a, b)
    PROVE  Ids(a) \subseteq Ids(b)
BY DEF Extends, Ids

(* A file and a record put behind it.                                      *)
LEMMA PutFile ==
    ASSUME NEW f \in Content, NEW r \in Record
    PROVE  /\ Put(f, r) \in Content
           /\ f.tail = 0 => /\ Put(f, r).recs = Append(f.recs, r)
                            /\ Put(f, r).tail = 0
                            /\ Ids(Put(f, r).recs) = Ids(f.recs) \cup {r.id}
           /\ f.tail # 0 => Put(f, r).recs = f.recs /\ Put(f, r).tail = Bad
<1>1. f.tail # 0 => Put(f, r) \in Content /\ Put(f, r).recs = f.recs /\ Put(f, r).tail = Bad
  BY DEF Put, Content, Bad
<1>2. ASSUME f.tail = 0
      PROVE  /\ Put(f, r) \in Content
             /\ Put(f, r).recs = Append(f.recs, r)
             /\ Put(f, r).tail = 0
  BY <1>2 DEF Put, Content, Bad
<1>3. Ids(Append(f.recs, r)) = Ids(f.recs) \cup {r.id}
  <2>1. f.recs \in Seq(Record)
    BY DEF Content
  <2>2. /\ Len(Append(f.recs, r)) = Len(f.recs) + 1
        /\ \A i \in 1 .. Len(f.recs) : Append(f.recs, r)[i] = f.recs[i]
        /\ Append(f.recs, r)[Len(f.recs) + 1] = r
    BY <2>1
  <2>. QED
    BY <2>1, <2>2 DEF Ids
<1>. QED
  BY <1>1, <1>2, <1>3

(* A file and stray bytes behind it.                                       *)
LEMMA StrayFile ==
    ASSUME NEW f \in Content, NEW b \in 0 .. Bad
    PROVE  /\ Stray(f, b) \in Content
           /\ Stray(f, b).recs = f.recs
           /\ f.tail <= Stray(f, b).tail
           /\ Replays(Stray(f, b)) => Replays(f)
BY DEF Stray, Content, Bad, Replays

(* The values that a reset assigns have the right types.                   *)
LEMMA ResetTypes ==
    /\ Idle \in [kind : {"idle", "append", "append_batch", "truncate"}, left : Nat]
    /\ << >> \in Seq(Nat)
    /\ Empty \in Content /\ Empty.recs = << >> /\ Empty.tail = 0
<1>1. Idle \in [kind : {"idle", "append", "append_batch", "truncate"}, left : Nat]
  BY DEF Idle
<1>2. << >> \in Seq(Nat)
  OBVIOUS
<1>3. Empty \in Content /\ Empty.recs = << >> /\ Empty.tail = 0
  BY DEF Empty, Content, Bad
<1>. QED
  BY <1>1, <1>2, <1>3

(* The initial states satisfy the invariant.                               *)
LEMMA InitInv == Init => Inv
<1>. SUFFICES ASSUME Init PROVE Inv
  OBVIOUS
<1>2. TypeOK
  BY ResetTypes DEF Init, TypeOK
<1>3. Durable
  BY ResetTypes DEF Init, Durable, Contains, Behind, Extends
<1>. QED
  BY <1>2, <1>3 DEF Inv

(* A file that a power loss leaves is a file.                              *)
LEMMA SurvivorFile ==
    ASSUME TypeOK, NEW f \in Survivors
    PROVE  f \in Content
<1>1. /\ cache.recs \in Seq(Record) /\ cache.tail \in 0 .. Bad
      /\ disk \in Content /\ disk.recs \in Seq(Record)
  BY DEF TypeOK, Content
<1>2. \A k \in 0 .. Len(cache.recs) : Prefix(cache.recs, k) \in Seq(Record)
  BY <1>1 DEF Prefix
<1>. QED
  BY <1>1, <1>2, WalAssumption DEF Survivors, Content, Bad

(* What a power loss leaves has the acknowledged records, or cannot be     *)
(* replayed.                                                               *)
LEMMA SurvivorContains ==
    ASSUME Inv, NEW f \in Survivors
    PROVE  Contains(f, acked)
<1>1. CASE cut
  BY <1>1 DEF Inv, Durable, Contains
<1>2. CASE ~cut
  <2>1. /\ cache.recs \in Seq(Record) /\ disk.recs \in Seq(Record)
        /\ cache.tail \in 0 .. 4 /\ disk.tail \in 0 .. 4
        /\ Contains(disk, acked) /\ Behind
    BY <1>2 DEF Inv, TypeOK, Durable, Content, Bad
  <2>2. Ids(disk.recs) \subseteq Ids(cache.recs)
    BY <2>1, ExtendsIds DEF Behind
  <2>3. CASE \E k \in Len(disk.recs) .. Len(cache.recs) - 1 : f.recs = Prefix(cache.recs, k)
    <3>1. PICK k \in Len(disk.recs) .. Len(cache.recs) - 1 : f.recs = Prefix(cache.recs, k)
      BY <2>3
    <3>2. disk.tail = 0
      BY <2>1, <3>1 DEF Behind
    <3>3. /\ f.recs \in Seq(Record)
          /\ Len(f.recs) = k
          /\ \A i \in 1 .. k : f.recs[i] = cache.recs[i]
      BY <2>1, <3>1 DEF Prefix
    <3>4. Extends(disk.recs, f.recs)
      BY <2>1, <3>1, <3>3 DEF Behind, Extends
    <3>5. Ids(disk.recs) \subseteq Ids(f.recs)
      BY <2>1, <3>3, <3>4, ExtendsIds
    <3>. QED
      BY <2>1, <3>2, <3>5 DEF Contains, Replays, Bad
  <2>4. CASE f.recs = cache.recs /\ (disk.recs = cache.recs => disk.tail <= f.tail)
             /\ f.tail \in 0 .. 4
    BY <2>1, <2>2, <2>4 DEF Contains, Replays, Bad, Behind
  <2>5. \/ \E k \in Len(disk.recs) .. Len(cache.recs) - 1 : f.recs = Prefix(cache.recs, k)
        \/ /\ f.recs = cache.recs
           /\ disk.recs = cache.recs => disk.tail <= f.tail
           /\ f.tail \in 0 .. 4
    BY <1>2 DEF Survivors, Bad
  <2>. QED
    BY <2>3, <2>4, <2>5
<1>. QED
  BY <1>1, <1>2

----------------------------------------------------------------------------

(* Every step keeps the types.                                             *)
LEMMA NextTypes ==
    ASSUME TypeOK, Next
    PROVE  TypeOK'
<1>. USE DEF TypeOK
<1>1. CASE open
  <2>1. cache.recs \in Seq(Record)
    BY DEF Content
  <2>2. NextSequence(cache.recs) \in Nat
    <3>1. cache.recs # << >> => cache.recs[Len(cache.recs)] \in Record
      BY <2>1
    <3>. QED
      BY <3>1 DEF NextSequence, Record
  <2>3. [i \in 1 .. Len(cache.recs) |-> cache.recs[i].id] \in Seq(Nat)
    <3>1. Len(cache.recs) \in Nat
          /\ \A i \in 1 .. Len(cache.recs) : cache.recs[i].id \in Nat
      <4>1. \A i \in 1 .. Len(cache.recs) : cache.recs[i] \in Record
        BY <2>1
      <4>2. \A r \in Record : r.id \in Nat
        BY DEF Record
      <4>. QED
        BY <2>1, <4>1, <4>2
    <3>. QED
      BY <3>1
  <2>. QED
    BY <1>1, <2>2, <2>3 DEF open
<1>2. CASE open_error
  BY <1>2 DEF open_error
<1>3. CASE append_call
  BY <1>3 DEF append_call, Start
<1>4. CASE append_batch_call
  BY <1>4 DEF append_batch_call, Start
<1>5. CASE write_all
  <2>1. [seq |-> sequence, id |-> nextId] \in Record
    BY DEF Record
  <2>2. cache' \in Content
    BY <1>5, <2>1, PutFile DEF write_all
  <2>3. op' \in [kind : {"idle", "append", "append_batch", "truncate"}, left : Nat]
    BY <1>5, SMTT(60) DEF write_all
  <2>. QED
    BY <1>5, <2>2, <2>3, SMTT(60) DEF write_all
<1>6. CASE write_all_error
  <2>1. cache' \in Content
    BY <1>6, StrayFile, WalAssumption DEF write_all_error
  <2>. QED
    BY <1>6, <2>1, ResetTypes DEF write_all_error
<1>7. CASE sync_all
  <2>1. disk' \in Content /\ acked' \in SUBSET Nat /\ written' \in SUBSET Nat
    BY <1>7 DEF sync_all
  <2>2. sequence' \in Nat
    BY <1>7 DEF sync_all
  <2>. QED
    BY <1>7, <2>1, <2>2, ResetTypes DEF sync_all
<1>8. CASE sync_all_error
  BY <1>8, ResetTypes DEF sync_all_error
<1>9. CASE truncate
  BY <1>9, ResetTypes DEF truncate, Start
<1>10. CASE Kill
  <2>1. cache' \in Content
    BY <1>10, StrayFile, WalAssumption DEF Kill, Bad
  <2>. QED
    BY <1>10, <2>1, ResetTypes DEF Kill, Down
<1>11. CASE PowerLoss
  <2>1. cache' \in Content /\ disk' \in Content
    BY <1>11, SurvivorFile DEF PowerLoss
  <2>. QED
    <3>1. /\ crashes' = crashes + 1 /\ status' = "closed" /\ op' = Idle /\ written' = {}
          /\ replayed' = << >> /\ sequence' = 0 /\ cut' = FALSE
          /\ nextId' = nextId /\ acked' = acked /\ ioErr' = ioErr
      BY <1>11 DEF PowerLoss, Down
    <3>2. /\ crashes' \in Nat /\ sequence' \in Nat /\ nextId' \in Nat
          /\ written' \in SUBSET Nat /\ acked' \in SUBSET Nat
          /\ status' \in {"closed", "open", "refused"}
      BY <3>1
    <3>3. cut' \in BOOLEAN /\ ioErr' \in BOOLEAN
      BY <3>1, Zenon
    <3>. QED
      BY <2>1, <3>1, <3>2, <3>3, ResetTypes, Zenon
<1>. QED
  BY <1>1, <1>2, <1>3, <1>4, <1>5, <1>6, <1>7, <1>8, <1>9, <1>10, <1>11 DEF Next

(* Every step keeps the acknowledged records where a replay finds them.    *)
LEMMA NextDurable ==
    ASSUME Inv, Next
    PROVE  Durable'
<1>1. CASE open \/ open_error
  BY <1>1 DEF open, open_error, Inv, Durable, Contains, Behind
<1>2. CASE append_call \/ append_batch_call
  BY <1>2 DEF append_call, append_batch_call, Start, Inv, Durable, Contains, Behind
<1>3. CASE write_all
  <2>. DEFINE r == [seq |-> sequence, id |-> nextId]
  <2>1. r \in Record /\ cache \in Content /\ disk \in Content
    BY DEF Record, Inv, TypeOK
  <2>2. /\ cache' = Put(cache, r) /\ disk' = disk /\ acked' = acked
        /\ cut' = cut /\ written' = written \cup {r.id}
    BY <1>3 DEF write_all
  <2>3. CASE cache.tail = 0
    <3>1. /\ cache'.recs = Append(cache.recs, r) /\ cache'.tail = 0
          /\ Ids(cache'.recs) = Ids(cache.recs) \cup {r.id}
      BY <2>1, <2>2, <2>3, PutFile
    <3>2. Contains(cache', acked') /\ Contains(cache', written')
      BY <2>2, <2>3, <3>1 DEF Inv, Durable, Contains, Replays, Bad
    <3>3. ~cut => Behind'
      <4>1. cache.recs \in Seq(Record) /\ disk.recs \in Seq(Record) /\ disk.tail \in 0 .. 4
        BY <2>1 DEF Content, Bad
      <4>2. /\ Len(cache'.recs) = Len(cache.recs) + 1
            /\ \A i \in 1 .. Len(cache.recs) : cache'.recs[i] = cache.recs[i]
        BY <3>1, <4>1
      <4>3. ~cut => disk.tail = 0
        BY <2>3, <4>1 DEF Inv, Durable, Behind
      <4>4. ~cut => Extends(disk.recs, cache.recs)
        BY DEF Inv, Durable, Behind
      <4>5. ~cut => Extends(disk.recs, cache'.recs) /\ disk.recs # cache'.recs
        BY <4>1, <4>2, <4>4 DEF Extends
      <4>. QED
        BY <2>2, <4>3, <4>5 DEF Behind
    <3>. QED
      BY <2>2, <3>2, <3>3 DEF Inv, Durable
  <2>4. CASE cache.tail # 0
    <3>1. cache'.recs = cache.recs /\ cache'.tail = Bad
      BY <2>1, <2>2, <2>4, PutFile
    <3>2. disk.tail <= Bad
      BY <2>1 DEF Content, Bad
    <3>. QED
      BY <2>2, <3>1, <3>2 DEF Inv, Durable, Contains, Replays, Behind
  <2>. QED
    BY <2>3, <2>4
<1>4. CASE write_all_error
  <2>1. PICK b \in TornSizes : cache' = Stray(cache, b)
    BY <1>4 DEF write_all_error
  <2>2. b \in 0 .. Bad /\ cache \in Content /\ disk \in Content
    BY WalAssumption DEF Inv, TypeOK
  <2>3. /\ cache'.recs = cache.recs
        /\ cache.tail <= cache'.tail
        /\ Replays(cache') => Replays(cache)
        /\ cache' \in Content
    BY <2>1, <2>2, StrayFile
  <2>4. cache.tail \in 0 .. 4 /\ cache'.tail \in 0 .. 4 /\ disk.tail \in 0 .. 4
    BY <2>2, <2>3 DEF Content, Bad
  <2>. QED
    BY <1>4, <2>3, <2>4 DEF write_all_error, Inv, Durable, Contains, Behind
<1>5. CASE sync_all
  <2>1. /\ cache' = cache /\ disk' = cache /\ cut' = FALSE
        /\ acked' = acked \cup written /\ written' = {}
    BY <1>5 DEF sync_all
  <2>2. cache.recs \in Seq(Record) /\ cache.tail \in 0 .. 4
    BY DEF Inv, TypeOK, Content, Bad
  <2>. QED
    BY <2>1, <2>2 DEF Inv, Durable, Contains, Behind, Extends
<1>6. CASE sync_all_error
  BY <1>6 DEF sync_all_error, Inv, Durable, Contains, Behind
<1>7. CASE truncate
  BY <1>7 DEF truncate, Start, Durable, Contains
<1>8. CASE Kill
  <2>1. PICK b \in TornSizes \cup {0} : cache' = Stray(cache, b)
    BY <1>8 DEF Kill
  <2>2. b \in 0 .. Bad /\ cache \in Content /\ disk \in Content
    BY WalAssumption DEF Inv, TypeOK, Bad
  <2>3. /\ cache'.recs = cache.recs
        /\ cache.tail <= cache'.tail
        /\ Replays(cache') => Replays(cache)
        /\ cache' \in Content
    BY <2>1, <2>2, StrayFile
  <2>4. cache.tail \in 0 .. 4 /\ cache'.tail \in 0 .. 4 /\ disk.tail \in 0 .. 4
    BY <2>2, <2>3 DEF Content, Bad
  <2>. QED
    BY <1>8, <2>3, <2>4 DEF Kill, Down, Inv, Durable, Contains, Behind
<1>9. CASE PowerLoss
  <2>1. PICK f \in Survivors : cache' = f /\ disk' = f
    BY <1>9 DEF PowerLoss
  <2>2. f \in Content /\ Contains(f, acked)
    BY SurvivorFile, SurvivorContains DEF Inv
  <2>3. f.recs \in Seq(Record) /\ f.tail \in 0 .. 4
    BY <2>2 DEF Content, Bad
  <2>. QED
    BY <1>9, <2>1, <2>2, <2>3 DEF PowerLoss, Down, Durable, Contains, Behind, Extends
<1>. QED
  BY <1>1, <1>2, <1>3, <1>4, <1>5, <1>6, <1>7, <1>8, <1>9 DEF Next

(* The invariant is inductive.                                             *)
LEMMA NextInv ==
    ASSUME Inv, [Next]_vars
    PROVE  Inv'
<1>1. CASE Next
  BY <1>1, NextTypes, NextDurable DEF Inv
<1>2. CASE UNCHANGED vars
  BY <1>2 DEF vars, Inv, TypeOK, Durable, Contains, Behind
<1>. QED
  BY <1>1, <1>2

(* The log's state stays well formed, for all bounds.                      *)
THEOREM WalTyped == Spec => []TypeOK
<1>1. Inv => TypeOK
  BY DEF Inv
<1>2. Inv /\ [Next]_vars => Inv'
  BY NextInv
<1>. QED
  BY InitInv, <1>1, <1>2, PTL DEF Spec

(* Durability of the log: for any number of records, crashes and I/O       *)
(* errors and any tearing of interrupted writes, an open that succeeds     *)
(* replays every record acknowledged since the last truncation.            *)
THEOREM WalDurable == Spec => OpenReplaysAcked
<1>1. ASSUME Inv, [Next]_vars, status = "closed", status' = "open", NEW id \in acked
      PROVE  \E i \in 1 .. Len(replayed') : replayed'[i] = id
  <2>1. open
    BY <1>1 DEF Next, vars, open, open_error, append_call, append_batch_call, write_all,
                write_all_error, sync_all, sync_all_error, truncate, Start, Kill, PowerLoss, Down
  <2>2. acked \subseteq Ids(cache.recs)
    BY <1>1, <2>1 DEF open, Inv, Durable, Contains
  <2>3. PICK i \in 1 .. Len(cache.recs) : cache.recs[i].id = id
    BY <1>1, <2>2 DEF Ids
  <2>4. replayed' = [j \in 1 .. Len(cache.recs) |-> cache.recs[j].id]
    BY <2>1 DEF open
  <2>5. Len(cache.recs) \in Nat
    BY <1>1 DEF Inv, TypeOK, Content
  <2>6. Len(replayed') = Len(cache.recs) /\ replayed'[i] = id
    BY <2>3, <2>4, <2>5
  <2>. QED
    BY <2>3, <2>6
<1>2. Inv /\ [Next]_vars =>
         [status = "closed" /\ status' = "open" =>
            \A id \in acked : \E i \in 1 .. Len(replayed') : replayed'[i] = id]_vars
  BY <1>1
<1>3. Inv /\ [Next]_vars => Inv'
  BY NextInv
<1>. QED
  BY InitInv, <1>2, <1>3, PTL DEF Spec, OpenReplaysAcked

----------------------------------------------------------------------------

(* The records of a file have numbers.                                     *)
LEMMA RecordTypes ==
    ASSUME NEW recs \in Seq(Record)
    PROVE  /\ Len(recs) \in Nat
           /\ \A i \in 1 .. Len(recs) : recs[i] \in Record /\ recs[i].id \in Nat /\ recs[i].seq \in Nat
<1>1. Len(recs) \in Nat /\ \A i \in 1 .. Len(recs) : recs[i] \in Record
  OBVIOUS
<1>2. \A r \in Record : r.id \in Nat /\ r.seq \in Nat
  BY DEF Record
<1>. QED
  BY <1>1, <1>2

(* A file that is left alone stays in order.                               *)
LEMMA OrderStays ==
    ASSUME TypeOK, NEW recs \in Seq(Record), Ordered(recs),
           nextId' \in Nat, nextId <= nextId', ioErr => ioErr'
    PROVE  Ordered(recs)'
<1>1. \A i \in 1 .. Len(recs) : recs[i].id < nextId'
  BY RecordTypes DEF TypeOK, Ordered
<1>. QED
  BY <1>1 DEF Ordered

(* A beginning of a file in order is in order.                             *)
LEMMA PrefixOrdered ==
    ASSUME NEW recs \in Seq(Record), Ordered(recs), NEW k \in 0 .. Len(recs)
    PROVE  Ordered(Prefix(recs, k)) /\ Prefix(recs, k) \in Seq(Record)
<1>1. PICK p : p = Prefix(recs, k)
  OBVIOUS
<1>2. /\ p \in Seq(Record) /\ Len(p) = k
      /\ \A i \in 1 .. k : p[i] = recs[i] /\ i \in 1 .. Len(recs)
  BY <1>1 DEF Prefix
<1>3. Ordered(p)
  BY <1>2 DEF Ordered
<1>. QED
  BY <1>1, <1>2, <1>3

(* The initial states are in order.                                        *)
LEMMA InitOrdering == Init => Ordering
<1>. SUFFICES ASSUME Init PROVE Ordering
  OBVIOUS
<1>1. cache.recs = << >> /\ disk.recs = << >> /\ status = "closed" /\ op.left = 0
      /\ op.kind = "idle"
  BY ResetTypes DEF Init, Idle
<1>2. Ordered(cache.recs) /\ Ordered(disk.recs)
  BY <1>1 DEF Ordered
<1>. QED
  BY <1>1, <1>2 DEF Ordering, OpOK, Ahead

(* Every step keeps the order.                                             *)
LEMMA NextOrdering ==
    ASSUME TypeOK, Ordering, Next
    PROVE  Ordering'
<1>1. /\ cache \in Content /\ cache.recs \in Seq(Record)
      /\ disk \in Content /\ disk.recs \in Seq(Record)
      /\ nextId \in Nat /\ sequence \in Nat /\ op.left \in Nat
  BY DEF TypeOK, Content
<1>2. PICK c \in Seq(Record) : c = cache.recs
  BY <1>1
<1>3. PICK d \in Seq(Record) : d = disk.recs
  BY <1>1
<1>4. Ordered(c) /\ Ordered(d) /\ Len(c) \in Nat
      /\ \A i \in 1 .. Len(c) : c[i] \in Record /\ c[i].id \in Nat /\ c[i].seq \in Nat
  BY <1>2, <1>3, RecordTypes DEF Ordering
<1>5. CASE open
  <2>1. /\ status' = "open" /\ sequence' = NextSequence(c)
        /\ cache' = cache /\ disk' = disk /\ op' = op /\ nextId' = nextId /\ ioErr' = ioErr
        /\ status = "closed"
    BY <1>2, <1>5 DEF open
  <2>2. Ordered(c)' /\ Ordered(d)'
    BY <1>1, <1>4, <2>1, OrderStays
  <2>3. ASSUME ~ioErr, NEW i \in 1 .. Len(c)
        PROVE  c[i].seq < sequence'
    <3>1. Len(c) \in 1 .. Len(c) /\ sequence' = c[Len(c)].seq + 1
      BY <1>4, <2>1 DEF NextSequence
    <3>2. CASE i = Len(c)
      BY <1>4, <3>1, <3>2
    <3>3. CASE i < Len(c)
      <4>1. c[i].seq < c[Len(c)].seq
        BY <1>4, <2>3, <3>1, <3>3 DEF Ordered
      <4>. QED
        BY <1>4, <3>1, <4>1
    <3>. QED
      BY <1>4, <3>2, <3>3
  <2>4. Ahead'
    BY <1>2, <2>1, <2>3 DEF Ahead
  <2>. QED
    BY <1>2, <1>3, <2>1, <2>2, <2>4 DEF Ordering, OpOK
<1>6. CASE open_error \/ append_call \/ append_batch_call
  <2>1. /\ cache' = cache /\ disk' = disk /\ nextId' = nextId /\ ioErr' = ioErr
        /\ sequence' = sequence /\ (status' = "open" => status = "open")
        /\ \/ op' = op /\ (op.left > 0 => status' = status)
           \/ status = "open" /\ status' = "open" /\ op = Idle /\ op'.kind = "append" /\ op'.left = 1
           \/ status = "open" /\ status' = "open" /\ op = Idle /\ op'.kind = "append_batch"
    BY <1>6 DEF open_error, append_call, append_batch_call, Start, Ordering, OpOK
  <2>2. Ordered(c)' /\ Ordered(d)'
    BY <1>1, <1>4, <2>1, OrderStays
  <2>3. Ahead'
    BY <2>1 DEF Ordering, Ahead, Pending, Idle
  <2>4. OpOK'
    BY <2>1 DEF Ordering, OpOK, Idle
  <2>. QED
    BY <1>2, <1>3, <2>1, <2>2, <2>3, <2>4 DEF Ordering
<1>7. CASE write_all
  <2>1. PICK r \in Record : r = [seq |-> sequence, id |-> nextId]
    BY <1>1 DEF Record
  <2>2. /\ r.seq = sequence /\ r.id = nextId
        /\ op.left > 0 /\ cache' = Put(cache, r) /\ nextId' = nextId + 1
        /\ op'.kind = op.kind /\ op'.left = op.left - 1
        /\ sequence' = IF op.kind = "append_batch" THEN sequence + 1 ELSE sequence
        /\ disk' = disk /\ status' = status /\ ioErr' = ioErr
    BY <1>7, <2>1 DEF write_all, TypeOK
  <2>3. status = "open" /\ op.kind \in {"append", "append_batch"} /\ ~Pending
        /\ (op.kind = "append" => op.left = 1)
    BY <1>1, <2>2 DEF Ordering, OpOK, Pending
  <2>4. OpOK'
    BY <1>1, <2>2, <2>3 DEF OpOK
  <2>5. Ordered(c)' /\ Ordered(d)'
    BY <1>1, <1>4, <2>2, OrderStays
  <2>6. ~ioErr => \A i \in 1 .. Len(c) : c[i].seq < sequence
    BY <1>2, <2>3 DEF Ordering, Ahead
  <2>7. CASE cache.tail # 0
    <3>1. cache'.recs = c
      BY <1>1, <1>2, <2>2, <2>7, PutFile
    <3>2. Ahead'
      BY <1>1, <1>4, <2>2, <2>6, <3>1 DEF Ahead
    <3>. QED
      BY <1>3, <2>2, <2>4, <2>5, <3>1, <3>2 DEF Ordering
  <2>8. CASE cache.tail = 0
    <3>1. PICK e : e = Append(c, r)
      OBVIOUS
    <3>2. /\ cache'.recs = e /\ Len(e) = Len(c) + 1 /\ e[Len(c) + 1] = r
          /\ \A i \in 1 .. Len(c) : e[i] = c[i]
      <4>1. cache'.recs = e
        BY <1>1, <1>2, <2>2, <2>8, <3>1, PutFile
      <4>2. Len(e) = Len(c) + 1 /\ e[Len(c) + 1] = r /\ \A i \in 1 .. Len(c) : e[i] = c[i]
        BY <3>1
      <4>. QED
        BY <4>1, <4>2
    <3>3. \A i \in 1 .. Len(e) : i \in 1 .. Len(c) \/ i = Len(c) + 1
      BY <1>4, <3>2
    <3>4. \A i \in 1 .. Len(c) : c[i].id < nextId
      BY <1>4 DEF Ordered
    <3>5. ASSUME NEW i \in 1 .. Len(e)
          PROVE  e[i].id < nextId'
      <4>1. CASE i \in 1 .. Len(c)
        <5>1. c[i].id < nextId /\ c[i].id \in Nat /\ e[i] = c[i]
          BY <1>4, <3>2, <3>4, <4>1
        <5>. QED
          BY <1>1, <2>2, <5>1
      <4>2. CASE i = Len(c) + 1
        BY <1>1, <2>2, <3>2, <4>2
      <4>. QED
        BY <3>3, <4>1, <4>2
    <3>6. ASSUME NEW i \in 1 .. Len(e), NEW j \in 1 .. Len(e), i < j
          PROVE  e[i].id < e[j].id /\ (ioErr' \/ e[i].seq < e[j].seq)
      <4>1. i \in 1 .. Len(c) /\ e[i] = c[i]
        BY <1>4, <3>2, <3>6
      <4>2. CASE j \in 1 .. Len(c)
        BY <1>4, <2>2, <3>2, <3>6, <4>1, <4>2 DEF Ordered
      <4>3. CASE j = Len(c) + 1
        BY <2>2, <2>6, <3>2, <3>4, <4>1, <4>3
      <4>. QED
        BY <3>3, <4>2, <4>3
    <3>7. Ordered(e)'
      BY <3>5, <3>6 DEF Ordered
    <3>8. Ahead'
      <4>1. ASSUME ~ioErr, NEW i \in 1 .. Len(e)
            PROVE  \/ e[i].seq < sequence'
                   \/ Pending' /\ i = Len(e) /\ e[i].seq = sequence'
        <5>1. CASE i \in 1 .. Len(c)
          <6>1. c[i].seq < sequence /\ c[i].seq \in Nat
            BY <1>4, <2>6, <4>1, <5>1
          <6>. QED
            BY <1>1, <2>2, <3>2, <5>1, <6>1
        <5>2. CASE i = Len(c) + 1
          BY <1>1, <2>2, <2>3, <3>2, <5>2 DEF Pending
        <5>. QED
          BY <3>3, <5>1, <5>2
      <4>. QED
        BY <2>2, <3>2, <4>1 DEF Ahead
    <3>. QED
      BY <1>3, <2>2, <2>4, <2>5, <3>2, <3>7, <3>8 DEF Ordering
  <2>. QED
    BY <2>7, <2>8
<1>8. CASE write_all_error \/ sync_all_error
  <2>1. cache'.recs = c
    BY <1>1, <1>2, <1>8, StrayFile, WalAssumption DEF write_all_error, sync_all_error
  <2>2. /\ disk' = disk /\ nextId' = nextId /\ ioErr' /\ op' = Idle
    BY <1>8 DEF write_all_error, sync_all_error
  <2>3. Ordered(c)' /\ Ordered(d)'
    BY <1>1, <1>4, <2>2, OrderStays
  <2>. QED
    BY <1>3, <2>1, <2>2, <2>3 DEF Ordering, OpOK, Ahead, Idle
<1>9. CASE sync_all
  <2>1. /\ cache' = cache /\ disk' = cache /\ op' = Idle /\ nextId' = nextId /\ ioErr' = ioErr
        /\ sequence' = IF op.kind = "append" THEN sequence + 1 ELSE sequence
        /\ status' = status /\ op.left = 0
    BY <1>9 DEF sync_all
  <2>2. Ordered(c)'
    BY <1>1, <1>4, <2>1, OrderStays
  <2>3. Ahead'
    <3>1. ASSUME status = "open", ~ioErr, NEW i \in 1 .. Len(c)
          PROVE  c[i].seq < sequence'
      <4>1. c[i].seq < sequence \/ (Pending /\ c[i].seq = sequence)
        BY <1>2, <3>1 DEF Ordering, Ahead
      <4>. QED
        BY <1>1, <1>4, <2>1, <4>1 DEF Pending
    <3>. QED
      BY <1>2, <2>1, <3>1 DEF Ahead
  <2>. QED
    BY <1>2, <2>1, <2>2, <2>3 DEF Ordering, OpOK, Idle
<1>10. CASE truncate
  <2>1. /\ cache'.recs = << >> /\ disk' = disk /\ nextId' = nextId /\ ioErr' = ioErr
        /\ op'.kind = "truncate" /\ op'.left = 0
    BY <1>10, ResetTypes DEF truncate, Start
  <2>2. Ordered(d)'
    BY <1>1, <1>4, <2>1, OrderStays
  <2>3. Ordered(cache.recs)' /\ Ahead'
    BY <2>1 DEF Ordered, Ahead
  <2>. QED
    BY <1>3, <2>1, <2>2, <2>3 DEF Ordering, OpOK
<1>11. CASE Kill
  <2>1. cache'.recs = c
    BY <1>1, <1>2, <1>11, StrayFile, WalAssumption DEF Kill, Bad
  <2>2. /\ disk' = disk /\ nextId' = nextId /\ ioErr' = ioErr /\ op' = Idle /\ status' = "closed"
    BY <1>11 DEF Kill, Down
  <2>3. Ordered(c)' /\ Ordered(d)'
    BY <1>1, <1>4, <2>2, OrderStays
  <2>. QED
    BY <1>3, <2>1, <2>2, <2>3 DEF Ordering, OpOK, Ahead, Idle
<1>12. CASE PowerLoss
  <2>1. PICK f \in Survivors : cache' = f /\ disk' = f
    BY <1>12 DEF PowerLoss
  <2>2. nextId' = nextId /\ ioErr' = ioErr /\ op' = Idle /\ status' = "closed"
    BY <1>12 DEF PowerLoss, Down
  <2>3. \/ f.recs = d
        \/ f.recs = c
        \/ \E k \in 0 .. Len(c) : f.recs = Prefix(c, k)
    BY <1>2, <1>3, <1>4, RecordTypes DEF Survivors
  <2>4. PICK s : s = f.recs
    OBVIOUS
  <2>5. Ordered(s) /\ s \in Seq(Record)
    BY <1>4, <2>3, <2>4, PrefixOrdered
  <2>6. Ordered(s)'
    BY <1>1, <2>2, <2>5, OrderStays
  <2>. QED
    BY <2>1, <2>2, <2>4, <2>6 DEF Ordering, OpOK, Ahead, Idle
<1>. QED
  BY <1>5, <1>6, <1>7, <1>8, <1>9, <1>10, <1>11, <1>12 DEF Next

(* The order is an invariant.                                              *)
LEMMA OrderingInvariant == Spec => []Ordering
<1>1. TypeOK /\ Ordering /\ [Next]_vars => Ordering'
  <2>1. UNCHANGED vars /\ Ordering => Ordering'
    BY DEF vars, Ordering, Ordered, OpOK, Ahead, Pending
  <2>. QED
    BY <2>1, NextOrdering
<1>. QED
  BY <1>1, InitOrdering, WalTyped, PTL DEF Spec

(* For any number of records, truncations, crashes and torn writes: a      *)
(* replay returns the records in the order in which they were appended,    *)
(* none twice, with increasing sequence numbers until an I/O call fails.   *)
THEOREM WalReplaysInOrder == Spec => []ReplayInOrder
<1>1. Ordering => ReplayInOrder
  BY DEF Ordering, Ordered, ReplayInOrder
<1>. QED
  BY <1>1, OrderingInvariant, PTL

(* Likewise, a new record gets a sequence number above all others in the   *)
(* file, whatever truncate() and reopening have done to the counter.       *)
THEOREM WalSequenceAhead == Spec => []SequenceAhead
<1>1. Ordering => SequenceAhead
  BY DEF Ordering, Ahead, Pending, SequenceAhead
<1>. QED
  BY <1>1, OrderingInvariant, PTL

(* read_for_replication() pages through the log: for any file and any page *)
(* size a page begins behind the last record of the page before and leaves *)
(* nothing out.  This rests on the order of the sequence numbers.          *)
THEOREM WalPagesComplete == Spec => []PagingIsComplete
<1>1. ASSUME TypeOK, Ordering, status = "open", ~ioErr,
             NEW i \in 1 .. Len(cache.recs) + 1, NEW limit \in 0 .. Len(cache.recs) + 1
      PROVE  LET after == IF i = 1 THEN {} ELSE {cache.recs[i - 1].seq}
                 rest == SubSeq(cache.recs, i, Len(cache.recs))
             IN  read_for_replication(after, limit)
                   = IF limit <= Len(rest) THEN SubSeq(rest, 1, limit)
                     ELSE IF Replays(cache) THEN rest ELSE ReadError
  <2>. DEFINE after == IF i = 1 THEN {} ELSE {cache.recs[i - 1].seq}
              rest == SubSeq(cache.recs, i, Len(cache.recs))
              wanted == { k \in 1 .. Len(cache.recs) : \A a \in after : cache.recs[k].seq > a }
  <2>1. PICK s \in Seq(Record) : s = cache.recs
    BY <1>1 DEF TypeOK, Content
  <2>2. Len(s) \in Nat /\ \A k \in 1 .. Len(s) : s[k].seq \in Nat
    <3>1. Len(s) \in Nat /\ \A k \in 1 .. Len(s) : s[k] \in Record
      OBVIOUS
    <3>2. \A r \in Record : r.seq \in Nat
      BY DEF Record
    <3>. QED
      BY <3>1, <3>2, Zenon
  <2>3. \A j, k \in 1 .. Len(s) : j < k => s[j].seq < s[k].seq
    BY <1>1, <2>1 DEF Ordering, Ordered
  <2>4. \A k \in 1 .. Len(s) : (\A a \in after : s[k].seq > a) <=> k >= i
    <3>1. CASE i = 1
      BY <2>1, <2>2, <3>1
    <3>2. CASE i # 1
      <4>1. PICK h : h = i - 1
        OBVIOUS
      <4>2. h \in 1 .. Len(s) /\ after = {s[h].seq} /\ i = h + 1
        BY <1>1, <2>1, <2>2, <3>2, <4>1
      <4>3. \A k \in 1 .. Len(s) : s[k].seq > s[h].seq <=> k > h
        BY <2>2, <2>3, <4>2
      <4>. HIDE DEF after
      <4>. QED
        BY <2>2, <4>2, <4>3
    <3>. QED
      BY <3>1, <3>2
  <2>. HIDE DEF after
  <2>5. wanted = i .. Len(s)
    BY <1>1, <2>1, <2>2, <2>4
  <2>. HIDE DEF wanted
  <2>6. SelectAt(s, i .. Len(s)) = SubSeq(s, i, Len(s))
    BY <1>1, <2>1, SelectedRest
  <2>7. SelectAt(cache.recs, wanted) = rest
    BY <2>1, <2>5, <2>6
  <2>8. read_for_replication(after, limit) = Page(wanted, limit)
    BY DEF read_for_replication, wanted
  <2>9. Len(rest) \in Nat /\ limit \in Nat
    BY <1>1, <2>1, <2>2
  <2>10. Len(rest) >= limit <=> limit <= Len(rest)
    <3>. HIDE DEF rest
    <3>. QED
      BY <2>9
  <2>11. Page(wanted, limit) = IF limit <= Len(rest) THEN SubSeq(rest, 1, limit)
                               ELSE IF Replays(cache) THEN rest ELSE ReadError
    <3>. HIDE DEF rest
    <3>. QED
      BY <2>7, <2>10, Zenon DEF Page
  <2>. QED
    BY <2>8, <2>11 DEF after
<1>2. TypeOK /\ Ordering => PagingIsComplete
  BY <1>1 DEF PagingIsComplete
<1>. QED
  BY <1>2, WalTyped, OrderingInvariant, PTL
=============================================================================
