--------------------------- MODULE LsmTreeProofs ---------------------------
(***************************************************************************)
(* Theorems about LsmTree, for any number of threads, symbols, ticks,      *)
(* files, crashes and failed writes: its types, that acknowledged and      *)
(* applied ticks are on disk, that reads answer what was asked, and that   *)
(* scans find ticks and gets the latest.  They follow from the invariant   *)
(* of module LsmTreeLemmas; what reads find needs to know more of tables,  *)
(* of the dictionary, of the log and of the reads under way.               *)
(***************************************************************************)
EXTENDS LsmTreeLemmas

(***************************************************************************)
(* What reads answer.                                                      *)
(***************************************************************************)

(* Of tables at some places one comes first, whichever way they are read.  *)
LEMMA FirstPlace ==
    ASSUME Types, NEW H \in SUBSET Places, H # {}
    PROVE  /\ \E p \in H : \A q \in H : Comes("oldest", p, q)
           /\ \E p \in H : \A q \in H : Comes("newest", p, q)
<1>1. \A p \in H : /\ p[1] \in 1 .. Len(levels) /\ p[2] \in 1 .. Len(levels[p[1]])
                   /\ p[1] \in Nat /\ p[2] \in Nat
  <2>1. SUFFICES ASSUME NEW p \in H
                 PROVE  /\ p[1] \in 1 .. Len(levels) /\ p[2] \in 1 .. Len(levels[p[1]])
                        /\ p[1] \in Nat /\ p[2] \in Nat
    OBVIOUS
  <2>2. PICK i \in DOMAIN levels : p \in {i} \X DOMAIN levels[i]
    BY DEF Places
  <2>3. p[1] = i /\ p[2] \in DOMAIN levels[i]
    BY <2>2
  <2>4. i \in 1 .. Len(levels) /\ Len(levels) \in Nat
    BY LevelsLength
  <2>5. DOMAIN levels[i] = 1 .. Len(levels[i]) /\ Len(levels[i]) \in Nat
    BY <2>4, LevelsLength
  <2>. QED
    BY <2>3, <2>4, <2>5
<1>2. PICK I : I = { p[1] : p \in H }
  OBVIOUS
<1>3. I \in SUBSET Nat /\ I # {}
  BY <1>1, <1>2
<1>4. PICK i \in I : \A k \in I : i <= k
  BY <1>3, LeastNatural
<1>5. i \in Nat /\ \A q \in H : q[1] \in Nat /\ q[1] >= i
  BY <1>1, <1>2, <1>3, <1>4
<1>6. PICK J : J = { p[2] : p \in { q \in H : q[1] = i } }
  OBVIOUS
<1>7. PICK n \in Nat : n = Len(levels[i])
  BY <1>1, <1>2, LevelsLength
<1>8. J \in SUBSET (1 .. n) /\ J # {}
  BY <1>1, <1>2, <1>6, <1>7
<1>9. PICK j \in J : \A k \in J : j <= k
  <2>1. J \in SUBSET Nat
    BY <1>7, <1>8
  <2>. QED
    BY <1>8, <2>1, LeastNatural
<1>10. PICK m \in J : \A k \in J : k <= m
  BY <1>7, <1>8, LastPosition
<1>11. PICK p \in H : p[1] = i /\ p[2] = j
  BY <1>6
<1>12. PICK q \in H : q[1] = i /\ q[2] = m
  BY <1>6
<1>13. ASSUME NEW r \in H PROVE OldestFirst(p, r) /\ NewestFirst(q, r)
  <2>1. CASE r[1] = i
    <3>1. r[2] \in J
      BY <1>6, <2>1
    <3>. QED
      BY <1>9, <1>10, <1>11, <1>12, <2>1, <3>1 DEF OldestFirst, NewestFirst
  <2>2. CASE r[1] # i
    BY <1>5, <1>11, <1>12, <2>2 DEF OldestFirst, NewestFirst
  <2>. QED
    BY <2>1, <2>2
<1>14. \A r \in H : Comes("oldest", p, r) /\ Comes("newest", q, r)
  BY <1>13 DEF Comes
<1>. QED
  BY <1>14

(* What is found in a table was written with the key that is asked for.    *)
LEMMA FoundGenuine ==
    ASSUME Types, Genuine, Shelved, NEW key \in Key, NEW H \in SUBSET Places, NEW v,
           v = FirstFound(H, "newest", key) \/ v = FirstFound(H, "oldest", key),
           v # 0
    PROVE  v \in 1 .. Len(origin) /\ KeyOf(v) = key
<1>1. PICK hits : hits = { p \in H : RowsOf(TableAt(p))[key] # 0 }
  OBVIOUS
<1>2. hits # {}
  BY <1>1 DEF FirstFound
<1>3. \E p \in hits : v = RowsOf(TableAt(p))[key]
  <2>1. hits \in SUBSET Places
    BY <1>1
  <2>2. CASE v = FirstFound(H, "newest", key)
    <3>1. \E p \in hits : \A q \in hits : Comes("newest", p, q)
      BY <1>2, <2>1, FirstPlace
    <3>2. PICK p : p = CHOOSE x \in hits : \A q \in hits : Comes("newest", x, q)
      OBVIOUS
    <3>3. p \in hits
      BY <3>1, <3>2
    <3>4. v = RowsOf(TableAt(p))[key]
      BY <1>1, <1>2, <2>2, <3>2, Zenon DEF FirstFound
    <3>. QED
      BY <3>3, <3>4
  <2>3. CASE v = FirstFound(H, "oldest", key)
    <3>1. \E p \in hits : \A q \in hits : Comes("oldest", p, q)
      BY <1>2, <2>1, FirstPlace
    <3>2. PICK p : p = CHOOSE x \in hits : \A q \in hits : Comes("oldest", x, q)
      OBVIOUS
    <3>3. p \in hits
      BY <3>1, <3>2
    <3>4. v = RowsOf(TableAt(p))[key]
      BY <1>1, <1>2, <2>3, <3>2, Zenon DEF FirstFound
    <3>. QED
      BY <3>3, <3>4
  <2>. QED
    BY <2>2, <2>3
<1>4. PICK p \in hits : v = RowsOf(TableAt(p))[key]
  BY <1>3
<1>5. PICK i \in DOMAIN levels : p \in {i} \X DOMAIN levels[i]
  BY <1>1 DEF Places
<1>6. p[1] = i /\ p[2] \in DOMAIN levels[i]
  BY <1>5
<1>7. i \in 1 .. Len(levels) /\ p[2] \in 1 .. Len(levels[i])
  <2>1. i \in 1 .. Len(levels)
    BY LevelsLength
  <2>. QED
    BY <1>6, <2>1, LevelsLength
<1>8. PICK f : f = TableAt(p).file
  OBVIOUS
<1>9. f \in DOMAIN files
  BY <1>6, <1>7, <1>8 DEF Shelved, OnShelf, TableAt
<1>10. v = files[f].rows[key] /\ files[f].rows \in Rows /\ RowsGenuine(files[f].rows)
  BY <1>4, <1>8, <1>9 DEF RowsOf, Types, TFiles, FileType, Genuine
<1>11. v \in Nat
  BY <1>10, Blank DEF Rows, Version
<1>12. v <= Len(origin) /\ KeyOf(v) = key
  BY <1>10 DEF RowsGenuine
<1>. QED
  BY <1>11, <1>12 DEF Types, TOrigin

(* The step that ends a read answers with what it was asked for.           *)
LEMMA AnswersReal ==
    ASSUME Types, Genuine, Shelved, Asking, Named, NEW t \in Thread, pc[t] \in ReadPc,
           NEW op, NEW v, Answer(t, op, v), UNCHANGED << origin, hazards >>,
           v # 0 => v \in 1 .. Len(origin) /\ KeyOf(v) = loc[t].key
    PROVE  ReadsReal'
<1>1. answer'.ver = v /\ answer'.pair = loc[t].pair
  BY DEF Answer
<1>2. ASSUME v # 0, "remapped" \notin hazards PROVE PairOf(v) = loc[t].pair
  <2>1. PICK k, q : k = loc[t].key /\ q = loc[t].pair
    OBVIOUS
  <2>2. k \in Key /\ k[1] + 1 <= Len(dict) /\ q = << dict[k[1] + 1], k[2] >>
    BY <2>1 DEF Asking, Asked
  <2>3. v \in 1 .. Len(origin) /\ k[1] = origin[v][3] /\ k[2] = origin[v][2]
    BY <1>2, <2>1 DEF KeyOf
  <2>4. dict[k[1] + 1] = origin[v][1]
    BY <1>2, <2>2, <2>3 DEF Named
  <2>. QED
    BY <2>1, <2>2, <2>3, <2>4 DEF PairOf
<1>3. PICK q : q = PairOf(v)
  OBVIOUS
<1>4. PairOf(answer.ver)' = q
  BY <1>1, <1>3 DEF PairOf
<1>. QED
  BY <1>1, <1>2, <1>3, <1>4 DEF ReadsReal

(* Every step keeps what is said about the answer of a read.               *)
LEMMA ReadsRealKept ==
    ASSUME Steady, NEW t \in Thread, Step(t)
    PROVE  ReadsReal'
<1>1. Types /\ Genuine /\ Shelved /\ Asking /\ Named
  BY DEF Steady
<1>2. ASSUME pc[t] \in ReadPc PROVE loc[t].key \in Key
  BY <1>1, <1>2 DEF Asking, Asked
<1>3. CASE get_memtable(t)
  <2>1. pc[t] \in ReadPc /\ UNCHANGED << origin, hazards >>
    BY <1>3 DEF get_memtable, ReadPc
  <2>2. PICK v : v = mem_get(mem, loc[t].key)
    OBVIOUS
  <2>3. CASE v = 0
    <3>1. answer' = NoAnswer
      BY <1>3, <2>2, <2>3 DEF get_memtable
    <3>. QED
      BY <3>1 DEF ReadsReal, NoAnswer
  <2>4. CASE v # 0
    <3>1. Answer(t, "get", v)
      BY <1>3, <2>2, <2>4 DEF get_memtable
    <3>2. v = mem[loc[t].key] /\ loc[t].key \in Key
      BY <1>2, <2>1, <2>2 DEF mem_get
    <3>3. v \in Nat
      BY <1>1, <3>2, Blank DEF Types, Rows, Version
    <3>4. v <= Len(origin) /\ KeyOf(v) = loc[t].key
      BY <1>1, <2>4, <3>2 DEF Genuine, RowsGenuine
    <3>5. v \in 1 .. Len(origin)
      BY <1>1, <2>4, <3>3, <3>4 DEF Types, TOrigin
    <3>. QED
      BY <1>1, <2>1, <3>1, <3>4, <3>5, AnswersReal
  <2>. QED
    BY <2>3, <2>4
<1>4. CASE get_tables(t)
  <2>1. pc[t] \in ReadPc /\ UNCHANGED << origin, hazards >>
    BY <1>4 DEF get_tables, ReadPc
  <2>2. PICK H, v : /\ H = { p \in Places : get_opens(TableAt(p), loc[t].key) }
                    /\ v = FirstFound(H, "newest", loc[t].key)
    OBVIOUS
  <2>3. Answer(t, "get", v)
    BY <1>4, <2>2, Zenon DEF get_tables
  <2>4. v # 0 => v \in 1 .. Len(origin) /\ KeyOf(v) = loc[t].key
    <3>1. H \in SUBSET Places /\ loc[t].key \in Key
      BY <1>2, <2>1, <2>2
    <3>. QED
      BY <1>1, <2>2, <3>1, FoundGenuine
  <2>. QED
    BY <1>1, <2>1, <2>3, <2>4, AnswersReal
<1>5. CASE scan_tables(t)
  <2>1. pc[t] = "s_tables" /\ pc[t] \in ReadPc /\ UNCHANGED << origin, hazards >>
    BY <1>5 DEF scan_tables, ReadPc
  <2>2. \E H \in SUBSET Places :
            Answer(t, "scan", IF loc[t].found # 0 THEN loc[t].found ELSE FirstFound(H, "oldest", loc[t].key))
    <3>1. PICK R : R = { p \in Places : overlaps_time(RowsOf(TableAt(p)), loc[t].key[2]) }
      OBVIOUS
    <3>2. PICK F \in SUBSET R :
            Answer(t, "scan", IF loc[t].found # 0 THEN loc[t].found
                              ELSE FirstFound({ p \in R : \/ scan_opens(TableAt(p), loc[t].key)
                                                          \/ (p \in F /\ get_opens(TableAt(p), loc[t].key)) },
                                              "oldest", loc[t].key))
      BY <1>5, <3>1, Zenon DEF scan_tables
    <3>3. PICK H : H = { p \in R : \/ scan_opens(TableAt(p), loc[t].key)
                                   \/ (p \in F /\ get_opens(TableAt(p), loc[t].key)) }
      OBVIOUS
    <3>4. H \in SUBSET Places
      BY <3>1, <3>3
    <3>. QED
      BY <3>2, <3>3, <3>4, Zenon
  <2>3. PICK H \in SUBSET Places :
            Answer(t, "scan", IF loc[t].found # 0 THEN loc[t].found ELSE FirstFound(H, "oldest", loc[t].key))
    BY <2>2
  <2>4. PICK v : v = IF loc[t].found # 0 THEN loc[t].found ELSE FirstFound(H, "oldest", loc[t].key)
    OBVIOUS
  <2>5. v # 0 => v \in 1 .. Len(origin) /\ KeyOf(v) = loc[t].key
    <3>1. CASE loc[t].found # 0
      <4>1. v = loc[t].found /\ v \in Nat /\ v # 0
        BY <1>1, <2>4, <3>1, LocTypes, Blank DEF Version
      <4>2. v <= Len(origin) /\ KeyOf(v) = loc[t].key
        BY <1>1, <2>1, <3>1, <4>1 DEF Asking, Asked
      <4>. QED
        BY <1>1, <4>1, <4>2 DEF Types, TOrigin
    <3>2. CASE loc[t].found = 0
      <4>1. v = FirstFound(H, "oldest", loc[t].key) /\ loc[t].key \in Key
        BY <1>2, <2>1, <2>4, <3>2
      <4>. QED
        BY <1>1, <4>1, FoundGenuine
    <3>. QED
      BY <3>1, <3>2
  <2>6. Answer(t, "scan", v)
    BY <2>3, <2>4
  <2>. QED
    BY <1>1, <2>1, <2>5, <2>6, AnswersReal
<1>6. CASE read_not_found(t)
  <2>1. answer'.ver = 0
    BY <1>6 DEF read_not_found
  <2>. QED
    BY <2>1 DEF ReadsReal
<1>7. CASE ~(get_memtable(t) \/ get_tables(t) \/ scan_tables(t) \/ read_not_found(t))
  <2>1. answer' = NoAnswer
    BY <1>7 DEF Step, insert, insert_wal, insert_memtable, insert_done, wal_error, insert_batch, batch_memtable,
        batch_wal, batch_done, apply_replication_batch, apply_wal, apply_memtable, apply_advance, advance_error,
        flush_memtable, flush_drain, flush_write, flush_sync, write_error, flush_add, flush_truncate,
        truncate_error, get, scan, scan_memtable, read_panic, compact, compact_read, compact_panic,
        compact_write, compact_sync, compact_next, Log, StartRead
  <2>. QED
    BY <2>1 DEF ReadsReal, NoAnswer
<1>. QED
  BY <1>3, <1>4, <1>5, <1>6, <1>7

(***************************************************************************)
(* The theorems.                                                           *)
(***************************************************************************)

(* The invariant holds at first.                                           *)
LEMMA InitSteady == Init => Steady /\ ReadsReal
<1>1. SUFFICES ASSUME Init PROVE Steady /\ ReadsReal
  OBVIOUS
<1>2. /\ work \in Workloads /\ role \in Roles /\ opens \in OpenOutcomes /\ status = "up"
      /\ dict = << >> /\ mem = NoRows /\ wal = << >> /\ files = << >> /\ nextFile = 1
      /\ levels = << << >> >> /\ applied = 0 /\ recorded = 0
      /\ pc = [t \in Thread |-> "idle"] /\ loc = [t \in Thread |-> NoLoc]
      /\ dictW = None /\ dictR = {} /\ memW = None /\ compW = None
      /\ origin = << >> /\ acked = {} /\ replicated = {} /\ hazards = {}
      /\ answer = NoAnswer /\ crashes = << >> /\ ioErrors = 0
  BY <1>1 DEF Init
<1>3. AllIdle /\ TPc(pc) /\ TLoc(loc)
  BY <1>2, Blank DEF AllIdle, TPc, TLoc, Pc
<1>4. /\ \A t \in Thread : Owns(t) /\ Holds(t)
      /\ \A t, u \in Thread : pc[t] \in OwnerPc /\ pc[u] \in OwnerPc /\ loc[t].file = loc[u].file => t = u
      /\ \A t \in Thread : Rising(loc[t].ticks) /\ ~IsApplying(loc[t], pc[t])
      /\ \A t \in Thread : RowsGenuine(loc[t].rows) /\ TicksGenuine(loc[t].ticks)
      /\ Asking /\ OneAtATime /\ Newer
      /\ \A t \in Thread : /\ pc[t] \notin FlushingPc /\ pc[t] \notin LoggedPc /\ pc[t] # "b_wal"
                           /\ pc[t] \notin InCallPc /\ pc[t] \notin MergedPc
  BY <1>3, IdleHolds
<1>5. Len(origin) = 0 /\ Len(wal) = 0 /\ DOMAIN files = {} /\ Len(levels) = 1 /\ levels[1] = << >>
  BY <1>2
<1>6. Types
  <2>1. TFixed(work, role, opens, status) /\ TCounts(work, crashes, ioErrors)
    BY <1>2, LsmAssumption DEF TFixed, TCounts, TCrashes, Workload
  <2>2. IsDict(dict) /\ mem \in Rows
    BY <1>2, EmptyDict, Blank
  <2>3. TTicks(wal) /\ TLevels(levels)
    BY <1>2 DEF TTicks, TLevels
  <2>4. TFiles(files) /\ TNext(nextFile)
    BY <1>2, <1>5, LsmAssumption DEF TFiles, TNext
  <2>5. TApplied(applied, recorded) /\ TLocks(dictW, dictR, memW, compW)
    BY <1>2, Blank DEF TApplied, TLocks
  <2>6. TOrigin(origin) /\ TVersions(origin, acked, replicated) /\ THazards(hazards)
    BY <1>2, Blank DEF TOrigin, TVersions, THazards
  <2>. QED
    BY <1>3, <2>1, <2>2, <2>3, <2>4, <2>5, <2>6 DEF Types
<1>7. Genuine
  BY <1>2, <1>4, <1>5, BlankGenuine DEF Genuine, TicksGenuine
<1>8. Shelved
  <2>1. \A i \in 1 .. Len(levels) : levels[i] = << >>
    BY <1>5
  <2>2. \A i \in 1 .. Len(levels) : \A j \in 1 .. Len(levels[i]) : OnShelf(levels[i][j].file, i)
    BY <2>1
  <2>. QED
    BY <1>4, <1>5, <2>2 DEF Shelved
<1>9. Held
  BY <1>2, <1>4 DEF Held
<1>10. Batched
  BY <1>2, <1>4, <1>5 DEF Batched, Reached
<1>11. Named
  BY <1>5 DEF Named
<1>12. Safe
  <2>1. Orderly
    BY <1>4, <1>5 DEF Orderly, OneSymbolPerId, InOrder
  <2>2. Promised = {}
    BY <1>2, <1>4 DEF Promised
  <2>3. Kept
    BY <1>4, <2>2 DEF Kept
  <2>. QED
    BY <2>1, <2>3 DEF Safe
<1>13. ReadsReal
  BY <1>2 DEF ReadsReal, NoAnswer
<1>. QED
  BY <1>4, <1>6, <1>7, <1>8, <1>9, <1>10, <1>11, <1>12, <1>13 DEF Steady

(* Every step of a thread keeps the invariant.                             *)
LEMMA StepKeeps ==
    ASSUME Steady, NEW t \in Thread, Step(t)
    PROVE  Steady'
<1>1. Types /\ Genuine /\ Shelved /\ Held /\ Asking
  BY DEF Steady
<1>2. CASE insert(t) \/ insert_batch(t) \/ apply_replication_batch(t)
  <2>1. \E d, pairs : Begins(t, d, pairs)
    BY <1>1, <1>2, InsertBegins, InsertBatchBegins, ApplyBegins
  <2>. QED
    BY <2>1, BeginsKeep
<1>3. CASE insert_wal(t) \/ batch_wal(t) \/ apply_wal(t)
  <2>1. \E p : LogsTicks(t, p)
    BY <1>3 DEF insert_wal, batch_wal, apply_wal, LogsTicks, Up
  <2>. QED
    BY <2>1, LogKeeps
<1>4. CASE insert_memtable(t) \/ batch_memtable(t) \/ apply_memtable(t)
  <2>1. \E l, p : PutsTicks(t, l, p)
    BY <1>1, <1>4, PutSteps
  <2>. QED
    BY <2>1, PutKeeps
<1>5. CASE insert_done(t) \/ batch_done(t)
  BY <1>5, DonePasses, PassKeeps
<1>6. CASE wal_error(t)
  BY <1>6, WalErrorKeeps
<1>7. CASE apply_advance(t) \/ advance_error(t)
  BY <1>7, AdvancePasses, PassKeeps
<1>8. CASE flush_memtable(t)
  BY <1>8, FlushBeginsPasses, PassKeeps
<1>9. CASE flush_drain(t)
  <2>1. CASE mem = NoRows
    BY <1>9, <2>1, EmptyDrainPasses, PassKeeps
  <2>2. CASE mem # NoRows
    BY <1>9, <2>2, DrainKeeps
  <2>. QED
    BY <2>1, <2>2
<1>10. CASE flush_write(t) \/ compact_write(t)
  BY <1>10, CreateKeeps
<1>11. CASE flush_sync(t)
  BY <1>11, FlushSyncKeeps
<1>12. CASE write_error(t)
  BY <1>12, WriteErrorKeeps
<1>13. CASE flush_add(t)
  BY <1>13, FlushAddKeeps
<1>14. CASE flush_truncate(t) \/ truncate_error(t)
  <2>1. \E l, p : Truncates(t, l, p)
    BY <1>14, TruncateSteps
  <2>. QED
    BY <2>1, TruncateKeeps
<1>15. CASE \/ read_not_found(t) \/ get(t) \/ get_memtable(t) \/ get_tables(t)
            \/ scan(t) \/ scan_memtable(t) \/ scan_tables(t) \/ read_panic(t)
  <2>1. \E l, p : Reads(t, l, p)
    BY <1>1, <1>15, ReadSteps
  <2>. QED
    BY <2>1, ReadsKeep
<1>16. CASE compact(t) \/ compact_panic(t) \/ compact_next(t)
  <2>1. \E l, p : Turns(t, l, p)
    BY <1>1, <1>16, CompactTurns
  <2>. QED
    BY <2>1, TurnsKeep
<1>17. CASE compact_read(t)
  <2>1. \E n \in 1 .. Len(levels) : \E r, gone, m : Takes(t, n, r, gone, m)
    BY <1>1, <1>17, ReadTakes
  <2>. QED
    BY <2>1, TakesKeep
<1>18. CASE compact_sync(t)
  BY <1>18, CompactSyncKeeps
<1>. QED
  BY <1>2, <1>3, <1>4, <1>5, <1>6, <1>7, <1>8, <1>9, <1>10, <1>11, <1>12, <1>13, <1>14, <1>15, <1>16,
     <1>17, <1>18 DEF Step

(* A step that changes nothing keeps the invariant.                        *)
LEMMA StutterKeeps ==
    ASSUME Steady, ReadsReal, UNCHANGED vars
    PROVE  Steady' /\ ReadsReal'
<1>1. UNCHANGED << work, role, opens, status, dict, mem, wal, files, nextFile, levels, applied, recorded, pc,
                   loc, dictW, dictR, memW, compW, origin, acked, replicated, hazards, crashes, ioErrors, answer >>
  BY DEF vars, shared, locks, history
<1>2. Types /\ Genuine /\ Shelved /\ Held /\ Batched /\ Asking /\ Named /\ Safe
  BY DEF Steady
<1>3. Types'
  BY <1>1, <1>2 DEF Types
<1>4. Genuine' /\ Shelved'
  <2>1. Genuine'
    BY <1>1, <1>2 DEF Genuine, RowsGenuine, TicksGenuine, KeyOf
  <2>2. Shelved'
    BY <1>1, <1>2 DEF Shelved, OnShelf, Owns
  <2>. QED
    BY <2>1, <2>2
<1>5. Held' /\ Batched'
  BY <1>1, <1>2 DEF Held, Holds, Batched, Reached, Rising, IsApplying, Versions
<1>6. Asking' /\ Named' /\ ReadsReal'
  BY <1>1, <1>2 DEF Asking, Asked, KeyOf, Named, ReadsReal, PairOf
<1>7. ASSUME Orderly PROVE Orderly'
  BY <1>1, <1>7 DEF Orderly, OneSymbolPerId, OneAtATime, InOrder, Newer, AboveRows, AboveTicks
<1>8. ASSUME Kept PROVE Kept'
  <2>1. Promised' = Promised
    BY <1>1 DEF Promised, Recorded, Versions
  <2>2. \A v : InTable(v) => InTable(v)'
    BY <1>1 DEF InTable, Covers, KeyOf
  <2>3. \A v : (Logs(v) => Logs(v)') /\ (Serves(v) => Serves(v)')
    BY <1>1, <2>2 DEF Logs, Serves, Covers, KeyOf, Versions
  <2>4. \A t \in Thread : \A v : Drained(t, v) => Drained(t, v)'
    BY <1>1, <2>2 DEF Drained, Covers, KeyOf
  <2>. QED
    BY <1>1, <1>8, <2>1, <2>3, <2>4, ZenonT(30) DEF Kept, Covers, KeyOf, Versions
<1>9. Safe'
  BY <1>1, <1>2, <1>7, <1>8 DEF Safe, Careful
<1>. QED
  BY <1>3, <1>4, <1>5, <1>6, <1>9 DEF Steady

(* What the engine may not lose any more is on disk, under its own symbol  *)
(* and timestamp.                                                          *)
LEMMA PromisedDurable ==
    ASSUME Steady, Careful, ~MidCompaction
    PROVE  AllCovered(Promised)
<1>1. Types /\ Genuine /\ Batched /\ OneSymbolPerId /\ Kept
  BY DEF Steady, Safe, Orderly
<1>2. \A t \in Thread : pc[t] \notin MergedPc
  BY DEF MidCompaction, MergedPc
<1>3. ASSUME NEW v \in Promised
      PROVE  \E w \in DurableVersions \ {0} : w >= v /\ PairOf(w) = PairOf(v)
  <2>1. v \in 1 .. Len(origin) /\ Len(origin) \in Nat
    BY <1>1, PromisedWritten DEF Types, TOrigin
  <2>2. InTable(v) \/ v \in Versions(wal)
    BY <1>1 DEF Kept, Logs
  <2>3. CASE v \in Versions(wal)
    <3>1. v \in DurableVersions \ {0} /\ v >= v
      BY <2>1, <2>3 DEF DurableVersions
    <3>. QED
      BY <3>1
  <2>4. CASE InTable(v)
    <3>1. PICK f \in DOMAIN files : files[f].whole /\ Covers(files[f].rows, v)
      BY <1>2, <2>4 DEF InTable
    <3>2. PICK k \in Key : k = KeyOf(v)
      BY <1>1, <2>1, KeyWritten
    <3>3. PICK w : w = files[f].rows[k]
      OBVIOUS
    <3>4. files[f].rows \in Rows /\ RowsGenuine(files[f].rows)
      BY <1>1 DEF Types, TFiles, FileType, Genuine
    <3>5. w \in Nat /\ w >= v
      BY <3>1, <3>2, <3>3, <3>4, Blank DEF Covers, Rows, Version
    <3>6. w # 0
      BY <2>1, <3>5
    <3>7. w <= Len(origin) /\ KeyOf(w) = k
      BY <3>3, <3>4, <3>6 DEF RowsGenuine
    <3>8. w \in 1 .. Len(origin)
      BY <2>1, <3>5, <3>6, <3>7
    <3>9. origin[w][3] = origin[v][3] /\ origin[w][2] = origin[v][2]
      BY <3>2, <3>7 DEF KeyOf
    <3>10. PairOf(w) = PairOf(v)
      BY <1>1, <2>1, <3>8, <3>9 DEF OneSymbolPerId, PairOf
    <3>11. w \in DurableVersions
      BY <3>1, <3>3 DEF DurableVersions
    <3>. QED
      BY <3>5, <3>6, <3>10, <3>11
  <2>. QED
    BY <2>2, <2>3, <2>4
<1>. QED
  BY <1>3 DEF AllCovered

(* The properties follow from the invariant.                               *)
LEMMA SteadyMeans == Steady => TypeOK /\ AckedDurable /\ AppliedDurable
<1>1. SUFFICES ASSUME Steady PROVE TypeOK /\ AckedDurable /\ AppliedDurable
  OBVIOUS
<1>2. TypeOK
  BY <1>1, TypeParts DEF Steady
<1>3. ASSUME hazards \cap Lossy = {}, ~MidCompaction PROVE AllCovered(Promised)
  BY <1>1, <1>3, PromisedDurable DEF Careful
<1>4. acked \subseteq Promised /\ UNION { b \in replicated : Max(b) \in {applied, recorded} } \subseteq Promised
  BY DEF Promised, Recorded
<1>5. \A vs \in SUBSET Promised : AllCovered(Promised) => AllCovered(vs)
  BY DEF AllCovered
<1>. QED
  BY <1>2, <1>3, <1>4, <1>5 DEF AckedDurable, AppliedDurable

(* The invariant is one of the specification.                              *)
LEMMA AlwaysSteady == Spec => [](Steady /\ ReadsReal)
<1>1. Init => Steady /\ ReadsReal
  BY InitSteady
<1>2. Steady /\ ReadsReal /\ [Next]_vars => (Steady /\ ReadsReal)'
  <2>1. SUFFICES ASSUME Steady, ReadsReal, [Next]_vars PROVE Steady' /\ ReadsReal'
    OBVIOUS
  <2>2. CASE UNCHANGED vars
    BY <2>1, <2>2, StutterKeeps
  <2>3. CASE \E t \in Thread : Step(t)
    BY <2>1, <2>3, StepKeeps, ReadsRealKept
  <2>4. CASE crash
    <3>1. answer' = NoAnswer
      BY <2>4 DEF crash
    <3>. QED
      BY <2>1, <2>4, <3>1, CrashKeeps DEF ReadsReal, NoAnswer
  <2>5. CASE open
    <3>1. answer' = NoAnswer
      BY <2>5 DEF open
    <3>. QED
      BY <2>1, <2>5, <3>1, OpenKeeps DEF ReadsReal, NoAnswer
  <2>6. CASE open_failed
    <3>1. answer' = NoAnswer
      BY <2>6 DEF open_failed
    <3>. QED
      BY <2>1, <2>6, <3>1, OpenFailedKeeps DEF ReadsReal, NoAnswer
  <2>. QED
    BY <2>1, <2>2, <2>3, <2>4, <2>5, <2>6 DEF Next
<1>. QED
  BY <1>1, <1>2, PTL DEF Spec

(* Every variable has its type, for any numbers of threads, symbols, ticks,*)
(* files and crashes.                                                      *)
THEOREM LsmTyped == Spec => []TypeOK
  BY AlwaysSteady, SteadyMeans, PTL

(* A tick whose write returned Ok is in the WAL or in a complete SSTable,  *)
(* or a later one of the same symbol and timestamp is, unless one of the   *)
(* named circumstances has occurred: the order of flush_memtable (drain,   *)
(* write, add_table, truncate) loses nothing by itself, whatever reads,    *)
(* compactions, failed appends, crashes and restarts run beside it.        *)
THEOREM AckedTicksDurable == Spec => []AckedDurable
  BY AlwaysSteady, SteadyMeans, PTL

(* The same for every tick of the batch that a replica's tracker records:  *)
(* the tracker advances after the log and the memtable have the batch.     *)
THEOREM AppliedTicksDurable == Spec => []AppliedDurable
  BY AlwaysSteady, SteadyMeans, PTL

(* What get and scan answer was written for the symbol and the timestamp   *)
(* that they were asked for, unless a restart gave an id to another symbol.*)
THEOREM LsmReadsReal == Spec => []ReadsReal
  BY AlwaysSteady, PTL

(***************************************************************************)
(* What a step changes besides its own thread.                             *)
(***************************************************************************)

\* The steps that change the files, the levels, or who has rows for a table.
TableSteps(t) ==
    \/ flush_write(t) \/ flush_sync(t) \/ flush_add(t) \/ write_error(t)
    \/ compact_read(t) \/ compact_write(t) \/ compact_sync(t)

\* A drain that has found rows marks the reads under way.
Marks(t) ==
    /\ pc[t] = "f_drain" /\ pc'[t] = "f_write"
    /\ \A u \in Thread \ {t} : pc'[u] = pc[u]
    /\ \A u \in Thread \ {t} : IF pc[u] \in ReadPc THEN loc'[u].gap ELSE loc'[u] = loc[u]
    /\ UNCHANGED << files, levels, acked >>
\* Any other step changes the local variables of its thread alone.
Alone(t) == \A u \in Thread \ {t} : pc'[u] = pc[u] /\ loc'[u] = loc[u]

(* A drain that finds rows does.                                           *)
LEMMA DrainMarks ==
    ASSUME Types, NEW t \in Thread, flush_drain(t), mem # NoRows
    PROVE  Marks(t)
<1>1. pc \in [Thread -> Pc] /\ loc \in [Thread -> Loc]
  BY DEF Types, TPc, TLoc
<1>2. /\ pc[t] = "f_drain" /\ Goto(t, "f_write")
      /\ loc' = [u \in Thread |->
                      CASE u = t -> [loc[u] EXCEPT !.rows = mem]
                        [] u \in Reading -> [loc[u] EXCEPT !.gap = TRUE]
                        [] OTHER -> loc[u]]
      /\ UNCHANGED << files, levels, acked >>
  BY DEF flush_drain
<1>3. ASSUME NEW u \in Thread \ {t} PROVE IF pc[u] \in ReadPc THEN loc'[u].gap ELSE loc'[u] = loc[u]
  <2>1. u \in Reading <=> pc[u] \in ReadPc
    BY DEF Reading, ReadPc
  <2>2. loc'[u] = IF u \in Reading THEN [loc[u] EXCEPT !.gap = TRUE] ELSE loc[u]
    BY <1>2
  <2>3. loc[u] \in Loc
    BY <1>1
  <2>4. [loc[u] EXCEPT !.gap = TRUE].gap
    BY <2>3 DEF Loc
  <2>. QED
    BY <2>1, <2>2, <2>4
<1>. QED
  BY <1>1, <1>2, <1>3 DEF Marks, Goto

(* A step of a thread is one or the other, and forgets no hazard.          *)
LEMMA StepsAlone ==
    ASSUME Types, NEW t \in Thread, Step(t)
    PROVE  /\ Alone(t) \/ (flush_drain(t) /\ Marks(t))
           /\ hazards \subseteq hazards' /\ acked \subseteq acked'
<1>. DEFINE G == hazards \subseteq hazards' /\ acked \subseteq acked'
<1>1. pc \in [Thread -> Pc] /\ loc \in [Thread -> Loc]
  BY DEF Types, TPc, TLoc
<1>2. CASE insert(t) \/ insert_batch(t) \/ apply_replication_batch(t)
  BY <1>1, <1>2 DEF insert, insert_batch, apply_replication_batch, Goto, Note, Alone
<1>3. CASE insert_wal(t) \/ batch_wal(t) \/ apply_wal(t)
  BY <1>1, <1>3 DEF insert_wal, batch_wal, apply_wal, Log, Goto, Note, Alone
<1>4. CASE insert_memtable(t) \/ batch_memtable(t) \/ apply_memtable(t)
  BY <1>1, <1>4 DEF insert_memtable, batch_memtable, apply_memtable, Goto, history, Alone
<1>5. CASE insert_done(t) \/ batch_done(t)
  BY <1>1, <1>5 DEF insert_done, batch_done, Goto, Return, Alone
<1>6. CASE wal_error(t) \/ apply_advance(t) \/ advance_error(t) \/ flush_memtable(t)
  BY <1>1, <1>6 DEF wal_error, apply_advance, advance_error, flush_memtable, Goto, Return, history, Alone
<1>7. CASE flush_drain(t) /\ mem = NoRows
  BY <1>1, <1>7 DEF flush_drain, AfterFlush, Goto, Return, Alone
<1>8. CASE flush_drain(t) /\ mem # NoRows
  <2>1. hazards \subseteq hazards' /\ UNCHANGED acked
    BY <1>8 DEF flush_drain, Note
  <2>. QED
    BY <1>8, <2>1, DrainMarks
<1>9. CASE flush_write(t) \/ compact_write(t)
  BY <1>1, <1>9 DEF flush_write, compact_write, CreateFile, Goto, Note, Alone
<1>10. CASE flush_sync(t) \/ compact_sync(t) \/ flush_add(t)
  BY <1>1, <1>10 DEF flush_sync, compact_sync, flush_add, Goto, history, Alone
<1>11. CASE write_error(t)
  BY <1>1, <1>11 DEF write_error, Return, Note, Alone
<1>12. CASE flush_truncate(t) \/ truncate_error(t)
  BY <1>1, <1>12 DEF flush_truncate, truncate_error, AfterFlush, Goto, Return, Alone
<1>13. CASE get(t) \/ get_memtable(t) \/ get_tables(t)
  BY <1>1, <1>13 DEF get, get_memtable, get_tables, StartRead, Goto, Return, history, Alone
<1>14. CASE scan(t) \/ scan_memtable(t) \/ scan_tables(t) \/ read_panic(t)
  BY <1>1, <1>14 DEF scan, scan_memtable, scan_tables, read_panic, StartRead, Goto, Return, history, Alone
<1>15. CASE compact(t) \/ compact_panic(t) \/ compact_next(t)
  BY <1>1, <1>15 DEF compact, compact_panic, compact_next, NextLevel, Goto, Return, Alone
<1>16. CASE compact_read(t)
  BY <1>1, <1>16 DEF compact_read, Goto, Note, Alone
<1>17. CASE read_not_found(t)
  BY <1>17, NotFoundStays DEF Alone
<1>. QED
  BY <1>2, <1>3, <1>4, <1>5, <1>6, <1>7, <1>8, <1>9, <1>10, <1>11, <1>12, <1>13, <1>14, <1>15, <1>16,
     <1>17 DEF Step

(* The other steps leave the tables alone.                                 *)
LEMMA StepsQuiet ==
    ASSUME Types, NEW t \in Thread, Step(t), ~TableSteps(t)
    PROVE  /\ UNCHANGED << files, levels, status >> /\ status = "up"
           /\ pc[t] \notin MergedPc /\ pc'[t] \notin MergedPc /\ pc[t] # "f_add" /\ pc'[t] # "f_add"
<1>1. pc \in [Thread -> Pc] /\ loc \in [Thread -> Loc]
  BY DEF Types, TPc, TLoc
<1>2. CASE insert(t) \/ insert_batch(t) \/ apply_replication_batch(t)
  BY <1>1, <1>2 DEF insert, insert_batch, apply_replication_batch, Goto, MergedPc, May, Up
<1>3. CASE insert_wal(t) \/ batch_wal(t) \/ apply_wal(t)
  BY <1>1, <1>3 DEF insert_wal, batch_wal, apply_wal, Log, Goto, MergedPc, Up
<1>4. CASE insert_memtable(t) \/ batch_memtable(t) \/ apply_memtable(t)
  BY <1>1, <1>4 DEF insert_memtable, batch_memtable, apply_memtable, Goto, MergedPc, Up
<1>5. CASE insert_done(t) \/ batch_done(t)
  BY <1>1, <1>5 DEF insert_done, batch_done, Goto, Return, MergedPc, Up, shared
<1>6. CASE wal_error(t) \/ apply_advance(t) \/ advance_error(t) \/ flush_memtable(t)
  BY <1>1, <1>6 DEF wal_error, apply_advance, advance_error, flush_memtable, Goto, Return, MergedPc, May, Up, shared
<1>7. CASE flush_drain(t)
  BY <1>1, <1>7 DEF flush_drain, AfterFlush, Goto, Return, MergedPc, Up
<1>12. CASE flush_truncate(t) \/ truncate_error(t)
  BY <1>1, <1>12 DEF flush_truncate, truncate_error, AfterFlush, Goto, Return, MergedPc, Up
<1>13. CASE get(t) \/ get_memtable(t) \/ get_tables(t)
  BY <1>1, <1>13 DEF get, get_memtable, get_tables, StartRead, Goto, Return, shared, MergedPc, May, Up
<1>14. CASE scan(t) \/ scan_memtable(t) \/ scan_tables(t) \/ read_panic(t)
  BY <1>1, <1>14 DEF scan, scan_memtable, scan_tables, read_panic, StartRead, Goto, Return, shared, MergedPc, May, Up
<1>15. CASE compact(t) \/ compact_panic(t) \/ compact_next(t)
  BY <1>1, <1>15 DEF compact, compact_panic, compact_next, NextLevel, Goto, Return, shared, MergedPc, May, Up
<1>16. CASE read_not_found(t)
  BY <1>16, NotFoundStays DEF MergedPc
<1>. QED
  BY <1>2, <1>3, <1>4, <1>5, <1>6, <1>7, <1>12, <1>13, <1>14, <1>15, <1>16 DEF Step, TableSteps

(***************************************************************************)
(* The tables of the levels, as reads see them.                            *)
(***************************************************************************)

\* The rows of the tables, level by level, oldest first.
Stock == [i \in 1 .. Len(levels) |-> [j \in 1 .. Len(levels[i]) |-> RowsOf(levels[i][j])]]

\* No table of level c has key k; the newest one that has it has version n or a
\* later one.
Lacks(c, k) == \A j \in 1 .. Len(c) : c[j][k] = 0
Leads(c, k, n) ==
    \E j \in 1 .. Len(c) : c[j][k] >= n /\ \A i \in 1 .. Len(c) : i > j => c[i][k] = 0

\* What a step of thread t makes of them: nothing; a new table in level n; or,
\* for a compaction, level n empty, and m levels in all.
AddsTo(n, R) ==
    /\ n \in 1 .. Len(Stock) /\ Len(Stock') = Len(Stock)
    /\ \A i \in 1 .. Len(Stock) : i # n => Stock'[i] = Stock[i]
    /\ Stock'[n] = Append(Stock[n], R)
Empties(n, m) ==
    /\ n \in 1 .. Len(Stock) /\ m \in Nat /\ m >= Len(Stock) /\ Len(Stock') = m
    /\ \A i \in 1 .. m : Stock'[i] = IF i = n \/ i > Len(Stock) THEN << >> ELSE Stock[i]

(* The stock is a sequence of levels.                                      *)
LEMMA StockType ==
    ASSUME Types, Shelved
    PROVE  /\ Stock \in Seq(Seq(Rows)) /\ Len(Stock) = Len(levels) /\ Len(Stock) \in Nat /\ Len(Stock) >= 1
           /\ \A i \in 1 .. Len(Stock) : Stock[i] \in Seq(Rows) /\ Len(Stock[i]) = Len(levels[i]) /\ Len(Stock[i]) \in Nat
           /\ \A i \in 1 .. Len(Stock) : \A j \in 1 .. Len(Stock[i]) :
                /\ levels[i][j].file \in DOMAIN files /\ Stock[i][j] = files[levels[i][j].file].rows
                /\ Stock[i][j] \in Rows
<1>1. PICK n : n = Len(levels)
  OBVIOUS
<1>2. n \in Nat /\ n >= 1 /\ \A i \in 1 .. n : Len(levels[i]) \in Nat
  BY <1>1, LevelsLength
<1>3. ASSUME NEW i \in 1 .. n, NEW j \in 1 .. Len(levels[i])
      PROVE  levels[i][j].file \in DOMAIN files /\ RowsOf(levels[i][j]) = files[levels[i][j].file].rows
             /\ RowsOf(levels[i][j]) \in Rows
  <2>1. levels[i][j].file \in DOMAIN files
    BY <1>1 DEF Shelved, OnShelf
  <2>. QED
    BY <2>1 DEF Types, TFiles, FileType, RowsOf
<1>4. ASSUME NEW i \in 1 .. n
      PROVE  [j \in 1 .. Len(levels[i]) |-> RowsOf(levels[i][j])] \in Seq(Rows)
             /\ Len([j \in 1 .. Len(levels[i]) |-> RowsOf(levels[i][j])]) = Len(levels[i])
  <2>1. PICK m, c : m = Len(levels[i]) /\ c = [j \in 1 .. m |-> RowsOf(levels[i][j])]
    OBVIOUS
  <2>2. m \in Nat /\ \A j \in 1 .. m : RowsOf(levels[i][j]) \in Rows
    BY <1>2, <1>3, <2>1
  <2>3. c \in [1 .. m -> Rows]
    BY <2>1, <2>2
  <2>4. c \in Seq(Rows) /\ Len(c) = m
    BY <2>2, <2>3
  <2>. QED
    BY <2>1, <2>4
<1>5. Stock = [i \in 1 .. n |-> [j \in 1 .. Len(levels[i]) |-> RowsOf(levels[i][j])]]
  BY <1>1 DEF Stock
<1>6. Len(Stock) = n /\ Stock \in Seq(Seq(Rows))
  BY <1>2, <1>4, <1>5
<1>7. \A i \in 1 .. n : Stock[i] = [j \in 1 .. Len(levels[i]) |-> RowsOf(levels[i][j])]
  BY <1>5
<1>8. \A i \in 1 .. n : Stock[i] \in Seq(Rows) /\ Len(Stock[i]) = Len(levels[i])
  BY <1>4, <1>7
<1>9. ASSUME NEW i \in 1 .. n, NEW j \in 1 .. Len(levels[i])
      PROVE  Stock[i][j] = RowsOf(levels[i][j])
  <2>1. PICK m : m = Len(levels[i])
    OBVIOUS
  <2>2. Stock[i] = [h \in 1 .. m |-> RowsOf(levels[i][h])] /\ j \in 1 .. m
    BY <1>7, <2>1
  <2>. QED
    BY <2>2
<1>10. ASSUME NEW i \in 1 .. n, NEW j \in 1 .. Len(levels[i])
       PROVE  /\ levels[i][j].file \in DOMAIN files /\ Stock[i][j] = files[levels[i][j].file].rows
              /\ Stock[i][j] \in Rows
  BY <1>3, <1>9
<1>. QED
  BY <1>1, <1>2, <1>6, <1>8, <1>10

(* Files that stay and levels that stay make the same stock.               *)
LEMMA StockSame ==
    ASSUME Types, Shelved, levels' = levels,
           \A f \in DOMAIN files : files'[f].rows = files[f].rows
    PROVE  Stock' = Stock
<1>1. \A i \in 1 .. Len(levels) : \A j \in 1 .. Len(levels[i]) : RowsOf(levels[i][j])' = RowsOf(levels[i][j])
  BY DEF Shelved, OnShelf, RowsOf
<1>. QED
  BY <1>1 DEF Stock

(* add_table.                                                              *)
LEMMA StockAdds ==
    ASSUME Types, Shelved, NEW n \in 1 .. Len(levels), NEW f \in DOMAIN files, Adds(n, f),
           \A g \in DOMAIN files : files'[g].rows = files[g].rows
    PROVE  AddsTo(n, files[f].rows)
<1>1. Len(levels) \in Nat /\ levels \in Seq(Seq(Handles)) /\ Len(Stock) = Len(levels)
  BY LevelsLength, StockType DEF Types, TLevels
<1>2. levels[n] \in Seq(Handles) /\ Len(levels[n]) \in Nat
  BY LevelsLength
<1>3. PICK h : h = Handle(f) /\ h.file = f
  <2>1. Handle(f).file = f
    BY DEF Handle
  <2>. QED
    BY <2>1
<1>4. levels' = [levels EXCEPT ![n] = Append(@, h)]
  BY <1>3 DEF Adds
<1>5. PICK e : e = Append(levels[n], h)
  OBVIOUS
<1>6. /\ Len(e) = Len(levels[n]) + 1 /\ e[Len(levels[n]) + 1] = h
      /\ \A j \in 1 .. Len(levels[n]) : e[j] = levels[n][j]
  BY <1>2, <1>5
<1>7. levels' = [levels EXCEPT ![n] = e]
  BY <1>4, <1>5
<1>8. Len(levels') = Len(levels) /\ levels'[n] = e /\ \A i \in 1 .. Len(levels) : i # n => levels'[i] = levels[i]
  BY <1>1, <1>7
<1>9. \A i \in 1 .. Len(levels) : \A j \in 1 .. Len(levels[i]) : RowsOf(levels[i][j])' = files'[levels'[i][j].file].rows
                                                          /\ files'[levels[i][j].file].rows = RowsOf(levels[i][j])
  BY DEF Shelved, OnShelf, RowsOf
<1>10. Stock' = [i \in 1 .. Len(levels) |-> [j \in 1 .. Len(levels'[i]) |-> files'[levels'[i][j].file].rows]]
  BY <1>8 DEF Stock, RowsOf
<1>11. Len(Stock') = Len(Stock)
  BY <1>1, <1>10
<1>12. ASSUME NEW i \in 1 .. Len(levels), i # n PROVE Stock'[i] = Stock[i]
  <2>1. Stock'[i] = [j \in 1 .. Len(levels[i]) |-> files'[levels[i][j].file].rows]
    BY <1>8, <1>10, <1>12
  <2>2. Stock[i] = [j \in 1 .. Len(levels[i]) |-> RowsOf(levels[i][j])]
    BY DEF Stock
  <2>. QED
    BY <1>9, <2>1, <2>2
<1>13. Stock'[n] = Append(Stock[n], files[f].rows)
  <2>1. PICK m \in Nat : m = Len(levels[n])
    BY <1>2
  <2>2. PICK c, d, R : c = Stock[n] /\ d = Stock'[n] /\ R = files[f].rows
    OBVIOUS
  <2>3. d = [j \in 1 .. m + 1 |-> files'[e[j].file].rows]
    BY <1>6, <1>8, <1>10, <2>1, <2>2
  <2>4. c \in Seq(Rows) /\ Len(c) = m /\ \A j \in 1 .. m : c[j] = files[levels[n][j].file].rows
    BY <1>1, <2>1, <2>2, StockType
  <2>5. \A j \in 1 .. m : d[j] = c[j]
    <3>1. SUFFICES ASSUME NEW j \in 1 .. m PROVE d[j] = c[j]
      OBVIOUS
    <3>2. j \in 1 .. m + 1 /\ e[j] = levels[n][j]
      BY <1>6, <2>1
    <3>3. levels[n][j].file \in DOMAIN files
      BY <2>1 DEF Shelved, OnShelf
    <3>. QED
      BY <2>3, <2>4, <3>2, <3>3
  <2>6. d[m + 1] = R
    <3>1. e[m + 1].file = f /\ m + 1 \in 1 .. m + 1
      BY <1>3, <1>6, <2>1
    <3>. QED
      BY <2>2, <2>3, <3>1
  <2>7. d = Append(c, R)
    <3>1. PICK e2 : e2 = Append(c, R)
      OBVIOUS
    <3>2. R \in Rows
      BY <2>2 DEF Types, TFiles, FileType
    <3>3. e2 \in Seq(Rows) /\ Len(e2) = m + 1 /\ e2[m + 1] = R /\ \A j \in 1 .. m : e2[j] = c[j]
      BY <2>4, <3>1, <3>2
    <3>4. \A j \in 1 .. m + 1 : d[j] = e2[j]
      BY <2>5, <2>6, <3>3
    <3>5. e2 = [j \in 1 .. m + 1 |-> e2[j]]
      BY <3>3
    <3>6. d = [j \in 1 .. m + 1 |-> d[j]]
      BY <2>3
    <3>. QED
      BY <3>1, <3>4, <3>5, <3>6
  <2>. QED
    BY <2>2, <2>7
<1>. QED
  BY <1>1, <1>11, <1>12, <1>13 DEF AddsTo

(* A merge has a key if one of the tables has it, and if it is not stale,  *)
(* in no older version than the newest of them.                            *)
LEMMA MergeHas ==
    ASSUME Types, Genuine, Shelved, NEW n \in 1 .. Len(levels), NEW r, r = merge(levels[n])
    PROVE  /\ r \in Rows
           /\ \A k \in Key : r[k] = 0 <=> Lacks(Stock[n], k)
           /\ ~Stale(levels[n]) => \A k \in Key, v \in Nat : Leads(Stock[n], k, v) => v <= r[k]
<1>1. PICK tables : tables = levels[n]
  OBVIOUS
<1>2. InLevel(tables, n)
  BY <1>1, LevelTables
<1>3. /\ tables \in Seq(Handles) /\ DOMAIN tables = 1 .. Len(tables) /\ FilesOf(tables) \subseteq DOMAIN files
      /\ Len(tables) \in Nat
  BY <1>2 DEF InLevel
<1>4. /\ r \in Rows
      /\ ~Stale(tables) => \A i \in 1 .. Len(tables), k \in Key : RowsOf(tables[i])[k] <= r[k]
  BY <1>1, <1>3, Merges
<1>5. PICK c : c = Stock[n]
  OBVIOUS
<1>6. /\ Len(c) = Len(tables) /\ \A j \in 1 .. Len(c) : c[j] = RowsOf(tables[j]) /\ c[j] \in Rows
  BY <1>1, <1>5, StockType DEF RowsOf
<1>7. ASSUME NEW k \in Key PROVE r[k] = 0 <=> Lacks(c, k)
  <2>1. PICK have : have = { i \in DOMAIN tables : RowsOf(tables[i])[k] # 0 }
    OBVIOUS
  <2>2. r[k] = IF have = {} THEN 0 ELSE RowsOf(tables[Min(have)])[k]
    BY <1>1, <2>1, Zenon DEF merge
  <2>3. have = {} <=> Lacks(c, k)
    BY <1>3, <1>6, <2>1 DEF Lacks
  <2>4. CASE have # {}
    <3>1. have \in SUBSET (1 .. Len(tables))
      BY <1>3, <2>1
    <3>2. Min(have) \in have
      BY <1>3, <2>4, <3>1, Extremes
    <3>. QED
      BY <2>1, <2>2, <2>3, <2>4, <3>2
  <2>. QED
    BY <2>2, <2>3, <2>4
<1>8. ASSUME ~Stale(tables), NEW k \in Key, NEW v \in Nat, Leads(c, k, v) PROVE v <= r[k]
  <2>1. PICK j \in 1 .. Len(c) : c[j][k] >= v
    BY <1>8 DEF Leads
  <2>2. RowsOf(tables[j])[k] <= r[k] /\ c[j] = RowsOf(tables[j]) /\ c[j] \in Rows
    BY <1>4, <1>6, <1>8
  <2>3. c[j][k] \in Nat /\ r[k] \in Nat
    BY <1>4, <2>2, Blank DEF Rows, Version
  <2>. QED
    BY <2>1, <2>2, <2>3
<1>. QED
  BY <1>1, <1>4, <1>5, <1>7, <1>8

(* What compact_read makes of the stock.                                   *)
LEMMA StockTakes ==
    ASSUME Types, Shelved, NEW t \in Thread, NEW n \in 1 .. Len(levels), NEW r, NEW gone, NEW m,
           Takes(t, n, r, gone, m)
    PROVE  Empties(n, m)
<1>1. /\ m \in Nat /\ m >= Len(levels) /\ gone \subseteq FilesOf(levels[n])
      /\ files' = [f \in DOMAIN files \ gone |-> files[f]]
      /\ levels' = [i \in 1 .. m |-> IF i = n \/ i > Len(levels) THEN << >> ELSE levels[i]]
  BY DEF Takes
<1>2. Len(Stock) = Len(levels) /\ Len(levels) \in Nat
  BY StockType
<1>3. ASSUME NEW i \in 1 .. Len(levels), i # n, NEW j \in 1 .. Len(levels[i])
      PROVE  files'[levels[i][j].file].rows = RowsOf(levels[i][j])
  <2>1. PICK f : f = levels[i][j].file
    OBVIOUS
  <2>2. f \in DOMAIN files /\ files[f].level = i - 1
    BY <2>1 DEF Shelved, OnShelf
  <2>3. f \notin gone
    <3>1. InLevel(levels[n], n)
      BY LevelTables
    <3>2. ASSUME f \in gone PROVE FALSE
      <4>1. files[f].level = n - 1
        BY <1>1, <3>1, <3>2 DEF InLevel
      <4>2. n \in Nat /\ i \in Nat
        BY <1>2
      <4>. QED
        BY <1>3, <2>2, <4>1, <4>2
    <3>. QED
      BY <3>2
  <2>4. files'[f] = files[f]
    BY <1>1, <2>2, <2>3
  <2>. QED
    BY <2>1, <2>4 DEF RowsOf
<1>4. Len(levels') = m
  BY <1>1
<1>5. Stock' = [i \in 1 .. m |-> [j \in 1 .. Len(levels'[i]) |-> files'[levels'[i][j].file].rows]]
  BY <1>4 DEF Stock, RowsOf
<1>6. Len(Stock') = m
  BY <1>1, <1>5
<1>7. ASSUME NEW i \in 1 .. m PROVE Stock'[i] = IF i = n \/ i > Len(Stock) THEN << >> ELSE Stock[i]
  <2>1. Stock'[i] = [j \in 1 .. Len(levels'[i]) |-> files'[levels'[i][j].file].rows]
    BY <1>5
  <2>2. CASE i = n \/ i > Len(levels)
    <3>1. levels'[i] = << >>
      BY <1>1, <2>2
    <3>. QED
      BY <1>2, <2>1, <2>2, <3>1
  <2>3. CASE i # n /\ ~(i > Len(levels))
    <3>1. i \in 1 .. Len(levels) /\ levels'[i] = levels[i]
      BY <1>1, <1>2, <2>3
    <3>2. Stock[i] = [j \in 1 .. Len(levels[i]) |-> RowsOf(levels[i][j])]
      BY <3>1 DEF Stock
    <3>. QED
      BY <1>2, <1>3, <2>1, <2>3, <3>1, <3>2
  <2>. QED
    BY <2>2, <2>3
<1>. QED
  BY <1>1, <1>2, <1>6, <1>7 DEF Empties

\* The steps by what they do to the stock and to merged rows, which belong
\* between the level that they are from and the next one.
Idles(t) == Stock' = Stock /\ pc[t] \notin MergedPc /\ pc'[t] \notin MergedPc
Carries(t) ==
    /\ Stock' = Stock /\ pc[t] \in MergedPc /\ pc'[t] \in MergedPc
    /\ loc'[t].rows = loc[t].rows /\ loc'[t].level = loc[t].level
FlushAdds(t) ==
    /\ pc[t] = "f_add" /\ pc'[t] = "f_truncate" /\ AddsTo(1, loc[t].rows)
    /\ \A u \in Thread : pc[u] \notin MergedPc
CompactAdds(t) ==
    pc[t] \in MergedPc /\ pc'[t] \notin MergedPc /\ AddsTo(loc[t].level + 2, loc[t].rows)
Gathers(t) ==
    /\ pc[t] = "c_read" /\ pc'[t] \in MergedPc /\ loc'[t].level = loc[t].level
    /\ \E m : Empties(loc[t].level + 1, m)
    /\ loc'[t].rows = merge(levels[loc[t].level + 1]) /\ ~Stale(levels[loc[t].level + 1])

(* There is one compaction at a time, and its rows are of a level.         *)
LEMMA MergesAlone ==
    ASSUME Types, Held, NEW t \in Thread
    PROVE  /\ pc[t] \in CompactionPc => \A u \in Thread : pc[u] \in MergedPc => u = t
           /\ compW = None => \A u \in Thread : pc[u] \notin MergedPc
           /\ pc[t] \in MergedPc => loc[t].level + 2 \in 1 .. Len(levels)
<1>1. \A u \in Thread : pc[u] \in MergedPc => pc[u] \in CompactionPc
  BY DEF MergedPc, CompactionPc
<1>2. \A u \in Thread : pc[u] \in CompactionPc => compW = u
  BY DEF Held, Holds
<1>3. None \notin Thread
  BY LsmAssumption
<1>4. ASSUME pc[t] \in MergedPc PROVE loc[t].level + 2 \in 1 .. Len(levels)
  <2>1. loc[t].level + 2 <= Len(levels)
    BY <1>1, <1>4 DEF Held, Holds, MergedPc
  <2>. QED
    BY <2>1, LocTypes, LevelsLength
<1>. QED
  BY <1>1, <1>2, <1>3, <1>4

(* What flush_add makes of the stock.                                      *)
LEMMA FlushRestocks ==
    ASSUME Types, Shelved, Held, NEW t \in Thread, flush_add(t)
    PROVE  FlushAdds(t)
<1>1. /\ pc[t] = "f_add" /\ pc'[t] = "f_truncate" /\ compW = None /\ files' = files
      /\ levels' = [levels EXCEPT ![1] = Append(@, Handle(loc[t].file))]
  BY DEF flush_add, Goto, Types, TPc
<1>2. loc[t].file \in DOMAIN files /\ files[loc[t].file].rows = loc[t].rows
  BY <1>1 DEF Shelved, Owns, OwnerPc
<1>3. Adds(1, loc[t].file) /\ 1 \in 1 .. Len(levels)
  BY <1>1, LevelsLength DEF Adds
<1>4. AddsTo(1, loc[t].rows)
  BY <1>1, <1>2, <1>3, StockAdds
<1>. QED
  BY <1>1, <1>4, MergesAlone DEF FlushAdds

(* Every step is of one of the five kinds, or notes a hazard.              *)
LEMMA Restocks ==
    ASSUME Steady, NEW t \in Thread, Step(t), Careful'
    PROVE  Idles(t) \/ Carries(t) \/ FlushAdds(t) \/ CompactAdds(t) \/ Gathers(t)
<1>1. Types /\ Genuine /\ Shelved /\ Held
  BY DEF Steady
<1>2. pc \in [Thread -> Pc] /\ loc \in [Thread -> Loc] /\ loc[t] \in Loc
  BY <1>1 DEF Types, TPc, TLoc
<1>3. CASE ~TableSteps(t)
  <2>1. UNCHANGED << files, levels >> /\ pc[t] \notin MergedPc /\ pc'[t] \notin MergedPc
    BY <1>1, <1>3, StepsQuiet
  <2>. QED
    BY <1>1, <2>1, StockSame DEF Idles
<1>4. CASE flush_write(t) \/ compact_write(t)
  <2>1. PICK n, d, p : /\ CreateFile(t, n, d) /\ Goto(t, p) /\ levels' = levels
                       /\ n \in Nat /\ d \in Seq(Symbol) /\ p \in Pc
                       /\ \/ pc[t] \notin MergedPc /\ p \notin MergedPc
                          \/ pc[t] \in MergedPc /\ p \in MergedPc
    <3>1. CASE flush_write(t)
      <4>1. /\ CreateFile(t, 0, dict) /\ Goto(t, "f_sync") /\ levels' = levels
            /\ 0 \in Nat /\ dict \in Seq(Symbol) /\ "f_sync" \in Pc
            /\ pc[t] \notin MergedPc /\ "f_sync" \notin MergedPc
        BY <1>1, <3>1 DEF flush_write, Types, IsDict, Pc, MergedPc
      <4>. QED
        BY <4>1
    <3>2. CASE compact_write(t)
      <4>1. /\ CreateFile(t, loc[t].level + 1, << >>) /\ Goto(t, "c_sync") /\ levels' = levels
            /\ loc[t].level + 1 \in Nat /\ << >> \in Seq(Symbol) /\ "c_sync" \in Pc
            /\ pc[t] \in MergedPc /\ "c_sync" \in MergedPc
        BY <1>1, <3>2, LocTypes DEF compact_write, Pc, MergedPc
      <4>. QED
        BY <4>1
    <3>. QED
      BY <1>4, <3>1, <3>2
  <2>2. /\ nextFile \in 1 .. MaxFiles
        /\ \A g \in DOMAIN files : files'[g] = files[g]
    BY <1>1, <2>1, Creates
  <2>3. pc'[t] = p /\ loc'[t].rows = loc[t].rows /\ loc'[t].level = loc[t].level
    BY <1>1, <2>1, <2>2, CreatorGoesOn
  <2>4. Stock' = Stock
    BY <1>1, <2>1, <2>2, StockSame
  <2>. QED
    BY <2>1, <2>3, <2>4 DEF Idles, Carries
<1>5. CASE flush_sync(t)
  <2>1. SyncFile(t) /\ levels' = levels /\ pc[t] = "f_sync" /\ pc'[t] = "f_add"
    BY <1>2, <1>5 DEF flush_sync, Goto
  <2>2. loc[t].file \in DOMAIN files
    BY <1>1, <2>1 DEF Shelved, Owns, OwnerPc
  <2>3. \A g \in DOMAIN files : files'[g].rows = files[g].rows
    BY <1>1, <2>1, <2>2, Syncs
  <2>. QED
    BY <1>1, <2>1, <2>3, StockSame DEF Idles, MergedPc
<1>6. CASE flush_add(t)
  BY <1>1, <1>6, FlushRestocks
<1>7. CASE write_error(t)
  <2>1. "failed" \in hazards'
    BY <1>7 DEF write_error, Note
  <2>. QED
    BY <2>1 DEF Careful, Lossy
<1>8. CASE compact_sync(t)
  <2>1. /\ pc[t] = "c_sync" /\ pc'[t] = "c_next" /\ SyncFile(t)
        /\ levels' = [levels EXCEPT ![loc[t].level + 2] = Append(@, Handle(loc[t].file))]
    BY <1>2, <1>8 DEF compact_sync, Goto
  <2>2. loc[t].file \in DOMAIN files /\ files[loc[t].file].rows = loc[t].rows
    BY <1>1, <2>1 DEF Shelved, Owns, OwnerPc
  <2>3. \A g \in DOMAIN files : files'[g].rows = files[g].rows
    BY <1>1, <2>1, <2>2, Syncs
  <2>4. pc[t] \in MergedPc /\ pc'[t] \notin MergedPc
    BY <2>1 DEF MergedPc
  <2>5. loc[t].level + 2 \in 1 .. Len(levels)
    BY <1>1, <2>4, MergesAlone
  <2>6. Adds(loc[t].level + 2, loc[t].file)
    BY <2>1 DEF Adds
  <2>7. AddsTo(loc[t].level + 2, files[loc[t].file].rows)
    BY <1>1, <2>2, <2>3, <2>5, <2>6, StockAdds
  <2>. QED
    BY <2>2, <2>4, <2>7 DEF CompactAdds
<1>9. CASE compact_read(t)
  <2>1. PICK n, r, gone, m : n \in 1 .. Len(levels) /\ Takes(t, n, r, gone, m)
    BY <1>1, <1>9, ReadTakes
  <2>2. Empties(n, m)
    BY <1>1, <2>1, StockTakes
  <2>3. /\ pc[t] = "c_read" /\ n = loc[t].level + 1 /\ r = merge(levels[n]) /\ ~Stale(levels[n])
        /\ loc' = [loc EXCEPT ![t].rows = r] /\ Goto(t, "c_write")
    BY <2>1 DEF Takes
  <2>4. pc'[t] \in MergedPc /\ loc'[t].level = loc[t].level /\ loc'[t].rows = r
    BY <1>2, <2>3 DEF Goto, MergedPc, Loc
  <2>. QED
    BY <2>2, <2>3, <2>4 DEF Gathers
<1>. QED
  BY <1>3, <1>4, <1>5, <1>6, <1>7, <1>8, <1>9 DEF TableSteps

\* Some table of a level, or the rows of a compaction, have the key.
Shown(k) ==
    \/ \E i \in 1 .. Len(Stock) : ~Lacks(Stock[i], k)
    \/ \E t \in Thread : pc[t] \in MergedPc /\ loc[t].rows[k] # 0

(* Appending to a level keeps what it has, and adds the rows.              *)
LEMMA AppendHas ==
    ASSUME NEW c \in Seq(Rows), NEW R \in Rows, NEW k \in Key, NEW n \in Nat, n # 0
    PROVE  /\ Lacks(Append(c, R), k) <=> Lacks(c, k) /\ R[k] = 0
           /\ R[k] >= n => Leads(Append(c, R), k, n)
           /\ R[k] = 0 /\ Leads(c, k, n) => Leads(Append(c, R), k, n)
           /\ Leads(c, k, n) => ~Lacks(c, k)
<1>1. PICK e, m : e = Append(c, R) /\ m = Len(c)
  OBVIOUS
<1>2. m \in Nat /\ Len(e) = m + 1 /\ e[m + 1] = R /\ \A j \in 1 .. m : e[j] = c[j]
  BY <1>1
<1>3. 1 .. Len(e) = 1 .. m \cup {m + 1} /\ m + 1 \in 1 .. Len(e)
  BY <1>2
<1>4. Lacks(e, k) <=> Lacks(c, k) /\ R[k] = 0
  BY <1>1, <1>2, <1>3 DEF Lacks
<1>5. ASSUME R[k] >= n PROVE Leads(e, k, n)
  BY <1>2, <1>3, <1>5 DEF Leads
<1>6. ASSUME R[k] = 0, Leads(c, k, n) PROVE Leads(e, k, n)
  <2>1. PICK j \in 1 .. m : c[j][k] >= n /\ \A i \in 1 .. m : i > j => c[i][k] = 0
    BY <1>1, <1>6 DEF Leads
  <2>2. j \in 1 .. Len(e) /\ e[j][k] >= n
    BY <1>2, <1>3, <2>1
  <2>3. \A i \in 1 .. Len(e) : i > j => e[i][k] = 0
    BY <1>2, <1>3, <1>6, <2>1
  <2>. QED
    BY <2>2, <2>3 DEF Leads
<1>7. ASSUME Leads(c, k, n) PROVE ~Lacks(c, k)
  <2>1. PICK j \in 1 .. m : c[j][k] >= n
    BY <1>1, <1>7 DEF Leads
  <2>2. c[j][k] # 0
    BY <2>1
  <2>. QED
    BY <1>1, <2>1, <2>2 DEF Lacks
<1>. QED
  BY <1>1, <1>4, <1>5, <1>6, <1>7

(* A key that reads may find stays one, whatever is flushed or compacted.  *)
LEMMA ShownStays ==
    ASSUME Steady, NEW t \in Thread, Step(t), Careful', NEW k \in Key, Shown(k)
    PROVE  Shown(k)'
<1>1. Types /\ Genuine /\ Shelved /\ Held
  BY DEF Steady
<1>2. \A u \in Thread \ {t} : pc[u] \in MergedPc => pc'[u] = pc[u] /\ loc'[u].rows = loc[u].rows
  <2>1. Alone(t) \/ Marks(t)
    BY <1>1, StepsAlone
  <2>2. \A p \in MergedPc : p \notin ReadPc
    BY DEF MergedPc, ReadPc
  <2>. QED
    BY <2>1, <2>2 DEF Alone, Marks
<1>3. /\ Len(Stock) \in Nat /\ \A i \in 1 .. Len(Stock) : Stock[i] \in Seq(Rows)
  BY <1>1, StockType
<1>4. ASSUME NEW n, NEW R \in Rows, AddsTo(n, R), NEW i \in 1 .. Len(Stock), ~Lacks(Stock[i], k)
      PROVE  i \in 1 .. Len(Stock') /\ ~Lacks(Stock'[i], k)
  <2>1. i # n => Stock'[i] = Stock[i]
    BY <1>4 DEF AddsTo
  <2>2. i = n => Stock'[i] = Append(Stock[i], R)
    BY <1>4 DEF AddsTo
  <2>3. ~Lacks(Append(Stock[i], R), k)
    BY <1>3, <1>4, AppendHas
  <2>. QED
    BY <1>4, <2>1, <2>2, <2>3 DEF AddsTo
<1>5. loc[t].rows \in Rows /\ loc[t].level \in Nat
  BY <1>1, LocTypes
<1>6. CASE Idles(t)
  BY <1>2, <1>6 DEF Shown, Idles, Lacks
<1>7. CASE Carries(t)
  BY <1>2, <1>7 DEF Shown, Carries, Lacks
<1>8. CASE FlushAdds(t)
  <2>1. PICK i \in 1 .. Len(Stock) : ~Lacks(Stock[i], k)
    BY <1>8 DEF FlushAdds, Shown
  <2>2. i \in 1 .. Len(Stock') /\ ~Lacks(Stock'[i], k)
    BY <1>4, <1>5, <1>8, <2>1 DEF FlushAdds
  <2>. QED
    BY <2>2 DEF Shown, Lacks
<1>9. CASE CompactAdds(t)
  <2>1. CASE \E i \in 1 .. Len(Stock) : ~Lacks(Stock[i], k)
    <3>1. \E i \in 1 .. Len(Stock') : ~Lacks(Stock'[i], k)
      BY <1>4, <1>5, <1>9, <2>1 DEF CompactAdds
    <3>. QED
      BY <3>1 DEF Shown, Lacks
  <2>2. CASE \E u \in Thread : pc[u] \in MergedPc /\ loc[u].rows[k] # 0
    <3>1. pc[t] \in CompactionPc
      BY <1>9 DEF CompactAdds, MergedPc, CompactionPc
    <3>2. loc[t].rows[k] # 0
      BY <1>1, <2>2, <3>1, MergesAlone
    <3>3. PICK n : n = loc[t].level + 2 /\ AddsTo(n, loc[t].rows)
      BY <1>9 DEF CompactAdds
    <3>4. n \in 1 .. Len(Stock') /\ Stock'[n] = Append(Stock[n], loc[t].rows) /\ n \in 1 .. Len(Stock)
      BY <3>3 DEF AddsTo
    <3>5. ~Lacks(Stock'[n], k)
      BY <1>3, <1>5, <3>2, <3>4, AppendHas
    <3>. QED
      BY <3>4, <3>5 DEF Shown, Lacks
  <2>. QED
    BY <2>1, <2>2 DEF Shown
<1>10. CASE Gathers(t)
  <2>1. PICK n, m : /\ n = loc[t].level + 1 /\ Empties(n, m) /\ loc'[t].rows = merge(levels[n])
                    /\ pc'[t] \in MergedPc /\ pc[t] = "c_read"
    BY <1>10 DEF Gathers
  <2>2. pc[t] \in CompactionPc /\ pc[t] \notin MergedPc
    BY <2>1 DEF CompactionPc, MergedPc
  <2>3. PICK i \in 1 .. Len(Stock) : ~Lacks(Stock[i], k)
    BY <1>1, <2>2, MergesAlone DEF Shown
  <2>4. CASE i = n
    <3>1. n \in 1 .. Len(levels)
      BY <1>1, <2>4, StockType
    <3>2. loc'[t].rows[k] # 0
      BY <1>1, <2>1, <2>3, <2>4, <3>1, MergeHas
    <3>. QED
      BY <2>1, <3>2 DEF Shown
  <2>5. CASE i # n
    <3>1. i \in 1 .. m /\ Stock'[i] = Stock[i] /\ Len(Stock') = m
      BY <1>3, <2>1, <2>5 DEF Empties
    <3>2. i \in 1 .. Len(Stock') /\ ~Lacks(Stock'[i], k)
      BY <2>3, <3>1
    <3>. QED
      BY <3>2 DEF Shown, Lacks
  <2>. QED
    BY <2>4, <2>5
<1>. QED
  BY <1>6, <1>7, <1>8, <1>9, <1>10, Restocks

(* A file that is whole was, or has just been synced.                      *)
LEMMA StepsFiles ==
    ASSUME Steady, NEW t \in Thread, Step(t), NEW f \in DOMAIN files', files'[f].whole
    PROVE  \/ f \in DOMAIN files /\ files[f].whole /\ files'[f].rows = files[f].rows
           \/ /\ flush_sync(t) \/ compact_sync(t)
              /\ f = loc[t].file /\ files'[f].rows = loc[t].rows
<1>1. Types /\ Genuine /\ Shelved /\ Held
  BY DEF Steady
<1>2. CASE ~TableSteps(t)
  BY <1>1, <1>2, StepsQuiet
<1>3. CASE flush_add(t) \/ write_error(t)
  BY <1>3 DEF flush_add, write_error, shared
<1>4. CASE compact_read(t)
  <2>1. PICK n, r, gone, m : n \in 1 .. Len(levels) /\ Takes(t, n, r, gone, m)
    BY <1>1, <1>4, ReadTakes
  <2>2. files' = [g \in DOMAIN files \ gone |-> files[g]]
    BY <2>1 DEF Takes
  <2>. QED
    BY <2>2
<1>5. CASE flush_write(t) \/ compact_write(t)
  <2>1. PICK n \in Nat, d \in Seq(Symbol) : CreateFile(t, n, d)
    <3>1. CASE flush_write(t)
      BY <1>1, <3>1 DEF flush_write, Types, IsDict
    <3>2. CASE compact_write(t)
      <4>1. CreateFile(t, loc[t].level + 1, << >>) /\ loc[t].level + 1 \in Nat /\ << >> \in Seq(Symbol)
        BY <1>1, <3>2, LocTypes DEF compact_write
      <4>. QED
        BY <4>1
    <3>. QED
      BY <1>5, <3>1, <3>2
  <2>2. /\ DOMAIN files' = DOMAIN files \cup {nextFile}
        /\ \A g \in DOMAIN files : files'[g] = files[g]
        /\ files'[nextFile].whole = FALSE
    BY <1>1, <2>1, Creates
  <2>. QED
    BY <2>2
<1>6. CASE flush_sync(t) \/ compact_sync(t)
  <2>1. SyncFile(t) /\ pc[t] \in OwnerPc
    BY <1>6 DEF flush_sync, compact_sync, OwnerPc
  <2>2. loc[t].file \in DOMAIN files /\ files[loc[t].file].rows = loc[t].rows
    BY <1>1, <2>1 DEF Shelved, Owns
  <2>3. /\ DOMAIN files' = DOMAIN files
        /\ \A g \in DOMAIN files : files'[g].rows = files[g].rows
        /\ \A g \in DOMAIN files : g # loc[t].file => files'[g] = files[g]
    BY <1>1, <2>1, <2>2, Syncs
  <2>. QED
    BY <1>6, <2>2, <2>3
<1>. QED
  BY <1>2, <1>3, <1>4, <1>5, <1>6 DEF TableSteps

\* The rows of every whole file are for reads to find, but for one that a flush
\* is about to add.
AwaitsAdd(f) == \E t \in Thread : pc[t] = "f_add" /\ loc[t].file = f
FilesShown ==
    status = "up" /\ Careful =>
        \A f \in DOMAIN files : files[f].whole =>
            AwaitsAdd(f) \/ \A k \in Key : files[f].rows[k] # 0 => Shown(k)

(* So it is after every step.                                              *)
LEMMA FilesShownKept ==
    ASSUME Steady, FilesShown, NEW t \in Thread, Step(t)
    PROVE  FilesShown'
<1>1. Types /\ Genuine /\ Shelved /\ Held
  BY DEF Steady
<1>2. SUFFICES ASSUME Careful', status' = "up", NEW f \in DOMAIN files', files'[f].whole,
                      NEW k \in Key, files'[f].rows[k] # 0, ~AwaitsAdd(f)'
               PROVE  Shown(k)'
  BY DEF FilesShown
<1>3. Careful /\ status = "up"
  <2>1. hazards \subseteq hazards'
    BY <1>1, StepsAlone
  <2>2. status = "up"
    BY DEF Step, insert, insert_wal, insert_memtable, insert_done, wal_error, insert_batch, batch_memtable,
        batch_wal, batch_done, apply_replication_batch, apply_wal, apply_memtable, apply_advance, advance_error,
        flush_memtable, flush_drain, flush_write, flush_sync, write_error, flush_add, flush_truncate,
        truncate_error, get, get_memtable, get_tables, scan, scan_memtable, scan_tables, read_panic, compact,
        compact_read, compact_panic, compact_write, compact_sync, compact_next, read_not_found, StartRead, May, Up
  <2>. QED
    BY <1>2, <2>1, <2>2 DEF Careful
<1>4. PICK R : R = files'[f].rows
  OBVIOUS
<1>5. pc \in [Thread -> Pc] /\ loc \in [Thread -> Loc]
  BY <1>1 DEF Types, TPc, TLoc
<1>6. \A n \in 1 .. Len(Stock) : Stock[n] \in Seq(Rows)
  BY <1>1, StockType
<1>7. ASSUME NEW n, AddsTo(n, R), R \in Rows PROVE Shown(k)'
  <2>1. n \in 1 .. Len(Stock) /\ n \in 1 .. Len(Stock') /\ Stock'[n] = Append(Stock[n], R)
    BY <1>7 DEF AddsTo
  <2>2. ~Lacks(Stock'[n], k)
    BY <1>2, <1>4, <1>6, <1>7, <2>1, AppendHas
  <2>. QED
    BY <2>1, <2>2 DEF Shown, Lacks
<1>8. CASE f \in DOMAIN files /\ files[f].whole /\ files'[f].rows = files[f].rows
  <2>1. CASE AwaitsAdd(f)
    <3>1. PICK u \in Thread : pc[u] = "f_add" /\ loc[u].file = f
      BY <2>1 DEF AwaitsAdd
    <3>2. ~(pc'[u] = "f_add" /\ loc'[u].file = f)
      BY <1>2 DEF AwaitsAdd
    <3>3. "f_add" \notin ReadPc /\ pc[u] # "f_drain" /\ pc[u] \notin MergedPc /\ pc[u] # "c_read"
      BY <3>1 DEF ReadPc, MergedPc
    <3>4. u = t
      BY <1>1, <3>1, <3>2, <3>3, StepsAlone DEF Alone, Marks
    <3>5. TableSteps(t)
      BY <1>1, <3>1, <3>4, StepsQuiet
    <3>6. flush_add(t)
      BY <3>1, <3>4, <3>5 DEF TableSteps, flush_write, flush_sync, write_error, compact_read, compact_write,
                              compact_sync
    <3>8. FlushAdds(t)
      BY <1>1, <3>6, FlushRestocks
    <3>9. R = loc[t].rows /\ R \in Rows
      BY <1>1, <1>4, <1>8, <3>1, <3>4, LocTypes DEF Shelved, Owns, OwnerPc
    <3>. QED
      BY <1>7, <3>8, <3>9 DEF FlushAdds
  <2>2. CASE ~AwaitsAdd(f)
    <3>1. Shown(k)
      BY <1>2, <1>3, <1>8, <2>2 DEF FilesShown
    <3>. QED
      BY <1>2, <3>1, ShownStays
  <2>. QED
    BY <2>1, <2>2
<1>9. CASE /\ flush_sync(t) \/ compact_sync(t)
           /\ f = loc[t].file /\ files'[f].rows = loc[t].rows
  <2>1. CASE flush_sync(t)
    <3>1. pc'[t] = "f_add" /\ loc'[t].file = f
      BY <1>5, <1>9, <2>1 DEF flush_sync, Goto
    <3>. QED
      BY <1>2, <3>1 DEF AwaitsAdd
  <2>2. CASE compact_sync(t)
    <3>1. pc[t] = "c_sync" /\ pc'[t] = "c_next"
      BY <1>5, <2>2 DEF compact_sync, Goto
    <3>2. CompactAdds(t)
      BY <1>2, <3>1, Restocks DEF Idles, Carries, FlushAdds, CompactAdds, Gathers, MergedPc
    <3>3. AddsTo(loc[t].level + 2, R) /\ R \in Rows
      BY <1>1, <1>4, <1>9, <3>2, LocTypes DEF CompactAdds
    <3>. QED
      BY <1>7, <3>3
  <2>. QED
    BY <1>9, <2>1, <2>2
<1>. QED
  BY <1>2, <1>8, <1>9, StepsFiles

(* load_sstables puts every file into the level that it says.              *)
LEMMA LoadedListed ==
    ASSUME Types, NEW order \in SetToSeqs(DOMAIN files), NEW ls, ls = Loaded(order),
           NEW f \in DOMAIN files
    PROVE  \E i \in 1 .. Len(ls) : i = files[f].level + 1 /\ \E j \in 1 .. Len(ls[i]) : ls[i][j].file = f
<1>1. PICK L : L = {0} \cup { files[g].level : g \in DOMAIN files }
  OBVIOUS
<1>2. PICK top \in Nat : top = Max(L)
  BY <1>1, TopLevel
<1>3. PICK i : i = files[f].level + 1
  OBVIOUS
<1>4. i \in 1 .. top + 1
  <2>1. PICK n \in Nat : \A g \in DOMAIN files : files[g].level <= n
    BY LevelsBounded
  <2>2. \A g \in DOMAIN files : files[g].level \in Nat
    BY DEF Types, TFiles, FileType
  <2>3. L \subseteq 0 .. n /\ 0 \in L /\ files[f].level \in L
    BY <1>1, <2>1, <2>2
  <2>4. PICK M : M = { x + 1 : x \in L }
    OBVIOUS
  <2>5. M \in SUBSET (1 .. n + 1) /\ 1 \in M /\ n + 1 \in Nat
    BY <2>3, <2>4
  <2>6. PICK m \in M : \A k \in M : k <= m
    BY <2>5, LastPosition
  <2>7. PICK x \in L : m = x + 1
    BY <2>4
  <2>8. \A y \in L : x >= y
    BY <2>3, <2>4, <2>6, <2>7
  <2>9. Max(L) \in L /\ \A y \in L : Max(L) >= y
    BY <2>8 DEF Max
  <2>. QED
    BY <1>2, <1>3, <2>2, <2>3, <2>9
<1>5. PICK S, c : S = DOMAIN files /\ c = Cardinality(S)
  OBVIOUS
<1>6. IsFiniteSet(S) /\ c \in Nat
  <2>1. S \in SUBSET (1 .. MaxFiles) /\ MaxFiles \in Nat
    BY <1>5, LsmAssumption DEF Types, TFiles
  <2>2. IsFiniteSet(S)
    BY <2>1, CountTo, FS_Subset
  <2>. QED
    BY <1>5, <2>2, FS_CardinalityType
<1>7. order \in [1 .. c -> S] /\ \A a, b \in 1 .. c : a # b => order[a] # order[b]
  BY <1>5 DEF SetToSeqs
<1>8. Len(order) = c
  BY <1>6, <1>7
<1>9. PICK p \in 1 .. c : order[p] = f
  <2>1. order \in Injection(1 .. c, S)
    BY <1>7 DEF Injection, IsInjective
  <2>2. Cardinality(1 .. c) = c
    BY <1>6, FS_Interval
  <2>3. order \in Surjection(1 .. c, S)
    BY <1>5, <1>6, <2>1, <2>2, FS_Injection
  <2>. QED
    BY <1>5, <2>3 DEF Surjection
<1>10. PICK mine : mine = AtLevel(order, i)
  OBVIOUS
<1>11. p \in mine
  BY <1>3, <1>4, <1>8, <1>9, <1>10 DEF AtLevel, Types, TFiles, FileType
<1>12. mine \in SUBSET Int /\ IsFiniteSet(mine)
  <2>1. mine \in SUBSET (1 .. c)
    BY <1>8, <1>10 DEF AtLevel
  <2>2. \A x \in 1 .. c : x \in Int
    BY <1>6
  <2>. QED
    BY <1>6, <2>1, <2>2, CountTo, FS_Subset
<1>13. PICK n, j : n = Cardinality(mine) /\ j = Rank(mine, p)
  OBVIOUS
<1>14. n \in Nat /\ j \in 1 .. n /\ \A x \in mine : Rank(mine, x) = j => x = p
  BY <1>11, <1>12, <1>13, Ranks
<1>15. Nth(mine, j) = p
  BY <1>11, <1>13, <1>14 DEF Nth, Rank
<1>16. ls = [k \in 1 .. top + 1 |-> [x \in 1 .. Cardinality(AtLevel(order, k)) |->
                                        LoadedHandle(order[Nth(AtLevel(order, k), x)])]]
  BY <1>1, <1>2 DEF Loaded
<1>17. ls[i] = [x \in 1 .. n |-> LoadedHandle(order[Nth(mine, x)])]
  BY <1>4, <1>10, <1>13, <1>16
<1>18. Len(ls[i]) = n /\ ls[i][j] = LoadedHandle(f)
  BY <1>9, <1>14, <1>15, <1>17
<1>19. Len(ls) = top + 1
  BY <1>16
<1>. QED
  BY <1>3, <1>4, <1>14, <1>18, <1>19 DEF LoadedHandle

\* The stock has a row for every table.
StockFits ==
    /\ Len(Stock) = Len(levels)
    /\ \A i \in 1 .. Len(levels) :
        /\ Len(Stock[i]) = Len(levels[i])
        /\ \A j \in 1 .. Len(levels[i]) : Stock[i][j] = files[levels[i][j].file].rows

(* It does, in this state and the next.                                    *)
LEMMA StockFit ==
    ASSUME Types, Shelved
    PROVE  StockFits
  BY StockType DEF StockFits

(* So it is after a restart, which finds every whole file.                 *)
LEMMA FilesShownAtOpen ==
    ASSUME Steady, open
    PROVE  FilesShown'
<1>1. Types /\ Types' /\ Shelved' /\ files' = files
  BY OpenKeeps DEF Steady, open
<1>2. PICK order \in SetToSeqs(DOMAIN files) : levels' = Loaded(order)
  BY DEF open
<1>3. ASSUME NEW f \in DOMAIN files, NEW k \in Key, files[f].rows[k] # 0 PROVE Shown(k)'
  <2>1. PICK i \in 1 .. Len(levels') : \E j \in 1 .. Len(levels'[i]) : levels'[i][j].file = f
    BY <1>1, <1>2, LoadedListed
  <2>4. PICK j \in 1 .. Len(levels'[i]) : levels'[i][j].file = f
    BY <2>1
  <2>2. /\ Len(Stock') = Len(levels') /\ Len(Stock'[i]) = Len(levels'[i])
        /\ Stock'[i][j] = files'[levels'[i][j].file].rows
    <3>1. StockFits'
      BY <1>1, StockFit, PTL
    <3>. QED
      BY <2>1, <2>4, <3>1 DEF StockFits
  <2>3. Stock'[i][j][k] # 0
    BY <1>1, <1>3, <2>4, <2>2
  <2>. QED
    BY <2>1, <2>4, <2>2, <2>3 DEF Shown, Lacks
<1>. QED
  BY <1>1, <1>3 DEF FilesShown

(***************************************************************************)
(* What tables are made of, and what the history is.                       *)
(***************************************************************************)

(* Only a write that begins changes the dictionary and the history.        *)
LEMMA StepBegins ==
    ASSUME Types, NEW t \in Thread, Step(t)
    PROVE  \/ \E d, pairs : Begins(t, d, pairs)
           \/ UNCHANGED << dict, origin >>
<1>1. CASE insert(t) \/ insert_batch(t) \/ apply_replication_batch(t)
  BY <1>1, InsertBegins, InsertBatchBegins, ApplyBegins
<1>2. CASE ~(insert(t) \/ insert_batch(t) \/ apply_replication_batch(t))
  <2>1. UNCHANGED << dict, origin >>
    BY <1>2 DEF Step, insert_wal, insert_memtable, insert_done, wal_error, batch_memtable,
        batch_wal, batch_done, apply_wal, apply_memtable, apply_advance, advance_error,
        flush_memtable, flush_drain, flush_write, flush_sync, write_error, flush_add, flush_truncate,
        truncate_error, get, get_memtable, get_tables, scan, scan_memtable, scan_tables, read_panic, compact,
        compact_read, compact_panic, compact_write, compact_sync, compact_next, read_not_found, Log, shared,
        history
  <2>. QED
    BY <2>1
<1>. QED
  BY <1>1, <1>2

(* What the history says of a version stays.                               *)
LEMMA OriginStays ==
    ASSUME Types, NEW t \in Thread, Step(t)
    PROVE  /\ Len(origin) \in Nat /\ Len(origin') \in Nat /\ Len(origin) <= Len(origin')
           /\ \A v \in 1 .. Len(origin) : origin'[v] = origin[v] /\ v \in 1 .. Len(origin')
<1>1. Len(origin) \in Nat
  BY DEF Types, TOrigin
<1>2. CASE \E d, pairs : Begins(t, d, pairs)
  <2>1. PICK d, pairs : Begins(t, d, pairs)
    BY <1>2
  <2>2. PICK T : T = ticks_of(d, pairs)
    OBVIOUS
  <2>3. Grows(T)
    BY <2>1, <2>2, BeginsGrow
  <2>4. \A v \in 1 .. Len(origin) : origin'[v] = origin[v]
    BY <2>3 DEF Grows
  <2>. QED
    BY <2>3, <2>4, GrownHistory
<1>3. CASE UNCHANGED << dict, origin >>
  BY <1>1, <1>3
<1>. QED
  BY <1>2, <1>3, StepBegins

(* A file is one that was there, or has just been created.                 *)
LEMMA StepMakes ==
    ASSUME Steady, NEW t \in Thread, Step(t), NEW f \in DOMAIN files'
    PROVE  \/ /\ f \in DOMAIN files /\ files'[f].rows = files[f].rows
              /\ files'[f].names = files[f].names
           \/ /\ f = nextFile /\ UNCHANGED << dict, origin >>
              /\ \E n \in Nat : CreateFile(t, n, dict) \/ CreateFile(t, n, << >>)
<1>1. Types /\ Genuine /\ Shelved /\ Held
  BY DEF Steady
<1>2. CASE ~TableSteps(t)
  BY <1>1, <1>2, StepsQuiet
<1>3. CASE flush_add(t) \/ write_error(t)
  BY <1>3 DEF flush_add, write_error, shared
<1>4. CASE compact_read(t)
  <2>1. PICK n \in 1 .. Len(levels) : \E r, gone, m : Takes(t, n, r, gone, m)
    BY <1>1, <1>4, ReadTakes
  <2>2. PICK r, gone, m : Takes(t, n, r, gone, m)
    BY <2>1
  <2>3. files' = [g \in DOMAIN files \ gone |-> files[g]]
    BY <2>2 DEF Takes
  <2>. QED
    BY <2>3
<1>5. CASE flush_write(t) \/ compact_write(t)
  <2>1. loc[t].level + 1 \in Nat /\ 0 \in Nat
    BY <1>1, LocTypes
  <2>2. \E n \in Nat : CreateFile(t, n, dict) \/ CreateFile(t, n, << >>)
    BY <1>5, <2>1 DEF flush_write, compact_write
  <2>3. UNCHANGED << dict, origin >>
    BY <1>5 DEF flush_write, compact_write
  <2>4. f = nextFile \/ (f \in DOMAIN files /\ files'[f] = files[f])
    BY <2>2, ZenonT(30) DEF CreateFile
  <2>. QED
    BY <2>2, <2>3, <2>4
<1>6. CASE flush_sync(t) \/ compact_sync(t)
  <2>1. PICK g : g = loc[t].file
    OBVIOUS
  <2>2. SyncFile(t) /\ pc[t] \in OwnerPc
    BY <1>6 DEF flush_sync, compact_sync, OwnerPc
  <2>3. files' = [files EXCEPT ![g].whole = TRUE]
    BY <2>1, <2>2 DEF SyncFile
  <2>4. f \in DOMAIN files /\ files[f] \in FileType
    BY <1>1, <2>3 DEF Types, TFiles
  <2>5. PICK F : F = [files[f] EXCEPT !.whole = TRUE]
    OBVIOUS
  <2>6. F.rows = files[f].rows /\ F.names = files[f].names
    BY <2>4, <2>5 DEF FileType
  <2>7. files'[f] = F \/ files'[f] = files[f]
    BY <2>3, <2>4, <2>5
  <2>. QED
    BY <2>4, <2>6, <2>7
<1>. QED
  BY <1>2, <1>3, <1>4, <1>5, <1>6 DEF TableSteps

\* The time range of a table has the timestamps of its rows, unless a skewed
\* one has been written; and its filter the names of their symbols, unless one
\* has been written without names.
Timed ==
    "skewed" \notin hazards =>
        \A f \in DOMAIN files, k \in Key : files[f].rows[k] # 0 => overlaps_time(files[f].rows, k[2])
Labelled ==
    "unnamed" \notin hazards /\ "remapped" \notin hazards =>
        \A f \in DOMAIN files, k \in Key : files[f].rows[k] # 0 => SymbolOf(files[f].rows[k]) \in files[f].names

(* So it is after every step.                                              *)
LEMMA TablesFitKept ==
    ASSUME Steady, Timed, Labelled, NEW t \in Thread, Step(t)
    PROVE  Timed' /\ Labelled'
<1>1. Types /\ Genuine /\ Shelved /\ Held /\ Named
  BY DEF Steady
<1>2. hazards \subseteq hazards'
  BY <1>1, StepsAlone
<1>3. ASSUME NEW f \in DOMAIN files', f = nextFile, UNCHANGED << dict, origin >>, NEW k \in Key, files'[f].rows[k] # 0,
             NEW n \in Nat, NEW d, d = dict \/ d = << >>, CreateFile(t, n, d)
      PROVE  /\ "skewed" \notin hazards' => overlaps_time(files'[f].rows, k[2])
             /\ "unnamed" \notin hazards' /\ "remapped" \notin hazards'
                    => origin'[files'[f].rows[k]][1] \in files'[f].names
  <2>1. PICK R, N, v : R = loc[t].rows /\ N = { name_of(d, j[1]) : j \in PresentKeys(R) } /\ v = R[k]
    OBVIOUS
  <2>2. files'[f] = [rows |-> R, level |-> n, whole |-> FALSE, names |-> N]
    <3>1. files'[f] = Table(R, n, d, FALSE)
      BY <1>3, <2>1 DEF CreateFile
    <3>. QED
      BY <2>1, <3>1 DEF Table
  <2>3. files'[f].rows = R /\ files'[f].names = N
    BY <2>2
  <2>4. v # 0 /\ k \in PresentKeys(R)
    BY <1>3, <2>1, <2>3 DEF PresentKeys
  <2>5. Note(When(None \in N, "unnamed") \cup When(\E j \in PresentKeys(R) : ~overlaps_time(R, j[2]), "skewed"))
    BY <1>3, <2>1, <2>3, ZenonT(30) DEF CreateFile
  <2>6. "skewed" \notin hazards' => overlaps_time(R, k[2])
    BY <2>4, <2>5 DEF Note, When
  <2>7. "unnamed" \notin hazards' => None \notin N
    BY <2>5 DEF Note, When
  <2>8. R \in Rows /\ RowsGenuine(R) /\ Len(origin) \in Nat
    BY <1>1, <2>1, LocTypes DEF Genuine, Types, TOrigin
  <2>9. v \in 1 .. Len(origin) /\ KeyOf(v) = k
    <3>1. v \in Nat /\ v <= Len(origin) /\ KeyOf(v) = k
      BY <2>1, <2>4, <2>8, Blank DEF RowsGenuine, Rows, Version
    <3>. QED
      BY <2>4, <2>8, <3>1
  <2>10. k[1] = IdOf(v) /\ k[1] \in Nat
    <3>1. k[1] = origin[v][3]
      BY <2>9 DEF KeyOf
    <3>2. Cardinality(Symbol) \in Nat /\ k[1] \in Id
      BY LsmAssumption, FS_CardinalityType, KeyParts
    <3>. QED
      BY <3>1, <3>2 DEF IdOf, Id
  <2>11. ASSUME "unnamed" \notin hazards', "remapped" \notin hazards' PROVE SymbolOf(v) \in N
    <3>1. name_of(d, k[1]) \in N
      BY <2>1, <2>4
    <3>2. name_of(d, k[1]) # None
      BY <2>7, <2>11, <3>1
    <3>3. k[1] + 1 \in 1 .. Len(d) /\ name_of(d, k[1]) = d[k[1] + 1]
      BY <3>2 DEF name_of
    <3>4. d = dict
      BY <1>3, <3>3
    <3>5. Len(dict) \in Nat
      BY <1>1, DictNames DEF Types
    <3>6. dict[IdOf(v) + 1] = SymbolOf(v)
      BY <1>1, <1>2, <2>9, <2>10, <2>11, <3>3, <3>4, <3>5 DEF Named, IdOf, SymbolOf
    <3>. QED
      BY <2>10, <3>1, <3>3, <3>4, <3>6
  <2>12. origin'[v][1] = SymbolOf(v)
    BY <1>3 DEF SymbolOf
  <2>. QED
    BY <2>1, <2>3, <2>6, <2>11, <2>12
<1>4. ASSUME NEW f \in DOMAIN files, NEW k \in Key, files[f].rows[k] # 0,
             files'[f].rows = files[f].rows, files'[f].names = files[f].names
      PROVE  /\ "skewed" \notin hazards' => overlaps_time(files'[f].rows, k[2])
             /\ "unnamed" \notin hazards' /\ "remapped" \notin hazards'
                    => origin'[files'[f].rows[k]][1] \in files'[f].names
  <2>1. PICK v : v = files[f].rows[k]
    OBVIOUS
  <2>2. files[f].rows \in Rows /\ RowsGenuine(files[f].rows) /\ Len(origin) \in Nat
    BY <1>1 DEF Genuine, Types, TOrigin, TFiles, FileType
  <2>3. v \in 1 .. Len(origin)
    <3>1. v \in Nat /\ v <= Len(origin)
      BY <1>4, <2>1, <2>2, Blank DEF RowsGenuine, Rows, Version
    <3>. QED
      BY <1>4, <2>1, <2>2, <3>1
  <2>4. origin'[v][1] = SymbolOf(v)
    BY <1>1, <2>3, OriginStays DEF SymbolOf
  <2>5. "skewed" \notin hazards' => overlaps_time(files[f].rows, k[2])
    BY <1>2, <1>4 DEF Timed
  <2>6. "unnamed" \notin hazards' /\ "remapped" \notin hazards' => SymbolOf(v) \in files[f].names
    BY <1>2, <1>4, <2>1 DEF Labelled
  <2>. QED
    BY <1>4, <2>1, <2>4, <2>5, <2>6
<1>5. ASSUME NEW f \in DOMAIN files', NEW k \in Key, files'[f].rows[k] # 0
      PROVE  /\ "skewed" \notin hazards' => overlaps_time(files'[f].rows, k[2])
             /\ "unnamed" \notin hazards' /\ "remapped" \notin hazards'
                    => origin'[files'[f].rows[k]][1] \in files'[f].names
  BY <1>3, <1>4, <1>5, StepMakes
<1>6. Timed'
  <2>1. ("skewed" \notin hazards => \A f \in DOMAIN files, k \in Key : files[f].rows[k] # 0
            => overlaps_time(files[f].rows, k[2]))'
    BY <1>5 DEF overlaps_time, PresentKeys
  <2>. QED
    BY <2>1 DEF Timed
<1>7. Labelled'
  BY <1>5 DEF Labelled, SymbolOf
<1>. QED
  BY <1>6, <1>7

\* The dictionary has ids that ticks were written with, the ids of ticks leave
\* none out, and a symbol has one id.
DictWritten == \A i \in 1 .. Len(dict) : \E v \in 1 .. Len(origin) : IdOf(v) + 1 = i
Dense == \A v \in 1 .. Len(origin) : \A i \in 0 .. IdOf(v) : \E w \in 1 .. Len(origin) : IdOf(w) = i
OneIdPerSymbol == \A v, w \in 1 .. Len(origin) : SymbolOf(v) = SymbolOf(w) => IdOf(v) = IdOf(w)
IdsKnown == Careful => DictWritten /\ Dense /\ OneIdPerSymbol

(* So it is after every step: a symbol that a restart has forgotten gets   *)
(* the id that it had, or this is a hazard.                                *)
LEMMA IdsKnownKept ==
    ASSUME Steady, IdsKnown, NEW t \in Thread, Step(t)
    PROVE  IdsKnown'
<1>1. Types /\ Types' /\ Named'
  BY StepKeeps DEF Steady
<1>2. SUFFICES ASSUME Careful' PROVE DictWritten' /\ Dense' /\ OneIdPerSymbol'
  BY DEF IdsKnown
<1>3. hazards \subseteq hazards'
  BY <1>1, StepsAlone
<1>4. Careful /\ DictWritten /\ Dense /\ OneIdPerSymbol
  BY <1>2, <1>3 DEF Careful, IdsKnown
<1>5. CASE UNCHANGED << dict, origin >>
  BY <1>4, <1>5 DEF DictWritten, Dense, OneIdPerSymbol, IdOf, SymbolOf
<1>6. CASE \E d, pairs : Begins(t, d, pairs)
  <2>1. PICK d, pairs : Begins(t, d, pairs)
    BY <1>6
  <2>2. PICK m, n, S : m = Len(origin) /\ n = Len(pairs) /\ S = SymbolsTo(pairs, Len(pairs))
    OBVIOUS
  <2>3. /\ IsDict(d) /\ dict' = d /\ Grown(dict, d, S) /\ S \in SUBSET Known(d) /\ ~Remaps(d, pairs)
        /\ Len(d) \in Nat /\ Len(dict) \in Nat
    <3>1. IsDict(d) /\ IsDict(dict)
      BY <1>1, <2>1 DEF Begins, Types
    <3>. QED
      BY <1>2, <2>1, <2>2, <3>1, DictNames DEF Begins
  <2>4. /\ m \in Nat /\ n \in Nat /\ Len(origin') = m + n
        /\ \A v \in 1 .. m : origin'[v] = origin[v]
        /\ \A i \in 1 .. n : origin'[m + i] = << pairs[i][1], pairs[i][2], get_id(d, pairs[i][1]) >>
    <3>1. PICK T : T = ticks_of(d, pairs)
      OBVIOUS
    <3>2. /\ Grows(T) /\ Len(T) = n /\ n \in Nat
          /\ \A i \in 1 .. n : origin'[m + i] = << pairs[i][1], pairs[i][2], get_id(d, pairs[i][1]) >>
      BY <1>1, <2>1, <2>2, <3>1, BeginsGrow
    <3>3. \A v \in 1 .. m : origin'[v] = origin[v]
      BY <2>2, <3>2 DEF Grows
    <3>. QED
      BY <1>1, <2>2, <3>2, <3>3 DEF Grows, Types, TOrigin
  <2>5. \A s \in Known(d) : get_id(d, s) \in Nat /\ get_id(d, s) + 1 \in 1 .. Len(d) /\ d[get_id(d, s) + 1] = s
    BY <2>3, IdOfName DEF Id, DictNames
  <2>6. \A v \in 1 .. m : IdOf(v)' = IdOf(v) /\ SymbolOf(v)' = SymbolOf(v) /\ v \in 1 .. m + n /\ IdOf(v) \in Nat
    <3>1. \A v \in 1 .. m : IdOf(v) \in Id
      BY <1>1, <2>2 DEF Types, TOrigin, Entry, IdOf
    <3>2. Cardinality(Symbol) \in Nat
      BY LsmAssumption, FS_CardinalityType
    <3>. QED
      BY <2>4, <3>1, <3>2 DEF IdOf, SymbolOf, Id
  <2>7. \A i \in 1 .. n : /\ m + i \in 1 .. m + n /\ pairs[i][1] \in S /\ pairs[i][1] \in Known(d)
                          /\ IdOf(m + i)' = get_id(d, pairs[i][1]) /\ SymbolOf(m + i)' = pairs[i][1]
    <3>1. \A i \in 1 .. n : m + i \in 1 .. m + n /\ pairs[i][1] \in S /\ pairs[i][1] \in Known(d)
      BY <2>2, <2>3, <2>4 DEF SymbolsTo
    <3>2. ASSUME NEW i \in 1 .. n PROVE IdOf(m + i)' = get_id(d, pairs[i][1]) /\ SymbolOf(m + i)' = pairs[i][1]
      <4>1. PICK j, e : j = m + i /\ e = origin'[j]
        OBVIOUS
      <4>2. e = << pairs[i][1], pairs[i][2], get_id(d, pairs[i][1]) >>
        BY <2>4, <4>1
      <4>3. e[1] = pairs[i][1] /\ e[3] = get_id(d, pairs[i][1])
        BY <4>2
      <4>4. IdOf(j)' = e[3] /\ SymbolOf(j)' = e[1]
        BY <4>1 DEF IdOf, SymbolOf
      <4>. QED
        BY <2>2, <4>1, <4>3, <4>4 DEF IdOf, SymbolOf
    <3>. QED
      BY <3>1, <3>2
  <2>8. \A v \in 1 .. m + n : v \in 1 .. m \/ \E i \in 1 .. n : v = m + i
    <3>1. ASSUME NEW v \in 1 .. m + n, v \notin 1 .. m PROVE v - m \in 1 .. n /\ v = m + (v - m)
      BY <2>4, <3>1
    <3>. QED
      BY <3>1
  <2>9. ASSUME NEW i \in 1 .. Len(d) PROVE \E v \in 1 .. m + n : IdOf(v)' + 1 = i
    <3>1. CASE i <= Len(dict)
      <4>1. i \in 1 .. Len(dict)
        BY <2>3, <3>1
      <4>2. PICK v \in 1 .. m : IdOf(v) + 1 = i
        BY <1>4, <2>2, <4>1 DEF DictWritten
      <4>. QED
        BY <2>6, <4>2
    <3>2. CASE i > Len(dict)
      <4>1. d[i] \in S
        BY <2>3, <3>2 DEF Grown
      <4>2. PICK j \in 1 .. n : d[i] = pairs[j][1]
        BY <2>2, <4>1 DEF SymbolsTo
      <4>3. PICK g : g = get_id(d, pairs[j][1])
        OBVIOUS
      <4>4. g \in Nat /\ g + 1 \in 1 .. Len(d) /\ d[g + 1] = d[i]
        BY <2>5, <2>7, <4>2, <4>3
      <4>5. g + 1 = i
        BY <2>3, <4>4, NamesDiffer
      <4>. QED
        BY <2>7, <4>3, <4>5
    <3>. QED
      BY <2>3, <3>1, <3>2
  <2>10. ASSUME NEW v \in 1 .. m + n, NEW i \in 0 .. IdOf(v)' PROVE \E w \in 1 .. m + n : IdOf(w)' = i
    <3>1. CASE v \in 1 .. m
      <4>1. i \in 0 .. IdOf(v)
        BY <2>6, <3>1
      <4>2. PICK w \in 1 .. m : IdOf(w) = i
        BY <1>4, <2>2, <3>1, <4>1 DEF Dense
      <4>. QED
        BY <2>6, <4>2
    <3>2. CASE \E j \in 1 .. n : v = m + j
      <4>1. PICK j \in 1 .. n : v = m + j
        BY <3>2
      <4>2. PICK g : g = get_id(d, pairs[j][1])
        OBVIOUS
      <4>3. IdOf(v)' = g /\ g \in Nat /\ g + 1 \in 1 .. Len(d)
        BY <2>5, <2>7, <4>1, <4>2
      <4>4. i + 1 \in 1 .. Len(d) /\ i \in Nat
        BY <2>3, <4>3
      <4>5. PICK w \in 1 .. m + n : IdOf(w)' + 1 = i + 1
        BY <2>9, <4>4
      <4>6. IdOf(w)' \in Nat
        BY <2>5, <2>6, <2>7, <2>8
      <4>. QED
        BY <4>4, <4>5, <4>6
    <3>. QED
      BY <2>8, <3>1, <3>2
  <2>11. ASSUME NEW v \in 1 .. m, NEW j \in 1 .. n, SymbolOf(v) = pairs[j][1]
         PROVE  IdOf(v) = get_id(d, pairs[j][1])
    <3>1. PICK g : g = get_id(d, pairs[j][1])
      OBVIOUS
    <3>2. g \in Nat /\ g + 1 \in 1 .. Len(d) /\ d[g + 1] = pairs[j][1]
      BY <2>5, <2>7, <3>1
    <3>3. CASE IdOf(v) + 1 <= Len(d)
      <4>1. IdOf(v) + 1 \in 1 .. Len(d)
        BY <2>3, <2>6, <3>3
      <4>2. d[IdOf(v) + 1] = SymbolOf(v)
        <5>1. "remapped" \notin hazards'
          BY <1>2 DEF Careful, Lossy
        <5>2. \A w \in 1 .. m + n : IdOf(w)' + 1 <= Len(d) => d[IdOf(w)' + 1] = SymbolOf(w)'
          BY <1>1, <2>3, <2>4, <5>1 DEF Named, IdOf, SymbolOf
        <5>. QED
          BY <2>6, <3>3, <5>2
      <4>3. IdOf(v) + 1 = g + 1
        BY <2>3, <2>11, <3>2, <4>1, <4>2, NamesDiffer
      <4>. QED
        BY <2>6, <3>1, <3>2, <4>3
    <3>4. CASE IdOf(v) + 1 > Len(d)
      <4>1. g \in 0 .. IdOf(v)
        BY <2>3, <2>6, <3>2, <3>4
      <4>2. PICK w \in 1 .. m : IdOf(w) = g
        BY <1>4, <2>2, <4>1 DEF Dense
      <4>3. SymbolOf(w) = pairs[j][1]
        BY <2>2, <2>3, <3>1, <4>2 DEF Remaps, IdOf, SymbolOf
      <4>. QED
        BY <1>4, <2>2, <2>11, <3>1, <4>2, <4>3 DEF OneIdPerSymbol
    <3>. QED
      BY <2>3, <2>6, <3>3, <3>4
  <2>12. ASSUME NEW v \in 1 .. m + n, NEW w \in 1 .. m + n, SymbolOf(v)' = SymbolOf(w)' PROVE IdOf(v)' = IdOf(w)'
    <3>1. CASE v \in 1 .. m /\ w \in 1 .. m
      BY <1>4, <2>2, <2>6, <2>12, <3>1 DEF OneIdPerSymbol
    <3>2. CASE v \in 1 .. m /\ \E j \in 1 .. n : w = m + j
      BY <2>6, <2>7, <2>11, <2>12, <3>2
    <3>3. CASE w \in 1 .. m /\ \E j \in 1 .. n : v = m + j
      BY <2>6, <2>7, <2>11, <2>12, <3>3
    <3>4. CASE (\E j \in 1 .. n : v = m + j) /\ \E j \in 1 .. n : w = m + j
      BY <2>7, <2>12, <3>4
    <3>. QED
      BY <2>8, <3>1, <3>2, <3>3, <3>4
  <2>13. DictWritten'
    BY <2>3, <2>4, <2>9 DEF DictWritten, IdOf
  <2>14. Dense'
    BY <2>4, <2>10 DEF Dense, IdOf
  <2>15. OneIdPerSymbol'
    BY <2>4, <2>12 DEF OneIdPerSymbol, IdOf, SymbolOf
  <2>. QED
    BY <2>13, <2>14, <2>15
<1>. QED
  BY <1>1, <1>5, <1>6, StepBegins

(***************************************************************************)
(* Scans.                                                                  *)
(***************************************************************************)

\* The steps of a flush between its drain and its add_table.
DrainPc == {"f_write", "f_sync", "f_add"}

(* How a call comes to these steps, and to those of a read.                *)
LEMMA StepsArrive ==
    ASSUME Types, NEW t \in Thread, Step(t)
    PROVE  /\ pc'[t] \in DrainPc => pc[t] \in DrainPc \/ Marks(t)
           /\ pc'[t] \in ReadPc => get(t) \/ get_memtable(t) \/ scan(t) \/ scan_memtable(t)
<1>1. pc \in [Thread -> Pc] /\ loc \in [Thread -> Loc]
  BY DEF Types, TPc, TLoc
<1>2. CASE insert(t) \/ insert_batch(t) \/ apply_replication_batch(t)
  BY <1>1, <1>2 DEF insert, insert_batch, apply_replication_batch, Goto, ReadPc, DrainPc
<1>3. CASE insert_wal(t) \/ batch_wal(t) \/ apply_wal(t)
  BY <1>1, <1>3 DEF insert_wal, batch_wal, apply_wal, Log, Goto, ReadPc, DrainPc
<1>4. CASE insert_memtable(t) \/ batch_memtable(t) \/ apply_memtable(t)
  BY <1>1, <1>4 DEF insert_memtable, batch_memtable, apply_memtable, Goto, ReadPc, DrainPc
<1>5. CASE insert_done(t) \/ batch_done(t)
  BY <1>1, <1>5 DEF insert_done, batch_done, Goto, Return, ReadPc, DrainPc
<1>6. CASE wal_error(t) \/ apply_advance(t) \/ advance_error(t) \/ flush_memtable(t)
  BY <1>1, <1>6 DEF wal_error, apply_advance, advance_error, flush_memtable, Goto, Return, ReadPc, DrainPc
<1>7. CASE flush_drain(t)
  <2>1. CASE pc'[t] \in DrainPc
    <3>1. mem # NoRows
      BY <1>1, <1>7, <2>1 DEF flush_drain, AfterFlush, Goto, Return, DrainPc
    <3>3. pc[t] = "f_drain" /\ pc'[t] = "f_write"
      BY <1>1, <1>7, <3>1 DEF flush_drain, Goto
    <3>4. Marks(t)
      BY <1>7, <3>1, DrainMarks
    <3>. QED
      BY <3>3, <3>4 DEF ReadPc
  <2>2. CASE pc'[t] \notin DrainPc
    BY <1>1, <1>7, <2>2 DEF flush_drain, AfterFlush, Goto, Return, ReadPc, DrainPc
  <2>. QED
    BY <2>1, <2>2
<1>8. CASE flush_write(t) \/ flush_sync(t) \/ flush_add(t) \/ write_error(t)
  BY <1>1, <1>8 DEF flush_write, flush_sync, flush_add, write_error, Goto, Return, ReadPc, DrainPc
<1>9. CASE compact_read(t) \/ compact_write(t) \/ compact_sync(t)
  BY <1>1, <1>9 DEF compact_read, compact_write, compact_sync, Goto, ReadPc, DrainPc
<1>12. CASE flush_truncate(t) \/ truncate_error(t)
  BY <1>1, <1>12 DEF flush_truncate, truncate_error, AfterFlush, Goto, Return, ReadPc, DrainPc
<1>13. CASE get(t) \/ get_memtable(t) \/ get_tables(t)
  BY <1>1, <1>13 DEF get, get_memtable, get_tables, StartRead, Goto, Return, ReadPc, DrainPc
<1>14. CASE scan(t) \/ scan_memtable(t) \/ scan_tables(t) \/ read_panic(t)
  BY <1>1, <1>14 DEF scan, scan_memtable, scan_tables, read_panic, StartRead, Goto, Return, ReadPc, DrainPc
<1>15. CASE compact(t) \/ compact_panic(t) \/ compact_next(t)
  BY <1>1, <1>15 DEF compact, compact_panic, compact_next, NextLevel, Goto, Return, ReadPc, DrainPc
<1>16. CASE read_not_found(t)
  BY <1>16, NotFoundStays DEF ReadPc, DrainPc
<1>. QED
  BY <1>2, <1>3, <1>4, <1>5, <1>6, <1>7, <1>8, <1>9, <1>12, <1>13, <1>14, <1>15, <1>16 DEF Step

(* A read that begins is owed a version of the key it looks up: the ids    *)
(* that the dictionary gives to symbols are those of their ticks.          *)
LEMMA SeeksOwed ==
    ASSUME Steady, IdsKnown, Careful, NEW t \in Thread, NEW op, NEW p \in {"g_mem", "s_mem"},
           StartRead(t, op, p)
    PROVE  /\ loc'[t].owed # 0 => loc'[t].owed \in acked /\ KeyOf(loc'[t].owed) = loc'[t].key
           /\ ~loc'[t].gap => \A u \in Thread : pc[u] \notin DrainPc
<1>1. /\ Types /\ Named /\ DictWritten /\ OneIdPerSymbol /\ IsDict(dict) /\ loc \in [Thread -> Loc]
      /\ "remapped" \notin hazards /\ acked \subseteq 1 .. Len(origin) /\ Len(origin) \in Nat
  BY DEF Steady, IdsKnown, Types, TLoc, Careful, Lossy, TVersions, TOrigin
<1>2. PICK pair \in Known(dict) \X Timestamp :
        loc' = [loc EXCEPT ![t].pair = pair,
                           ![t].key = << get_id(dict, pair[1]), pair[2] >>,
                           ![t].owed = Owed(pair), ![t].gap = Draining # {}]
  BY DEF StartRead
<1>3. PICK i, o : i = get_id(dict, pair[1]) /\ o = Owed(pair)
  OBVIOUS
<1>4. PICK g \in BOOLEAN : g = (Draining # {})
  BY Zenon
<1>5. loc'[t].key = << i, pair[2] >> /\ loc'[t].owed = o /\ loc'[t].gap = g
  <2>1. loc' = [loc EXCEPT ![t].pair = pair, ![t].key = << i, pair[2] >>, ![t].owed = o, ![t].gap = g]
    BY <1>2, <1>3, <1>4, Zenon
  <2>2. loc[t] \in Loc
    BY <1>1
  <2>. QED
    BY <1>1, <2>1, <2>2 DEF Loc
<1>6. ~g => \A u \in Thread : pc[u] \notin DrainPc
  BY <1>4 DEF Draining, DrainPc
<1>7. ASSUME o # 0 PROVE o \in acked /\ KeyOf(o) = << i, pair[2] >>
  <2>1. PICK vs : vs = { v \in acked : PairOf(v) = pair }
    OBVIOUS
  <2>2. vs # {} /\ o = Max(vs)
    BY <1>3, <1>7, <2>1 DEF Owed
  <2>3. o \in vs
    BY <1>1, <2>1, <2>2, Extremes
  <2>4. o \in 1 .. Len(origin) /\ PairOf(o) = pair
    BY <1>1, <2>1, <2>3
  <2>5. SymbolOf(o) = pair[1] /\ origin[o][2] = pair[2]
    BY <2>4 DEF PairOf, SymbolOf
  <2>6. i \in Id /\ i + 1 \in 1 .. Len(dict) /\ dict[i + 1] = pair[1]
    BY <1>1, <1>3, IdOfName
  <2>7. PICK v \in 1 .. Len(origin) : IdOf(v) + 1 = i + 1
    BY <1>1, <2>6 DEF DictWritten
  <2>8. Cardinality(Symbol) \in Nat
    BY LsmAssumption, FS_CardinalityType
  <2>9. IdOf(v) \in Id
    BY <1>1 DEF Types, TOrigin, Entry, IdOf
  <2>10. IdOf(v) = i /\ Len(dict) \in Nat /\ i + 1 <= Len(dict)
    BY <1>1, <2>6, <2>7, <2>8, <2>9 DEF Id, IsDict
  <2>11. SymbolOf(v) = pair[1]
    BY <1>1, <2>6, <2>10 DEF Named, SymbolOf, IdOf
  <2>12. IdOf(o) = i
    BY <1>1, <2>4, <2>5, <2>10, <2>11 DEF OneIdPerSymbol
  <2>. QED
    BY <2>1, <2>3, <2>5, <2>12 DEF KeyOf, IdOf
<1>. QED
  BY <1>5, <1>6, <1>7

(* While nothing is drained, what is owed is in the memtable or shown.     *)
LEMMA OwedShown ==
    ASSUME Steady, FilesShown, Careful, status = "up", \A u \in Thread : pc[u] \notin DrainPc,
           NEW v \in Promised, mem[KeyOf(v)] = 0
    PROVE  Shown(KeyOf(v))
<1>1. Types /\ Genuine /\ Kept
  BY DEF Steady, Safe
<1>2. v \in 1 .. Len(origin) /\ Len(origin) \in Nat
  BY <1>1, PromisedWritten DEF Types, TOrigin
<1>3. PICK k \in Key : k = KeyOf(v)
  BY <1>1, <1>2, KeyWritten
<1>4. InTable(v)
  <2>1. CASE \A u \in Thread : pc[u] \notin FlushingPc
    <3>1. Serves(v)
      BY <1>1, <2>1 DEF Kept
    <3>2. ~Covers(mem, v)
      BY <1>2 DEF Covers
    <3>. QED
      BY <3>1, <3>2 DEF Serves
  <2>2. CASE \E u \in Thread : pc[u] \in FlushingPc
    <3>1. PICK u \in Thread : pc[u] \in FlushingPc
      BY <2>2
    <3>2. Drained(u, v)
      BY <1>1, <3>1 DEF Kept
    <3>3. pc[u] \notin {"f_write", "f_sync"}
      BY DEF DrainPc
    <3>. QED
      BY <3>2, <3>3 DEF Drained
  <2>. QED
    BY <2>1, <2>2
<1>5. CASE \E f \in DOMAIN files : files[f].whole /\ Covers(files[f].rows, v)
  <2>1. PICK f \in DOMAIN files : files[f].whole /\ Covers(files[f].rows, v)
    BY <1>5
  <2>2. ~AwaitsAdd(f)
    BY DEF AwaitsAdd, DrainPc
  <2>3. files[f].rows \in Rows
    BY <1>1 DEF Types, TFiles, FileType
  <2>4. files[f].rows[k] # 0
    BY <1>2, <1>3, <2>1, <2>3 DEF Covers
  <2>. QED
    BY <1>3, <2>1, <2>2, <2>4 DEF FilesShown
<1>6. CASE \E u \in Thread : pc[u] \in MergedPc /\ Covers(loc[u].rows, v)
  <2>1. PICK u \in Thread : pc[u] \in MergedPc /\ Covers(loc[u].rows, v)
    BY <1>6
  <2>2. loc[u].rows[KeyOf(v)] # 0
    BY <1>2, <2>1 DEF Covers
  <2>. QED
    BY <2>1, <2>2 DEF Shown
<1>. QED
  BY <1>4, <1>5, <1>6 DEF InTable

\* A read under way that is owed a version, and that no drain has met, has a
\* version that was acknowledged, under the key it looks for; when a scan has
\* passed the memtable without it, it is shown.
Sought(t) ==
    pc[t] \in ReadPc /\ loc[t].owed # 0 /\ ~loc[t].gap =>
        /\ \A u \in Thread : pc[u] \notin DrainPc
        /\ loc[t].owed \in acked /\ KeyOf(loc[t].owed) = loc[t].key
        /\ pc[t] = "s_tables" /\ loc[t].found = 0 => Shown(loc[t].key)
Seeking == Careful => \A t \in Thread : Sought(t)

(* A step of one thread leaves the reads of the others so.                 *)
LEMMA SoughtBeside ==
    ASSUME Steady, NEW t \in Thread, Step(t), Careful', NEW u \in Thread \ {t}, Sought(u)
    PROVE  Sought(u)'
<1>1. Types /\ Asking
  BY DEF Steady
<1>2. SUFFICES ASSUME pc'[u] \in ReadPc, loc'[u].owed # 0, ~loc'[u].gap
               PROVE  /\ \A w \in Thread : pc'[w] \notin DrainPc
                      /\ loc'[u].owed \in acked' /\ (KeyOf(loc[u].owed) = loc[u].key)'
                      /\ pc'[u] = "s_tables" /\ loc'[u].found = 0 => Shown(loc[u].key)'
  BY DEF Sought
<1>3. pc'[u] = pc[u] /\ loc'[u] = loc[u] /\ Alone(t) /\ ~Marks(t)
  BY <1>1, <1>2, StepsAlone DEF Alone, Marks
<1>4. /\ \A w \in Thread : pc[w] \notin DrainPc
      /\ loc[u].owed \in acked /\ KeyOf(loc[u].owed) = loc[u].key
      /\ pc[u] = "s_tables" /\ loc[u].found = 0 => Shown(loc[u].key)
  BY <1>2, <1>3 DEF Sought
<1>5. \A w \in Thread : pc'[w] \notin DrainPc
  BY <1>1, <1>3, <1>4, StepsArrive DEF Alone
<1>6. acked \subseteq acked'
  BY <1>1, StepsAlone
<1>8. PICK o : o = loc[u].owed
  OBVIOUS
<1>9. o \in 1 .. Len(origin)
  BY <1>1, <1>4, <1>8 DEF Types, TVersions
<1>10. origin'[o] = origin[o]
  BY <1>1, <1>9, OriginStays
<1>11. (KeyOf(loc[u].owed) = loc[u].key)'
  BY <1>3, <1>4, <1>8, <1>10 DEF KeyOf
<1>12. PICK k \in Key : k = loc[u].key
  BY <1>1, <1>2, <1>3 DEF Asking, Asked
<1>13. ASSUME pc'[u] = "s_tables", loc'[u].found = 0 PROVE Shown(k)'
  BY <1>3, <1>4, <1>12, <1>13, ShownStays
<1>14. ASSUME pc'[u] = "s_tables", loc'[u].found = 0 PROVE Shown(loc[u].key)'
  BY <1>3, <1>12, <1>13, <1>14 DEF Shown
<1>. QED
  BY <1>3, <1>4, <1>5, <1>6, <1>11, <1>14

(* And so does a step of a read itself.                                    *)
LEMMA SoughtOwn ==
    ASSUME Steady, FilesShown, IdsKnown, NEW t \in Thread, Step(t), Careful', Careful, Sought(t)
    PROVE  Sought(t)'
<1>1. Types /\ Asking /\ pc \in [Thread -> Pc] /\ loc \in [Thread -> Loc]
  BY DEF Steady, Types, TPc, TLoc
<1>2. SUFFICES ASSUME pc'[t] \in ReadPc, loc'[t].owed # 0, ~loc'[t].gap
               PROVE  /\ \A w \in Thread : pc'[w] \notin DrainPc
                      /\ loc'[t].owed \in acked' /\ (KeyOf(loc[t].owed) = loc[t].key)'
                      /\ pc'[t] = "s_tables" /\ loc'[t].found = 0 => Shown(loc[t].key)'
  BY DEF Sought
<1>3. get(t) \/ get_memtable(t) \/ scan(t) \/ scan_memtable(t)
  BY <1>1, <1>2, StepsArrive
<1>4. Alone(t) /\ acked \subseteq acked'
  <2>1. ~Marks(t)
    BY <1>2 DEF Marks, ReadPc
  <2>. QED
    BY <1>1, <2>1, StepsAlone
<1>5. (\A w \in Thread : pc[w] \notin DrainPc) => \A w \in Thread : pc'[w] \notin DrainPc
  <2>1. pc'[t] \notin DrainPc
    BY <1>2 DEF ReadPc, DrainPc
  <2>. QED
    BY <1>4, <2>1 DEF Alone
<1>6. UNCHANGED << origin, files, levels, status >> /\ status = "up"
  BY <1>3 DEF get, get_memtable, scan, scan_memtable, StartRead, May, Up, shared, history
<1>7. PICK o, k : o = loc'[t].owed /\ k = loc'[t].key
  OBVIOUS
<1>8. ASSUME KeyOf(o) = k PROVE (KeyOf(loc[t].owed) = loc[t].key)'
  BY <1>6, <1>7, <1>8 DEF KeyOf
<1>9. CASE get(t) \/ scan(t)
  <2>1. StartRead(t, "get", "g_mem") \/ StartRead(t, "scan", "s_mem")
    BY <1>9 DEF get, scan
  <2>2. o \in acked /\ KeyOf(o) = k /\ \A u \in Thread : pc[u] \notin DrainPc
    BY <1>2, <1>7, <2>1, SeeksOwed
  <2>3. pc'[t] # "s_tables"
    BY <1>1, <2>1 DEF StartRead, Goto
  <2>. QED
    BY <1>4, <1>5, <1>7, <1>8, <2>2, <2>3
<1>10. CASE get_memtable(t)
  <2>1. pc[t] = "g_mem" /\ pc'[t] # "s_tables" /\ loc'[t] = loc[t]
    BY <1>1, <1>2, <1>10 DEF get_memtable, Goto, Return, ReadPc
  <2>2. o \in acked /\ KeyOf(o) = k /\ \A u \in Thread : pc[u] \notin DrainPc
    BY <1>2, <1>7, <2>1 DEF Sought, ReadPc
  <2>. QED
    BY <1>4, <1>5, <1>7, <1>8, <2>1, <2>2
<1>11. CASE scan_memtable(t)
  <2>1. /\ pc[t] = "s_mem" /\ loc' = [loc EXCEPT ![t].found = mem[loc[t].key]] /\ loc[t] \in Loc
    BY <1>1, <1>11 DEF scan_memtable
  <2>2. PICK m : m = mem[loc[t].key]
    OBVIOUS
  <2>3. PICK l : l = loc[t]
    OBVIOUS
  <2>4. PICK n : n = [l EXCEPT !.found = m]
    OBVIOUS
  <2>5. n.owed = l.owed /\ n.gap = l.gap /\ n.key = l.key /\ n.found = m
    BY <2>1, <2>3, <2>4 DEF Loc
  <2>6. loc'[t] = n
    BY <1>1, <2>1, <2>2, <2>3, <2>4
  <2>7. o \in acked /\ KeyOf(o) = k /\ \A u \in Thread : pc[u] \notin DrainPc
    BY <1>2, <1>7, <2>1, <2>3, <2>5, <2>6 DEF Sought, ReadPc
  <2>8. k \in Key /\ k = loc[t].key
    BY <1>1, <1>7, <2>1, <2>3, <2>5, <2>6 DEF Asking, Asked, ReadPc
  <2>9. ASSUME loc'[t].found = 0 PROVE Shown(loc[t].key)'
    <3>1. mem[k] = 0
      BY <2>2, <2>5, <2>6, <2>8, <2>9
    <3>2. o \in Promised
      BY <2>7 DEF Promised
    <3>3. Shown(k)
      BY <1>6, <2>7, <3>1, <3>2, OwedShown
    <3>4. Shown(k)'
      BY <2>8, <3>3, ShownStays
    <3>. QED
      BY <1>7, <3>4 DEF Shown
  <2>. QED
    BY <1>4, <1>5, <1>7, <1>8, <2>7, <2>9
<1>. QED
  BY <1>3, <1>9, <1>10, <1>11

(* So it is after every step.                                              *)
LEMMA SeekingKept ==
    ASSUME Steady, FilesShown, IdsKnown, Seeking, NEW t \in Thread, Step(t)
    PROVE  Seeking'
<1>1. SUFFICES ASSUME Careful', NEW u \in Thread PROVE Sought(u)'
  BY DEF Seeking
<1>2. Careful
  BY <1>1, StepsAlone DEF Careful, Steady
<1>3. Sought(u)
  BY <1>2 DEF Seeking
<1>4. CASE u = t
  BY <1>1, <1>2, <1>3, <1>4, SoughtOwn
<1>5. CASE u # t
  BY <1>1, <1>3, <1>5, SoughtBeside
<1>. QED
  BY <1>4, <1>5

(* A read that opens tables with the key answers from the first of them.   *)
LEMMA FirstHit ==
    ASSUME Types, NEW key, NEW H \in SUBSET Places, NEW first \in {"oldest", "newest"},
           NEW q \in H, RowsOf(TableAt(q))[key] # 0
    PROVE  \E p \in H : /\ FirstFound(H, first, key) = RowsOf(TableAt(p))[key]
                        /\ RowsOf(TableAt(p))[key] # 0 /\ Comes(first, p, q)
<1>1. PICK hits : hits = { p \in H : RowsOf(TableAt(p))[key] # 0 }
  OBVIOUS
<1>2. hits # {} /\ q \in hits /\ hits \in SUBSET Places
  BY <1>1
<1>3. \E p \in hits : \A r \in hits : Comes(first, p, r)
  BY <1>2, FirstPlace
<1>4. PICK p : p = CHOOSE x \in hits : \A r \in hits : Comes(first, x, r)
  OBVIOUS
<1>5. p \in hits /\ Comes(first, p, q)
  BY <1>2, <1>3, <1>4
<1>6. FirstFound(H, first, key) = RowsOf(TableAt(p))[key]
  BY <1>1, <1>2, <1>4, Zenon DEF FirstFound
<1>. QED
  BY <1>1, <1>5, <1>6

(* A table of the stock is one that reads go through, at its place.        *)
LEMMA StockPlaces ==
    ASSUME Types, Shelved, NEW i \in 1 .. Len(Stock), NEW j \in 1 .. Len(Stock[i])
    PROVE  /\ i \in 1 .. Len(levels) /\ j \in 1 .. Len(levels[i])
           /\ << i, j >> \in Places /\ TableAt(<< i, j >>).file \in DOMAIN files
           /\ RowsOf(TableAt(<< i, j >>)) = Stock[i][j]
<1>1. /\ i \in 1 .. Len(levels) /\ j \in 1 .. Len(levels[i])
      /\ Stock[i][j] = files[levels[i][j].file].rows
  BY StockFit DEF StockFits
<1>2. i \in DOMAIN levels /\ j \in DOMAIN levels[i]
  BY <1>1, LevelsLength
<1>3. << i, j >> \in Places
  BY <1>2 DEF Places
<1>4. TableAt(<< i, j >>) = levels[i][j]
  BY DEF TableAt
<1>. QED
  BY <1>1, <1>3, <1>4 DEF RowsOf, Shelved, OnShelf

(* The ranges of a table that has a key do not hide it.                    *)
LEMMA GetOpens ==
    ASSUME Types, Timed, "skewed" \notin hazards, NEW k \in Key, NEW h, h.file \in DOMAIN files,
           RowsOf(h)[k] # 0
    PROVE  get_opens(h, k)
<1>1. PICK f : f = h.file
  OBVIOUS
<1>2. f \in DOMAIN files /\ files[f].rows[k] # 0 /\ RowsOf(h) = files[f].rows
  BY <1>1 DEF RowsOf
<1>3. overlaps_time(files[f].rows, k[2])
  BY <1>2 DEF Timed
<1>4. k[1] \in Nat
  <2>1. Cardinality(Symbol) \in Nat
    BY LsmAssumption, FS_CardinalityType
  <2>2. k[1] \in Id
    BY DEF Key
  <2>. QED
    BY <2>1, <2>2 DEF Id
<1>5. overlaps_symbol(files[f].rows, k[1])
  BY <1>2, <1>4 DEF overlaps_symbol, PresentKeys
<1>. QED
  BY <1>2, <1>3, <1>5 DEF get_opens

(* A scan opens every table that has the key it looks for.                 *)
LEMMA ScanOpens ==
    ASSUME Steady, Timed, Labelled, hazards \cap (Lossy \cup {"unnamed", "skewed"}) = {},
           NEW t \in Thread, pc[t] = "s_tables", NEW h, h.file \in DOMAIN files,
           RowsOf(h)[loc[t].key] # 0
    PROVE  scan_opens(h, loc[t].key)
<1>1. Types /\ Genuine /\ Asking /\ Named /\ Len(dict) \in Nat /\ Len(origin) \in Nat
  BY DEF Steady, Types, IsDict, TOrigin
<1>2. PICK f, k : f = h.file /\ k = loc[t].key
  OBVIOUS
<1>3. k \in Key /\ k[1] + 1 <= Len(dict)
  BY <1>1, <1>2 DEF Asking, Asked, ReadPc
<1>4. PICK v : v = files[f].rows[k]
  OBVIOUS
<1>5. f \in DOMAIN files /\ v # 0 /\ files[f].rows \in Rows /\ RowsGenuine(files[f].rows) /\ RowsOf(h) = files[f].rows
  BY <1>1, <1>2, <1>4 DEF RowsOf, Types, TFiles, FileType, Genuine
<1>6. /\ "skewed" \notin hazards /\ "unnamed" \notin hazards /\ "remapped" \notin hazards
  BY DEF Lossy
<1>7. get_opens(h, k)
  BY <1>1, <1>2, <1>3, <1>4, <1>5, <1>6, GetOpens
<1>8. k[1] \in Nat
  <2>1. Cardinality(Symbol) \in Nat
    BY LsmAssumption, FS_CardinalityType
  <2>2. k[1] \in Id
    BY <1>3 DEF Key
  <2>. QED
    BY <2>1, <2>2 DEF Id
<1>10. v \in 1 .. Len(origin) /\ KeyOf(v) = k
  <2>1. v \in Nat
    BY <1>3, <1>4, <1>5, Blank DEF Rows, Version
  <2>2. v <= Len(origin) /\ KeyOf(v) = k
    BY <1>3, <1>4, <1>5 DEF RowsGenuine
  <2>. QED
    BY <1>1, <1>5, <2>1, <2>2
<1>11. origin[v][3] = k[1]
  BY <1>10 DEF KeyOf
<1>12. dict[k[1] + 1] = SymbolOf(v)
  BY <1>1, <1>3, <1>6, <1>10, <1>11 DEF Named, SymbolOf
<1>13. name_of(dict, k[1]) = SymbolOf(v)
  BY <1>1, <1>3, <1>8, <1>12 DEF name_of
<1>14. SymbolOf(v) \in files[f].names
  BY <1>3, <1>4, <1>5, <1>6 DEF Labelled
<1>. QED
  BY <1>2, <1>7, <1>13, <1>14 DEF scan_opens, may_contain_symbol

(* The step that ends a scan answers with a version, if it is owed one.    *)
LEMMA ScanAnswers ==
    ASSUME Steady, Timed, Labelled, Seeking, NEW t \in Thread, scan_tables(t)
    PROVE  ScanFinds'
<1>1. Types /\ Genuine /\ Shelved /\ Held /\ Asking
  BY DEF Steady
<1>2. pc[t] = "s_tables" /\ compW = None /\ hazards' = hazards
  BY DEF scan_tables
<1>3. PICK k, R : k = loc[t].key /\ R = { p \in Places : overlaps_time(RowsOf(TableAt(p)), k[2]) }
  OBVIOUS
<1>4. PICK F \in SUBSET R :
            Answer(t, "scan", IF loc[t].found # 0 THEN loc[t].found
                              ELSE FirstFound({ p \in R : \/ scan_opens(TableAt(p), k)
                                                          \/ (p \in F /\ get_opens(TableAt(p), k)) },
                                              "oldest", k))
  BY <1>3, Zenon DEF scan_tables
<1>5. PICK H : H = { p \in R : \/ scan_opens(TableAt(p), k)
                               \/ (p \in F /\ get_opens(TableAt(p), k)) }
  OBVIOUS
<1>6. PICK v : v = IF loc[t].found # 0 THEN loc[t].found ELSE FirstFound(H, "oldest", k)
  OBVIOUS
<1>7. answer'.ver = v /\ answer'.owed = loc[t].owed /\ answer'.gap = loc[t].gap
  BY <1>4, <1>5, <1>6 DEF Answer
<1>8. ASSUME ~loc[t].gap, loc[t].owed # 0, hazards \cap (Lossy \cup {"unnamed", "skewed"}) = {} PROVE v # 0
  <2>1. CASE loc[t].found # 0
    BY <1>6, <2>1
  <2>2. CASE loc[t].found = 0
    <3>1. Shown(k) /\ k \in Key
      <4>1. Careful
        BY <1>8 DEF Careful
      <4>2. Sought(t)
        BY <4>1 DEF Seeking
      <4>. QED
        BY <1>1, <1>2, <1>3, <1>8, <2>2, <4>2 DEF Sought, Asking, Asked, ReadPc
    <3>2. \A u \in Thread : pc[u] \notin MergedPc
      BY <1>1, <1>2, MergesAlone
    <3>3. PICK i \in 1 .. Len(Stock) : ~Lacks(Stock[i], k)
      BY <3>1, <3>2 DEF Shown
    <3>4. PICK j \in 1 .. Len(Stock[i]) : Stock[i][j][k] # 0
      BY <3>3 DEF Lacks
    <3>5. PICK p, h : p = << i, j >> /\ h = TableAt(p)
      OBVIOUS
    <3>6. p \in Places /\ h.file \in DOMAIN files /\ RowsOf(h)[k] # 0
      BY <1>1, <3>4, <3>5, StockPlaces
    <3>7. scan_opens(h, k)
      BY <1>2, <1>3, <1>8, <3>6, ScanOpens
    <3>8. p \in H /\ H \in SUBSET Places
      BY <1>3, <1>5, <3>5, <3>6, <3>7 DEF scan_opens, get_opens
    <3>9. FirstFound(H, "oldest", k) # 0
      BY <1>1, <3>5, <3>6, <3>8, FirstHit
    <3>. QED
      BY <1>6, <2>2, <3>9
  <2>. QED
    BY <2>1, <2>2
<1>. QED
  BY <1>2, <1>7, <1>8 DEF ScanFinds

(* The symbols of the ticks written since the last restart are in the      *)
(* dictionary: a name that a read does not find is forgotten.              *)
Registered == \A v \in BeforeRestart + 1 .. Len(origin) : SymbolOf(v) \in Known(dict)

(* No step of a thread is a restart.                                       *)
LEMMA StepsRestartNot ==
    ASSUME NEW t \in Thread, Step(t)
    PROVE  crashes' = crashes
  BY DEF Step, insert, insert_wal, insert_memtable, insert_done, wal_error, insert_batch, batch_memtable,
        batch_wal, batch_done, apply_replication_batch, apply_wal, apply_memtable, apply_advance, advance_error,
        flush_memtable, flush_drain, flush_write, flush_sync, write_error, flush_add, flush_truncate,
        truncate_error, get, get_memtable, get_tables, scan, scan_memtable, scan_tables, read_panic, compact,
        compact_read, compact_panic, compact_write, compact_sync, compact_next, read_not_found, Log, history

(* Every step keeps the symbols registered: a write registers its own.     *)
LEMMA RegisteredKept ==
    ASSUME Types, Registered, NEW t \in Thread, Step(t)
    PROVE  Registered'
<1>1. PICK n : n = BeforeRestart
  OBVIOUS
<1>2. BeforeRestart' = n
  BY <1>1, StepsRestartNot DEF BeforeRestart
<1>3. n \in Nat
  <2>1. crashes \in Seq(0 .. MaxTicks) /\ MaxTicks \in Nat
    BY Blank DEF Types, TCounts, TCrashes
  <2>2. CASE crashes = << >>
    BY <1>1, <2>2 DEF BeforeRestart
  <2>3. CASE crashes # << >>
    <3>1. Len(crashes) \in 1 .. Len(crashes)
      BY <2>1, <2>3
    <3>. QED
      BY <1>1, <2>1, <2>3, <3>1 DEF BeforeRestart, Last
  <2>. QED
    BY <2>2, <2>3
<1>4. CASE UNCHANGED << dict, origin >>
  BY <1>1, <1>2, <1>4 DEF Registered, SymbolOf
<1>5. CASE \E d, pairs : Begins(t, d, pairs)
  <2>1. PICK d, pairs : Begins(t, d, pairs)
    BY <1>5
  <2>2. PICK T : T = ticks_of(d, pairs)
    OBVIOUS
  <2>3. /\ Grows(T) /\ Len(T) = Len(pairs) /\ Len(pairs) \in Nat
        /\ \A i \in 1 .. Len(pairs) :
              origin'[Len(origin) + i] = << pairs[i][1], pairs[i][2], get_id(d, pairs[i][1]) >>
    BY <2>1, <2>2, BeginsGrow
  <2>4. Len(origin) \in Nat /\ Len(origin') = Len(origin) + Len(pairs)
    BY <2>3 DEF Types, TOrigin, Grows
  <2>5. dict' = d /\ SymbolsTo(pairs, Len(pairs)) \in SUBSET Known(d) /\ Grown(dict, d, SymbolsTo(pairs, Len(pairs)))
    BY <2>1 DEF Begins
  <2>6. Known(dict) \in SUBSET Known(d)
    <3>1. Len(dict) \in Nat /\ Len(d) \in Nat
      BY <2>1 DEF Types, IsDict, Begins
    <3>2. \A i \in 1 .. Len(dict) : i \in 1 .. Len(d) /\ d[i] = dict[i]
      BY <2>5, <3>1 DEF Grown
    <3>. QED
      BY <3>2 DEF Known
  <2>7. ASSUME NEW v \in n + 1 .. Len(origin') PROVE origin'[v][1] \in Known(d)
    <3>1. CASE v <= Len(origin)
      <4>1. v \in n + 1 .. Len(origin) /\ v \in 1 .. Len(origin)
        BY <1>3, <2>4, <2>7, <3>1
      <4>2. origin[v][1] \in Known(dict) /\ origin'[v] = origin[v]
        BY <1>1, <2>3, <4>1 DEF Registered, SymbolOf, Grows
      <4>. QED
        BY <2>6, <4>2
    <3>2. CASE ~(v <= Len(origin))
      <4>1. PICK i : i = v - Len(origin)
        OBVIOUS
      <4>2. i \in 1 .. Len(pairs) /\ v = Len(origin) + i
        BY <1>3, <2>3, <2>4, <2>7, <3>2, <4>1
      <4>3. origin'[v] = << pairs[i][1], pairs[i][2], get_id(d, pairs[i][1]) >>
        BY <2>3, <4>2
      <4>4. origin'[v][1] = pairs[i][1]
        BY <4>3
      <4>. QED
        BY <2>5, <4>2, <4>4 DEF SymbolsTo
    <3>. QED
      BY <3>1, <3>2
  <2>. QED
    BY <1>2, <2>5, <2>7 DEF Registered, SymbolOf
<1>. QED
  BY <1>4, <1>5, StepBegins

(* A read that does not find its symbol was asked for a forgotten one.     *)
LEMMA NotFoundForgotten ==
    ASSUME Registered, NEW t \in Thread, read_not_found(t)
    PROVE  Forgotten(answer.pair[1])'
<1>1. PICK s : s = answer'.pair[1]
  OBVIOUS
<1>2. s \notin Known(dict)
  <2>1. PICK op \in {"get", "scan"}, pair \in Symbol \X Timestamp :
            /\ pair[1] \notin Known(dict)
            /\ answer' = [op |-> op, pair |-> pair, ver |-> 0, owed |-> Owed(pair), gap |-> FALSE]
    BY DEF read_not_found
  <2>. QED
    BY <1>1, <2>1
<1>3. origin' = origin /\ crashes' = crashes
  BY NotFoundStays
<1>4. BeforeRestart' = BeforeRestart
  BY <1>3 DEF BeforeRestart
<1>5. \A v \in BeforeRestart + 1 .. Len(origin) : origin[v][1] # s
  BY <1>2 DEF Registered, SymbolOf
<1>. QED
  BY <1>1, <1>3, <1>4, <1>5 DEF Forgotten

(* Every step keeps what is said about the answer of a scan.               *)
LEMMA ScanFindsKept ==
    ASSUME Steady, Timed, Labelled, Seeking, Registered, NEW t \in Thread, Step(t)
    PROVE  ScanFinds'
<1>1. CASE scan_tables(t)
  BY <1>1, ScanAnswers
<1>2. CASE get_memtable(t) \/ get_tables(t)
  <2>1. (\E v : Answer(t, "get", v)) \/ answer' = NoAnswer
    <3>1. CASE get_memtable(t)
      BY <3>1 DEF get_memtable
    <3>2. CASE get_tables(t)
      BY <3>2, Zenon DEF get_tables
    <3>. QED
      BY <1>2, <3>1, <3>2
  <2>2. answer'.op # "scan" \/ answer' = NoAnswer
    BY <2>1 DEF Answer
  <2>. QED
    BY <2>2 DEF ScanFinds, NoAnswer
<1>3. CASE read_not_found(t)
  BY <1>3, NotFoundForgotten DEF ScanFinds
<1>4. CASE ~(get_memtable(t) \/ get_tables(t) \/ scan_tables(t) \/ read_not_found(t))
  <2>1. answer' = NoAnswer
    BY <1>4 DEF Step, insert, insert_wal, insert_memtable, insert_done, wal_error, insert_batch, batch_memtable,
        batch_wal, batch_done, apply_replication_batch, apply_wal, apply_memtable, apply_advance, advance_error,
        flush_memtable, flush_drain, flush_write, flush_sync, write_error, flush_add, flush_truncate,
        truncate_error, get, scan, scan_memtable, read_panic, compact, compact_read, compact_panic,
        compact_write, compact_sync, compact_next, Log, StartRead
  <2>. QED
    BY <2>1 DEF ScanFinds, NoAnswer
<1>. QED
  BY <1>1, <1>2, <1>3, <1>4

(***************************************************************************)
(* What reads find, in every state.                                        *)
(***************************************************************************)

Readable == FilesShown /\ Timed /\ Labelled /\ IdsKnown /\ Seeking /\ Registered

(* At first there is nothing to find.                                      *)
LEMMA InitReadable == Init => Readable /\ ScanFinds
<1>1. SUFFICES ASSUME Init PROVE Readable /\ ScanFinds
  OBVIOUS
<1>2. files = << >> /\ DOMAIN files = {}
  BY <1>1 DEF Init
<1>3. FilesShown /\ Timed /\ Labelled
  BY <1>2 DEF FilesShown, Timed, Labelled
<1>4. Len(dict) = 0 /\ Len(origin) = 0 /\ 1 .. 0 = {}
  BY <1>1 DEF Init
<1>5. IdsKnown
  BY <1>4 DEF IdsKnown, DictWritten, Dense, OneIdPerSymbol
<1>6. Seeking
  BY <1>1 DEF Init, Seeking, Sought, ReadPc
<1>7. ScanFinds
  BY <1>1 DEF Init, ScanFinds, NoAnswer
<1>8. Registered
  BY <1>1, <1>4 DEF Init, Registered, BeforeRestart
<1>. QED
  BY <1>3, <1>5, <1>6, <1>7, <1>8 DEF Readable

(* A crash leaves tables and the history, and open makes no more of them.  *)
LEMMA RestartReadable ==
    ASSUME Steady, Steady', Readable, crash \/ open \/ open_failed
    PROVE  Readable' /\ ScanFinds'
<1>1. /\ origin' = origin /\ (dict' = dict \/ dict' = << >>) /\ hazards \subseteq hazards'
      /\ answer' = NoAnswer
      /\ DOMAIN files' \subseteq DOMAIN files /\ \A f \in DOMAIN files' : files'[f] = files[f]
  <2>1. CASE crash
    <3>1. PICK gone \in SUBSET Removable : files' = [f \in DOMAIN files \ gone |-> files[f]]
      BY <2>1 DEF crash
    <3>2. \E hs : Note(hs)
      BY <2>1 DEF crash
    <3>. QED
      BY <2>1, <3>1, <3>2 DEF crash, Note
  <2>2. CASE open
    BY <2>2 DEF open, Note
  <2>3. CASE open_failed
    BY <2>3 DEF open_failed, shared, history
  <2>. QED
    BY <2>1, <2>2, <2>3
<1>2. \A t \in Thread : pc'[t] = "idle"
  <2>1. CASE crash
    BY <2>1 DEF crash
  <2>2. CASE open \/ open_failed
    <3>1. status # "up" /\ pc' = pc
      BY <2>2 DEF open, open_failed
    <3>. QED
      BY <3>1 DEF Steady, Held
  <2>. QED
    BY <2>1, <2>2
<1>3. FilesShown'
  <2>1. CASE open
    BY <2>1, FilesShownAtOpen
  <2>2. CASE crash \/ open_failed
    BY <2>2 DEF crash, open_failed, When, FilesShown
  <2>. QED
    BY <2>1, <2>2
<1>4. Timed'
  BY <1>1 DEF Readable, Timed
<1>5. Labelled'
  BY <1>1 DEF Readable, Labelled, SymbolOf
<1>6. IdsKnown'
  <2>1. SUFFICES ASSUME Careful' PROVE DictWritten' /\ Dense' /\ OneIdPerSymbol'
    BY DEF IdsKnown
  <2>2. DictWritten /\ Dense /\ OneIdPerSymbol
    BY <1>1, <2>1 DEF Careful, Readable, IdsKnown
  <2>3. Dense' /\ OneIdPerSymbol'
    BY <1>1, <2>2 DEF Dense, OneIdPerSymbol, IdOf, SymbolOf
  <2>4. CASE dict' = dict
    BY <1>1, <2>2, <2>3, <2>4 DEF DictWritten, IdOf
  <2>5. CASE dict' = << >>
    <3>1. 1 .. Len(dict') = {}
      BY <2>5
    <3>. QED
      BY <2>3, <3>1 DEF DictWritten
  <2>. QED
    BY <1>1, <2>3, <2>4, <2>5
<1>7. Seeking'
  BY <1>2 DEF Seeking, Sought, ReadPc
<1>8. ScanFinds'
  BY <1>1 DEF ScanFinds, NoAnswer
<1>9. Registered'
  <2>1. CASE crash
    <3>1. PICK n \in Nat : n = Len(origin)
      BY DEF Steady, Types, TOrigin
    <3>2. crashes \in Seq(0 .. MaxTicks) /\ crashes' = Append(crashes, n)
      BY <2>1, <3>1 DEF crash, Steady, Types, TCounts, TCrashes
    <3>3. n \in 0 .. MaxTicks
      BY <3>1 DEF Steady, Types, TOrigin
    <3>4. crashes' # << >> /\ crashes'[Len(crashes')] = n
      BY <3>2, <3>3
    <3>5. BeforeRestart' = n
      BY <3>4 DEF BeforeRestart, Last
    <3>6. n + 1 .. n = {}
      BY <3>1
    <3>. QED
      BY <1>1, <3>1, <3>5, <3>6 DEF Registered
  <2>2. CASE open \/ open_failed
    <3>1. UNCHANGED << dict, origin, crashes >>
      BY <2>2 DEF open, open_failed, shared, history
    <3>. QED
      BY <3>1 DEF Readable, Registered, BeforeRestart, SymbolOf
  <2>. QED
    BY <2>1, <2>2
<1>. QED
  BY <1>3, <1>4, <1>5, <1>6, <1>7, <1>8, <1>9 DEF Readable

(* A step that changes nothing changes nothing of it.                      *)
LEMMA StutterReadable ==
    ASSUME Readable, ScanFinds, UNCHANGED vars
    PROVE  Readable' /\ ScanFinds'
<1>1. UNCHANGED << status, dict, mem, files, levels, pc, loc, origin, acked, hazards, crashes, answer >>
  BY DEF vars, shared, history
<1>2. /\ Careful' = Careful
      /\ \A k : Shown(k)' = Shown(k)
  BY <1>1 DEF Careful, Shown, Stock, RowsOf, Lacks
<1>3. FilesShown'
  BY <1>1, <1>2 DEF Readable, FilesShown, AwaitsAdd
<1>4. Timed' /\ Labelled'
  BY <1>1 DEF Readable, Timed, Labelled, SymbolOf
<1>5. IdsKnown'
  BY <1>1, <1>2 DEF Readable, IdsKnown, DictWritten, Dense, OneIdPerSymbol, IdOf, SymbolOf
<1>6. Seeking'
  <2>1. \A t : Sought(t)' = Sought(t)
    BY <1>1 DEF Sought, KeyOf, Shown, Stock, RowsOf, Lacks
  <2>. QED
    BY <1>2, <2>1 DEF Readable, Seeking
<1>7. ScanFinds'
  BY <1>1 DEF ScanFinds, Forgotten, BeforeRestart
<1>8. Registered'
  BY <1>1 DEF Readable, Registered, BeforeRestart, SymbolOf
<1>. QED
  BY <1>3, <1>4, <1>5, <1>6, <1>7, <1>8 DEF Readable

(* This is an invariant.                                                   *)
LEMMA AlwaysReadable == Spec => [](Readable /\ ScanFinds)
<1>1. Init => Readable /\ ScanFinds
  BY InitReadable
<1>2. Readable /\ ScanFinds /\ Steady /\ Steady' /\ [Next]_vars => (Readable /\ ScanFinds)'
  <2>1. SUFFICES ASSUME Readable, ScanFinds, Steady, Steady', [Next]_vars
                 PROVE  Readable' /\ ScanFinds'
    OBVIOUS
  <2>2. CASE UNCHANGED vars
    BY <2>1, <2>2, StutterReadable
  <2>3. CASE \E t \in Thread : Step(t)
    <3>1. PICK t \in Thread : Step(t)
      BY <2>3
    <3>2. FilesShown /\ Timed /\ Labelled /\ IdsKnown /\ Seeking /\ Registered
      BY <2>1 DEF Readable
    <3>3. FilesShown' /\ IdsKnown' /\ Timed' /\ Labelled'
      BY <2>1, <3>1, <3>2, FilesShownKept, IdsKnownKept, TablesFitKept
    <3>4. Seeking'
      BY <2>1, <3>1, <3>2, SeekingKept
    <3>5. ScanFinds'
      BY <2>1, <3>1, <3>2, ScanFindsKept
    <3>6. Registered'
      BY <2>1, <3>1, <3>2, RegisteredKept DEF Steady
    <3>. QED
      BY <3>3, <3>4, <3>5, <3>6 DEF Readable
  <2>4. CASE crash \/ open \/ open_failed
    BY <2>1, <2>4, RestartReadable
  <2>. QED
    BY <2>1, <2>2, <2>3, <2>4 DEF Next
<1>. QED
  BY <1>1, <1>2, AlwaysSteady, PTL DEF Spec

(* A scan finds some version of a tick acknowledged before it was called,  *)
(* and no error, unless its symbol has not been written since the last     *)
(* restart, a flush was in its window, a table has been written without its*)
(* names, or one of the circumstances that lose ticks has occurred: between*)
(* the memtable and the tables that scan looks through one after the other *)
(* no tick slips, whatever is flushed and compacted meanwhile, and neither *)
(* the time range nor the filter of a table hides its rows.                *)
THEOREM LsmScanFinds == Spec => []ScanFinds
  BY AlwaysReadable, PTL

(***************************************************************************)
(* What a get comes to first.                                              *)
(***************************************************************************)

\* The first level with key k is level i, and its newest table with the key has
\* version n or a later one; or merged rows have, and no level above theirs has
\* the key.
LeadsAt(i, k, n) ==
    /\ Leads(Stock[i], k, n) /\ \A h \in 1 .. i - 1 : Lacks(Stock[h], k)
    /\ \A t \in Thread : pc[t] \in MergedPc /\ loc[t].level + 2 <= i => loc[t].rows[k] = 0
LeadsMerged(t, k, n) ==
    /\ pc[t] \in MergedPc /\ loc[t].rows[k] >= n
    /\ \A h \in 1 .. loc[t].level + 1 : Lacks(Stock[h], k)
Top(k, n) ==
    \/ \E i \in 1 .. Len(Stock) : LeadsAt(i, k, n)
    \/ \E t \in Thread : LeadsMerged(t, k, n)

(* So it stays, when a flush adds no older version: a compaction takes the *)
(* place of its tables, and its table that of its rows.                    *)
LEMMA TopStays ==
    ASSUME Steady, NEW t \in Thread, Step(t), Careful', NEW k \in Key, NEW n \in Nat \ {0}, Top(k, n),
           pc[t] = "f_add" => loc[t].rows[k] = 0 \/ loc[t].rows[k] >= n
    PROVE  Top(k, n)'
<1>1. Types /\ Genuine /\ Shelved /\ Held
  BY DEF Steady
<1>2. \A u \in Thread \ {t} : pc'[u] = pc[u] /\ (pc[u] \in MergedPc => loc'[u] = loc[u])
  <2>1. Alone(t) \/ Marks(t)
    BY <1>1, StepsAlone
  <2>2. \A p \in MergedPc : p \notin ReadPc
    BY DEF MergedPc, ReadPc
  <2>. QED
    BY <2>1, <2>2 DEF Alone, Marks
<1>3. PICK s : s = Len(Stock)
  OBVIOUS
<1>4. /\ s \in Nat /\ s >= 1 /\ \A i \in 1 .. s : Stock[i] \in Seq(Rows)
  BY <1>1, <1>3, StockType
<1>5. PICK R \in Rows, v \in Nat : R = loc[t].rows /\ v = loc[t].level
  BY <1>1, LocTypes
<1>6. R[k] \in Nat
  BY <1>5, Blank DEF Rows, Version
<1>7. CASE Idles(t)
  <2>1. CASE \E i \in 1 .. s : LeadsAt(i, k, n)
    <3>1. PICK i \in 1 .. s : LeadsAt(i, k, n)
      BY <2>1
    <3>2. \A u \in Thread : pc'[u] \in MergedPc => pc[u] \in MergedPc /\ loc'[u] = loc[u]
      BY <1>2, <1>7 DEF Idles
    <3>3. LeadsAt(i, k, n)'
      BY <1>7, <3>1, <3>2 DEF LeadsAt, Leads, Lacks, Idles
    <3>. QED
      BY <1>3, <1>7, <3>3 DEF Top, Idles
  <2>2. CASE \E u \in Thread : LeadsMerged(u, k, n)
    <3>1. PICK u \in Thread : LeadsMerged(u, k, n)
      BY <2>2
    <3>2. u # t /\ pc'[u] = pc[u] /\ loc'[u] = loc[u]
      BY <1>2, <1>7, <3>1 DEF Idles, LeadsMerged
    <3>3. LeadsMerged(u, k, n)'
      BY <1>7, <3>1, <3>2 DEF LeadsMerged, Lacks, Idles
    <3>. QED
      BY <3>3 DEF Top
  <2>. QED
    BY <1>3, <2>1, <2>2 DEF Top
<1>8. CASE Carries(t)
  <2>1. \A u \in Thread : pc'[u] \in MergedPc <=> pc[u] \in MergedPc
    BY <1>2, <1>8 DEF Carries
  <2>2. \A u \in Thread : pc[u] \in MergedPc => loc'[u].rows = loc[u].rows /\ loc'[u].level = loc[u].level
    BY <1>2, <1>8 DEF Carries
  <2>3. CASE \E i \in 1 .. s : LeadsAt(i, k, n)
    <3>1. PICK i \in 1 .. s : LeadsAt(i, k, n)
      BY <2>3
    <3>2. LeadsAt(i, k, n)'
      BY <1>8, <2>1, <2>2, <3>1 DEF LeadsAt, Leads, Lacks, Carries
    <3>. QED
      BY <1>3, <1>8, <3>2 DEF Top, Carries
  <2>4. CASE \E u \in Thread : LeadsMerged(u, k, n)
    <3>1. PICK u \in Thread : LeadsMerged(u, k, n)
      BY <2>4
    <3>2. LeadsMerged(u, k, n)'
      BY <1>8, <2>1, <2>2, <3>1 DEF LeadsMerged, Lacks, Carries
    <3>. QED
      BY <3>2 DEF Top
  <2>. QED
    BY <1>3, <2>3, <2>4 DEF Top
<1>9. ASSUME NEW m \in 1 .. s, AddsTo(m, R), \A u \in Thread : pc'[u] \notin MergedPc,
             \/ /\ R[k] >= n /\ \A h \in 1 .. m - 1 : Lacks(Stock[h], k)
             \/ /\ R[k] = 0 /\ \E i \in 1 .. s : Leads(Stock[i], k, n) /\ \A h \in 1 .. i - 1 : Lacks(Stock[h], k)
             \/ \E i \in 1 .. m - 1 : Leads(Stock[i], k, n) /\ \A h \in 1 .. i - 1 : Lacks(Stock[h], k)
      PROVE  Top(k, n)'
  <2>1. /\ Len(Stock') = s /\ \A i \in 1 .. s : i # m => Stock'[i] = Stock[i]
        /\ Stock'[m] = Append(Stock[m], R)
    BY <1>3, <1>9 DEF AddsTo
  <2>5. /\ Lacks(Stock[m], k) /\ R[k] = 0 => Lacks(Stock'[m], k)
        /\ R[k] >= n => Leads(Stock'[m], k, n)
        /\ R[k] = 0 /\ Leads(Stock[m], k, n) => Leads(Stock'[m], k, n)
    <3>1. PICK c \in Seq(Rows) : c = Stock[m]
      BY <1>4
    <3>2. n \in Nat /\ n # 0 /\ Stock'[m] = Append(c, R)
      BY <2>1, <3>1
    <3>. QED
      BY <3>1, <3>2, AppendHas
  <2>2. \E i \in 1 .. s : Leads(Stock'[i], k, n) /\ \A h \in 1 .. i - 1 : Lacks(Stock'[h], k)
    <3>1. CASE R[k] >= n /\ \A h \in 1 .. m - 1 : Lacks(Stock[h], k)
      <4>1. Leads(Stock'[m], k, n)
        BY <2>5, <3>1
      <4>2. \A h \in 1 .. m - 1 : Stock'[h] = Stock[h]
        BY <1>4, <2>1
      <4>. QED
        BY <3>1, <4>1, <4>2
    <3>2. CASE R[k] = 0 /\ \E i \in 1 .. s : Leads(Stock[i], k, n) /\ \A h \in 1 .. i - 1 : Lacks(Stock[h], k)
      <4>1. PICK i \in 1 .. s : Leads(Stock[i], k, n) /\ \A h \in 1 .. i - 1 : Lacks(Stock[h], k)
        BY <3>2
      <4>2. ASSUME NEW h \in 1 .. s, Lacks(Stock[h], k) PROVE Lacks(Stock'[h], k)
        <5>1. CASE h = m
          BY <2>5, <3>2, <4>2, <5>1
        <5>2. CASE h # m
          BY <2>1, <4>2, <5>2
        <5>. QED
          BY <5>1, <5>2
      <4>3. Leads(Stock'[i], k, n)
        <5>1. CASE i = m
          BY <2>5, <3>2, <4>1, <5>1
        <5>2. CASE i # m
          BY <2>1, <4>1, <5>2
        <5>. QED
          BY <5>1, <5>2
      <4>4. \A h \in 1 .. i - 1 : h \in 1 .. s
        BY <1>4
      <4>. QED
        BY <4>1, <4>2, <4>3, <4>4
    <3>3. CASE \E i \in 1 .. m - 1 : Leads(Stock[i], k, n) /\ \A h \in 1 .. i - 1 : Lacks(Stock[h], k)
      <4>1. PICK i \in 1 .. m - 1 : Leads(Stock[i], k, n) /\ \A h \in 1 .. i - 1 : Lacks(Stock[h], k)
        BY <3>3
      <4>2. i \in 1 .. s /\ Stock'[i] = Stock[i] /\ \A h \in 1 .. i - 1 : Stock'[h] = Stock[h]
        BY <1>4, <2>1
      <4>. QED
        BY <4>1, <4>2
    <3>. QED
      BY <1>9, <3>1, <3>2, <3>3
  <2>3. PICK i \in 1 .. s : Leads(Stock'[i], k, n) /\ \A h \in 1 .. i - 1 : Lacks(Stock'[h], k)
    BY <2>2
  <2>4. LeadsAt(i, k, n)'
    BY <1>9, <2>3 DEF LeadsAt, Leads, Lacks
  <2>. QED
    BY <2>1, <2>3, <2>4 DEF Top
<1>10. CASE FlushAdds(t)
  <2>1. /\ pc[t] = "f_add" /\ AddsTo(1, R) /\ \A u \in Thread : pc[u] \notin MergedPc
        /\ pc'[t] = "f_truncate"
    BY <1>5, <1>10 DEF FlushAdds
  <2>2. \A u \in Thread : pc'[u] \notin MergedPc
    BY <1>2, <2>1 DEF MergedPc
  <2>3. \E i \in 1 .. s : Leads(Stock[i], k, n) /\ \A h \in 1 .. i - 1 : Lacks(Stock[h], k)
    BY <1>3, <2>1 DEF Top, LeadsAt, LeadsMerged
  <2>4. 1 \in 1 .. s /\ \A h \in 1 .. 1 - 1 : FALSE
    BY <1>4
  <2>5. R[k] = 0 \/ R[k] >= n
    BY <1>5, <2>1
  <2>. QED
    BY <1>9, <2>1, <2>2, <2>3, <2>4, <2>5
<1>11. CASE CompactAdds(t)
  <2>1. PICK m : m = v + 2 /\ m \in 1 .. s /\ AddsTo(m, R)
    BY <1>3, <1>5, <1>11 DEF CompactAdds, AddsTo
  <2>2. pc[t] \in MergedPc /\ \A u \in Thread : pc[u] \in MergedPc => u = t
    <3>1. pc[t] \in CompactionPc
      BY <1>11 DEF CompactAdds, MergedPc, CompactionPc
    <3>. QED
      BY <1>1, <1>11, <3>1, MergesAlone DEF CompactAdds
  <2>3. \A u \in Thread : pc'[u] \notin MergedPc
    BY <1>2, <1>11, <2>2 DEF CompactAdds
  <2>4. CASE \E i \in 1 .. s : LeadsAt(i, k, n)
    <3>1. PICK i \in 1 .. s : LeadsAt(i, k, n)
      BY <2>4
    <3>2. Leads(Stock[i], k, n) /\ (\A h \in 1 .. i - 1 : Lacks(Stock[h], k)) /\ (m <= i => R[k] = 0)
      BY <1>5, <2>1, <2>2, <3>1 DEF LeadsAt
    <3>3. i \in 1 .. m - 1 \/ m <= i
      BY <1>4, <2>1
    <3>. QED
      BY <1>9, <2>1, <2>3, <3>2, <3>3
  <2>5. CASE \E u \in Thread : LeadsMerged(u, k, n)
    <3>1. LeadsMerged(t, k, n)
      BY <2>2, <2>5 DEF LeadsMerged
    <3>2. m - 1 = v + 1
      BY <1>5, <2>1
    <3>3. R[k] >= n /\ \A h \in 1 .. m - 1 : Lacks(Stock[h], k)
      BY <1>5, <3>1, <3>2 DEF LeadsMerged
    <3>. QED
      BY <1>9, <2>1, <2>3, <3>3
  <2>. QED
    BY <1>3, <2>4, <2>5 DEF Top
<1>12. CASE Gathers(t)
  <2>1. PICK m, c, r : /\ m = v + 1 /\ Empties(m, c) /\ r = loc'[t].rows /\ r = merge(levels[m]) /\ ~Stale(levels[m])
                       /\ pc'[t] \in MergedPc /\ pc[t] = "c_read" /\ loc'[t].level = v
    BY <1>5, <1>12 DEF Gathers
  <2>2. pc[t] \in CompactionPc /\ pc[t] \notin MergedPc
    BY <2>1 DEF CompactionPc, MergedPc
  <2>3. \A u \in Thread : pc'[u] \in MergedPc => u = t
    BY <1>1, <1>2, <2>2, MergesAlone
  <2>4. PICK i \in 1 .. s : Leads(Stock[i], k, n) /\ \A h \in 1 .. i - 1 : Lacks(Stock[h], k)
    BY <1>1, <1>3, <2>2, MergesAlone DEF Top, LeadsAt, LeadsMerged
  <2>5. /\ m \in 1 .. s /\ c \in Nat /\ c >= s /\ Len(Stock') = c
        /\ \A h \in 1 .. s : h # m => Stock'[h] = Stock[h]
        /\ Lacks(Stock'[m], k)
    <3>1. /\ m \in 1 .. s /\ c \in Nat /\ c >= s /\ Len(Stock') = c
          /\ \A h \in 1 .. c : Stock'[h] = IF h = m \/ h > s THEN << >> ELSE Stock[h]
      BY <1>3, <2>1 DEF Empties
    <3>2. Stock'[m] = << >> /\ \A h \in 1 .. s : h # m => Stock'[h] = Stock[h]
      BY <1>4, <3>1
    <3>3. Lacks(<< >>, k)
      BY DEF Lacks
    <3>. QED
      BY <3>1, <3>2, <3>3
  <2>6. /\ r \in Rows /\ (Lacks(Stock[m], k) => r[k] = 0)
        /\ Leads(Stock[m], k, n) => n <= r[k]
    <3>1. m \in 1 .. Len(levels) /\ n \in Nat
      BY <1>1, <1>3, <2>5, StockType
    <3>. QED
      BY <1>1, <2>1, <3>1, MergeHas
  <2>7. ASSUME NEW h \in 1 .. s, Lacks(Stock[h], k) PROVE Lacks(Stock'[h], k)
    BY <2>5, <2>7
  <2>8. CASE i = m
    <3>1. r[k] >= n
      BY <2>4, <2>6, <2>8
    <3>2. \A h \in 1 .. v + 1 : Lacks(Stock'[h], k)
      <4>1. \A h \in 1 .. v + 1 : h \in 1 .. s /\ (h = m \/ h \in 1 .. i - 1)
        BY <1>4, <2>1, <2>5, <2>8
      <4>. QED
        BY <2>4, <2>5, <2>7, <4>1
    <3>3. LeadsMerged(t, k, n)'
      BY <2>1, <3>1, <3>2 DEF LeadsMerged, Lacks
    <3>. QED
      BY <3>3 DEF Top
  <2>9. CASE i # m
    <3>1. Leads(Stock'[i], k, n) /\ \A h \in 1 .. i - 1 : Lacks(Stock'[h], k)
      <4>1. \A h \in 1 .. i - 1 : h \in 1 .. s
        BY <1>4
      <4>. QED
        BY <2>4, <2>5, <2>7, <2>9, <4>1
    <3>2. v + 2 <= i => r[k] = 0
      <4>1. v + 2 <= i => m \in 1 .. i - 1
        BY <2>1, <2>5
      <4>. QED
        BY <2>4, <2>6, <4>1
    <3>3. LeadsAt(i, k, n)'
      BY <2>1, <2>3, <3>1, <3>2 DEF LeadsAt, Leads, Lacks
    <3>4. i \in 1 .. c
      BY <1>4, <2>5
    <3>. QED
      BY <2>5, <3>3, <3>4 DEF Top
  <2>. QED
    BY <2>8, <2>9
<1>. QED
  BY <1>7, <1>8, <1>10, <1>11, <1>12, Restocks

(***************************************************************************)
(* The files on disk.                                                      *)
(***************************************************************************)

\* No circumstance that keeps get from answering with the latest version.
GetCareful == hazards \cap (Lossy \cup {"reloaded", "kept", "skewed"}) = {}

\* Every file is a table of its level, or a call is writing it.
InLevels(f) == \E i \in 1 .. Len(levels) : \E j \in 1 .. Len(levels[i]) : levels[i][j].file = f
OwnedFile(f) == \E t \in Thread : pc[t] \in OwnerPc /\ loc[t].file = f
Listed == GetCareful /\ status = "up" => \A f \in DOMAIN files : InLevels(f) \/ OwnedFile(f)

(* add_table lists a file, and unlists none.                               *)
LEMMA AddsLists ==
    ASSUME Types, NEW n \in 1 .. Len(levels), NEW f, Adds(n, f), NEW g, InLevels(g) \/ g = f
    PROVE  InLevels(g)'
<1>1. Len(levels) \in Nat /\ levels \in Seq(Seq(Handles))
  BY LevelsLength DEF Types, TLevels
<1>2. levels[n] \in Seq(Handles) /\ Len(levels[n]) \in Nat
  BY LevelsLength
<1>3. PICK h, e : h = Handle(f) /\ h.file = f /\ e = Append(levels[n], h)
  <2>1. Handle(f).file = f
    BY DEF Handle
  <2>. QED
    BY <2>1
<1>4. /\ Len(e) = Len(levels[n]) + 1 /\ e[Len(levels[n]) + 1] = h
      /\ \A j \in 1 .. Len(levels[n]) : e[j] = levels[n][j]
  BY <1>2, <1>3
<1>5. levels' = [levels EXCEPT ![n] = e]
  BY <1>3 DEF Adds
<1>6. Len(levels') = Len(levels) /\ levels'[n] = e /\ \A i \in 1 .. Len(levels) : i # n => levels'[i] = levels[i]
  BY <1>1, <1>5
<1>7. CASE g = f
  <2>1. Len(e) \in 1 .. Len(e) /\ e[Len(e)].file = f
    BY <1>2, <1>3, <1>4
  <2>. QED
    BY <1>6, <1>7, <2>1 DEF InLevels
<1>8. CASE InLevels(g)
  <2>1. PICK i \in 1 .. Len(levels) : \E j \in 1 .. Len(levels[i]) : levels[i][j].file = g
    BY <1>8 DEF InLevels
  <2>2. PICK j \in 1 .. Len(levels[i]) : levels[i][j].file = g
    BY <2>1
  <2>3. j \in 1 .. Len(levels'[i]) /\ levels'[i][j].file = g
    <3>1. CASE i = n
      BY <1>2, <1>4, <1>6, <2>2, <3>1
    <3>2. CASE i # n
      BY <1>6, <2>2, <3>2
    <3>. QED
      BY <3>1, <3>2
  <2>. QED
    BY <1>6, <2>3 DEF InLevels
<1>. QED
  BY <1>7, <1>8

(* A step that changes a file, or who writes it, is one of those of tables.*)
LEMMA OwnersStep ==
    ASSUME NEW t \in Thread, Step(t), pc[t] \in OwnerPc
    PROVE  flush_sync(t) \/ compact_sync(t) \/ flush_add(t) \/ write_error(t)
  BY DEF OwnerPc, Step, insert, insert_wal, insert_memtable, insert_done, wal_error, insert_batch, batch_memtable,
        batch_wal, batch_done, apply_replication_batch, apply_wal, apply_memtable, apply_advance, advance_error,
        flush_memtable, flush_drain, flush_write, flush_truncate,
        truncate_error, get, get_memtable, get_tables, scan, scan_memtable, scan_tables, read_panic, compact,
        compact_read, compact_panic, compact_write, compact_next, read_not_found, StartRead, May

(* Every step keeps the files listed.                                      *)
LEMMA ListedKept ==
    ASSUME Steady, Listed, NEW t \in Thread, Step(t)
    PROVE  Listed'
<1>1. Types /\ Genuine /\ Shelved /\ Held /\ pc \in [Thread -> Pc] /\ loc \in [Thread -> Loc]
  BY DEF Steady, Types, TPc, TLoc
<1>2. SUFFICES ASSUME GetCareful', NEW f \in DOMAIN files' PROVE InLevels(f)' \/ OwnedFile(f)'
  BY DEF Listed
<1>3. GetCareful /\ status = "up"
  <2>1. status = "up"
    BY DEF Step, insert, insert_wal, insert_memtable, insert_done, wal_error, insert_batch, batch_memtable,
        batch_wal, batch_done, apply_replication_batch, apply_wal, apply_memtable, apply_advance, advance_error,
        flush_memtable, flush_drain, flush_write, flush_sync, write_error, flush_add, flush_truncate,
        truncate_error, get, get_memtable, get_tables, scan, scan_memtable, scan_tables, read_panic, compact,
        compact_read, compact_panic, compact_write, compact_sync, compact_next, read_not_found, StartRead, May, Up
  <2>. QED
    BY <1>1, <1>2, <2>1, StepsAlone DEF GetCareful
<1>4. ASSUME f \in DOMAIN files PROVE InLevels(f) \/ OwnedFile(f)
  BY <1>3, <1>4 DEF Listed
<1>5. ASSUME NEW u \in Thread \ {t}, pc[u] \in OwnerPc /\ loc[u].file = f PROVE OwnedFile(f)'
  <2>1. pc[u] \notin ReadPc
    BY <1>5 DEF OwnerPc, ReadPc
  <2>2. pc'[u] = pc[u] /\ loc'[u] = loc[u]
    BY <1>1, <2>1, StepsAlone DEF Alone, Marks
  <2>. QED
    BY <1>5, <2>2 DEF OwnedFile
<1>6. CASE ~TableSteps(t)
  <2>1. UNCHANGED << files, levels >> /\ pc[t] \notin OwnerPc
    BY <1>1, <1>6, StepsQuiet, OwnersStep DEF TableSteps
  <2>2. CASE InLevels(f)
    BY <2>1, <2>2 DEF InLevels
  <2>3. CASE OwnedFile(f)
    BY <1>5, <2>1, <2>3 DEF OwnedFile
  <2>. QED
    BY <1>4, <2>1, <2>2, <2>3
<1>7. CASE flush_write(t) \/ compact_write(t)
  <2>1. /\ pc[t] \notin OwnerPc /\ pc'[t] \in OwnerPc /\ loc'[t].file = nextFile /\ levels' = levels
        /\ DOMAIN files' = DOMAIN files \cup {nextFile}
    <3>1. \E n \in Nat : CreateFile(t, n, dict) \/ CreateFile(t, n, << >>)
      <4>1. loc[t].level + 1 \in Nat /\ 0 \in Nat
        BY <1>1, LocTypes
      <4>. QED
        BY <1>7, <4>1 DEF flush_write, compact_write
    <3>2. DOMAIN files' = DOMAIN files \cup {nextFile} /\ loc' = [loc EXCEPT ![t].file = nextFile]
      BY <3>1 DEF CreateFile
    <3>3. loc'[t].file = nextFile
      BY <1>1, <3>2 DEF Loc
    <3>4. pc[t] \notin OwnerPc /\ pc'[t] \in OwnerPc /\ levels' = levels
      BY <1>1, <1>7 DEF flush_write, compact_write, Goto, OwnerPc
    <3>. QED
      BY <3>2, <3>3, <3>4
  <2>2. CASE f = nextFile
    BY <2>1, <2>2 DEF OwnedFile
  <2>3. CASE f \in DOMAIN files /\ InLevels(f)
    BY <2>1, <2>3 DEF InLevels
  <2>4. CASE f \in DOMAIN files /\ OwnedFile(f)
    BY <1>5, <2>1, <2>4 DEF OwnedFile
  <2>. QED
    BY <1>4, <2>1, <2>2, <2>3, <2>4
<1>8. CASE flush_sync(t)
  <2>1. pc'[t] \in OwnerPc /\ UNCHANGED << loc, levels >> /\ f \in DOMAIN files
    BY <1>1, <1>8 DEF flush_sync, SyncFile, Goto, OwnerPc
  <2>2. CASE InLevels(f)
    BY <2>1, <2>2 DEF InLevels
  <2>3. CASE OwnedFile(f)
    BY <1>5, <2>1, <2>3 DEF OwnedFile
  <2>. QED
    BY <1>4, <2>1, <2>2, <2>3
<1>9. CASE flush_add(t) \/ compact_sync(t)
  <2>1. PICK n \in 1 .. Len(levels) : Adds(n, loc[t].file)
    <3>1. CASE flush_add(t)
      <4>1. 1 \in 1 .. Len(levels) /\ Adds(1, loc[t].file)
        BY <1>1, <3>1, LevelsLength DEF flush_add, Adds
      <4>. QED
        BY <4>1
    <3>2. CASE compact_sync(t)
      <4>1. pc[t] \in MergedPc
        BY <3>2 DEF compact_sync, MergedPc
      <4>2. loc[t].level + 2 \in 1 .. Len(levels)
        BY <1>1, <4>1, MergesAlone
      <4>. QED
        BY <3>2, <4>2 DEF compact_sync, Adds
    <3>. QED
      BY <1>9, <3>1, <3>2
  <2>2. f \in DOMAIN files
    BY <1>9 DEF flush_add, compact_sync, SyncFile
  <2>3. CASE InLevels(f) \/ f = loc[t].file
    BY <1>1, <2>1, <2>3, AddsLists
  <2>4. CASE OwnedFile(f) /\ f # loc[t].file
    BY <1>5, <2>4 DEF OwnedFile
  <2>. QED
    BY <1>4, <2>2, <2>3, <2>4
<1>10. CASE write_error(t)
  <2>1. "failed" \in hazards'
    BY <1>10 DEF write_error, Note
  <2>. QED
    BY <1>2, <2>1 DEF GetCareful, Lossy
<1>11. CASE compact_read(t)
  <2>1. PICK n, r, gone, m : n \in 1 .. Len(levels) /\ Takes(t, n, r, gone, m)
    BY <1>1, <1>11, ReadTakes
  <2>2. PICK kept \in SUBSET FilesOf(Tables(t)) :
          /\ files' = [g \in DOMAIN files \ (FilesOf(Tables(t)) \ kept) |-> files[g]]
          /\ Note(When(Stale(Tables(t)), "merged") \cup When(kept # {}, "kept"))
    BY <1>11, Zenon DEF compact_read
  <2>3. kept = {}
    <3>1. "kept" \notin hazards'
      BY <1>2 DEF GetCareful
    <3>. QED
      BY <2>2, <3>1 DEF Note, When
  <2>4. Tables(t) = levels[n] /\ levels' = [i \in 1 .. m |-> IF i = n \/ i > Len(levels) THEN << >> ELSE levels[i]]
    BY <2>1 DEF Takes, Tables
  <2>5. f \in DOMAIN files /\ f \notin FilesOf(levels[n])
    BY <2>2, <2>3, <2>4
  <2>6. m \in Nat /\ m >= Len(levels) /\ Len(levels) \in Nat /\ Len(levels') = m
    <3>1. m \in Nat /\ m >= Len(levels) /\ Len(levels) \in Nat
      BY <1>1, <2>1, LevelsLength DEF Takes
    <3>. QED
      BY <2>4, <3>1
  <2>7. pc[t] \notin OwnerPc
    BY <1>11 DEF compact_read, OwnerPc
  <2>8. CASE InLevels(f)
    <3>1. PICK i \in 1 .. Len(levels) : \E j \in 1 .. Len(levels[i]) : levels[i][j].file = f
      BY <2>8 DEF InLevels
    <3>2. PICK j \in 1 .. Len(levels[i]) : levels[i][j].file = f
      BY <3>1
    <3>3. i # n
      <4>1. DOMAIN levels[i] = 1 .. Len(levels[i])
        BY <1>1, LevelsLength
      <4>. QED
        BY <2>5, <3>2, <4>1 DEF FilesOf
    <3>4. i \in 1 .. m /\ levels'[i] = levels[i]
      BY <2>4, <2>6, <3>3
    <3>. QED
      BY <2>6, <3>2, <3>4 DEF InLevels
  <2>9. CASE OwnedFile(f)
    BY <1>5, <2>7, <2>9 DEF OwnedFile
  <2>. QED
    BY <1>4, <2>5, <2>8, <2>9
<1>. QED
  BY <1>6, <1>7, <1>8, <1>9, <1>10, <1>11 DEF TableSteps

(***************************************************************************)
(* What is promised is what a get comes to first.                          *)
(***************************************************************************)

\* Version v, or a later one, is what a get comes to in the tables; the table
\* on disk of the lowest level that has its key has v or a later one.
AtTop(v) == Top(KeyOf(v), v)
OnDisk(v) ==
    \E f \in DOMAIN files :
        /\ Covers(files[f].rows, v)
        /\ \A g \in DOMAIN files : files[g].level < files[f].level => files[g].rows[KeyOf(v)] = 0
Stored(v) == IF status = "up" THEN AtTop(v) ELSE OnDisk(v)

\* The log has the key of v; with v or a later version.
LoggedKey(v) == \E j \in 1 .. Len(wal) : wal[j].key = KeyOf(v)
LoggedLatest(v) == \E j \in 1 .. Len(wal) : wal[j].key = KeyOf(v) /\ wal[j].ver >= v
Lacking(R, v) == R[KeyOf(v)] = 0

\* A call that is logging or inserting ticks has newer ones than are promised.
\* What is promised, or a later version, will be replayed, or it is stored.  No
\* flush under way, it is in the memtable, or it comes first and the memtable
\* has no version of it.  During a flush the same holds of the rows drained.
Fresh ==
    \A t \in Thread : pc[t] \in PuttingPc =>
        \A v \in Promised : \A i \in 1 .. Len(loc[t].ticks) : v < loc[t].ticks[i].ver
Replayed ==
    status # "failed" => \A v \in Promised : LoggedLatest(v) \/ (~LoggedKey(v) /\ Stored(v))
InReach ==
    status = "up" /\ (\A t \in Thread : pc[t] \notin FlushingPc) =>
        \A v \in Promised : Covers(mem, v) \/ (Lacking(mem, v) /\ AtTop(v))
Flushed(t, v) ==
    /\ Covers(mem, v) \/ Lacking(mem, v)
    /\ pc[t] = "f_truncate" => AtTop(v)
    /\ pc[t] # "f_truncate" => Covers(loc[t].rows, v) \/ (Lacking(loc[t].rows, v) /\ AtTop(v))
InFlush == \A t \in Thread : pc[t] \in FlushingPc => \A v \in Promised : Flushed(t, v)
Latest == GetCareful => Fresh /\ Replayed /\ InReach /\ InFlush

\* The other threads go on as they were, except that their reads may be marked.
Beside(t) ==
    \A u \in Thread \ {t} : pc'[u] = pc[u] /\ (pc[u] \notin ReadPc => loc'[u] = loc[u])

(* A step promises the ticks of its own call, or nothing more.             *)
LEMMA PromisedBeside ==
    ASSUME NEW t \in Thread, Beside(t), UNCHANGED << replicated, applied, recorded >>,
           NEW S, acked' \subseteq Promised \cup S,
           pc'[t] \in InCallPc => Versions(loc'[t].ticks) \subseteq Promised \cup S
    PROVE  Promised' \subseteq Promised \cup S
<1>1. SUFFICES ASSUME NEW v \in Promised' PROVE v \in Promised \cup S
  OBVIOUS
<1>2. CASE v \in acked'
  BY <1>2
<1>3. CASE \E u \in Thread : pc'[u] \in InCallPc /\ v \in Versions(loc'[u].ticks)
  <2>1. PICK u \in Thread : pc'[u] \in InCallPc /\ v \in Versions(loc'[u].ticks)
    BY <1>3
  <2>2. CASE u = t
    BY <2>1, <2>2
  <2>3. CASE u # t
    <3>1. pc[u] \in InCallPc /\ pc[u] \notin ReadPc
      BY <2>1, <2>3 DEF Beside, InCallPc, FlushPc, ReadPc
    <3>2. v \in Versions(loc[u].ticks)
      BY <2>1, <2>3, <3>1 DEF Beside
    <3>. QED
      BY <3>1, <3>2 DEF Promised
  <2>. QED
    BY <2>2, <2>3
<1>4. CASE \E b \in replicated' : Recorded(b)' /\ v \in b
  BY <1>4 DEF Promised, Recorded
<1>. QED
  BY <1>2, <1>3, <1>4 DEF Promised, Versions

(* Every step of a thread leaves the others as they were.                  *)
LEMMA StepsBeside ==
    ASSUME Types, NEW t \in Thread, Step(t)
    PROVE  Beside(t)
<1>1. Alone(t) \/ Marks(t)
  BY StepsAlone
<1>. QED
  BY <1>1 DEF Alone, Marks, Beside

(* What is first of the tables stays so.                                   *)
LEMMA AtTopStays ==
    ASSUME Steady, NEW t \in Thread, Step(t), Careful', NEW v \in 1 .. Len(origin), AtTop(v),
           pc[t] = "f_add" => Covers(loc[t].rows, v) \/ Lacking(loc[t].rows, v)
    PROVE  AtTop(v)'
<1>1. Types /\ Len(origin) \in Nat
  BY DEF Steady, Types, TOrigin
<1>2. PICK k \in Key : k = KeyOf(v)
  BY <1>1, KeyWritten
<1>3. KeyOf(v)' = k
  BY <1>1, <1>2, OriginStays DEF KeyOf
<1>4. v \in Nat \ {0} /\ Top(k, v)
  BY <1>1, <1>2 DEF AtTop
<1>5. Top(k, v)'
  BY <1>2, <1>4, TopStays DEF Covers, Lacking
<1>. QED
  BY <1>3, <1>5 DEF AtTop

\* A step that keeps memtable and log, and promises nothing more.
Calm(t) ==
    /\ UNCHANGED << mem, wal, status >> /\ Promised' \subseteq Promised /\ pc[t] # "f_add"
    /\ pc'[t] \in PuttingPc => \A v \in Promised : \A i \in 1 .. Len(loc'[t].ticks) : v < loc'[t].ticks[i].ver
    /\ \/ pc[t] \notin FlushingPc /\ pc'[t] \notin FlushingPc
       \/ /\ pc[t] \in {"f_write", "f_sync"} /\ pc'[t] \in {"f_sync", "f_add"}
          /\ loc'[t].rows = loc[t].rows

(* The beginning of a write is such a step: its ticks are the newest.      *)
LEMMA BeginsCalm ==
    ASSUME Steady, NEW t \in Thread, NEW d, NEW pairs, Begins(t, d, pairs)
    PROVE  Calm(t)
<1>1. Types /\ Genuine /\ Held /\ Batched
  BY DEF Steady
<1>2. PICK T : T = ticks_of(d, pairs)
  OBVIOUS
<1>3. Grows(T)
  BY <1>1, <1>2, BeginsGrow
<1>4. PICK p \in {"i_wal", "b_mem", "a_wal"} :
        /\ pc' = [pc EXCEPT ![t] = p]
        /\ replicated' \in {replicated, replicated \cup {Versions(T)}}
  BY <1>2 DEF Begins, Goto
<1>5. /\ status = "up" /\ status' = "up" /\ pc[t] = "idle" /\ loc' = [loc EXCEPT ![t].ticks = T]
      /\ UNCHANGED << mem, wal, applied, recorded, acked >>
  BY <1>2 DEF Begins
<1>6. p \in Pc /\ p \notin FlushingPc /\ p \notin InCallPc /\ pc[t] \notin FlushingPc
  BY <1>4, <1>5 DEF Pc, FlushPc, FlushingPc, InCallPc
<1>7. PICK l : l = [loc[t] EXCEPT !.ticks = T]
  OBVIOUS
<1>8. l \in Loc /\ loc' = [loc EXCEPT ![t] = l] /\ l.ticks = T
  <2>1. loc[t] \in Loc /\ loc \in [Thread -> Loc] /\ T \in Seq(Tick)
    BY <1>1, <1>3 DEF Types, TLoc, Grows
  <2>. QED
    BY <1>5, <1>7, <2>1 DEF Loc
<1>9. Others(t) /\ pc'[t] = p /\ loc'[t] = l
  BY <1>1, <1>4, <1>6, <1>8, Moves
<1>10. Promised' \subseteq Promised
  BY <1>1, <1>3, <1>4, <1>5, <1>6, <1>9, BeginsPromised
<1>11. ASSUME NEW v \in Promised, NEW i \in 1 .. Len(T) PROVE v < T[i].ver
  <2>1. v \in 1 .. Len(origin) /\ Len(origin) \in Nat /\ Len(T) \in Nat
    BY <1>1, <1>3, PromisedWritten, GrownHistory
  <2>2. T[i].ver = Len(origin) + i
    BY <1>3 DEF Grows
  <2>. QED
    BY <2>1, <2>2
<1>. QED
  BY <1>5, <1>6, <1>8, <1>9, <1>10, <1>11 DEF Calm

(* So are most of the others.                                              *)
LEMMA PassCalm ==
    ASSUME NEW t \in Thread, NEW l, NEW p, Passes(t, l, p)
    PROVE  Calm(t)
<1>1. p = pc'[t] /\ status' = status
  BY DEF Passes, Advances
<1>2. pc[t] # "f_add"
  BY DEF Passes, FlushingPc
<1>. QED
  BY <1>1, <1>2 DEF Passes, Calm

LEMMA ReadCalm ==
    ASSUME Types, Held, NEW t \in Thread, NEW l, NEW p, Reads(t, l, p)
    PROVE  Calm(t)
<1>1. p \in Pc /\ p \notin PuttingPc /\ p \notin FlushingPc /\ p \notin InCallPc /\ pc[t] \notin FlushingPc
      /\ pc[t] # "f_add"
  BY DEF Reads, Pc, ReadPc, PuttingPc, UnputPc, UnloggedPc, FlushingPc, InCallPc, FlushPc
<1>2. l \in Loc /\ pc' = [pc EXCEPT ![t] = p] /\ loc' = [loc EXCEPT ![t] = l]
      /\ UNCHANGED << mem, wal, status, applied, recorded, acked, replicated >>
  BY DEF Reads, shared, history
<1>3. Others(t) /\ pc'[t] = p
  BY <1>1, <1>2, Moves
<1>4. Promised' \subseteq Promised
  BY <1>1, <1>2, <1>3, PromisedFrame DEF Promised
<1>. QED
  BY <1>1, <1>2, <1>3, <1>4 DEF Calm

LEMMA TurnCalm ==
    ASSUME Types, Held, NEW t \in Thread, NEW l, NEW p, Turns(t, l, p)
    PROVE  Calm(t)
<1>1. p \in Pc /\ p \notin PuttingPc /\ p \notin FlushingPc /\ p \notin InCallPc /\ pc[t] \notin FlushingPc
      /\ pc[t] # "f_add"
  BY DEF Turns, Pc, PuttingPc, UnputPc, UnloggedPc, FlushingPc, InCallPc, FlushPc
<1>2. l \in Loc /\ pc' = [pc EXCEPT ![t] = p] /\ loc' = [loc EXCEPT ![t] = l]
      /\ UNCHANGED << mem, wal, status, applied, recorded, acked, replicated >>
  BY DEF Turns, shared, history
<1>3. Others(t) /\ pc'[t] = p
  BY <1>1, <1>2, Moves
<1>4. Promised' \subseteq Promised
  BY <1>1, <1>2, <1>3, PromisedFrame DEF Promised
<1>. QED
  BY <1>1, <1>2, <1>3, <1>4 DEF Calm

(* And so are the steps that write tables and read them.                   *)
LEMMA TableCalm ==
    ASSUME Steady, NEW t \in Thread, Step(t),
           flush_write(t) \/ flush_sync(t) \/ compact_read(t) \/ compact_write(t) \/ compact_sync(t)
    PROVE  Calm(t)
<1>1. Types /\ Genuine /\ Shelved /\ Held /\ Beside(t) /\ pc \in [Thread -> Pc] /\ loc \in [Thread -> Loc]
  BY StepsBeside DEF Steady, Types, TPc, TLoc
<1>2. UNCHANGED << mem, wal, status, applied, recorded, acked, replicated >>
  BY DEF flush_write, flush_sync, compact_read, compact_write, compact_sync, locks, history
<1>3. \/ /\ pc[t] \in {"f_write", "f_sync"} /\ pc'[t] \in {"f_sync", "f_add"}
      \/ pc[t] \in CompactionPc /\ pc'[t] \in CompactionPc
  BY <1>1 DEF flush_write, flush_sync, compact_read, compact_write, compact_sync, Goto, CompactionPc
<1>4. pc[t] \in {"f_write", "f_sync"} => loc'[t].rows = loc[t].rows /\ loc'[t].ticks = loc[t].ticks
  <2>1. CASE flush_write(t)
    <3>1. loc' = [loc EXCEPT ![t].file = nextFile]
      BY <2>1 DEF flush_write, CreateFile
    <3>. QED
      BY <1>1, <3>1 DEF Loc
  <2>2. CASE flush_sync(t)
    BY <2>2 DEF flush_sync
  <2>3. CASE compact_read(t) \/ compact_write(t) \/ compact_sync(t)
    BY <2>3 DEF compact_read, compact_write, compact_sync
  <2>. QED
    BY <2>1, <2>2, <2>3
<1>5. /\ pc[t] # "f_add" /\ pc'[t] \notin PuttingPc
      /\ pc[t] \in CompactionPc => pc[t] \notin FlushingPc
      /\ pc'[t] \in CompactionPc => pc'[t] \notin FlushingPc /\ pc'[t] \notin InCallPc
      /\ pc[t] \in {"f_write", "f_sync"} => pc[t] \in InCallPc
  BY <1>3 DEF CompactionPc, PuttingPc, UnputPc, UnloggedPc, FlushingPc, InCallPc, FlushPc
<1>6. pc'[t] \in InCallPc => Versions(loc'[t].ticks) \subseteq Promised
  <2>1. pc[t] \in InCallPc => Versions(loc[t].ticks) \subseteq Promised
    BY DEF Promised
  <2>. QED
    BY <1>3, <1>4, <1>5, <2>1
<1>7. Promised' \subseteq Promised \cup {}
  BY <1>1, <1>2, <1>6, PromisedBeside DEF Promised
<1>. QED
  BY <1>2, <1>3, <1>4, <1>5, <1>7 DEF Calm

(* The steps that are not.                                                 *)
LEMMA StepsCalm ==
    ASSUME Steady, NEW t \in Thread, Step(t), Careful'
    PROVE  \/ Calm(t) \/ wal_error(t) \/ flush_add(t)
           \/ flush_drain(t) /\ mem # NoRows
           \/ \E p : LogsTicks(t, p)
           \/ \E l, p : PutsTicks(t, l, p)
           \/ \E l, p : Truncates(t, l, p)
<1>1. Types /\ Genuine /\ Shelved /\ Held /\ Asking
  BY DEF Steady
<1>2. CASE insert(t) \/ insert_batch(t) \/ apply_replication_batch(t)
  <2>1. \E d, pairs : Begins(t, d, pairs)
    BY <1>1, <1>2, InsertBegins, InsertBatchBegins, ApplyBegins
  <2>. QED
    BY <2>1, BeginsCalm
<1>3. CASE insert_wal(t) \/ batch_wal(t) \/ apply_wal(t)
  BY <1>3 DEF insert_wal, batch_wal, apply_wal, LogsTicks, Up
<1>4. CASE insert_memtable(t) \/ batch_memtable(t) \/ apply_memtable(t)
  BY <1>1, <1>4, PutSteps
<1>5. CASE \/ insert_done(t) \/ batch_done(t) \/ apply_advance(t) \/ advance_error(t)
           \/ flush_memtable(t) \/ (flush_drain(t) /\ mem = NoRows)
  <2>1. \E l, p : Passes(t, l, p)
    BY <1>5, DonePasses, AdvancePasses, FlushBeginsPasses, EmptyDrainPasses
  <2>. QED
    BY <2>1, PassCalm
<1>6. CASE write_error(t)
  <2>1. "failed" \in hazards'
    BY <1>6 DEF write_error, Note
  <2>. QED
    BY <2>1 DEF Careful, Lossy
<1>7. CASE flush_truncate(t) \/ truncate_error(t)
  BY <1>7, TruncateSteps
<1>8. CASE \/ read_not_found(t) \/ get(t) \/ get_memtable(t) \/ get_tables(t)
           \/ scan(t) \/ scan_memtable(t) \/ scan_tables(t) \/ read_panic(t)
  <2>1. \E l, p : Reads(t, l, p)
    BY <1>1, <1>8, ReadSteps
  <2>. QED
    BY <1>1, <2>1, ReadCalm
<1>9. CASE compact(t) \/ compact_panic(t) \/ compact_next(t)
  <2>1. \E l, p : Turns(t, l, p)
    BY <1>1, <1>9, CompactTurns
  <2>. QED
    BY <1>1, <2>1, TurnCalm
<1>10. CASE flush_write(t) \/ flush_sync(t) \/ compact_read(t) \/ compact_write(t) \/ compact_sync(t)
  BY <1>10, TableCalm
<1>. QED
  BY <1>2, <1>3, <1>4, <1>5, <1>6, <1>7, <1>8, <1>9, <1>10 DEF Step

(* What every step finds and leaves.                                       *)
LEMMA Settled ==
    ASSUME Steady, Latest, NEW t \in Thread, Step(t), GetCareful'
    PROVE  /\ Types /\ Genuine /\ Held /\ Batched /\ Orderly /\ Kept
           /\ Fresh /\ Replayed /\ InReach /\ InFlush
           /\ Careful' /\ status = "up" /\ Beside(t)
           /\ \A v \in Promised : /\ v \in 1 .. Len(origin) /\ v \in Nat /\ v > 0
                                  /\ KeyOf(v)' = KeyOf(v) /\ KeyOf(v) \in Key
                                  /\ AtTop(v) /\ pc[t] # "f_add" => AtTop(v)'
<1>1. Types /\ Genuine /\ Held /\ Batched
  BY DEF Steady
<1>2. Careful' /\ GetCareful
  <2>1. hazards \subseteq hazards'
    BY <1>1, StepsAlone
  <2>. QED
    BY <2>1 DEF GetCareful, Careful
<1>3. Orderly /\ Kept /\ Fresh /\ Replayed /\ InReach /\ InFlush
  BY <1>2 DEF Steady, Safe, Latest, GetCareful, Careful
<1>4. status = "up"
  BY DEF Step, insert, insert_wal, insert_memtable, insert_done, wal_error, insert_batch, batch_memtable,
        batch_wal, batch_done, apply_replication_batch, apply_wal, apply_memtable, apply_advance, advance_error,
        flush_memtable, flush_drain, flush_write, flush_sync, write_error, flush_add, flush_truncate,
        truncate_error, get, get_memtable, get_tables, scan, scan_memtable, scan_tables, read_panic, compact,
        compact_read, compact_panic, compact_write, compact_sync, compact_next, read_not_found, StartRead, May, Up
<1>5. ASSUME NEW v \in Promised
      PROVE  /\ v \in 1 .. Len(origin) /\ v \in Nat /\ v > 0
             /\ KeyOf(v)' = KeyOf(v) /\ KeyOf(v) \in Key
             /\ AtTop(v) /\ pc[t] # "f_add" => AtTop(v)'
  <2>1. v \in 1 .. Len(origin) /\ Len(origin) \in Nat
    BY <1>1, PromisedWritten DEF Types, TOrigin
  <2>2. KeyOf(v)' = KeyOf(v)
    BY <1>1, <2>1, OriginStays DEF KeyOf
  <2>3. KeyOf(v) \in Key
    BY <1>1, <2>1, KeyWritten
  <2>4. AtTop(v) /\ pc[t] # "f_add" => AtTop(v)'
    BY <1>2, <2>1, AtTopStays
  <2>. QED
    BY <2>1, <2>2, <2>3, <2>4
<1>. QED
  BY <1>1, <1>2, <1>3, <1>4, <1>5, StepsBeside

(* Of one who writes, the others are none.                                 *)
LEMMA FreshStays ==
    ASSUME Fresh, NEW t \in Thread, Beside(t),
           Promised' \subseteq Promised \/ \A u \in Thread \ {t} : pc[u] \notin PuttingPc,
           pc'[t] \in PuttingPc => \A v \in Promised' : \A i \in 1 .. Len(loc'[t].ticks) : v < loc'[t].ticks[i].ver
    PROVE  Fresh'
<1>1. SUFFICES ASSUME NEW u \in Thread, pc'[u] \in PuttingPc, NEW v \in Promised'
               PROVE  \A i \in 1 .. Len(loc'[u].ticks) : v < loc'[u].ticks[i].ver
  BY DEF Fresh
<1>2. CASE u = t
  BY <1>1, <1>2
<1>3. CASE u # t
  <2>1. pc[u] = pc'[u] /\ loc'[u] = loc[u] /\ v \in Promised
    BY <1>1, <1>3 DEF Beside, PuttingPc, UnputPc, UnloggedPc, ReadPc
  <2>. QED
    BY <1>1, <2>1 DEF Fresh
<1>. QED
  BY <1>2, <1>3

(* The log stays, and what is stored.                                      *)
LEMMA ReplayedStays ==
    ASSUME Replayed, status = "up", status' = "up", wal' = wal,
           \A v \in Promised' :
               \/ v \in Promised /\ KeyOf(v)' = KeyOf(v) /\ (AtTop(v) => AtTop(v)')
               \/ LoggedLatest(v)'
    PROVE  Replayed'
<1>1. SUFFICES ASSUME NEW v \in Promised', ~LoggedLatest(v)' PROVE ~LoggedKey(v)' /\ AtTop(v)'
  BY DEF Replayed, Stored
<1>2. v \in Promised /\ KeyOf(v)' = KeyOf(v) /\ (AtTop(v) => AtTop(v)')
  BY <1>1
<1>3. ~LoggedLatest(v)
  BY <1>1, <1>2 DEF LoggedLatest
<1>4. ~LoggedKey(v) /\ AtTop(v)
  BY <1>2, <1>3 DEF Replayed, Stored
<1>5. ~LoggedKey(v)'
  BY <1>2, <1>4 DEF LoggedKey
<1>. QED
  BY <1>2, <1>4, <1>5

(* A calm step keeps all of it.                                            *)
LEMMA CalmKeeps ==
    ASSUME Steady, Latest, NEW t \in Thread, Step(t), GetCareful', Calm(t)
    PROVE  (Fresh /\ Replayed /\ InReach /\ InFlush)'
<1>1. /\ Fresh /\ Replayed /\ InReach /\ InFlush /\ status = "up" /\ Beside(t)
      /\ \A v \in Promised : /\ KeyOf(v)' = KeyOf(v)
                             /\ AtTop(v) => AtTop(v)'
  BY Settled DEF Calm
<1>2. /\ UNCHANGED << mem, wal, status >> /\ Promised' \subseteq Promised
      /\ pc'[t] \in PuttingPc => \A v \in Promised : \A i \in 1 .. Len(loc'[t].ticks) : v < loc'[t].ticks[i].ver
      /\ \/ pc[t] \notin FlushingPc /\ pc'[t] \notin FlushingPc
         \/ /\ pc[t] \in {"f_write", "f_sync"} /\ pc'[t] \in {"f_sync", "f_add"}
            /\ loc'[t].rows = loc[t].rows
  BY DEF Calm
<1>3. Fresh'
  BY <1>1, <1>2, FreshStays
<1>4. Replayed'
  BY <1>1, <1>2, ReplayedStays
<1>5. ASSUME NEW v \in Promised
      PROVE  /\ Covers(mem, v) => Covers(mem, v)'
             /\ Lacking(mem, v) => Lacking(mem, v)'
  BY <1>1, <1>2 DEF Covers, Lacking
<1>6. InReach'
  <2>1. SUFFICES ASSUME \A u \in Thread : pc'[u] \notin FlushingPc, NEW v \in Promised
                 PROVE  Covers(mem, v)' \/ (Lacking(mem, v)' /\ AtTop(v)')
    BY <1>2 DEF InReach
  <2>2. \A u \in Thread : pc[u] \notin FlushingPc
    <3>1. pc[t] \notin FlushingPc
      <4>1. pc'[t] \in {"f_sync", "f_add"} => pc'[t] \in FlushingPc
        BY DEF FlushingPc
      <4>. QED
        BY <1>2, <2>1, <4>1
    <3>. QED
      BY <1>1, <2>1, <3>1 DEF Beside
  <2>. QED
    BY <1>1, <1>5, <2>2 DEF InReach
<1>7. InFlush'
  <2>1. SUFFICES ASSUME NEW u \in Thread, pc'[u] \in FlushingPc, NEW v \in Promised
                 PROVE  Flushed(u, v)'
    BY <1>2 DEF InFlush
  <2>2. CASE u = t
    <3>1. /\ pc[t] \in {"f_write", "f_sync"} /\ pc[t] \in FlushingPc /\ pc[t] # "f_truncate"
          /\ pc'[t] # "f_truncate" /\ loc'[t].rows = loc[t].rows
      BY <1>2, <2>1, <2>2 DEF FlushingPc
    <3>2. Flushed(t, v)
      BY <1>1, <3>1 DEF InFlush
    <3>. QED
      BY <1>1, <1>5, <2>2, <3>1, <3>2 DEF Flushed, Covers, Lacking
  <2>3. CASE u # t
    <3>1. pc'[u] = pc[u] /\ loc'[u] = loc[u] /\ pc[u] \in FlushingPc
      BY <1>1, <2>1, <2>3 DEF Beside, FlushingPc, ReadPc
    <3>2. Flushed(u, v)
      BY <1>1, <3>1 DEF InFlush
    <3>. QED
      BY <1>1, <1>5, <3>1, <3>2 DEF Flushed, Covers, Lacking
  <2>. QED
    BY <2>2, <2>3
<1>. QED
  BY <1>3, <1>4, <1>6, <1>7

(* What a call logs, or a part of it, is newer than what was promised.     *)
LEMMA LogGrows ==
    ASSUME Types, Fresh, NEW t \in Thread, pc[t] \in PuttingPc,
           NEW s \in Seq(Tick), Len(s) <= Len(loc[t].ticks), \A i \in 1 .. Len(s) : s[i] = loc[t].ticks[i],
           wal' = wal \o s, NEW v \in Promised, v \in Nat, KeyOf(v)' = KeyOf(v)
    PROVE  /\ LoggedLatest(v) => LoggedLatest(v)'
           /\ LoggedKey(v)' => LoggedKey(v) \/ LoggedLatest(v)'
<1>1. wal \in Seq(Tick) /\ loc[t].ticks \in Seq(Tick) /\ Len(loc[t].ticks) \in Nat
  BY LocTypes DEF Types, TTicks
<1>2. PICK w : w = wal'
  OBVIOUS
<1>3. /\ w \in Seq(Tick) /\ Len(w) = Len(wal) + Len(s) /\ Len(wal) \in Nat /\ Len(s) \in Nat
      /\ \A i \in 1 .. Len(wal) : w[i] = wal[i]
      /\ \A i \in 1 .. Len(s) : w[Len(wal) + i] = s[i]
  BY <1>1, <1>2, Joined
<1>4. PICK k : k = KeyOf(v)
  OBVIOUS
<1>5. ASSUME LoggedLatest(v) PROVE LoggedLatest(v)'
  <2>1. PICK j \in 1 .. Len(wal) : wal[j].key = k /\ wal[j].ver >= v
    BY <1>4, <1>5 DEF LoggedLatest
  <2>2. j \in 1 .. Len(w) /\ w[j] = wal[j]
    BY <1>3
  <2>. QED
    BY <1>2, <1>4, <2>1, <2>2 DEF LoggedLatest
<1>6. ASSUME LoggedKey(v)' PROVE LoggedKey(v) \/ LoggedLatest(v)'
  <2>1. PICK j \in 1 .. Len(w) : w[j].key = k
    BY <1>2, <1>4, <1>6 DEF LoggedKey
  <2>2. CASE j \in 1 .. Len(wal)
    BY <1>3, <1>4, <2>1, <2>2 DEF LoggedKey
  <2>3. CASE j \notin 1 .. Len(wal)
    <3>1. PICK i : i = j - Len(wal)
      OBVIOUS
    <3>2. i \in 1 .. Len(s) /\ j = Len(wal) + i
      BY <1>3, <2>1, <2>3, <3>1
    <3>3. w[j] = loc[t].ticks[i] /\ i \in 1 .. Len(loc[t].ticks)
      BY <1>1, <1>3, <3>2
    <3>4. v < loc[t].ticks[i].ver /\ loc[t].ticks[i].ver \in Nat
      <4>1. loc[t].ticks[i] \in Tick
        BY <1>1, <3>3
      <4>2. loc[t].ticks[i].ver \in Version
        BY <4>1 DEF Tick
      <4>. QED
        BY <3>3, <4>2 DEF Fresh, Version
    <3>5. w[j].ver >= v
      BY <3>3, <3>4
    <3>. QED
      BY <1>2, <1>4, <2>1, <3>5 DEF LoggedLatest
  <2>. QED
    BY <2>2, <2>3
<1>. QED
  BY <1>5, <1>6

(* append, of a call.                                                      *)
LEMMA LogGets ==
    ASSUME Steady, Latest, NEW t \in Thread, Step(t), GetCareful', NEW p, LogsTicks(t, p)
    PROVE  (Fresh /\ Replayed /\ InReach /\ InFlush)'
<1>1. /\ Types /\ Genuine /\ Orderly /\ Kept /\ Fresh /\ Replayed /\ InReach /\ InFlush
      /\ Careful' /\ status = "up" /\ Beside(t)
  BY Settled
<1>2. pc[t] # "f_add" /\ pc[t] \in PuttingPc /\ pc[t] \in UnloggedPc
  BY DEF LogsTicks, PuttingPc, UnputPc, UnloggedPc
<1>3. \A v \in Promised : /\ v \in 1 .. Len(origin) /\ v \in Nat /\ KeyOf(v)' = KeyOf(v)
                          /\ AtTop(v) => AtTop(v)'
  BY <1>2, Settled
<1>4. /\ wal' = wal \o loc[t].ticks /\ pc' = [pc EXCEPT ![t] = p]
      /\ UNCHANGED << mem, loc, status, origin, replicated, applied, recorded, acked >>
  BY DEF LogsTicks, Log, Goto
<1>5. pc'[t] = p
  BY <1>1, <1>4 DEF Types, TPc
<1>6. PICK T \in Seq(Tick) : T = loc[t].ticks
  BY <1>1, LocTypes
<1>7. Len(T) \in Nat /\ TicksGenuine(T)
  BY <1>1, <1>6 DEF Genuine
<1>8. \A u \in Thread : pc[u] \notin FlushingPc
  <2>1. Note(When(Flushing # {}, "overlap"))
    BY DEF LogsTicks, Log
  <2>2. Flushing = {}
    BY <1>1, <2>1 DEF Careful, Note, When, Lossy
  <2>. QED
    BY <2>2 DEF Flushing, Draining, FlushingPc
<1>9. \A u \in Thread : pc'[u] \notin FlushingPc
  <2>1. pc'[t] \notin FlushingPc
    BY <1>5 DEF LogsTicks, FlushingPc
  <2>. QED
    BY <1>1, <1>8, <2>1 DEF Beside
<1>10. \A u \in Thread \ {t} : pc[u] \notin PuttingPc
  BY <1>1, <1>2 DEF Orderly, OneAtATime
<1>11. ASSUME NEW v \in Promised'
       PROVE  \/ v \in Promised
              \/ pc[t] = "b_wal" /\ p = "b_len" /\ v \in Versions(T)
  <2>1. CASE p = "b_len"
    <3>1. pc[t] = "b_wal"
      BY <2>1 DEF LogsTicks
    <3>2. Promised' \subseteq Promised \cup Versions(T)
      BY <1>1, <1>4, <1>6, PromisedBeside DEF Promised
    <3>. QED
      BY <2>1, <3>1, <3>2
  <2>2. CASE p # "b_len"
    <3>1. p \notin InCallPc
      BY <2>2 DEF LogsTicks, InCallPc, FlushPc
    <3>2. Promised' \subseteq Promised \cup {}
      BY <1>1, <1>4, <1>5, <3>1, PromisedBeside DEF Promised
    <3>. QED
      BY <3>2
  <2>. QED
    BY <2>1, <2>2
<1>12. Fresh'
  <2>1. ASSUME pc'[t] \in PuttingPc, NEW v \in Promised', NEW i \in 1 .. Len(loc'[t].ticks)
        PROVE  v < loc'[t].ticks[i].ver
    <3>1. p # "b_len"
      BY <1>5, <2>1 DEF PuttingPc, UnputPc, UnloggedPc
    <3>2. v \in Promised
      BY <1>11, <3>1
    <3>. QED
      BY <1>1, <1>2, <1>4, <2>1, <3>2 DEF Fresh
  <2>. QED
    BY <1>1, <1>10, <2>1, FreshStays
<1>13. ASSUME NEW v \in Versions(T)
       PROVE  v \in 1 .. Len(origin) /\ KeyOf(v)' = KeyOf(v) /\ LoggedLatest(v)'
  <2>1. PICK i \in 1 .. Len(T) : v = T[i].ver
    BY DEF Versions
  <2>2. v \in 1 .. Len(origin) /\ T[i].key = KeyOf(v) /\ v \in Nat
    BY <1>7, <2>1 DEF TicksGenuine
  <2>3. KeyOf(v)' = KeyOf(v)
    BY <1>4 DEF KeyOf
  <2>4. PICK w : w = wal'
    OBVIOUS
  <2>5. wal \in Seq(Tick) /\ w = wal \o T
    BY <1>1, <1>4, <1>6, <2>4 DEF Types, TTicks
  <2>6. Len(w) = Len(wal) + Len(T) /\ Len(wal) \in Nat /\ w[Len(wal) + i] = T[i]
    BY <2>5, Joined
  <2>7. Len(wal) + i \in 1 .. Len(w) /\ w[Len(wal) + i].key = KeyOf(v) /\ w[Len(wal) + i].ver >= v
    BY <1>7, <2>1, <2>2, <2>6
  <2>. QED
    BY <2>2, <2>3, <2>4, <2>7 DEF LoggedLatest
<1>14. Replayed'
  <2>1. ASSUME NEW v \in Promised', ~LoggedLatest(v)' PROVE ~LoggedKey(v)' /\ Stored(v)'
    <3>1. v \in Promised
      BY <1>11, <1>13, <2>1
    <3>2. /\ LoggedLatest(v) => LoggedLatest(v)'
          /\ LoggedKey(v)' => LoggedKey(v) \/ LoggedLatest(v)'
      <4>1. Len(T) <= Len(loc[t].ticks) /\ (\A i \in 1 .. Len(T) : T[i] = loc[t].ticks[i]) /\ wal' = wal \o T
        BY <1>4, <1>6, <1>7
      <4>. QED
        BY <1>1, <1>2, <1>3, <3>1, <4>1, LogGrows
    <3>3. ~LoggedKey(v) /\ AtTop(v)
      BY <1>1, <2>1, <3>1, <3>2 DEF Replayed, Stored
    <3>. QED
      BY <1>1, <1>3, <1>4, <2>1, <3>1, <3>2, <3>3 DEF Stored
  <2>. QED
    BY <2>1 DEF Replayed
<1>15. InReach'
  <2>1. ASSUME NEW v \in Promised' PROVE Covers(mem, v)' \/ (Lacking(mem, v)' /\ AtTop(v)')
    <3>1. CASE v \in Promised
      <4>1. Covers(mem, v) \/ (Lacking(mem, v) /\ AtTop(v))
        BY <1>1, <1>8, <3>1 DEF InReach
      <4>. QED
        BY <1>3, <1>4, <3>1, <4>1 DEF Covers, Lacking
    <3>2. CASE pc[t] = "b_wal" /\ v \in Versions(T)
      <4>1. Covers(mem, v)
        BY <1>1, <1>6, <3>2 DEF Kept
      <4>. QED
        BY <1>4, <1>13, <3>2, <4>1 DEF Covers
    <3>. QED
      BY <1>11, <2>1, <3>1, <3>2
  <2>. QED
    BY <2>1 DEF InReach
<1>16. InFlush'
  BY <1>9 DEF InFlush
<1>. QED
  BY <1>12, <1>14, <1>15, <1>16

(* A failed append.                                                        *)
LEMMA WalErrorGets ==
    ASSUME Steady, Latest, NEW t \in Thread, Step(t), GetCareful', wal_error(t)
    PROVE  (Fresh /\ Replayed /\ InReach /\ InFlush)'
<1>1. /\ Types /\ Fresh /\ Replayed /\ InReach /\ InFlush
      /\ Careful' /\ status = "up" /\ Beside(t)
  BY Settled
<1>2. /\ pc[t] # "f_add" /\ pc[t] \in PuttingPc /\ pc[t] \notin FlushingPc
      /\ pc[t] \in {"i_wal", "b_wal", "a_wal"} /\ Return(t, {})
      /\ UNCHANGED << mem, status, origin, replicated, applied, recorded >>
  BY DEF wal_error, PuttingPc, UnputPc, UnloggedPc, FlushingPc
<1>3. \A v \in Promised : /\ v \in 1 .. Len(origin) /\ v \in Nat /\ KeyOf(v)' = KeyOf(v)
                          /\ AtTop(v) => AtTop(v)'
  BY <1>2, Settled
<1>4. PICK n \in 0 .. Len(loc[t].ticks) : wal' = wal \o SubSeq(loc[t].ticks, 1, n)
  BY DEF wal_error
<1>5. PICK s : s = SubSeq(loc[t].ticks, 1, n)
  OBVIOUS
<1>6. /\ s \in Seq(Tick) /\ Len(s) <= Len(loc[t].ticks)
      /\ \A i \in 1 .. Len(s) : s[i] = loc[t].ticks[i]
  BY <1>1, <1>5, Prefix
<1>7. wal' = wal \o s
  BY <1>4, <1>5
<1>8. pc'[t] = "idle" /\ acked' = acked
  BY <1>1, <1>2 DEF Return, Types, TPc
<1>9. pc'[t] \notin PuttingPc /\ pc'[t] \notin FlushingPc /\ pc'[t] \notin InCallPc
  BY <1>8 DEF PuttingPc, UnputPc, UnloggedPc, FlushingPc, InCallPc, FlushPc
<1>10. Promised' \subseteq Promised
  <2>1. Promised' \subseteq Promised \cup {}
    BY <1>1, <1>2, <1>8, <1>9, PromisedBeside DEF Promised
  <2>. QED
    BY <2>1
<1>11. Fresh'
  BY <1>1, <1>9, <1>10, FreshStays
<1>12. Replayed'
  <2>1. ASSUME NEW v \in Promised, ~LoggedLatest(v)' PROVE ~LoggedKey(v)' /\ Stored(v)'
    <3>1. /\ LoggedLatest(v) => LoggedLatest(v)'
          /\ LoggedKey(v)' => LoggedKey(v) \/ LoggedLatest(v)'
      BY <1>1, <1>2, <1>3, <1>6, <1>7, LogGrows
    <3>2. ~LoggedKey(v) /\ AtTop(v)
      BY <1>1, <2>1, <3>1 DEF Replayed, Stored
    <3>. QED
      BY <1>1, <1>2, <1>3, <2>1, <3>1, <3>2 DEF Stored
  <2>. QED
    BY <1>10, <2>1 DEF Replayed
<1>13. ASSUME NEW v \in Promised
       PROVE  /\ Covers(mem, v) => Covers(mem, v)'
              /\ Lacking(mem, v) => Lacking(mem, v)'
  BY <1>2, <1>3 DEF Covers, Lacking
<1>14. InReach'
  <2>1. SUFFICES ASSUME \A u \in Thread : pc'[u] \notin FlushingPc, NEW v \in Promised
                 PROVE  Covers(mem, v)' \/ (Lacking(mem, v)' /\ AtTop(v)')
    BY <1>10 DEF InReach
  <2>2. \A u \in Thread : pc[u] \notin FlushingPc
    BY <1>1, <1>2, <2>1 DEF Beside
  <2>. QED
    BY <1>1, <1>3, <1>13, <2>2 DEF InReach
<1>15. InFlush'
  <2>1. SUFFICES ASSUME NEW u \in Thread, pc'[u] \in FlushingPc, NEW v \in Promised
                 PROVE  Flushed(u, v)'
    BY <1>10 DEF InFlush
  <2>2. u # t /\ pc'[u] = pc[u] /\ loc'[u] = loc[u] /\ pc[u] \in FlushingPc
    BY <1>1, <1>9, <2>1 DEF Beside, FlushingPc, ReadPc
  <2>3. Flushed(u, v)
    BY <1>1, <2>2 DEF InFlush
  <2>. QED
    BY <1>3, <1>13, <2>2, <2>3 DEF Flushed, Covers, Lacking
<1>. QED
  BY <1>11, <1>12, <1>14, <1>15

(* What a call inserts is newer than what was promised, too.               *)
LEMMA PutGrows ==
    ASSUME Types, Fresh, NEW t \in Thread, pc[t] \in PuttingPc, mem' = mem_insert(mem, loc[t].ticks),
           NEW v \in Promised, v \in Nat, KeyOf(v) \in Key, KeyOf(v)' = KeyOf(v)
    PROVE  Covers(mem, v)' \/ (/\ Covers(mem, v) => Covers(mem, v)'
                               /\ Lacking(mem, v) => Lacking(mem, v)')
<1>1. PICK T \in Seq(Tick) : T = loc[t].ticks
  BY LocTypes
<1>10. PICK k \in Key : k = KeyOf(v)
  OBVIOUS
<1>2. PICK r : r = mem_insert(mem, T)
  OBVIOUS
<1>3. mem \in Rows /\ mem' = r
  BY <1>1, <1>2 DEF Types
<1>4. \/ r[k] = mem[k] /\ \A i \in 1 .. Len(T) : T[i].key # k
      \/ \E i \in 1 .. Len(T) : T[i].key = k /\ r[k] = T[i].ver
  BY <1>2, <1>3, <1>10, Inserts
<1>5. CASE r[k] = mem[k]
  BY <1>3, <1>5, <1>10 DEF Covers, Lacking
<1>6. CASE \E i \in 1 .. Len(T) : T[i].key = k /\ r[k] = T[i].ver
  <2>1. PICK i \in 1 .. Len(T) : r[k] = T[i].ver
    BY <1>6
  <2>2. v < T[i].ver /\ T[i].ver \in Nat
    <3>1. T[i] \in Tick
      OBVIOUS
    <3>2. T[i].ver \in Version
      BY <3>1 DEF Tick
    <3>. QED
      BY <1>1, <3>2 DEF Fresh, Version
  <2>3. r[k] >= v
    BY <2>1, <2>2
  <2>. QED
    BY <1>3, <1>10, <2>3 DEF Covers
<1>. QED
  BY <1>4, <1>5, <1>6

(* A call puts its ticks into the memtable.                                *)
LEMMA PutGets ==
    ASSUME Steady, Latest, NEW t \in Thread, Step(t), GetCareful', NEW l, NEW p, PutsTicks(t, l, p)
    PROVE  (Fresh /\ Replayed /\ InReach /\ InFlush)'
<1>1. /\ Types /\ Genuine /\ Batched /\ Orderly /\ Kept /\ Fresh /\ Replayed /\ InReach /\ InFlush
      /\ Careful' /\ status = "up" /\ Beside(t)
  BY Settled
<1>2. /\ pc[t] # "f_add" /\ pc[t] \in PuttingPc /\ pc[t] \in UnputPc /\ pc[t] \notin FlushingPc
      /\ p \notin FlushingPc /\ p \in Pc
      /\ pc[t] = "b_mem" => p = "b_wal" /\ p \notin InCallPc
      /\ pc[t] # "b_mem" => pc[t] \in LoggedPc /\ p \notin PuttingPc
  BY DEF PutsTicks, PuttingPc, UnputPc, UnloggedPc, FlushingPc, Pc, InCallPc, FlushPc, LoggedPc
<1>3. \A v \in Promised : /\ v \in 1 .. Len(origin) /\ v \in Nat /\ KeyOf(v)' = KeyOf(v) /\ KeyOf(v) \in Key
                          /\ AtTop(v) => AtTop(v)'
  BY <1>2, Settled
<1>4. /\ mem' = mem_insert(mem, loc[t].ticks) /\ pc' = [pc EXCEPT ![t] = p] /\ loc' = [loc EXCEPT ![t] = l]
      /\ UNCHANGED << wal, status, origin, replicated, applied, recorded, acked >>
  BY DEF PutsTicks, Put, history
<1>5. pc'[t] = p /\ loc'[t] = l /\ l.ticks = loc[t].ticks
  <2>1. pc \in [Thread -> Pc] /\ loc \in [Thread -> Loc]
    BY <1>1 DEF Types, TPc, TLoc
  <2>2. l = loc[t] \/ l = [loc[t] EXCEPT !.after = "a_advance"]
    BY DEF PutsTicks
  <2>. QED
    BY <1>4, <2>1, <2>2 DEF Loc
<1>6. PICK T \in Seq(Tick) : T = loc[t].ticks
  BY <1>1, LocTypes
<1>7. TicksGenuine(T) /\ Rising(T) /\ AboveRows(T, mem) /\ Len(T) \in Nat
  BY <1>1, <1>2, <1>6 DEF Genuine, Batched, Orderly, Newer
<1>8. \A i \in 1 .. Len(T) : T[i].ver \in Nat /\ T[i].ver \in 1 .. Len(origin)
  BY <1>1, <1>6, <1>7, TickVersions DEF TicksGenuine
<1>9. \A v \in Versions(T) : v \in 1 .. Len(origin) /\ KeyOf(v)' = KeyOf(v) /\ Covers(mem, v)'
  <2>1. InOrder(T)
    BY <1>7, <1>8 DEF InOrder, Rising
  <2>2. mem \in Rows /\ RowsGenuine(mem)
    BY <1>1 DEF Types, Genuine
  <2>3. \A v \in Versions(T) : Covers(mem', v)
    BY <1>1, <1>4, <1>6, <1>7, <2>1, <2>2, PutGenuine
  <2>. QED
    BY <1>4, <1>8, <2>3 DEF Covers, KeyOf, Versions
<1>10. ASSUME NEW v \in Promised', v \notin Promised
       PROVE  pc[t] \in LoggedPc /\ v \in Versions(T)
  <2>1. CASE pc[t] = "b_mem"
    <3>1. Promised' \subseteq Promised \cup {}
      BY <1>1, <1>2, <1>4, <1>5, <2>1, PromisedBeside DEF Promised
    <3>. QED
      BY <1>10, <3>1
  <2>2. CASE pc[t] # "b_mem"
    <3>1. Promised' \subseteq Promised \cup Versions(T)
      BY <1>1, <1>4, <1>5, <1>6, PromisedBeside DEF Promised
    <3>. QED
      BY <1>2, <1>10, <2>2, <3>1
  <2>. QED
    BY <2>1, <2>2
<1>11. Fresh'
  <2>1. CASE pc[t] = "b_mem"
    <3>1. Promised' \subseteq Promised
      BY <1>10, <2>1 DEF LoggedPc
    <3>. QED
      BY <1>1, <1>2, <1>5, <3>1, FreshStays DEF Fresh
  <2>2. CASE pc[t] # "b_mem"
    <3>1. \A u \in Thread \ {t} : pc[u] \notin PuttingPc
      BY <1>1, <1>2 DEF Orderly, OneAtATime
    <3>. QED
      BY <1>1, <1>2, <1>5, <2>2, <3>1, FreshStays
  <2>. QED
    BY <2>1, <2>2
<1>12. ASSUME NEW v \in Promised', v \notin Promised
       PROVE  Covers(mem, v)' /\ LoggedLatest(v)'
  <2>1. pc[t] \in LoggedPc /\ v \in Versions(T)
    BY <1>10, <1>12
  <2>2. v \in Versions(wal) /\ v \in Nat
    BY <1>1, <1>6, <1>8, <2>1 DEF Kept, Versions
  <2>3. PICK j \in 1 .. Len(wal) : wal[j].ver = v
    BY <2>2 DEF Versions
  <2>4. wal[j].key = KeyOf(v)
    BY <1>1, <2>3 DEF Genuine, TicksGenuine
  <2>. QED
    BY <1>4, <1>9, <2>1, <2>2, <2>3, <2>4 DEF LoggedLatest
<1>13. Replayed'
  BY <1>1, <1>3, <1>4, <1>12, ReplayedStays
<1>14. ASSUME NEW v \in Promised
       PROVE  Covers(mem, v)' \/ (/\ Covers(mem, v) => Covers(mem, v)'
                                  /\ Lacking(mem, v) => Lacking(mem, v)')
  BY <1>1, <1>2, <1>3, <1>4, PutGrows
<1>15. InReach'
  <2>1. SUFFICES ASSUME \A u \in Thread : pc'[u] \notin FlushingPc, NEW v \in Promised'
                 PROVE  Covers(mem, v)' \/ (Lacking(mem, v)' /\ AtTop(v)')
    BY DEF InReach
  <2>2. \A u \in Thread : pc[u] \notin FlushingPc
    BY <1>1, <1>2, <2>1 DEF Beside
  <2>3. CASE v \in Promised
    <3>1. Covers(mem, v) \/ (Lacking(mem, v) /\ AtTop(v))
      BY <1>1, <2>2, <2>3 DEF InReach
    <3>. QED
      BY <1>3, <1>14, <2>3, <3>1
  <2>4. CASE v \notin Promised
    BY <1>12, <2>4
  <2>. QED
    BY <2>3, <2>4
<1>16. InFlush'
  <2>1. SUFFICES ASSUME NEW u \in Thread, pc'[u] \in FlushingPc, NEW v \in Promised'
                 PROVE  Flushed(u, v)'
    BY DEF InFlush
  <2>2. u # t /\ pc'[u] = pc[u] /\ loc'[u] = loc[u] /\ pc[u] \in FlushingPc
    BY <1>1, <1>2, <1>5, <2>1 DEF Beside, FlushingPc, ReadPc
  <2>3. v \in Promised
    BY <1>1, <1>10, <2>2 DEF Orderly, OneAtATime
  <2>4. Flushed(u, v)
    BY <1>1, <2>2, <2>3 DEF InFlush
  <2>5. Covers(mem, v)' \/ Lacking(mem, v)'
    BY <1>14, <2>3, <2>4 DEF Flushed
  <2>. QED
    BY <1>3, <2>2, <2>3, <2>4, <2>5 DEF Flushed, Covers, Lacking
<1>. QED
  BY <1>11, <1>13, <1>15, <1>16

(* A flush drains the memtable.                                            *)
LEMMA DrainGets ==
    ASSUME Steady, Latest, NEW t \in Thread, Step(t), GetCareful', flush_drain(t), mem # NoRows
    PROVE  (Fresh /\ Replayed /\ InReach /\ InFlush)'
<1>1. /\ Types /\ Fresh /\ Replayed /\ InReach /\ InFlush
      /\ Careful' /\ status = "up" /\ Beside(t)
  BY Settled
<1>2. /\ pc[t] = "f_drain" /\ mem' = NoRows /\ pc' = [pc EXCEPT ![t] = "f_write"]
      /\ UNCHANGED << wal, status, origin, replicated, applied, recorded, acked >>
  BY DEF flush_drain, Goto
<1>11. loc' = [u \in Thread |->
                CASE u = t -> [loc[u] EXCEPT !.rows = mem]
                  [] u \in Reading -> [loc[u] EXCEPT !.gap = TRUE]
                  [] OTHER -> loc[u]]
  BY DEF flush_drain
<1>12. loc'[t] = [loc[t] EXCEPT !.rows = mem]
  <2>1. t \notin Reading
    BY <1>2 DEF Reading
  <2>. QED
    BY <1>11, <2>1
<1>3. pc[t] # "f_add" /\ pc'[t] = "f_write" /\ pc[t] \in InCallPc /\ loc'[t].rows = mem /\ loc'[t].ticks = loc[t].ticks
  <2>1. pc \in [Thread -> Pc] /\ loc \in [Thread -> Loc]
    BY <1>1 DEF Types, TPc, TLoc
  <2>. QED
    BY <1>2, <1>12, <2>1 DEF Loc, InCallPc, FlushPc
<1>4. \A v \in Promised : /\ v > 0 /\ v \in Nat /\ KeyOf(v)' = KeyOf(v) /\ KeyOf(v) \in Key
                          /\ AtTop(v) => AtTop(v)'
  BY <1>3, Settled
<1>5. \A u \in Thread : pc[u] \notin FlushingPc
  <2>1. Note(When(Logged # {} \/ Flushing # {}, "overlap"))
    BY DEF flush_drain
  <2>2. Flushing = {}
    BY <1>1, <2>1 DEF Careful, Note, When, Lossy
  <2>. QED
    BY <2>2 DEF Flushing, Draining, FlushingPc
<1>6. Promised' \subseteq Promised
  <2>1. Versions(loc[t].ticks) \subseteq Promised
    BY <1>3 DEF Promised
  <2>2. Versions(loc'[t].ticks) \subseteq Promised \cup {} /\ acked' \subseteq Promised \cup {}
    BY <1>2, <1>3, <2>1 DEF Promised
  <2>3. Promised' \subseteq Promised \cup {}
    BY <1>1, <1>2, <2>2, PromisedBeside
  <2>. QED
    BY <2>3
<1>7. Fresh'
  <2>1. pc'[t] \notin PuttingPc
    BY <1>3 DEF PuttingPc, UnputPc, UnloggedPc
  <2>. QED
    BY <1>1, <1>6, <2>1, FreshStays
<1>8. Replayed'
  BY <1>1, <1>2, <1>4, <1>6, ReplayedStays
<1>9. InReach'
  BY <1>3 DEF InReach, FlushingPc
<1>10. InFlush'
  <2>1. SUFFICES ASSUME NEW u \in Thread, pc'[u] \in FlushingPc, NEW v \in Promised
                 PROVE  Flushed(u, v)'
    BY <1>6 DEF InFlush
  <2>2. u = t
    BY <1>1, <1>5, <2>1 DEF Beside
  <2>3. Covers(mem, v) \/ (Lacking(mem, v) /\ AtTop(v))
    BY <1>1, <1>5 DEF InReach
  <2>4. Lacking(mem, v)'
    BY <1>2, <1>4, Blank DEF Lacking, NoRows
  <2>. QED
    BY <1>3, <1>4, <2>2, <2>3, <2>4 DEF Flushed, Covers, Lacking
<1>. QED
  BY <1>7, <1>8, <1>9, <1>10

(* What a flush has drained comes first when its table is added.           *)
LEMMA AddTops ==
    ASSUME Types, Shelved, Held, NEW t \in Thread, flush_add(t), Beside(t),
           NEW v \in Nat \ {0}, KeyOf(v) \in Key, KeyOf(v)' = KeyOf(v), Covers(loc[t].rows, v)
    PROVE  AtTop(v)'
<1>1. /\ pc[t] = "f_add" /\ pc'[t] = "f_truncate" /\ AddsTo(1, loc[t].rows)
      /\ \A u \in Thread : pc[u] \notin MergedPc
  BY FlushRestocks DEF FlushAdds
<1>2. PICK k \in Key : k = KeyOf(v)
  OBVIOUS
<1>3. PICK R \in Rows : R = loc[t].rows
  BY LocTypes
<1>4. PICK c, d : c = Stock[1] /\ d = Stock'[1]
  OBVIOUS
<1>5. c \in Seq(Rows) /\ 1 \in 1 .. Len(Stock') /\ d = Append(c, R)
  BY <1>1, <1>3, <1>4, StockType DEF AddsTo
<1>6. Leads(d, k, v)
  <2>1. R[k] >= v
    BY <1>2, <1>3 DEF Covers
  <2>. QED
    BY <1>5, <2>1, AppendHas
<1>7. \A u \in Thread : pc'[u] \notin MergedPc
  BY <1>1 DEF Beside, MergedPc
<1>8. LeadsAt(1, k, v)'
  BY <1>4, <1>6, <1>7 DEF LeadsAt, Leads
<1>9. Top(k, v)'
  BY <1>5, <1>8 DEF Top
<1>. QED
  BY <1>2, <1>9 DEF AtTop

(* A flush adds its table.                                                 *)
LEMMA AddGets ==
    ASSUME Steady, Latest, NEW t \in Thread, Step(t), GetCareful', flush_add(t)
    PROVE  (Fresh /\ Replayed /\ InReach /\ InFlush)'
<1>1. /\ Types /\ Shelved /\ Held /\ Orderly /\ Fresh /\ Replayed /\ InReach /\ InFlush
      /\ Careful' /\ status = "up" /\ Beside(t)
  BY Settled DEF Steady
<1>2. /\ pc[t] = "f_add" /\ pc' = [pc EXCEPT ![t] = "f_truncate"] /\ loc' = loc
      /\ UNCHANGED << mem, wal, status, origin, replicated, applied, recorded, acked >>
  BY DEF flush_add, Goto, history
<1>3. pc'[t] = "f_truncate" /\ pc[t] \in InCallPc /\ pc[t] \in FlushingPc
  BY <1>1, <1>2 DEF Types, TPc, InCallPc, FlushPc, FlushingPc
<1>4. \A v \in Promised : v > 0 /\ v \in Nat /\ KeyOf(v)' = KeyOf(v) /\ KeyOf(v) \in Key /\ v \in 1 .. Len(origin)
  BY Settled
<1>5. ASSUME NEW v \in Promised
      PROVE  /\ Covers(mem, v) \/ Lacking(mem, v)
             /\ Covers(loc[t].rows, v) \/ (Lacking(loc[t].rows, v) /\ AtTop(v))
  BY <1>1, <1>2, <1>3 DEF InFlush, Flushed
<1>6. ASSUME NEW v \in Promised PROVE AtTop(v)'
  <2>1. CASE Covers(loc[t].rows, v)
    BY <1>1, <1>4, <2>1, AddTops
  <2>2. CASE Lacking(loc[t].rows, v) /\ AtTop(v)
    BY <1>1, <1>4, <2>2, AtTopStays
  <2>. QED
    BY <1>5, <2>1, <2>2
<1>7. Promised' \subseteq Promised
  <2>1. Versions(loc[t].ticks) \subseteq Promised
    BY <1>3 DEF Promised
  <2>2. Promised' \subseteq Promised \cup {}
    BY <1>1, <1>2, <2>1, PromisedBeside DEF Promised
  <2>. QED
    BY <2>2
<1>8. Fresh'
  <2>1. pc'[t] \notin PuttingPc
    BY <1>3 DEF PuttingPc, UnputPc, UnloggedPc
  <2>. QED
    BY <1>1, <1>7, <2>1, FreshStays
<1>9. Replayed'
  BY <1>1, <1>2, <1>4, <1>6, <1>7, ReplayedStays
<1>10. InReach'
  BY <1>3 DEF InReach, FlushingPc
<1>11. InFlush'
  <2>1. SUFFICES ASSUME NEW u \in Thread, pc'[u] \in FlushingPc, NEW v \in Promised
                 PROVE  Flushed(u, v)'
    BY <1>7 DEF InFlush
  <2>2. u = t
    BY <1>1, <1>3, <2>1 DEF Beside, Orderly, OneAtATime
  <2>3. Covers(mem, v)' \/ Lacking(mem, v)'
    BY <1>2, <1>4, <1>5 DEF Covers, Lacking
  <2>. QED
    BY <1>3, <1>6, <2>2, <2>3 DEF Flushed
<1>. QED
  BY <1>8, <1>9, <1>10, <1>11

(* A flush empties the log, or fails to.                                   *)
LEMMA TruncateGets ==
    ASSUME Steady, Latest, NEW t \in Thread, Step(t), GetCareful', NEW l, NEW p, Truncates(t, l, p)
    PROVE  (Fresh /\ Replayed /\ InReach /\ InFlush)'
<1>1. /\ Types /\ Orderly /\ Fresh /\ Replayed /\ InReach /\ InFlush
      /\ Careful' /\ status = "up" /\ Beside(t)
  BY Settled
<1>2. /\ pc[t] = "f_truncate" /\ p \in {"idle", "a_advance"} /\ pc'[t] = p /\ loc'[t] = l
      /\ acked' \subseteq acked \cup Versions(loc[t].ticks)
      /\ Versions(l.ticks) \subseteq Versions(loc[t].ticks)
      /\ wal' \in {wal, << >>}
      /\ UNCHANGED << mem, status, origin, replicated, applied, recorded >>
  BY DEF Truncates, Advances
<1>3. /\ pc[t] # "f_add" /\ pc[t] \in InCallPc /\ pc[t] \in FlushingPc
      /\ pc'[t] \notin FlushingPc /\ pc'[t] \notin PuttingPc
  BY <1>2 DEF InCallPc, FlushPc, FlushingPc, PuttingPc, UnputPc, UnloggedPc
<1>4. \A v \in Promised : KeyOf(v)' = KeyOf(v) /\ (AtTop(v) => AtTop(v)')
  BY <1>3, Settled
<1>5. ASSUME NEW v \in Promised
      PROVE  (Covers(mem, v) \/ Lacking(mem, v)) /\ AtTop(v)'
  BY <1>1, <1>2, <1>3, <1>4 DEF InFlush, Flushed
<1>6. Promised' \subseteq Promised
  <2>1. Versions(loc[t].ticks) \subseteq Promised
    BY <1>3 DEF Promised
  <2>2. acked \subseteq Promised
    BY DEF Promised
  <2>3. Promised' \subseteq Promised \cup {}
    BY <1>1, <1>2, <2>1, <2>2, PromisedBeside
  <2>. QED
    BY <2>3
<1>7. Fresh'
  BY <1>1, <1>3, <1>6, FreshStays
<1>8. Replayed'
  <2>1. CASE wal' = wal
    BY <1>1, <1>2, <1>4, <1>6, <2>1, ReplayedStays
  <2>2. CASE wal' = << >>
    <3>1. \A v \in Promised' : ~LoggedKey(v)'
      BY <2>2 DEF LoggedKey
    <3>2. status' = "up"
      BY <1>1, <1>2
    <3>. QED
      BY <1>5, <1>6, <3>1, <3>2 DEF Replayed, Stored
  <2>. QED
    BY <1>2, <2>1, <2>2
<1>9. InReach'
  BY <1>2, <1>4, <1>5, <1>6 DEF InReach, Covers, Lacking
<1>10. InFlush'
  <2>1. \A u \in Thread : pc'[u] \notin FlushingPc
    BY <1>1, <1>3 DEF Beside, Orderly, OneAtATime
  <2>. QED
    BY <2>1 DEF InFlush
<1>. QED
  BY <1>7, <1>8, <1>9, <1>10

(* Every step of a thread keeps what is promised where a get comes to it.  *)
LEMMA LatestKept ==
    ASSUME Steady, Latest, NEW t \in Thread, Step(t)
    PROVE  Latest'
<1>1. SUFFICES ASSUME GetCareful' PROVE (Fresh /\ Replayed /\ InReach /\ InFlush)'
  BY DEF Latest
<1>2. Careful'
  BY <1>1 DEF GetCareful, Careful
<1>. QED
  BY <1>1, <1>2, StepsCalm, CalmKeeps, WalErrorGets, AddGets, DrainGets, LogGets, PutGets, TruncateGets

(* What is first of the tables is first on disk, too, unless a compaction  *)
(* is writing: a table that a flush is writing has a version as late, or   *)
(* none.                                                                   *)
LEMMA TopOnDisk ==
    ASSUME Types, Shelved, Listed, GetCareful, status = "up", \A t \in Thread : pc[t] \notin MergedPc,
           InFlush, NEW v \in Promised, AtTop(v)
    PROVE  OnDisk(v)
<1>1. PICK k : k = KeyOf(v)
  OBVIOUS
<1>2. PICK i \in 1 .. Len(Stock) : LeadsAt(i, k, v)
  BY <1>1 DEF AtTop, Top, LeadsMerged
<1>3. /\ Len(Stock) = Len(levels) /\ Len(levels) \in Nat
      /\ \A h \in 1 .. Len(levels) : /\ Len(Stock[h]) = Len(levels[h])
                                     /\ \A j \in 1 .. Len(levels[h]) : Stock[h][j] = RowsOf(levels[h][j])
  <2>1. Len(levels) \in Nat /\ \A h \in 1 .. Len(levels) : Len(levels[h]) \in Nat
    BY LevelsLength
  <2>. QED
    BY <2>1 DEF Stock
<1>4. PICK j \in 1 .. Len(levels[i]) : Stock[i][j][k] >= v
  BY <1>2, <1>3 DEF LeadsAt, Leads
<1>5. PICK f : f = levels[i][j].file /\ f \in DOMAIN files /\ files[f].level = i - 1 /\ files[f].rows[k] >= v
  BY <1>2, <1>3, <1>4 DEF Shelved, OnShelf, RowsOf
<1>6. ASSUME NEW g \in DOMAIN files, InLevels(g), files[g].level < files[f].level
      PROVE  files[g].rows[k] = 0
  <2>1. PICK h \in 1 .. Len(levels) : \E a \in 1 .. Len(levels[h]) : levels[h][a].file = g
    BY <1>6 DEF InLevels
  <2>2. PICK a \in 1 .. Len(levels[h]) : levels[h][a].file = g
    BY <2>1
  <2>3. files[g].level = h - 1 /\ Stock[h][a] = files[g].rows
    BY <1>3, <2>2 DEF Shelved, OnShelf, RowsOf
  <2>4. h \in 1 .. i - 1
    BY <1>2, <1>3, <1>5, <1>6, <2>3
  <2>5. Lacks(Stock[h], k) /\ a \in 1 .. Len(Stock[h])
    BY <1>2, <1>3, <2>4 DEF LeadsAt
  <2>. QED
    BY <2>3, <2>5 DEF Lacks
<1>7. ASSUME NEW t \in Thread, pc[t] \in OwnerPc
      PROVE  /\ loc[t].file \in DOMAIN files /\ files[loc[t].file].level = 0
             /\ files[loc[t].file].rows = loc[t].rows
             /\ Covers(loc[t].rows, v) \/ Lacking(loc[t].rows, v)
  <2>1. pc[t] \in FlushingPc /\ pc[t] # "f_truncate" /\ pc[t] # "c_sync"
    BY <1>7 DEF OwnerPc, MergedPc, FlushingPc
  <2>2. Flushed(t, v)
    BY <2>1 DEF InFlush
  <2>. QED
    BY <1>7, <2>1, <2>2 DEF Shelved, Owns, Flushed
<1>8. CASE \E t \in Thread : pc[t] \in OwnerPc /\ Covers(loc[t].rows, v)
  <2>1. PICK t \in Thread : pc[t] \in OwnerPc /\ Covers(loc[t].rows, v)
    BY <1>8
  <2>2. PICK g : g = loc[t].file /\ g \in DOMAIN files /\ files[g].level = 0 /\ Covers(files[g].rows, v)
    BY <1>7, <2>1
  <2>3. \A h \in DOMAIN files : ~(files[h].level < files[g].level)
    <3>1. \A h \in DOMAIN files : files[h].level \in Nat
      BY DEF Types, TFiles, FileType
    <3>. QED
      BY <2>2, <3>1
  <2>. QED
    BY <2>2, <2>3 DEF OnDisk
<1>9. CASE ~\E t \in Thread : pc[t] \in OwnerPc /\ Covers(loc[t].rows, v)
  <2>1. ASSUME NEW g \in DOMAIN files, files[g].level < files[f].level PROVE files[g].rows[k] = 0
    <3>1. CASE InLevels(g)
      BY <1>6, <2>1, <3>1
    <3>2. CASE OwnedFile(g)
      <4>1. PICK t \in Thread : pc[t] \in OwnerPc /\ loc[t].file = g
        BY <3>2 DEF OwnedFile
      <4>2. Lacking(loc[t].rows, v) /\ files[g].rows = loc[t].rows
        BY <1>7, <1>9, <4>1
      <4>. QED
        BY <1>1, <4>2 DEF Lacking
    <3>. QED
      BY <3>1, <3>2 DEF Listed
  <2>. QED
    BY <1>1, <1>5, <2>1 DEF OnDisk, Covers
<1>. QED
  BY <1>8, <1>9

(* A crash keeps what is logged or on disk.                                *)
LEMMA CrashGets ==
    ASSUME Steady, Latest, Listed, crash
    PROVE  Latest' /\ Listed'
<1>1. Types /\ Genuine /\ Shelved /\ Held /\ Batched
  BY DEF Steady
<1>2. /\ status = "up" /\ status' # "up" /\ wal' \in WalAfterCrash
      /\ recorded' \in {recorded, Cut} /\ applied' = 0
      /\ UNCHANGED << origin, acked, replicated >>
      /\ pc' = [t \in Thread |-> "idle"]
  BY DEF crash, Up, When
<1>3. PICK gone \in SUBSET Removable :
        /\ files' = [f \in DOMAIN files \ gone |-> files[f]]
        /\ Note(When(gone # {} \/ \E t \in Thread : pc[t] \in {"c_write", "c_sync"}, "torn"))
  BY DEF crash
<1>4. Listed'
  BY <1>2 DEF Listed
<1>5. SUFFICES ASSUME GetCareful' PROVE (Fresh /\ Replayed /\ InReach /\ InFlush)'
  BY <1>4 DEF Latest
<1>6. GetCareful /\ gone = {} /\ \A t \in Thread : pc[t] \notin MergedPc
  <2>1. GetCareful /\ "torn" \notin hazards'
    BY <1>3, <1>5 DEF GetCareful, Note, Lossy
  <2>. QED
    BY <1>3, <2>1 DEF Note, When, MergedPc
<1>7. Fresh /\ Replayed /\ InFlush
  BY <1>6 DEF Latest
<1>8. \A t \in Thread : pc'[t] \notin PuttingPc /\ pc'[t] \notin FlushingPc /\ pc'[t] \notin InCallPc
  BY <1>2 DEF PuttingPc, UnputPc, UnloggedPc, FlushingPc, InCallPc, FlushPc
<1>9. Promised' \subseteq Promised
  <2>1. \A b \in replicated : Recorded(b)' => Recorded(b)
    BY <1>1, <1>2, BatchNumbers DEF Recorded
  <2>. QED
    BY <1>2, <1>8, <2>1 DEF Promised
<1>10. ASSUME NEW v \in Promised
       PROVE  /\ LoggedLatest(v) => LoggedLatest(v)'
              /\ LoggedKey(v)' => LoggedKey(v) \/ LoggedLatest(v)'
  <2>1. v \in Nat /\ KeyOf(v)' = KeyOf(v)
    <3>1. v \in 1 .. Len(origin) /\ Len(origin) \in Nat
      BY <1>1, PromisedWritten DEF Types, TOrigin
    <3>. QED
      BY <1>2, <3>1 DEF KeyOf
  <2>2. CASE wal' = wal
    BY <2>1, <2>2 DEF LoggedLatest, LoggedKey
  <2>3. CASE wal' # wal
    <3>1. PICK t \in Thread : /\ pc[t] \in {"i_wal", "b_wal", "a_wal"}
                              /\ \E n \in 1 .. Len(loc[t].ticks) : wal' = wal \o SubSeq(loc[t].ticks, 1, n)
      BY <1>2, <2>3, Zenon DEF WalAfterCrash
    <3>2. PICK n \in 1 .. Len(loc[t].ticks) : wal' = wal \o SubSeq(loc[t].ticks, 1, n)
      BY <3>1
    <3>3. PICK s : s = SubSeq(loc[t].ticks, 1, n)
      OBVIOUS
    <3>4. n \in 0 .. Len(loc[t].ticks)
      OBVIOUS
    <3>5. /\ s \in Seq(Tick) /\ Len(s) <= Len(loc[t].ticks)
          /\ \A i \in 1 .. Len(s) : s[i] = loc[t].ticks[i]
      BY <1>1, <3>3, <3>4, Prefix
    <3>6. wal' = wal \o s /\ pc[t] \in PuttingPc
      BY <3>1, <3>2, <3>3 DEF PuttingPc, UnloggedPc
    <3>. QED
      BY <1>1, <1>7, <2>1, <3>5, <3>6, LogGrows
  <2>. QED
    BY <2>2, <2>3
<1>11. Replayed'
  <2>1. ASSUME NEW v \in Promised, ~LoggedLatest(v)' PROVE ~LoggedKey(v)' /\ Stored(v)'
    <3>1. ~LoggedKey(v)' /\ ~LoggedKey(v) /\ AtTop(v)
      BY <1>2, <1>7, <1>10, <2>1 DEF Replayed, Stored
    <3>2. OnDisk(v)
      BY <1>1, <1>2, <1>6, <1>7, <3>1, TopOnDisk
    <3>3. DOMAIN files' = DOMAIN files /\ \A f \in DOMAIN files : files'[f] = files[f]
      BY <1>3, <1>6
    <3>4. OnDisk(v)'
      BY <1>2, <3>2, <3>3 DEF OnDisk, Covers, KeyOf
    <3>. QED
      BY <1>2, <3>1, <3>4 DEF Stored
  <2>. QED
    BY <1>9, <2>1 DEF Replayed
<1>. QED
  BY <1>2, <1>8, <1>11 DEF Fresh, InReach, InFlush

(* What is first on disk is first of the tables that a restart loads, when *)
(* it loads one of each level.                                             *)
LEMMA OpenTops ==
    ASSUME Types, Types', \A f \in DOMAIN files : files[f].whole, files' = files,
           NEW order \in SetToSeqs(DOMAIN files), levels' = Loaded(order),
           ~\E i \in DOMAIN levels' : Len(levels'[i]) > 1,
           \A t \in Thread : pc'[t] \notin MergedPc,
           NEW v, KeyOf(v)' = KeyOf(v), OnDisk(v)
    PROVE  AtTop(v)'
<1>1. PICK k : k = KeyOf(v)
  OBVIOUS
<1>2. PICK f \in DOMAIN files : /\ files[f].rows[k] >= v
                                /\ \A g \in DOMAIN files : files[g].level < files[f].level => files[g].rows[k] = 0
  BY <1>1 DEF OnDisk, Covers
<1>3. PICK ls : ls = levels'
  OBVIOUS
<1>4. \A i \in 1 .. Len(ls) : \A j \in 1 .. Len(ls[i]) : OnShelf(ls[i][j].file, i)
  BY <1>3, LoadedShelves
<1>5. PICK i \in 1 .. Len(ls) : i = files[f].level + 1 /\ \E j \in 1 .. Len(ls[i]) : ls[i][j].file = f
  BY <1>3, LoadedListed
<1>6. PICK j \in 1 .. Len(ls[i]) : ls[i][j].file = f
  BY <1>5
<1>7. /\ Len(ls) \in Nat /\ DOMAIN ls = 1 .. Len(ls)
      /\ \A h \in 1 .. Len(ls) : Len(ls[h]) \in Nat /\ Len(ls[h]) <= 1
  <2>1. ls \in Seq(Seq(Handles))
    BY <1>3 DEF Types, TLevels
  <2>2. Len(ls) \in Nat /\ DOMAIN ls = 1 .. Len(ls) /\ \A h \in 1 .. Len(ls) : Len(ls[h]) \in Nat
    BY <2>1
  <2>. QED
    BY <1>3, <2>2
<1>8. PICK st : st = Stock'
  OBVIOUS
<1>9. /\ Len(st) = Len(ls)
      /\ \A h \in 1 .. Len(ls) : /\ Len(st[h]) = Len(ls[h])
                                 /\ \A a \in 1 .. Len(ls[h]) : st[h][a] = files[ls[h][a].file].rows
  <2>1. st = [h \in 1 .. Len(ls) |-> [a \in 1 .. Len(ls[h]) |-> files[ls[h][a].file].rows]]
    BY <1>3, <1>8 DEF Stock, RowsOf
  <2>. QED
    BY <1>7, <2>1
<1>10. Leads(st[i], k, v)
  <2>1. \A a \in 1 .. Len(st[i]) : ~(a > j)
    BY <1>7, <1>9
  <2>2. j \in 1 .. Len(st[i]) /\ st[i][j][k] >= v
    BY <1>2, <1>6, <1>9
  <2>. QED
    BY <2>1, <2>2 DEF Leads
<1>11. ASSUME NEW h \in 1 .. i - 1, NEW a \in 1 .. Len(st[h]) PROVE st[h][a][k] = 0
  <2>1. h \in 1 .. Len(ls) /\ a \in 1 .. Len(ls[h])
    BY <1>7, <1>9, <1>11
  <2>2. PICK g : g = ls[h][a].file
    OBVIOUS
  <2>3. g \in DOMAIN files /\ files[g].level = h - 1 /\ st[h][a] = files[g].rows
    BY <1>4, <1>9, <2>1, <2>2 DEF OnShelf
  <2>4. files[f].level \in Nat
    BY DEF Types, TFiles, FileType
  <2>5. files[g].level < files[f].level
    BY <1>5, <2>3, <2>4
  <2>. QED
    BY <1>2, <2>3, <2>5
<1>12. LeadsAt(i, k, v)'
  BY <1>8, <1>10, <1>11 DEF LeadsAt, Leads, Lacks
<1>13. Top(k, v)'
  BY <1>5, <1>8, <1>9, <1>12 DEF Top
<1>. QED
  BY <1>1, <1>13 DEF AtTop

(* A restart brings it back.                                               *)
LEMMA OpenGets ==
    ASSUME Steady, Steady', Latest, open
    PROVE  Latest' /\ Listed'
<1>1. Types /\ Types' /\ Genuine /\ Held
  BY DEF Steady
<1>2. /\ status = "down" /\ status' = "up" /\ recorded # Cut
      /\ applied' = recorded /\ mem' = mem_insert(NoRows, wal)
      /\ UNCHANGED << wal, files, recorded, pc, loc, origin, acked, replicated >>
      /\ \A f \in DOMAIN files : files[f].whole
  BY DEF open, Loadable
<1>3. PICK order \in SetToSeqs(DOMAIN files) : levels' = Loaded(order)
  BY DEF open
<1>4. SUFFICES ASSUME GetCareful'
               PROVE  (Fresh /\ Replayed /\ InReach /\ InFlush)' /\ \A f \in DOMAIN files' : InLevels(f)'
  BY DEF Latest, Listed
<1>5. GetCareful /\ ~\E i \in DOMAIN levels' : Len(levels'[i]) > 1
  <2>1. Note(When(\E i \in DOMAIN levels' : Len(levels'[i]) > 1, "reloaded"))
    BY DEF open
  <2>. QED
    BY <1>4, <2>1 DEF GetCareful, Note, When
<1>6. Replayed /\ InOrder(wal)
  BY <1>5 DEF Latest, Steady, Safe, Careful, GetCareful, Orderly
<1>7. \A t \in Thread : pc'[t] = "idle"
  BY <1>1, <1>2 DEF Held
<1>8. \A t \in Thread : /\ pc'[t] \notin PuttingPc /\ pc'[t] \notin FlushingPc /\ pc'[t] \notin InCallPc
                        /\ pc'[t] \notin MergedPc
  BY <1>7 DEF PuttingPc, UnputPc, UnloggedPc, FlushingPc, InCallPc, FlushPc, MergedPc
<1>9. Promised' \subseteq Promised
  <2>1. \A b \in replicated : Recorded(b)' => Recorded(b)
    BY <1>2 DEF Recorded
  <2>. QED
    BY <1>2, <1>8, <2>1 DEF Promised
<1>10. \A f \in DOMAIN files' : InLevels(f)'
  <2>1. SUFFICES ASSUME NEW f \in DOMAIN files PROVE InLevels(f)'
    BY <1>2
  <2>2. \E i \in 1 .. Len(levels') : i = files[f].level + 1 /\ \E j \in 1 .. Len(levels'[i]) : levels'[i][j].file = f
    BY <1>1, <1>3, LoadedListed
  <2>. QED
    BY <2>2 DEF InLevels
<1>11. ASSUME NEW v \in Promised
       PROVE  /\ v \in Nat /\ KeyOf(v)' = KeyOf(v) /\ KeyOf(v) \in Key
              /\ LoggedLatest(v)' <=> LoggedLatest(v)
              /\ LoggedKey(v)' <=> LoggedKey(v)
              /\ OnDisk(v) => AtTop(v)'
  <2>1. v \in 1 .. Len(origin)
    BY <1>1, PromisedWritten
  <2>2. v \in Nat /\ KeyOf(v) \in Key
    BY <1>1, <2>1, KeyWritten
  <2>3. KeyOf(v)' = KeyOf(v)
    BY <1>2 DEF KeyOf
  <2>4. OnDisk(v) => AtTop(v)'
    BY <1>1, <1>2, <1>3, <1>5, <1>8, <2>3, OpenTops
  <2>. QED
    BY <1>2, <2>2, <2>3, <2>4 DEF LoggedLatest, LoggedKey
<1>12. Replayed'
  BY <1>2, <1>6, <1>9, <1>11 DEF Replayed, Stored
<1>13. ASSUME NEW v \in Promised, LoggedLatest(v) PROVE Covers(mem, v)'
  <2>1. PICK k \in Key : k = KeyOf(v)
    BY <1>11
  <2>2. PICK j \in 1 .. Len(wal) : wal[j].key = k /\ wal[j].ver >= v
    BY <1>13, <2>1 DEF LoggedLatest
  <2>3. PICK r : r = mem_insert(NoRows, wal)
    OBVIOUS
  <2>4. wal \in Seq(Tick) /\ NoRows \in Rows
    BY <1>1, Blank DEF Types, TTicks
  <2>5. PICK i \in 1 .. Len(wal) : r[k] = wal[i].ver /\ j <= i
    BY <2>2, <2>3, <2>4, Inserts
  <2>6. wal[i].ver \in Nat /\ wal[j].ver \in Nat
    BY <1>1, <2>4, TickVersions DEF Genuine
  <2>7. wal[j].ver <= wal[i].ver
    <3>1. CASE i = j
      BY <2>6, <3>1
    <3>2. CASE j # i
      <4>1. j < i
        BY <2>5, <3>2
      <4>. QED
        BY <1>6, <4>1 DEF InOrder
    <3>. QED
      BY <3>1, <3>2
  <2>8. r[k] >= v
    BY <1>11, <2>2, <2>5, <2>6, <2>7
  <2>. QED
    BY <1>2, <1>11, <2>1, <2>3, <2>8 DEF Covers
<1>14. ASSUME NEW v \in Promised, ~LoggedKey(v) PROVE Lacking(mem, v)'
  <2>1. PICK k \in Key : k = KeyOf(v)
    BY <1>11
  <2>2. \A j \in 1 .. Len(wal) : wal[j].key # k
    BY <1>14, <2>1 DEF LoggedKey
  <2>3. PICK r : r = mem_insert(NoRows, wal)
    OBVIOUS
  <2>4. wal \in Seq(Tick) /\ NoRows \in Rows
    BY <1>1, Blank DEF Types, TTicks
  <2>5. r[k] = NoRows[k]
    BY <2>2, <2>3, <2>4, Inserts
  <2>. QED
    BY <1>2, <1>11, <2>1, <2>3, <2>5, Blank DEF Lacking, NoRows
<1>15. InReach'
  <2>1. SUFFICES ASSUME NEW v \in Promised PROVE Covers(mem, v)' \/ (Lacking(mem, v)' /\ AtTop(v)')
    BY <1>9 DEF InReach
  <2>2. LoggedLatest(v) \/ (~LoggedKey(v) /\ OnDisk(v))
    BY <1>2, <1>6 DEF Replayed, Stored
  <2>. QED
    BY <1>11, <1>13, <1>14, <2>2
<1>. QED
  BY <1>8, <1>10, <1>12, <1>15 DEF Fresh, InFlush

(***************************************************************************)
(* Gets.                                                                   *)
(***************************************************************************)

(* While nothing is drained, what is promised is in the memtable, or comes *)
(* first and the memtable has no version of it.                            *)
LEMMA MemLatest ==
    ASSUME Latest, GetCareful, status = "up", \A u \in Thread : pc[u] \notin DrainPc, NEW v \in Promised
    PROVE  Covers(mem, v) \/ (Lacking(mem, v) /\ AtTop(v))
<1>1. InReach /\ InFlush
  BY DEF Latest
<1>2. CASE \A u \in Thread : pc[u] \notin FlushingPc
  BY <1>1, <1>2 DEF InReach
<1>3. CASE \E u \in Thread : pc[u] \in FlushingPc
  <2>1. PICK u \in Thread : pc[u] \in FlushingPc
    BY <1>3
  <2>2. pc[u] = "f_truncate"
    BY <2>1 DEF FlushingPc, DrainPc
  <2>. QED
    BY <1>1, <2>1, <2>2 DEF InFlush, Flushed
<1>. QED
  BY <1>2, <1>3

\* A get that has passed the memtable, that is owed a version, and that no drain
\* has met, comes first to that version or to a later one.
GetSought(t) ==
    pc[t] = "g_tables" /\ loc[t].owed # 0 /\ ~loc[t].gap => Top(loc[t].key, loc[t].owed)
GetSeeking == GetCareful => \A t \in Thread : GetSought(t)

(* Every step keeps it so.                                                 *)
LEMMA GetSeekingKept ==
    ASSUME Steady, Latest, Seeking, GetSeeking, NEW t \in Thread, Step(t)
    PROVE  GetSeeking'
<1>1. Types /\ Asking /\ Held /\ pc \in [Thread -> Pc] /\ loc \in [Thread -> Loc]
  BY DEF Steady, Types, TPc, TLoc
<1>2. SUFFICES ASSUME GetCareful', NEW u \in Thread, pc'[u] = "g_tables", loc'[u].owed # 0, ~loc'[u].gap
               PROVE  Top(loc[u].key, loc[u].owed)'
  BY DEF GetSeeking, GetSought
<1>3. Careful /\ Careful' /\ GetCareful
  <2>1. hazards \subseteq hazards'
    BY <1>1, StepsAlone
  <2>. QED
    BY <1>2, <2>1 DEF GetCareful, Careful
<1>4. pc'[u] \in ReadPc /\ Alone(t)
  <2>1. pc'[u] \in ReadPc
    BY <1>2 DEF ReadPc
  <2>2. ~Marks(t)
    BY <1>2, <2>1 DEF Marks, ReadPc
  <2>. QED
    BY <1>1, <2>1, <2>2, StepsAlone
<1>5. /\ loc'[u] = loc[u] /\ pc[u] \in ReadPc
      /\ u # t => pc'[u] = pc[u]
      /\ u = t => pc[t] = "g_mem" /\ mem[loc[t].key] = 0 /\ status = "up"
  <2>1. CASE u # t
    BY <1>4, <2>1 DEF Alone
  <2>2. CASE u = t
    <3>1. get(t) \/ get_memtable(t) \/ scan(t) \/ scan_memtable(t)
      BY <1>1, <1>4, <2>2, StepsArrive
    <3>2. get_memtable(t)
      BY <1>1, <1>2, <2>2, <3>1 DEF get, scan, scan_memtable, StartRead, Goto
    <3>3. mem_get(mem, loc[t].key) = 0
      BY <1>1, <1>2, <2>2, <3>2 DEF get_memtable, Return
    <3>. QED
      BY <1>1, <2>2, <3>2, <3>3 DEF get_memtable, mem_get, ReadPc, Up
  <2>. QED
    BY <2>1, <2>2
<1>6. PICK k, o : k \in Key /\ k = loc[u].key /\ o = loc[u].owed
  BY <1>1, <1>5 DEF Asking, Asked
<1>7. (\A w \in Thread : pc[w] \notin DrainPc) /\ o \in acked /\ KeyOf(o) = k
  <2>1. Sought(u)
    BY <1>3 DEF Seeking
  <2>. QED
    BY <1>2, <1>5, <1>6, <2>1 DEF Sought
<1>8. o \in 1 .. Len(origin) /\ Len(origin) \in Nat /\ o \in Nat \ {0} /\ o \in Promised
  BY <1>1, <1>7 DEF Types, TVersions, TOrigin, Promised
<1>9. Top(k, o)
  <2>1. CASE u # t
    BY <1>2, <1>3, <1>5, <1>6, <2>1 DEF GetSeeking, GetSought
  <2>2. CASE u = t
    <3>1. Covers(mem, o) \/ (Lacking(mem, o) /\ AtTop(o))
      BY <1>3, <1>5, <1>7, <1>8, <2>2, MemLatest
    <3>2. ~Covers(mem, o)
      BY <1>5, <1>6, <1>7, <1>8, <2>2 DEF Covers
    <3>. QED
      BY <1>7, <3>1, <3>2 DEF AtTop
  <2>. QED
    BY <2>1, <2>2
<1>10. Top(k, o)'
  <2>1. pc[t] # "f_add"
    BY <1>7 DEF DrainPc
  <2>. QED
    BY <1>3, <1>6, <1>8, <1>9, <2>1, TopStays
<1>. QED
  BY <1>5, <1>6, <1>10

(* The first table with the key that a get opens has what it comes to.     *)
LEMMA FoundLatest ==
    ASSUME Types, Shelved, Timed, "skewed" \notin hazards, \A u \in Thread : pc[u] \notin MergedPc,
           NEW k \in Key, NEW n \in Nat \ {0}, Top(k, n),
           NEW H, H = { p \in Places : get_opens(TableAt(p), k) }
    PROVE  FirstFound(H, "newest", k) >= n
<1>1. PICK i \in 1 .. Len(Stock) : LeadsAt(i, k, n)
  BY DEF Top, LeadsMerged
<1>2. PICK j \in 1 .. Len(Stock[i]) :
        Stock[i][j][k] >= n /\ \A b \in 1 .. Len(Stock[i]) : b > j => Stock[i][b][k] = 0
  BY <1>1 DEF LeadsAt, Leads
<1>3. PICK q : q = << i, j >>
  OBVIOUS
<1>4. q \in Places /\ TableAt(q).file \in DOMAIN files /\ RowsOf(TableAt(q))[k] = Stock[i][j][k]
  BY <1>3, StockPlaces
<1>5. Stock[i][j][k] # 0
  BY <1>2
<1>6. get_opens(TableAt(q), k)
  BY <1>4, <1>5, GetOpens
<1>7. q \in H /\ H \in SUBSET Places
  BY <1>4, <1>6
<1>8. PICK p \in H : /\ FirstFound(H, "newest", k) = RowsOf(TableAt(p))[k]
                     /\ RowsOf(TableAt(p))[k] # 0 /\ Comes("newest", p, q)
  BY <1>4, <1>5, <1>7, FirstHit
<1>9. PICK a, b : a \in DOMAIN levels /\ b \in DOMAIN levels[a] /\ p = << a, b >>
  BY <1>7 DEF Places
<1>10. a < i \/ (a = i /\ b >= j)
  BY <1>3, <1>8, <1>9 DEF Comes, NewestFirst
<1>11. /\ Len(Stock) = Len(levels) /\ Len(levels) \in Nat /\ DOMAIN levels = 1 .. Len(levels)
       /\ a \in 1 .. Len(Stock) /\ b \in 1 .. Len(Stock[a]) /\ b \in Nat /\ j \in Nat
  BY <1>9, LevelsLength, StockFit, SMTT(60) DEF StockFits
<1>12. RowsOf(TableAt(p))[k] = Stock[a][b][k]
  BY <1>9, <1>11, StockPlaces
<1>13. a = i
  <2>1. CASE a < i
    <3>1. a \in 1 .. i - 1
      BY <1>11, <2>1
    <3>. QED
      BY <1>1, <1>8, <1>11, <1>12, <3>1 DEF LeadsAt, Lacks
  <2>. QED
    BY <1>10, <2>1
<1>14. b = j
  BY <1>2, <1>8, <1>10, <1>11, <1>12, <1>13
<1>. QED
  BY <1>2, <1>8, <1>12, <1>13, <1>14

(* The step that ends a get answers with what it is owed, or a later one.  *)
LEMMA GetAnswers ==
    ASSUME Steady, Timed, Latest, Seeking, GetSeeking, NEW t \in Thread, get_memtable(t) \/ get_tables(t)
    PROVE  GetLatest'
<1>1. /\ Types /\ Genuine /\ Shelved /\ Held /\ Asking /\ loc \in [Thread -> Loc]
  BY DEF Steady, Types, TLoc
<1>2. status = "up" /\ pc[t] \in {"g_mem", "g_tables"} /\ hazards' = hazards
  BY DEF get_memtable, get_tables, Up
<1>3. PICK k \in Key : k = loc[t].key
  BY <1>1, <1>2 DEF Asking, Asked, ReadPc
<1>4. PICK o \in Nat : o = loc[t].owed
  BY <1>1, Blank, LocTypes DEF Loc, Version
<1>5. SUFFICES ASSUME GetCareful, ~loc[t].gap, NEW v, Answer(t, "get", v),
                      \/ get_memtable(t) /\ v = mem[k] /\ v # 0
                      \/ /\ get_tables(t)
                         /\ v = FirstFound({ p \in Places : get_opens(TableAt(p), k) }, "newest", k)
               PROVE  v >= o
  <2>1. ASSUME NEW v, Answer(t, "get", v), ~loc[t].gap => v >= o PROVE GetLatest'
    BY <1>4, <2>1 DEF GetLatest, Answer
  <2>2. CASE ~GetCareful
    BY <1>2, <2>2 DEF GetLatest, GetCareful
  <2>3. CASE GetCareful /\ get_memtable(t)
    <3>1. CASE mem[k] = 0
      <4>1. answer' = NoAnswer
        BY <1>3, <2>3, <3>1 DEF get_memtable, mem_get
      <4>. QED
        BY <4>1 DEF GetLatest, NoAnswer
    <3>2. CASE mem[k] # 0
      <4>1. PICK v : v = mem[k] /\ Answer(t, "get", v)
        BY <1>3, <2>3, <3>2 DEF get_memtable, mem_get
      <4>. QED
        BY <1>5, <2>1, <2>3, <3>2, <4>1
    <3>. QED
      BY <3>1, <3>2
  <2>4. CASE GetCareful /\ get_tables(t)
    <3>1. PICK v : v = FirstFound({ p \in Places : get_opens(TableAt(p), k) }, "newest", k)
      OBVIOUS
    <3>2. Answer(t, "get", v)
      BY <1>3, <2>4, <3>1, Zenon DEF get_tables
    <3>. QED
      BY <1>5, <2>1, <2>4, <3>1, <3>2
  <2>. QED
    BY <2>2, <2>3, <2>4
<1>6. Careful /\ "skewed" \notin hazards
  BY <1>5 DEF GetCareful, Careful
<1>7. ASSUME o # 0
      PROVE  (\A u \in Thread : pc[u] \notin DrainPc) /\ o \in Promised /\ KeyOf(o) = k
  <2>1. Sought(t)
    BY <1>6 DEF Seeking
  <2>. QED
    BY <1>2, <1>3, <1>4, <1>5, <1>7, <2>1 DEF Sought, ReadPc, Promised
<1>8. CASE get_memtable(t) /\ v = mem[k] /\ v # 0
  <2>1. v \in Nat
    BY <1>1, <1>8, Blank DEF Types, Rows, Version
  <2>2. CASE o # 0
    <3>1. Covers(mem, o) \/ Lacking(mem, o)
      BY <1>2, <1>5, <1>7, <2>2, MemLatest
    <3>. QED
      BY <1>7, <1>8, <2>2, <3>1 DEF Covers, Lacking
  <2>. QED
    BY <1>4, <2>1, <2>2
<1>9. CASE get_tables(t) /\ v = FirstFound({ p \in Places : get_opens(TableAt(p), k) }, "newest", k)
  <2>1. compW = None /\ pc[t] = "g_tables"
    BY <1>9 DEF get_tables
  <2>2. \A u \in Thread : pc[u] \notin MergedPc
    BY <1>1, <2>1, MergesAlone
  <2>3. PICK H : H = { p \in Places : get_opens(TableAt(p), k) }
    OBVIOUS
  <2>4. CASE o # 0
    <3>1. Top(k, o)
      BY <1>3, <1>4, <1>5, <2>1, <2>4 DEF GetSeeking, GetSought
    <3>2. FirstFound(H, "newest", k) >= o
      BY <1>1, <1>6, <2>2, <2>3, <2>4, <3>1, FoundLatest
    <3>. QED
      BY <1>9, <2>3, <3>2
  <2>5. CASE o = 0
    <3>1. H \in SUBSET Places /\ Len(origin) \in Nat
      BY <1>1, <2>3 DEF Types, TOrigin
    <3>2. v = FirstFound(H, "newest", k)
      BY <1>9, <2>3
    <3>3. v # 0 => v \in 1 .. Len(origin)
      BY <1>1, <3>1, <3>2, FoundGenuine
    <3>. QED
      BY <2>5, <3>1, <3>3
  <2>. QED
    BY <2>4, <2>5
<1>. QED
  BY <1>5, <1>8, <1>9

(* Every step keeps what is said about the answer of a get.                *)
LEMMA GetLatestKept ==
    ASSUME Steady, Timed, Latest, Seeking, GetSeeking, Registered, NEW t \in Thread, Step(t)
    PROVE  GetLatest'
<1>1. CASE get_memtable(t) \/ get_tables(t)
  BY <1>1, GetAnswers
<1>2. CASE scan_tables(t)
  <2>1. \E v : Answer(t, "scan", v)
    BY <1>2, Zenon DEF scan_tables
  <2>. QED
    BY <2>1 DEF Answer, GetLatest
<1>3. CASE read_not_found(t)
  BY <1>3, NotFoundForgotten DEF GetLatest
<1>4. CASE ~(get_memtable(t) \/ get_tables(t) \/ scan_tables(t) \/ read_not_found(t))
  <2>1. answer' = NoAnswer
    BY <1>4 DEF Step, insert, insert_wal, insert_memtable, insert_done, wal_error, insert_batch, batch_memtable,
        batch_wal, batch_done, apply_replication_batch, apply_wal, apply_memtable, apply_advance, advance_error,
        flush_memtable, flush_drain, flush_write, flush_sync, write_error, flush_add, flush_truncate,
        truncate_error, get, scan, scan_memtable, read_panic, compact, compact_read, compact_panic,
        compact_write, compact_sync, compact_next, Log, StartRead
  <2>. QED
    BY <2>1 DEF GetLatest, NoAnswer
<1>. QED
  BY <1>1, <1>2, <1>3, <1>4

(***************************************************************************)
(* What gets find, in every state.                                         *)
(***************************************************************************)

Gettable == Listed /\ Latest /\ GetSeeking

(* At first nothing is promised.                                           *)
LEMMA InitGettable == Init => Gettable /\ GetLatest
<1>1. SUFFICES ASSUME Init PROVE Gettable /\ GetLatest
  OBVIOUS
<1>2. \A t \in Thread : /\ pc[t] = "idle" /\ pc[t] \notin PuttingPc /\ pc[t] \notin FlushingPc
                        /\ pc[t] \notin InCallPc
  BY <1>1 DEF Init, PuttingPc, UnputPc, UnloggedPc, FlushingPc, InCallPc, FlushPc
<1>3. Promised = {}
  BY <1>1, <1>2 DEF Init, Promised
<1>4. Latest
  BY <1>2, <1>3 DEF Latest, Fresh, Replayed, InReach, InFlush
<1>5. Listed
  BY <1>1 DEF Init, Listed
<1>6. GetSeeking
  BY <1>2 DEF GetSeeking, GetSought
<1>7. GetLatest
  BY <1>1 DEF Init, GetLatest, NoAnswer
<1>. QED
  BY <1>4, <1>5, <1>6, <1>7 DEF Gettable

(* A crash and what follows it.                                            *)
LEMMA RestartGettable ==
    ASSUME Steady, Steady', Gettable, crash \/ open \/ open_failed
    PROVE  Gettable' /\ GetLatest'
<1>1. answer' = NoAnswer /\ \A t \in Thread : pc'[t] = "idle"
  <2>1. CASE crash
    BY <2>1 DEF crash
  <2>2. CASE open \/ open_failed
    <3>1. status # "up" /\ pc' = pc /\ answer' = NoAnswer
      BY <2>2 DEF open, open_failed
    <3>. QED
      BY <3>1 DEF Steady, Held
  <2>. QED
    BY <2>1, <2>2
<1>2. GetSeeking' /\ GetLatest'
  BY <1>1 DEF GetSeeking, GetSought, GetLatest, NoAnswer
<1>3. Listed' /\ Latest'
  <2>1. CASE crash
    BY <2>1, CrashGets DEF Gettable
  <2>2. CASE open
    BY <2>2, OpenGets DEF Gettable
  <2>3. CASE open_failed
    <3>1. status' = "failed"
      BY <2>3 DEF open_failed
    <3>2. \A t \in Thread : pc'[t] \notin PuttingPc /\ pc'[t] \notin FlushingPc
      BY <1>1 DEF PuttingPc, UnputPc, UnloggedPc, FlushingPc
    <3>. QED
      BY <3>1, <3>2 DEF Listed, Latest, Fresh, Replayed, InReach, InFlush
  <2>. QED
    BY <2>1, <2>2, <2>3
<1>. QED
  BY <1>2, <1>3 DEF Gettable

(* A step that changes nothing changes nothing of it.                      *)
LEMMA StutterGettable ==
    ASSUME Gettable, GetLatest, UNCHANGED vars
    PROVE  Gettable' /\ GetLatest'
<1>1. /\ UNCHANGED << status, mem, wal, files, levels, pc, loc, origin, acked, replicated, applied, recorded >>
      /\ UNCHANGED << hazards, crashes, answer >>
  BY DEF vars, shared, history
<1>2. GetCareful' = GetCareful
  BY <1>1 DEF GetCareful
<1>3. Listed'
  BY <1>1, <1>2 DEF Gettable, Listed, InLevels, OwnedFile
<1>4. /\ Promised' = Promised
      /\ \A k, n : Top(k, n)' = Top(k, n)
  <2>1. Promised' = Promised
    BY <1>1 DEF Promised, Recorded
  <2>2. Stock' = Stock
    BY <1>1 DEF Stock, RowsOf
  <2>. QED
    BY <1>1, <2>1, <2>2 DEF Top, LeadsAt, LeadsMerged, Leads, Lacks
<1>5. \A v : /\ AtTop(v)' = AtTop(v) /\ OnDisk(v)' = OnDisk(v)
             /\ LoggedKey(v)' = LoggedKey(v) /\ LoggedLatest(v)' = LoggedLatest(v)
             /\ Covers(mem, v)' = Covers(mem, v) /\ Lacking(mem, v)' = Lacking(mem, v)
             /\ \A t : Flushed(t, v)' = Flushed(t, v)
  <2>1. \A v : KeyOf(v)' = KeyOf(v)
    BY <1>1 DEF KeyOf
  <2>2. \A v : AtTop(v)' = AtTop(v)
    BY <1>4, <2>1 DEF AtTop, KeyOf
  <2>. QED
    BY <1>1, <2>1, <2>2 DEF OnDisk, LoggedKey, LoggedLatest, Covers, Lacking, Flushed
<1>6. Latest'
  <2>1. SUFFICES ASSUME GetCareful PROVE Fresh' /\ Replayed' /\ InReach' /\ InFlush'
    BY <1>2 DEF Latest
  <2>2. Fresh /\ Replayed /\ InReach /\ InFlush
    BY <2>1 DEF Gettable, Latest
  <2>3. Fresh' /\ Replayed'
    BY <1>1, <1>4, <1>5, <2>2 DEF Fresh, Replayed, Stored
  <2>4. InReach' /\ InFlush'
    BY <1>1, <1>4, <1>5, <2>2 DEF InReach, InFlush
  <2>. QED
    BY <2>3, <2>4
<1>7. GetSeeking'
  <2>1. Stock' = Stock
    BY <1>1 DEF Stock, RowsOf
  <2>2. \A t : GetSought(t)' = GetSought(t)
    BY <1>1, <2>1 DEF GetSought, Top, LeadsAt, LeadsMerged, Leads, Lacks
  <2>. QED
    BY <1>2, <2>2 DEF Gettable, GetSeeking
<1>8. GetLatest'
  BY <1>1 DEF GetLatest, Forgotten, BeforeRestart
<1>. QED
  BY <1>3, <1>6, <1>7, <1>8 DEF Gettable

(* This is an invariant.                                                   *)
LEMMA AlwaysGettable == Spec => [](Gettable /\ GetLatest)
<1>1. Init => Gettable /\ GetLatest
  BY InitGettable
<1>2. Gettable /\ GetLatest /\ Steady /\ Steady' /\ Readable /\ [Next]_vars => (Gettable /\ GetLatest)'
  <2>1. SUFFICES ASSUME Gettable, GetLatest, Steady, Steady', Readable, [Next]_vars
                 PROVE  Gettable' /\ GetLatest'
    OBVIOUS
  <2>2. CASE UNCHANGED vars
    BY <2>1, <2>2, StutterGettable
  <2>3. CASE \E t \in Thread : Step(t)
    <3>1. PICK t \in Thread : Step(t)
      BY <2>3
    <3>2. Listed /\ Latest /\ GetSeeking /\ Timed /\ Seeking /\ Registered
      BY <2>1 DEF Gettable, Readable
    <3>3. Listed' /\ Latest'
      BY <2>1, <3>1, <3>2, ListedKept, LatestKept
    <3>4. GetSeeking'
      BY <2>1, <3>1, <3>2, GetSeekingKept
    <3>5. GetLatest'
      BY <2>1, <3>1, <3>2, GetLatestKept
    <3>. QED
      BY <3>3, <3>4, <3>5 DEF Gettable
  <2>4. CASE crash \/ open \/ open_failed
    BY <2>1, <2>4, RestartGettable
  <2>. QED
    BY <2>1, <2>2, <2>3, <2>4 DEF Next
<1>. QED
  BY <1>1, <1>2, AlwaysSteady, AlwaysReadable, PTL DEF Spec

(* get returns the newest version of a tick that was acknowledged before   *)
(* it was called, or a newer one, and no error, unless its symbol has not  *)
(* been written since the last restart, a flush was between its drain and  *)
(* its add_table during the call, or one of the circumstances that lose,   *)
(* hide or confuse ticks has occurred: whether the version is in the       *)
(* memtable or in a table of any level, no older one of another table or   *)
(* of the memtable comes before it, whatever is written, flushed,          *)
(* compacted and restarted meanwhile.                                      *)
THEOREM LsmGetLatest == Spec => []GetLatest
  BY AlwaysGettable, PTL
=============================================================================
