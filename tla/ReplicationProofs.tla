-------------------------- MODULE ReplicationProofs --------------------------
(***************************************************************************)
(* Proofs about Replication for any number of push tasks, replicas and     *)
(* deployments, any page size and any number of ticks and faults.          *)
(***************************************************************************)
EXTENDS Replication, DataLemmas

(***************************************************************************)
(* The inductive invariant.  NoGap and ReplicaCurrent compare a replica    *)
(* with its tracker; what a push or a pull brings fits behind the tracker  *)
(* because the replica has everything before the batch, in its log and, as *)
(* long as it is clean, in its memtable.                                   *)
(***************************************************************************)
Distinct(d) == \A i, k \in 1 .. Len(d) : d[i] = d[k] => i = k

Clean(r) == r \notin late \cup restarted /\ "primary" \notin restarted

TickKey(d, pair) == << get_id(d, pair[1]), pair[2] >>

\* The memtable of r has record v or a newer one of its tick.
Serves(r, v) ==
    /\ log[v].pair[1] \in Known(rdict[r])
    /\ rmem[r][TickKey(rdict[r], log[v].pair)] >= v

Has(r, v) == v \in rlog[r] /\ (Clean(r) => Serves(r, v))
HasTo(r, n) == \A v \in 1 .. n : Has(r, v)
HasBatch(r, b) == \A i \in 1 .. Len(b) : Has(r, b[i].seq)

Targets(j) == IF j \in Replica THEN {j} ELSE { conf.urls[u] : u \in 1 .. Len(conf.urls) }

\* A batch is a run of records of the primary's log.
BatchOK(b) ==
    \A i \in 1 .. Len(b) :
        /\ b[i].seq = b[1].seq + i - 1 /\ b[i].seq <= Len(log)
        /\ b[i].id = log[b[i].seq].id /\ b[i].ts = log[b[i].seq].pair[2]

Named(b) == \A i \in 1 .. Len(b) : b[i].name = log[b[i].seq].pair[1]

\* Record b[i] is logged, and its symbol is known, before it gets to the memtable.
LoggedAt(r, b) ==
    \A i \in 1 .. Len(b) :
        b[i].seq \in rlog[r] /\ (Clean(r) => b[i].name \in Known(rdict[r]))

JobShape(j) ==
    /\ j \in Task /\ job[j].pc # "idle" => job[j].url \in 1 .. Len(conf.urls)
    /\ job[j].pc \notin Handling \cup {"store"} => job[j].url = 1
    /\ job[j].pc \in {"load", "store"} => j \in Task
    /\ job[j].pc \in Handling \cup {"store"} => job[j].batch # << >>
    /\ BatchOK(job[j].batch)
    /\ job[j].pc \in Handling \cup {"store"} /\ "primary" \notin restarted => Named(job[j].batch)

\* The replicas have what comes before the batch of j.
JobFront(j) ==
    \A r \in Targets(j) :
        /\ job[j].pc = "read" => HasTo(r, job[j].after)
        /\ job[j].batch # << >> => HasTo(r, job[j].batch[1].seq - 1)

\* The replicas that j has been to have its batch.
JobDone(j) ==
    j \in Task /\ job[j].pc \in Handling \cup {"store"} /\ job[j].ok =>
        \A u \in 1 .. Len(conf.urls) :
            u < job[j].url \/ job[j].pc = "store" => HasBatch(conf.urls[u], job[j].batch)

JobHere(j) ==
    /\ job[j].pc = "memtable" => LoggedAt(At(j), job[j].batch)
    /\ job[j].pc = "advance" => HasBatch(At(j), job[j].batch)

JobOK(j) == JobShape(j) /\ JobHere(j) /\ (~refused => JobFront(j) /\ JobDone(j))

DictOK ==
    /\ Distinct(dict)
    /\ "primary" \notin restarted =>
        \A v \in 1 .. Len(log) :
            log[v].id + 1 \in 1 .. Len(dict) /\ dict[log[v].id + 1] = log[v].pair[1]

\* What a clean replica has under a key is a record of that key.
RowsOK(r) ==
    \A k \in Key :
        LET w == rmem[r][k]
        IN  w # 0 => /\ w \in 1 .. Len(log)
                     /\ log[w].pair[1] \in Known(rdict[r])
                     /\ k = TickKey(rdict[r], log[w].pair)

ReplicaOK(r) == Distinct(rdict[r]) /\ (Clean(r) => RowsOK(r))

Fronts ==
    ~refused =>
        /\ \A r \in Replica : HasTo(r, applied[r])
        /\ \A u \in 1 .. Len(conf.urls) : HasTo(conf.urls[u], pushed)

Inv ==
    /\ TypeOK
    /\ DictOK
    /\ \A r \in Replica : ReplicaOK(r)
    /\ Fronts
    /\ \A j \in Job : JobOK(j)
----------------------------------------------------------------------------

(* A name that is known has an id, and its id leads back to it.            *)
LEMMA GetId ==
    ASSUME NEW S, NEW d \in Seq(S), NEW s \in Known(d)
    PROVE  get_id(d, s) \in 0 .. Len(d) - 1 /\ d[get_id(d, s) + 1] = s
<1>1. \E i \in 1 .. Len(d) : d[i] = s
  BY DEF Known
<1>. DEFINE i == CHOOSE k \in 1 .. Len(d) : d[k] = s
<1>2. i \in 1 .. Len(d) /\ d[i] = s
  BY <1>1
<1>3. get_id(d, s) = i - 1 /\ Len(d) \in Nat
  BY DEF get_id
<1>. HIDE DEF i
<1>. QED
  BY <1>2, <1>3

(* In a dictionary without repetitions a position is the id of its name.   *)
LEMMA IdOfPosition ==
    ASSUME NEW S, NEW d \in Seq(S), Distinct(d), NEW i \in 1 .. Len(d)
    PROVE  d[i] \in Known(d) /\ get_id(d, d[i]) = i - 1
<1>1. d[i] \in Known(d)
  BY DEF Known
<1>2. get_id(d, d[i]) \in 0 .. Len(d) - 1 /\ d[get_id(d, d[i]) + 1] = d[i]
  BY <1>1, GetId
<1>. QED
  BY <1>1, <1>2 DEF Distinct

(* A dictionary has at most as many entries as there are symbols.          *)
LEMMA IdsSuffice ==
    ASSUME NEW d \in Seq(Symbol), Distinct(d)
    PROVE  Len(d) <= Cardinality(Symbol) /\ 0 .. Len(d) - 1 \subseteq Id
<1>1. d \in Injection(1 .. Len(d), Symbol)
  <2>1. d \in [1 .. Len(d) -> Symbol]
    OBVIOUS
  <2>. QED
    BY <2>1 DEF Injection, IsInjective, Distinct
<1>2. IsFiniteSet(Symbol) /\ Cardinality(Symbol) \in Nat
  BY ReplicationAssumption, FS_CardinalityType
<1>3. Cardinality(1 .. Len(d)) <= Cardinality(Symbol)
  BY <1>1, <1>2, FS_Injection
<1>4. Cardinality(1 .. Len(d)) = Len(d)
  BY CountTo
<1>. QED
  BY <1>2, <1>3, <1>4 DEF Id

\* d is the beginning of e.
Grows(d, e) == Len(d) <= Len(e) /\ \A i \in 1 .. Len(d) : e[i] = d[i]

(* A dictionary that grows keeps its names and their ids.                  *)
LEMMA IdsStay ==
    ASSUME NEW S, NEW d \in Seq(S), NEW e \in Seq(S), Distinct(e), Grows(d, e)
    PROVE  Known(d) \subseteq Known(e) /\ \A s \in Known(d) : get_id(e, s) = get_id(d, s)
<1>1. ASSUME NEW s \in Known(d)
      PROVE  s \in Known(e) /\ get_id(e, s) = get_id(d, s)
  <2>1. get_id(d, s) \in 0 .. Len(d) - 1 /\ d[get_id(d, s) + 1] = s
    BY GetId
  <2>2. get_id(d, s) + 1 \in 1 .. Len(e) /\ e[get_id(d, s) + 1] = s
    BY <2>1 DEF Grows
  <2>. QED
    BY <2>1, <2>2, IdOfPosition
<1>. QED
  BY <1>1

(* get_or_insert keeps a dictionary without repetitions.                   *)
LEMMA InsertName ==
    ASSUME NEW S, NEW d \in Seq(S), Distinct(d), NEW s \in S
    PROVE  LET e == get_or_insert(d, s)
           IN  e \in Seq(S) /\ Distinct(e) /\ Grows(d, e) /\ s \in Known(e)
<1>1. CASE s \in Known(d)
  BY <1>1 DEF get_or_insert, Grows
<1>2. CASE s \notin Known(d)
  <2>. DEFINE e == Append(d, s)
  <2>1. /\ e \in Seq(S) /\ Len(e) = Len(d) + 1 /\ Len(d) \in Nat
        /\ \A i \in 1 .. Len(d) : e[i] = d[i]
        /\ e[Len(d) + 1] = s
    OBVIOUS
  <2>2. \A i \in 1 .. Len(d) : d[i] # s
    BY <1>2 DEF Known
  <2>. HIDE DEF e
  <2>3. Distinct(e)
    BY <2>1, <2>2 DEF Distinct
  <2>4. Grows(d, e) /\ s \in Known(e)
    BY <2>1 DEF Grows, Known
  <2>. QED
    BY <1>2, <2>1, <2>3, <2>4 DEF get_or_insert, e
<1>. QED
  BY <1>1, <1>2

(* apply_replication_batch extends a dictionary by the names of the batch  *)
(* that are new.                                                           *)
LEMMA ExtendNames ==
    ASSUME NEW d \in Seq(Symbol), Distinct(d), NEW b \in Seq(Entry)
    PROVE  LET e == Extended(d, b)
           IN  /\ e \in Seq(Symbol) /\ Distinct(e) /\ Grows(d, e)
               /\ \A i \in 1 .. Len(b) : b[i].name # None => b[i].name \in Known(e)
<1>. DEFINE new == NewNames(d, b)
            c == Cardinality(new)
            names == [n \in 1 .. c |-> b[Nth(new, n)].name]
            e == d \o names
<1>1. new \in SUBSET (1 .. Len(b)) /\ new \in SUBSET Int /\ Len(b) \in Nat
  BY DEF NewNames
<1>2. IsFiniteSet(new)
  <2>1. IsFiniteSet(1 .. Len(b))
    BY <1>1, CountTo
  <2>. HIDE DEF new
  <2>. QED
    BY <1>1, <2>1, FS_Subset
<1>3. /\ c \in Nat
      /\ \A i, k \in new : Rank(new, i) = Rank(new, k) => i = k
      /\ \A n \in 1 .. c : \E i \in new : Rank(new, i) = n
      /\ \A i \in new : Rank(new, i) \in 1 .. c
  <2>. HIDE DEF new
  <2>. QED
    BY <1>1, <1>2, Ranks
<1>4. ASSUME NEW n \in 1 .. c
      PROVE  Nth(new, n) \in new /\ Rank(new, Nth(new, n)) = n
  <2>1. \E i \in new : Cardinality({ k \in new : k <= i }) = n
    BY <1>3 DEF Rank
  <2>. HIDE DEF new
  <2>. QED
    BY <2>1 DEF Rank, Nth
<1>5. \A i \in new :
        /\ i \in 1 .. Len(b) /\ b[i].name \in Symbol /\ b[i].name \notin Known(d)
        /\ \A k \in new : b[k].name = b[i].name => k = i
  <2>1. \A i \in 1 .. Len(b) : b[i].name \in Symbol \cup {None}
    <3>1. \A i \in 1 .. Len(b) : b[i] \in Entry
      OBVIOUS
    <3>2. \A x \in Entry : x.name \in Symbol \cup {None}
      BY DEF Entry
    <3>. QED
      BY <3>1, <3>2
  <2>. QED
    BY <2>1, <1>1 DEF NewNames
<1>. HIDE DEF new, c
<1>6. names \in Seq(Symbol) /\ Len(names) = c
  BY <1>3, <1>4, <1>5
<1>7. /\ e \in Seq(Symbol) /\ Len(e) = Len(d) + c
      /\ \A i \in 1 .. Len(d) : e[i] = d[i]
      /\ \A n \in 1 .. c : e[Len(d) + n] = names[n]
  <2>. HIDE DEF names
  <2>. QED
    BY <1>3, <1>6, SMTT(60)
<1>8. \A n \in 1 .. c : e[Len(d) + n] = b[Nth(new, n)].name
  BY <1>7
<1>. HIDE DEF names, e
<1>9. Grows(d, e)
  BY <1>3, <1>7 DEF Grows
<1>10. Distinct(e)
  <2>1. \A m, n \in 1 .. c : b[Nth(new, m)].name = b[Nth(new, n)].name => m = n
    BY <1>4, <1>5
  <2>2. \A i \in 1 .. Len(d), n \in 1 .. c : d[i] # b[Nth(new, n)].name
    BY <1>4, <1>5 DEF Known
  <2>3. ASSUME NEW i \in 1 .. Len(e), NEW k \in 1 .. Len(e), e[i] = e[k]
        PROVE  i = k
    <3>1. Len(d) \in Nat
      OBVIOUS
    <3>2. i \in 1 .. Len(d) \/ i - Len(d) \in 1 .. c
      BY <1>3, <1>7, <3>1
    <3>3. k \in 1 .. Len(d) \/ k - Len(d) \in 1 .. c
      BY <1>3, <1>7, <3>1
    <3>4. i \notin 1 .. Len(d) => e[i] = b[Nth(new, i - Len(d))].name
      <4>1. Len(d) + (i - Len(d)) = i
        BY <3>1
      <4>. QED
        BY <1>8, <3>2, <4>1
    <3>5. k \notin 1 .. Len(d) => e[k] = b[Nth(new, k - Len(d))].name
      <4>1. Len(d) + (k - Len(d)) = k
        BY <3>1
      <4>. QED
        BY <1>8, <3>3, <4>1
    <3>6. CASE i \in 1 .. Len(d) /\ k \in 1 .. Len(d)
      BY <1>7, <2>3, <3>6 DEF Distinct
    <3>7. CASE i \in 1 .. Len(d) /\ k \notin 1 .. Len(d)
      BY <1>7, <2>2, <2>3, <3>3, <3>5, <3>7
    <3>8. CASE i \notin 1 .. Len(d) /\ k \in 1 .. Len(d)
      BY <1>7, <2>2, <2>3, <3>2, <3>4, <3>8
    <3>9. CASE i \notin 1 .. Len(d) /\ k \notin 1 .. Len(d)
      <4>1. i - Len(d) = k - Len(d)
        BY <2>1, <2>3, <3>2, <3>3, <3>4, <3>5, <3>9
      <4>. QED
        BY <4>1, <3>1
    <3>. QED
      BY <3>6, <3>7, <3>8, <3>9
  <2>. QED
    BY <2>3 DEF Distinct
<1>11. ASSUME NEW i \in 1 .. Len(b), b[i].name # None
       PROVE  b[i].name \in Known(e)
  <2>1. CASE b[i].name \in Known(d)
    BY <1>3, <1>7, <2>1 DEF Known
  <2>2. CASE b[i].name \notin Known(d)
    <3>. DEFINE T == { k \in 1 .. Len(b) : b[k].name = b[i].name }
    <3>1. PICK k \in T : \A m \in T : k <= m
      <4>1. T \in SUBSET Nat /\ i \in T
        OBVIOUS
      <4>2. T # {}
        BY <4>1
      <4>. HIDE DEF T
      <4>. QED
        BY <4>1, <4>2, LeastNatural
    <3>2. k \in new
      BY <1>11, <2>2, <3>1 DEF NewNames, new
    <3>3. Rank(new, k) \in 1 .. c /\ Nth(new, Rank(new, k)) = k
      BY <1>3, <1>4, <3>2
    <3>4. b[i].name = e[Len(d) + Rank(new, k)]
      BY <1>8, <3>3
    <3>5. Len(d) + Rank(new, k) \in 1 .. Len(e)
      BY <1>3, <1>7, <3>3
    <3>. QED
      BY <3>4, <3>5 DEF Known
  <2>. QED
    BY <2>1, <2>2
<1>12. Extended(d, b) = e
  BY DEF Extended, e, names, c, new
<1>. QED
  BY <1>7, <1>9, <1>10, <1>11, <1>12

(* The memtable after a batch has, under every key, what it had before or  *)
(* the last tick of the batch with that key.                               *)
LEMMA PutRow ==
    ASSUME NEW m, NEW ticks, Len(ticks) \in Nat, NEW k \in Key
    PROVE  \/ /\ \A i \in 1 .. Len(ticks) : ticks[i].key # k
              /\ Put(m, ticks)[k] = m[k]
           \/ \E i \in 1 .. Len(ticks) :
                /\ ticks[i].key = k /\ Put(m, ticks)[k] = ticks[i].ver
                /\ \A n \in 1 .. Len(ticks) : ticks[n].key = k => n <= i
<1>. DEFINE mine == { i \in 1 .. Len(ticks) : ticks[i].key = k }
            last == CHOOSE i \in mine : \A n \in mine : n <= i
<1>1. Put(m, ticks)[k] = IF mine = {} THEN m[k] ELSE ticks[last].ver
  BY DEF Put
<1>2. CASE mine = {}
  BY <1>1, <1>2
<1>3. CASE mine # {}
  <2>1. \E i \in mine : \A n \in mine : n <= i
    <3>1. mine \in SUBSET (1 .. Len(ticks))
      OBVIOUS
    <3>. HIDE DEF mine
    <3>. QED
      BY <1>3, <3>1, LastPosition
  <2>2. last \in mine /\ \A n \in mine : n <= last
    BY <2>1
  <2>3. Put(m, ticks)[k] = ticks[last].ver
    BY <1>1, <1>3
  <2>. HIDE DEF last
  <2>. QED
    BY <2>2, <2>3
<1>. QED
  BY <1>2, <1>3

----------------------------------------------------------------------------

\* A job when the primary's log has n records.
JobType(n) ==
    [pc : {"idle", "load", "read", "name", "store"} \cup Handling,
     after : 0 .. n, batch : Seq(Entry), url : Nat \ {0}, ok : BOOLEAN, gave : BOOLEAN]

(* What is known of a deployment and of a record.                          *)
LEMMA Types ==
    ASSUME TypeOK
    PROVE  /\ conf.urls \in Seq(Replica) /\ conf.limit \in Nat \ {0}
           /\ log \in Seq([pair : Symbol \X Timestamp, id : Id])
           /\ Len(log) \in 0 .. MaxTicks /\ MaxTicks \in Nat
           /\ \A v \in 1 .. Len(log) :
                /\ log[v].id \in Id /\ log[v].pair \in Symbol \X Timestamp
                /\ log[v].pair[1] \in Symbol /\ log[v].pair[2] \in Timestamp
           /\ job \in [Job -> JobType(Len(log))]
<1>1. conf \in Deployment
  BY ReplicationAssumption DEF TypeOK
<1>2. conf.urls \in Seq(Replica) /\ conf.limit \in Nat \ {0}
  BY <1>1 DEF Deployment
<1>3. /\ log \in Seq([pair : Symbol \X Timestamp, id : Id])
      /\ Len(log) \in 0 .. MaxTicks /\ MaxTicks \in Nat
  BY ReplicationAssumption DEF TypeOK
<1>4. \A v \in 1 .. Len(log) :
        /\ log[v].id \in Id /\ log[v].pair \in Symbol \X Timestamp
        /\ log[v].pair[1] \in Symbol /\ log[v].pair[2] \in Timestamp
  <2>. DEFINE R == [pair : Symbol \X Timestamp, id : Id]
  <2>1. \A v \in 1 .. Len(log) : log[v] \in R
    <3>1. log \in Seq(R)
      BY <1>3
    <3>. HIDE DEF R
    <3>. QED
      BY <3>1
  <2>2. \A p \in Symbol \X Timestamp : p[1] \in Symbol /\ p[2] \in Timestamp
    OBVIOUS
  <2>. QED
    BY <2>1, <2>2
<1>5. job \in [Job -> JobType(Len(log))]
  BY DEF TypeOK, JobType
<1>. QED
  BY <1>2, <1>3, <1>4, <1>5

(* A page is a run of records that follows a sequence number.              *)
LEMMA Page ==
    ASSUME TypeOK, NEW a \in 0 .. Len(log)
    PROVE  LET b == EntriesAfter(a)
           IN  /\ b \in Seq(Entry) /\ BatchOK(b)
               /\ b # << >> => b[1].seq = a + 1
<1>. DEFINE n == IF Len(log) - a < conf.limit THEN Len(log) - a ELSE conf.limit
            entry(i) == [seq |-> a + i, id |-> log[a + i].id, ts |-> log[a + i].pair[2],
                         name |-> None]
            b == [i \in 1 .. n |-> entry(i)]
<1>1. n \in Nat /\ n <= Len(log) - a
  BY Types
<1>2. \A i \in 1 .. n : a + i \in 1 .. Len(log)
  BY <1>1, Types
<1>3. \A i \in 1 .. n : entry(i) \in Entry
  BY <1>2, Types DEF Entry, Sequence
<1>. HIDE DEF n
<1>4. b \in Seq(Entry) /\ Len(b) = n /\ \A i \in 1 .. n : b[i] = entry(i)
  <2>. HIDE DEF entry
  <2>. QED
    BY <1>1, <1>3
<1>. HIDE DEF b
<1>5. b # << >> => 1 \in 1 .. n
  BY <1>1, <1>4
<1>6. BatchOK(b)
  <2>1. /\ Len(b) = n /\ n \in Nat /\ a \in Nat /\ Len(log) \in Nat
        /\ \A i \in 1 .. n : a + i \in 1 .. Len(log)
    BY <1>1, <1>2, <1>4, Types
  <2>2. \A i \in 1 .. n : b[i].seq = a + i /\ b[i].id = log[a + i].id /\ b[i].ts = log[a + i].pair[2]
    BY <1>4
  <2>3. \A i \in 1 .. n : 1 \in 1 .. n /\ a + i = (a + 1) + i - 1
    BY <2>1
  <2>. HIDE DEF entry
  <2>4. ASSUME NEW i \in 1 .. n
        PROVE  /\ b[i].seq = b[1].seq + i - 1 /\ b[i].seq <= Len(log)
               /\ b[i].id = log[b[i].seq].id /\ b[i].ts = log[b[i].seq].pair[2]
    <3>1. b[i].seq = a + i /\ b[i].id = log[a + i].id /\ b[i].ts = log[a + i].pair[2] /\ b[1].seq = a + 1
      BY <2>2, <2>3
    <3>2. b[i].seq = b[1].seq + i - 1
      BY <2>3, <3>1
    <3>3. b[i].seq <= Len(log)
      BY <2>1, <3>1
    <3>. QED
      BY <3>1, <3>2, <3>3
  <2>. QED
    BY <2>1, <2>4 DEF BatchOK
<1>7. b # << >> => b[1].seq = a + 1
  BY <1>4, <1>5
<1>8. EntriesAfter(a) = b
  BY DEF EntriesAfter, b, n
<1>. QED
  BY <1>4, <1>6, <1>7, <1>8

(* The ticks that a batch is resolved to.                                  *)
LEMMA ResolvedTicks ==
    ASSUME NEW d, NEW b \in Seq(Entry)
    PROVE  /\ Len(Resolved(d, b)) = Len(b) /\ Len(b) \in Nat
           /\ \A i \in 1 .. Len(b) :
                /\ Resolved(d, b)[i].ver = b[i].seq
                /\ b[i].name # None => Resolved(d, b)[i].key = << get_id(d, b[i].name), b[i].ts >>
           /\ \A i \in 1 .. Len(b) : b[i].seq \in 1 .. MaxTicks /\ b[i].name \in Symbol \cup {None}
           /\ \A n \in 0 .. Len(b) :
                /\ Len(SubSeq(Resolved(d, b), 1, n)) = n
                /\ \A i \in 1 .. n : SubSeq(Resolved(d, b), 1, n)[i] = Resolved(d, b)[i]
<1>1. \A i \in 1 .. Len(b) : b[i].seq \in 1 .. MaxTicks /\ b[i].name \in Symbol \cup {None}
  <2>1. \A i \in 1 .. Len(b) : b[i] \in Entry
    OBVIOUS
  <2>2. \A x \in Entry : x.seq \in 1 .. MaxTicks /\ x.name \in Symbol \cup {None}
    BY DEF Entry, Sequence
  <2>. QED
    BY <2>1, <2>2
<1>. DEFINE T(i) == [key |-> << IF b[i].name = None THEN b[i].id ELSE get_id(d, b[i].name),
                                b[i].ts >>,
                     ver |-> b[i].seq]
            t == [i \in 1 .. Len(b) |-> T(i)]
<1>2. Len(b) \in Nat
  OBVIOUS
<1>3. t \in Seq({ T(i) : i \in 1 .. Len(b) }) /\ Len(t) = Len(b)
  <2>. DEFINE S == { T(i) : i \in 1 .. Len(b) }
  <2>1. \A i \in 1 .. Len(b) : T(i) \in S
    OBVIOUS
  <2>. HIDE DEF T, S
  <2>2. t \in Seq(S) /\ Len(t) = Len(b)
    BY <1>2, <2>1
  <2>. QED
    BY <2>2 DEF S
<1>4. \A n \in 0 .. Len(b) :
        Len(SubSeq(t, 1, n)) = n /\ \A i \in 1 .. n : SubSeq(t, 1, n)[i] = t[i]
  <2>. HIDE DEF t
  <2>. QED
    BY <1>2, <1>3
<1>5. Resolved(d, b) = t
  BY DEF Resolved
<1>6. \A i \in 1 .. Len(b) :
        t[i].ver = b[i].seq /\ (b[i].name # None => t[i].key = << get_id(d, b[i].name), b[i].ts >>)
  OBVIOUS
<1>. HIDE DEF t
<1>. QED
  BY <1>1, <1>2, <1>3, <1>4, <1>5, <1>6

(* A memtable stays one.                                                   *)
LEMMA PutType ==
    ASSUME NEW m \in [Key -> 0 .. MaxTicks], NEW ticks, Len(ticks) \in Nat,
           \A i \in 1 .. Len(ticks) : ticks[i].ver \in 1 .. MaxTicks
    PROVE  Put(m, ticks) \in [Key -> 0 .. MaxTicks]
<1>1. ASSUME NEW k \in Key
      PROVE  Put(m, ticks)[k] \in 0 .. MaxTicks
  <2>1. MaxTicks \in Nat
    BY ReplicationAssumption
  <2>. QED
    BY <2>1, PutRow
<1>2. Put(m, ticks) = [k \in Key |-> Put(m, ticks)[k]]
  BY DEF Put
<1>. QED
  BY <1>1, <1>2

----------------------------------------------------------------------------

(***************************************************************************)
(* What no step takes away.                                                *)
(***************************************************************************)
Progress ==
    /\ conf' = conf
    /\ Len(log) <= Len(log') /\ Len(log') \in Nat
    /\ \A v \in 1 .. Len(log) : log'[v] = log[v]
    /\ restarted \subseteq restarted' /\ (refused => refused')
    /\ \A r \in Replica :
        /\ rlog[r] \subseteq rlog'[r]
        /\ Clean(r)' => Clean(r) /\ Known(rdict[r]) \subseteq Known(rdict'[r])
        /\ \A v \in 1 .. Len(log) : Has(r, v) => Has(r, v)'

(* A job works at a replica.                                               *)
LEMMA JobPlace ==
    ASSUME TypeOK, NEW j \in Job, JobShape(j)
    PROVE  /\ Targets(j) \subseteq Replica
           /\ job[j].pc # "idle" => At(j) \in Targets(j)
           /\ job[j].batch \in Seq(Entry) /\ job[j].after \in 0 .. Len(log)
           /\ \A i \in 1 .. Len(job[j].batch) : job[j].batch[i].seq \in 1 .. Len(log)
           /\ job[j].batch # << >> => /\ Len(job[j].batch) \in Nat \ {0}
                                      /\ job[j].batch[1].seq \in 1 .. Len(log)
                                      /\ job[j].batch[Len(job[j].batch)].seq \in 1 .. Len(log)
<1>1. conf.urls \in Seq(Replica) /\ job \in [Job -> JobType(Len(log))] /\ Len(log) \in Nat
  BY Types
<1>2. Targets(j) \subseteq Replica
  BY <1>1 DEF Targets
<1>3. job[j].pc # "idle" => At(j) \in Targets(j)
  BY <1>1 DEF At, Targets, JobShape, Job
<1>4. job[j].batch \in Seq(Entry) /\ job[j].after \in 0 .. Len(log)
  BY <1>1 DEF JobType
<1>5. \A i \in 1 .. Len(job[j].batch) : job[j].batch[i].seq \in 1 .. Len(log)
  <2>1. \A i \in 1 .. Len(job[j].batch) : job[j].batch[i].seq \in 1 .. MaxTicks
    BY <1>4, ResolvedTicks
  <2>2. \A i \in 1 .. Len(job[j].batch) : job[j].batch[i].seq <= Len(log)
    BY DEF JobShape, BatchOK
  <2>3. MaxTicks \in Nat
    BY ReplicationAssumption
  <2>. QED
    BY <1>1, <2>1, <2>2, <2>3
<1>6. job[j].batch # << >> => Len(job[j].batch) \in Nat \ {0}
  BY <1>4
<1>. QED
  BY <1>2, <1>3, <1>4, <1>5, <1>6

\* A job that rests: at most its client has given up.
Rests(j) ==
    /\ job'[j].pc = job[j].pc /\ job'[j].after = job[j].after /\ job'[j].batch = job[j].batch
    /\ job'[j].url = job[j].url /\ job'[j].ok = job[j].ok

(* What holds of logs, batches and replicas goes on to hold.               *)
LEMMA Carried ==
    ASSUME TypeOK, Progress
    PROVE  /\ \A n \in 0 .. Len(log) : \A r \in Replica : HasTo(r, n) => HasTo(r, n)'
           /\ \A b \in Seq(Entry) : BatchOK(b) =>
                /\ BatchOK(b)'
                /\ Named(b) => Named(b)'
                /\ \A r \in Replica : /\ HasBatch(r, b) => HasBatch(r, b)'
                                      /\ LoggedAt(r, b) => LoggedAt(r, b)'
           /\ \A j \in Job : Targets(j)' = Targets(j)
<1>1. Len(log) \in Nat /\ Len(log') \in Nat /\ Len(log) <= Len(log') /\ MaxTicks \in Nat
  BY Types DEF Progress
<1>2. \A n \in 0 .. Len(log) : \A r \in Replica : HasTo(r, n) => HasTo(r, n)'
  <2>1. \A n \in 0 .. Len(log) : \A v \in 1 .. n : v \in 1 .. Len(log)
    BY <1>1
  <2>. QED
    BY <2>1 DEF Progress, HasTo
<1>3. ASSUME NEW b \in Seq(Entry), BatchOK(b)
      PROVE  /\ BatchOK(b)' /\ (Named(b) => Named(b)')
             /\ \A r \in Replica : /\ HasBatch(r, b) => HasBatch(r, b)'
                                   /\ LoggedAt(r, b) => LoggedAt(r, b)'
  <2>1. \A i \in 1 .. Len(b) : b[i].seq \in 1 .. MaxTicks /\ b[i].seq <= Len(log)
    BY <1>3, ResolvedTicks DEF BatchOK
  <2>2. \A i \in 1 .. Len(b) : b[i].seq \in 1 .. Len(log) /\ b[i].seq <= Len(log')
    BY <1>1, <2>1
  <2>3. \A i \in 1 .. Len(b) : log'[b[i].seq] = log[b[i].seq]
    BY <2>2 DEF Progress
  <2>4. BatchOK(b)'
    BY <1>3, <2>2, <2>3 DEF BatchOK
  <2>5. Named(b) => Named(b)'
    BY <2>3 DEF Named
  <2>6. \A r \in Replica : HasBatch(r, b) => HasBatch(r, b)'
    BY <2>2 DEF Progress, HasBatch
  <2>7. \A r \in Replica : LoggedAt(r, b) => LoggedAt(r, b)'
    BY DEF Progress, LoggedAt
  <2>. QED
    BY <2>4, <2>5, <2>6, <2>7
<1>4. \A j \in Job : Targets(j)' = Targets(j)
  BY DEF Progress, Targets
<1>. QED
  BY <1>2, <1>3, <1>4

(* What holds of a job goes on to hold while the job rests.                *)
LEMMA JobStays ==
    ASSUME TypeOK, Progress, NEW j \in Job, JobOK(j), Rests(j)
    PROVE  JobOK(j)'
<1>1. PICK b : b = job[j].batch
  OBVIOUS
<1>2. /\ Targets(j) \subseteq Replica
      /\ job[j].pc # "idle" => At(j) \in Targets(j)
      /\ b \in Seq(Entry) /\ job[j].after \in 0 .. Len(log)
      /\ b # << >> => b[1].seq \in 1 .. Len(log)
      /\ BatchOK(b)
  BY <1>1, JobPlace DEF JobOK, JobShape
<1>3. Targets(j)' = Targets(j) /\ At(j)' = At(j) /\ conf' = conf
  BY DEF Progress, Targets, At, Rests
<1>4. JobShape(j)'
  <2>1. BatchOK(b)' /\ (Named(b) => Named(b)')
    BY <1>2, Carried
  <2>. QED
    BY <1>1, <1>3, <2>1 DEF Progress, JobOK, JobShape, Handling, Rests
<1>5. JobHere(j)'
  <2>1. \A r \in Replica : /\ HasBatch(r, b) => HasBatch(r, b)'
                           /\ LoggedAt(r, b) => LoggedAt(r, b)'
    BY <1>2, Carried
  <2>. QED
    BY <1>1, <1>2, <1>3, <2>1 DEF JobOK, JobHere, Rests
<1>6. JobFront(j) => JobFront(j)'
  <2>1. b # << >> => b[1].seq - 1 \in 0 .. Len(log)
    BY <1>2, Types
  <2>2. \A n \in 0 .. Len(log) : \A r \in Replica : HasTo(r, n) => HasTo(r, n)'
    BY Carried
  <2>. QED
    BY <1>1, <1>2, <1>3, <2>1, <2>2 DEF JobFront, Rests
<1>7. JobDone(j) => JobDone(j)'
  <2>1. \A u \in 1 .. Len(conf.urls) : conf.urls[u] \in Replica
    BY Types
  <2>2. \A r \in Replica : HasBatch(r, b) => HasBatch(r, b)'
    BY <1>2, Carried
  <2>. QED
    BY <1>1, <1>3, <2>1, <2>2 DEF JobDone, Handling, Rests
<1>. QED
  BY <1>4, <1>5, <1>6, <1>7 DEF JobOK, Progress

(* A job that has ended.                                                   *)
LEMMA JobEnds ==
    ASSUME NEW j \in Job, job'[j] = Idle
    PROVE  JobOK(j)'
<1>1. /\ job'[j].pc = "idle" /\ job'[j].batch = << >> /\ Len(job'[j].batch) = 0
      /\ job'[j].url = 1
      /\ "idle" \notin Handling \cup {"store", "load", "read"}
  BY DEF Idle, Handling
<1>2. JobShape(j)'
  BY <1>1 DEF JobShape, BatchOK, Handling
<1>3. JobHere(j)' /\ JobFront(j)' /\ JobDone(j)'
  BY <1>1 DEF JobHere, JobFront, JobDone, Handling
<1>. QED
  BY <1>2, <1>3 DEF JobOK

(* The fronts stay where they are.                                         *)
LEMMA FrontsStay ==
    ASSUME TypeOK, Progress, Fronts, applied' = applied, pushed' = pushed
    PROVE  Fronts'
<1>1. Len(log) \in Nat /\ conf.urls \in Seq(Replica) /\ pushed \in 0 .. Len(log)
      /\ \A r \in Replica : applied[r] \in 0 .. Len(log)
  BY Types DEF TypeOK
<1>2. \A r \in Replica, n \in 0 .. Len(log) : HasTo(r, n) => HasTo(r, n)'
  <2>1. \A n \in 0 .. Len(log) : \A v \in 1 .. n : v \in 1 .. Len(log)
    BY <1>1
  <2>. QED
    BY <2>1 DEF Progress, HasTo
<1>3. \A u \in 1 .. Len(conf.urls) : conf.urls[u] \in Replica
  BY <1>1
<1>. QED
  BY <1>1, <1>2, <1>3 DEF Fronts, Progress

(* A step of one job leaves the others as they are.                        *)
LEMMA OneJob ==
    ASSUME Inv, Progress, NEW j \in Job, JobOK(j)', \A i \in Job \ {j} : job'[i] = job[i]
    PROVE  \A i \in Job : JobOK(i)'
<1>1. ASSUME NEW i \in Job \ {j}
      PROVE  JobOK(i)'
  BY JobStays DEF Inv, Rests
<1>. QED
  BY <1>1

\* A step that changes jobs, trackers and counters only.
Quiet == UNCHANGED << conf, log, dict, rdict, rlog, replay, rmem, late, restarted >>

(* Such a step takes nothing away.                                         *)
LEMMA QuietStep ==
    ASSUME Inv, Quiet, refused => refused'
    PROVE  /\ Progress /\ DictOK' /\ \A r \in Replica : ReplicaOK(r)'
           /\ \A n : \A r \in Replica : HasTo(r, n) => HasTo(r, n)'
           /\ \A b : \A r \in Replica : HasBatch(r, b) => HasBatch(r, b)'
           /\ \A b : /\ BatchOK(b) => BatchOK(b)'
                     /\ Named(b) => Named(b)'
                     /\ \A r \in Replica : LoggedAt(r, b) => LoggedAt(r, b)'
           /\ \A j \in Job : Targets(j)' = Targets(j)
<1>1. Len(log) \in Nat
  BY Types DEF Inv
<1>2. Progress
  BY <1>1 DEF Quiet, Progress, Has, Serves, Clean, TickKey
<1>3. DictOK'
  BY DEF Inv, Quiet, DictOK, Distinct
<1>4. \A r \in Replica : ReplicaOK(r)'
  BY DEF Inv, Quiet, ReplicaOK, RowsOK, Distinct, Clean, TickKey
<1>5. \A n : \A r \in Replica : HasTo(r, n) => HasTo(r, n)'
  BY DEF Quiet, HasTo, Has, Serves, Clean, TickKey
<1>6. \A b : \A r \in Replica : HasBatch(r, b) => HasBatch(r, b)'
  BY DEF Quiet, HasBatch, Has, Serves, Clean, TickKey
<1>7. \A b : /\ BatchOK(b) => BatchOK(b)'
             /\ Named(b) => Named(b)'
             /\ \A r \in Replica : LoggedAt(r, b) => LoggedAt(r, b)'
  BY DEF Quiet, BatchOK, Named, LoggedAt, Clean
<1>8. \A j \in Job : Targets(j)' = Targets(j)
  BY DEF Quiet, Targets
<1>. QED
  BY <1>2, <1>3, <1>4, <1>5, <1>6, <1>7, <1>8

(* The types after such a step.                                            *)
LEMMA QuietTypes ==
    ASSUME Inv, Quiet, job' \in [Job -> JobType(Len(log))], \A j \in Job : JobOK(j)',
           pushed' \in 0 .. Len(log), applied' \in [Replica -> 0 .. Len(log)],
           refused' \in BOOLEAN, faults' \in 0 .. MaxFaults
    PROVE  TypeOK'
<1>1. \A t \in Task : job'[t].pc \in {"store"} \cup Handling => job'[t].url \in 1 .. Len(conf'.urls)
  BY DEF JobOK, JobShape, Job, Handling
<1>. QED
  BY <1>1 DEF Inv, TypeOK, Quiet, JobType

(* A quiet step of one job that moves no front.                            *)
LEMMA QuietInv ==
    ASSUME Inv, Quiet, NEW j \in Job, JobOK(j)', \A i \in Job \ {j} : job'[i] = job[i],
           job' \in [Job -> JobType(Len(log))],
           pushed' = pushed, applied' = applied, refused' = refused, faults' \in 0 .. MaxFaults
    PROVE  Inv'
<1>1. Progress /\ DictOK' /\ \A r \in Replica : ReplicaOK(r)'
  BY QuietStep
<1>2. Fronts'
  BY <1>1, FrontsStay DEF Inv
<1>3. \A i \in Job : JobOK(i)'
  BY <1>1, OneJob
<1>4. TypeOK'
  BY <1>3, QuietTypes DEF Inv, TypeOK
<1>. QED
  BY <1>1, <1>2, <1>3, <1>4 DEF Inv

(* A fault is counted.                                                     *)
LEMMA FaultType ==
    ASSUME TypeOK, Fault
    PROVE  faults' \in 0 .. MaxFaults
BY ReplicationAssumption DEF TypeOK, Fault

----------------------------------------------------------------------------

(***************************************************************************)
(* The steps, one lemma per action.                                        *)
(***************************************************************************)

(* A push task loads last_pushed_seq.                                      *)
LEMMA LoadStep ==
    ASSUME Inv, NEW t \in Task, load(t)
    PROVE  Inv'
<1>1. t \in Job /\ TypeOK /\ JobOK(t) /\ job \in [Job -> JobType(Len(log))]
      /\ pushed \in 0 .. Len(log)
  BY Types DEF Inv, TypeOK, Job
<1>2. /\ job[t].pc = "load" /\ Quiet
      /\ job' = [job EXCEPT ![t].after = pushed, ![t].pc = "read"]
      /\ pushed' = pushed /\ applied' = applied /\ refused' = refused /\ faults' = faults
  BY DEF load, Quiet, primary, replicas, history
<1>3. Progress /\ DictOK' /\ \A r \in Replica : ReplicaOK(r)'
  BY <1>2, QuietStep
<1>4. /\ job'[t].pc = "read" /\ job'[t].after = pushed /\ job'[t].batch = job[t].batch
      /\ job'[t].url = job[t].url /\ job' \in [Job -> JobType(Len(log))]
      /\ \A i \in Job \ {t} : job'[i] = job[i]
  BY <1>1, <1>2 DEF JobType
<1>5. JobOK(t)'
  <2>1. "read" \notin Handling /\ "load" \notin Handling
    BY DEF Handling
  <2>2. /\ JobShape(t)' /\ JobHere(t)' /\ JobDone(t)'
    BY <1>1, <1>2, <1>4, <2>1, SMTT(60) DEF JobOK, JobShape, JobHere, JobDone, BatchOK, Quiet, Handling
  <2>3. ~refused' => JobFront(t)'
    <3>1. Targets(t)' = { conf.urls[u] : u \in 1 .. Len(conf.urls) } /\ Targets(t) = Targets(t)'
      BY <1>2, ReplicationAssumption DEF Targets, Quiet
    <3>2. ~refused' => \A r \in Targets(t) : HasTo(r, pushed)
      BY <1>2, <3>1 DEF Inv, Fronts
    <3>3. Targets(t) \subseteq Replica
      BY <1>1, JobPlace DEF JobOK
    <3>4. \A n : \A r \in Targets(t) : HasTo(r, n) => HasTo(r, n)'
      BY <1>2, <3>3, QuietStep
    <3>. QED
      BY <1>1, <1>2, <1>4, <3>1, <3>2, <3>4 DEF JobFront, JobOK
  <2>. QED
    BY <2>2, <2>3 DEF JobOK
<1>. QED
  BY <1>1, <1>2, <1>4, <1>5, QuietInv DEF Inv, TypeOK

(* The sync loop of a replica starts a round.                              *)
LEMMA SyncStep ==
    ASSUME Inv, NEW r \in Replica, sync(r)
    PROVE  Inv'
<1>1. r \in Job /\ TypeOK /\ JobOK(r) /\ job \in [Job -> JobType(Len(log))]
      /\ applied[r] \in 0 .. Len(log) /\ r \notin Task
  BY Types, ReplicationAssumption DEF Inv, TypeOK, Job
<1>2. /\ job[r].pc = "idle" /\ Quiet
      /\ job' = [job EXCEPT ![r].after = applied[r], ![r].pc = "read"]
      /\ pushed' = pushed /\ applied' = applied /\ refused' = refused /\ faults' = faults
  BY DEF sync, Quiet, primary, replicas, history
<1>3. /\ job'[r].pc = "read" /\ job'[r].after = applied[r] /\ job'[r].batch = job[r].batch
      /\ job'[r].url = job[r].url /\ job' \in [Job -> JobType(Len(log))]
      /\ \A i \in Job \ {r} : job'[i] = job[i]
  BY <1>1, <1>2 DEF JobType
<1>4. JobOK(r)'
  <2>1. "read" \notin Handling
    BY DEF Handling
  <2>2. /\ JobShape(r)' /\ JobHere(r)' /\ JobDone(r)'
    BY <1>1, <1>2, <1>3, <2>1, SMTT(60) DEF JobOK, JobShape, JobHere, JobDone, BatchOK, Quiet, Handling
  <2>3. ~refused' => JobFront(r)'
    <3>1. Targets(r)' = {r} /\ Targets(r) = {r}
      BY DEF Targets
    <3>2. ~refused' => HasTo(r, applied[r])
      BY <1>2 DEF Inv, Fronts
    <3>3. \A n : HasTo(r, n) => HasTo(r, n)'
      BY <1>2, QuietStep
    <3>. QED
      BY <1>1, <1>2, <1>3, <3>1, <3>2, <3>3 DEF JobFront, JobOK
  <2>. QED
    BY <2>2, <2>3 DEF JobOK
<1>. QED
  BY <1>1, <1>2, <1>3, <1>4, QuietInv DEF TypeOK

(* The primary's log is read.                                              *)
LEMMA ReadStep ==
    ASSUME Inv, NEW j \in Job, read_wal(j)
    PROVE  Inv'
<1>1. TypeOK /\ JobOK(j) /\ job \in [Job -> JobType(Len(log))]
  BY Types DEF Inv
<1>2. PICK a \in 0 .. Len(log) : a = job[j].after
  BY <1>1 DEF JobType
<1>3. PICK b \in Seq(Entry) : b = EntriesAfter(a)
  BY <1>1, Page
<1>4. BatchOK(b) /\ (b # << >> => b[1].seq = a + 1)
  BY <1>1, <1>3, Page
<1>5. /\ job[j].pc = "read" /\ Quiet
      /\ job' = [job EXCEPT ![j].batch = b, ![j].after = 0, ![j].pc = "name"]
      /\ pushed' = pushed /\ applied' = applied /\ refused' = refused /\ faults' = faults
  BY <1>2, <1>3 DEF read_wal, Quiet, primary, replicas, history
<1>6. /\ job'[j].pc = "name" /\ job'[j].batch = b /\ job'[j].url = job[j].url
      /\ job' \in [Job -> JobType(Len(log))]
      /\ \A i \in Job \ {j} : job'[i] = job[i]
  <2>1. 0 \in 0 .. Len(log)
    BY <1>1, Types
  <2>. QED
    BY <1>1, <1>5, <2>1 DEF JobType
<1>7. JobOK(j)'
  <2>1. "name" \notin Handling /\ "read" \notin Handling
    BY DEF Handling
  <2>2. BatchOK(b)'
    BY <1>4, <1>5, QuietStep
  <2>3. JobShape(j)' /\ JobHere(j)' /\ JobDone(j)'
    BY <1>1, <1>5, <1>6, <2>1, <2>2 DEF JobOK, JobShape, JobHere, JobDone, Quiet, Handling
  <2>4. ~refused' => JobFront(j)'
    <3>1. Targets(j)' = Targets(j) /\ Targets(j) \subseteq Replica
      BY <1>1, <1>5, QuietStep, JobPlace DEF JobOK
    <3>2. ~refused' => \A r \in Targets(j) : HasTo(r, a)'
      BY <1>1, <1>2, <1>5, <3>1, QuietStep DEF JobOK, JobFront
    <3>3. b # << >> => b[1].seq - 1 = a
      BY <1>1, <1>4, Types
    <3>. QED
      BY <1>6, <3>1, <3>2, <3>3 DEF JobFront
  <2>. QED
    BY <2>3, <2>4 DEF JobOK
<1>. QED
  BY <1>5, <1>6, <1>7, QuietInv DEF Inv, TypeOK

(* A job is dropped.                                                       *)
LEMMA Dropped ==
    ASSUME TypeOK, NEW j \in Job, Drop(j)
    PROVE  /\ job' \in [Job -> JobType(Len(log))] /\ JobOK(j)'
           /\ \A i \in Job \ {j} : job'[i] = job[i]
<1>1. Idle \in JobType(Len(log))
  <2>1. 0 \in 0 .. Len(log) /\ << >> \in Seq(Entry)
    BY Types
  <2>. QED
    BY <2>1 DEF Idle, JobType
<1>2. job \in [Job -> JobType(Len(log))] /\ job' = [job EXCEPT ![j] = Idle]
  BY Types DEF Drop
<1>3. job'[j] = Idle
  BY <1>2
<1>. QED
  BY <1>1, <1>2, <1>3, JobEnds

(* The entries of a page get their names.                                  *)
LEMMA NameStep ==
    ASSUME Inv, NEW j \in Job, name_entries(j)
    PROVE  Inv'
<1>1. TypeOK /\ JobOK(j) /\ job \in [Job -> JobType(Len(log))] /\ Len(log) \in Nat
  BY Types DEF Inv
<1>2. PICK b \in Seq(Entry) : b = job[j].batch
  BY <1>1 DEF JobType
<1>3. /\ job[j].pc = "name" /\ Quiet
      /\ pushed' = pushed /\ applied' = applied /\ refused' = refused /\ faults' = faults
  BY DEF name_entries, Quiet, primary, replicas, history
<1>4. CASE b = << >>
  <2>1. Drop(j)
    BY <1>2, <1>4 DEF name_entries
  <2>. QED
    BY <1>1, <1>3, <2>1, Dropped, QuietInv DEF TypeOK
<1>5. CASE b # << >>
  <2>. DEFINE named == [i \in 1 .. Len(b) |-> [b[i] EXCEPT !.name = name_of(dict, b[i].id)]]
  <2>1. \A i \in 1 .. Len(b) : b[i] \in Entry
    OBVIOUS
  <2>2. \A id : name_of(dict, id) \in Symbol \cup {None}
    BY DEF Inv, TypeOK, name_of
  <2>3. \A i \in 1 .. Len(b) :
          LET e == [b[i] EXCEPT !.name = name_of(dict, b[i].id)]
          IN  /\ e \in Entry /\ e.seq = b[i].seq /\ e.id = b[i].id /\ e.ts = b[i].ts
              /\ e.name = name_of(dict, b[i].id)
    BY <2>1, <2>2 DEF Entry
  <2>4. named \in Seq(Entry) /\ Len(named) = Len(b) /\ Len(b) \in Nat \ {0}
    BY <1>5, <2>3
  <2>5. PICK c \in Seq(Entry) : c = named
    BY <2>4
  <2>6. /\ c # << >> /\ Len(c) = Len(b) /\ 1 \in 1 .. Len(b)
        /\ \A i \in 1 .. Len(b) : /\ c[i].seq = b[i].seq /\ c[i].id = b[i].id /\ c[i].ts = b[i].ts
                                  /\ c[i].name = name_of(dict, b[i].id)
    <3>1. \A i \in 1 .. Len(b) : c[i] = [b[i] EXCEPT !.name = name_of(dict, b[i].id)]
      BY <2>5
    <3>2. c # << >> /\ Len(c) = Len(b) /\ 1 \in 1 .. Len(b)
      <4>. HIDE DEF named
      <4>. QED
        BY <2>4, <2>5
    <3>. QED
      BY <2>3, <3>1, <3>2
  <2>7. job' = [job EXCEPT ![j].batch = c, ![j].pc = "log"]
    BY <1>2, <1>5, <2>5 DEF name_entries
  <2>8. /\ job'[j].pc = "log" /\ job'[j].batch = c /\ job'[j].url = job[j].url
        /\ job' \in [Job -> JobType(Len(log))]
        /\ \A i \in Job \ {j} : job'[i] = job[i]
    BY <1>1, <2>7 DEF JobType, Handling
  <2>9. BatchOK(c)'
    <3>1. BatchOK(b)
      BY <1>1, <1>2 DEF JobOK, JobShape
    <3>2. BatchOK(c)
      BY <2>6, <3>1 DEF BatchOK
    <3>. QED
      BY <1>3, <3>2, QuietStep
  <2>10. "primary" \notin restarted' => Named(c)'
    <3>1. \A i \in 1 .. Len(b) : b[i].seq \in 1 .. Len(log) /\ b[i].id = log[b[i].seq].id
      BY <1>1, <1>2, JobPlace DEF JobOK, JobShape, BatchOK
    <3>2. "primary" \notin restarted => Named(c)
      <4>1. DictOK
        BY DEF Inv
      <4>2. ASSUME "primary" \notin restarted, NEW i \in 1 .. Len(b)
            PROVE  c[i].name = log[c[i].seq].pair[1]
        <5>1. PICK v \in 1 .. Len(log) : v = b[i].seq /\ b[i].id = log[v].id
          BY <3>1
        <5>2. log[v].id + 1 \in 1 .. Len(dict) /\ dict[log[v].id + 1] = log[v].pair[1]
          BY <4>1, <4>2 DEF DictOK
        <5>3. name_of(dict, b[i].id) = log[v].pair[1]
          BY <5>1, <5>2 DEF name_of
        <5>4. c[i].seq = b[i].seq /\ c[i].name = name_of(dict, b[i].id)
          BY <2>6
        <5>. QED
          BY <5>1, <5>3, <5>4
      <4>3. Len(c) = Len(b)
        BY <2>6
      <4>. QED
        BY <4>2, <4>3 DEF Named
    <3>. QED
      BY <1>3, <3>2, QuietStep DEF Quiet
  <2>11. JobShape(j)' /\ JobHere(j)'
    BY <1>1, <1>3, <2>6, <2>8, <2>9, <2>10 DEF JobOK, JobShape, JobHere, Quiet, Handling
  <2>12. ~refused' => JobFront(j)' /\ JobDone(j)'
    <3>1. Targets(j)' = Targets(j) /\ Targets(j) \subseteq Replica
      BY <1>1, <1>3, QuietStep, JobPlace DEF JobOK
    <3>2. ~refused' => \A r \in Targets(j) : HasTo(r, c[1].seq - 1)'
      <4>1. ~refused' => \A r \in Targets(j) : HasTo(r, b[1].seq - 1)
        BY <1>1, <1>2, <1>3, <1>5 DEF JobOK, JobFront
      <4>2. c[1].seq = b[1].seq
        BY <2>6
      <4>. QED
        BY <1>3, <3>1, <4>1, <4>2, QuietStep
    <3>3. ~refused' => JobFront(j)'
      BY <2>8, <3>1, <3>2 DEF JobFront
    <3>4. JobDone(j)'
      <4>1. j \in Task => job[j].url = 1
        BY <1>1, <1>3 DEF JobOK, JobShape, Handling
      <4>. QED
        BY <2>8, <4>1 DEF JobDone
    <3>. QED
      BY <3>3, <3>4
  <2>. QED
    BY <1>1, <1>3, <2>8, <2>11, <2>12, QuietInv DEF JobOK, TypeOK
<1>. QED
  BY <1>4, <1>5

(* A request or an answer is lost.                                         *)
LEMMA LostStep ==
    ASSUME Inv, NEW j \in Job, lost(j)
    PROVE  Inv'
<1>1. /\ Drop(j) /\ Fault /\ Quiet
      /\ pushed' = pushed /\ applied' = applied /\ refused' = refused
  BY DEF lost, Quiet, primary, replicas, history
<1>. QED
  BY <1>1, Dropped, FaultType, QuietInv DEF Inv

(* The client of a post gives up.                                          *)
LEMMA GiveUpStep ==
    ASSUME Inv, NEW t \in Task, give_up(t)
    PROVE  Inv'
<1>1. /\ Fault /\ Quiet /\ job' = [job EXCEPT ![t].gave = TRUE]
      /\ pushed' = pushed /\ applied' = applied /\ refused' = refused
  BY DEF give_up, Quiet, primary, replicas, history
<1>2. t \in Job /\ TypeOK /\ JobOK(t) /\ job \in [Job -> JobType(Len(log))]
  BY Types DEF Inv, Job
<1>3. /\ job'[t].pc = job[t].pc /\ job'[t].batch = job[t].batch /\ job'[t].url = job[t].url
      /\ job'[t].after = job[t].after /\ job'[t].ok = job[t].ok
      /\ job' \in [Job -> JobType(Len(log))]
      /\ \A i \in Job \ {t} : job'[i] = job[i]
  BY <1>1, <1>2 DEF JobType
<1>4. JobOK(t)'
  BY <1>1, <1>2, <1>3, QuietStep, JobStays DEF Rests
<1>. QED
  BY <1>1, <1>2, <1>3, <1>4, FaultType, QuietInv

(* A replica that has what comes before a batch, and the batch, has        *)
(* everything up to the last record of the batch.                          *)
LEMMA BatchFront ==
    ASSUME TypeOK, NEW b \in Seq(Entry), b # << >>, BatchOK(b), NEW r,
           HasBatch(r, b), HasTo(r, b[1].seq - 1)
    PROVE  HasTo(r, b[Len(b)].seq)
<1>1. Len(b) \in Nat \ {0} /\ 1 \in 1 .. Len(b) /\ Len(b) \in 1 .. Len(b)
  OBVIOUS
<1>2. b[1].seq \in Nat \ {0}
  <2>1. \A i \in 1 .. Len(b) : b[i].seq \in 1 .. MaxTicks
    BY ResolvedTicks
  <2>2. MaxTicks \in Nat
    BY ReplicationAssumption
  <2>. QED
    BY <1>1, <2>1, <2>2
<1>3. \A i \in 1 .. Len(b) : b[i].seq = b[1].seq + i - 1
  BY DEF BatchOK
<1>4. b[Len(b)].seq = b[1].seq + Len(b) - 1
  BY <1>1, <1>3
<1>5. ASSUME NEW v \in 1 .. b[Len(b)].seq
      PROVE  Has(r, v)
  <2>1. CASE v < b[1].seq
    BY <1>1, <1>2, <1>4, <2>1 DEF HasTo
  <2>2. CASE v >= b[1].seq
    <3>1. PICK i \in 1 .. Len(b) : i = v - b[1].seq + 1
      BY <1>1, <1>2, <1>4, <2>2
    <3>2. b[i].seq = b[1].seq + i - 1
      BY <1>3
    <3>3. b[i].seq = v
      BY <1>1, <1>2, <1>4, <3>1, <3>2
    <3>. QED
      BY <3>3 DEF HasBatch
  <2>. QED
    BY <1>1, <1>2, <1>4, <2>1, <2>2
<1>. QED
  BY <1>5 DEF HasTo

(* A push task stores last_pushed_seq: every replica has its batch, or one *)
(* has refused it.                                                         *)
LEMMA StoreStep ==
    ASSUME Inv, NEW t \in Task, store(t)
    PROVE  Inv'
<1>1. /\ job[t].pc = "store" /\ Drop(t) /\ Quiet
      /\ pushed' = job[t].batch[Len(job[t].batch)].seq /\ refused' = (refused \/ ~job[t].ok)
      /\ applied' = applied /\ faults' = faults
  BY DEF store, Quiet, replicas
<1>2. t \in Job /\ TypeOK /\ JobOK(t) /\ job \in [Job -> JobType(Len(log))]
  BY Types DEF Inv, Job
<1>3. PICK b : b = job[t].batch
  OBVIOUS
<1>4. /\ b \in Seq(Entry) /\ b # << >> /\ BatchOK(b)
      /\ b[Len(b)].seq \in 1 .. Len(log)
  BY <1>1, <1>2, <1>3, JobPlace DEF JobOK, JobShape
<1>5. refused' \in BOOLEAN /\ (refused => refused') /\ (~refused' => ~refused /\ job[t].ok)
  BY <1>1, <1>2 DEF TypeOK, JobType
<1>6. Progress /\ DictOK' /\ \A r \in Replica : ReplicaOK(r)'
  BY <1>1, <1>5, QuietStep
<1>7. \A i \in Job : JobOK(i)'
  BY <1>1, <1>2, <1>6, Dropped, OneJob
<1>8. TypeOK'
  <2>1. pushed' \in 0 .. Len(log)
    BY <1>1, <1>2, <1>3, <1>4, Types
  <2>2. applied' \in [Replica -> 0 .. Len(log)] /\ faults' \in 0 .. MaxFaults
    BY <1>1, <1>2 DEF TypeOK
  <2>3. job' \in [Job -> JobType(Len(log))]
    BY <1>1, <1>2, Dropped
  <2>. QED
    BY <1>1, <1>5, <1>7, <2>1, <2>2, <2>3, QuietTypes
<1>9. Fronts'
  <2>1. \A n : \A r \in Replica : HasTo(r, n) => HasTo(r, n)'
    BY <1>1, <1>5, QuietStep
  <2>2. ~refused' => \A r \in Replica : HasTo(r, applied[r])'
    BY <1>1, <1>5, <2>1 DEF Inv, Fronts
  <2>3. ASSUME ~refused', NEW u \in 1 .. Len(conf.urls)
        PROVE  HasTo(conf.urls[u], pushed)'
    <3>1. PICK r \in Replica : r = conf.urls[u]
      BY <1>2, Types
    <3>2. HasBatch(r, b)
      BY <1>1, <1>2, <1>3, <1>5, <2>3, <3>1 DEF JobOK, JobDone
    <3>3. HasTo(r, b[1].seq - 1)
      <4>1. r \in Targets(t)
        BY <3>1, ReplicationAssumption DEF Targets
      <4>. QED
        BY <1>2, <1>3, <1>4, <1>5, <2>3, <4>1 DEF JobOK, JobFront
    <3>4. PICK n : n = b[Len(b)].seq
      OBVIOUS
    <3>5. HasTo(r, n)'
      BY <1>2, <1>4, <2>1, <3>2, <3>3, <3>4, BatchFront
    <3>6. pushed' = n /\ conf' = conf
      BY <1>1, <1>3, <3>4 DEF Quiet
    <3>. QED
      BY <3>1, <3>5, <3>6
  <2>4. conf' = conf
    BY <1>1 DEF Quiet
  <2>. QED
    BY <2>2, <2>3, <2>4 DEF Fronts
<1>. QED
  BY <1>6, <1>7, <1>8, <1>9 DEF Inv

(* A handler ends, the batch being there if it ends well.                  *)
LEMMA FinishStep ==
    ASSUME Inv, Progress, NEW j \in Job, job[j].pc \in Handling, NEW ok \in BOOLEAN,
           Finish(j, ok), ok => HasBatch(At(j), job[j].batch)
    PROVE  /\ job' \in [Job -> JobType(Len(log))] /\ JobOK(j)'
           /\ \A i \in Job \ {j} : job'[i] = job[i]
<1>1. TypeOK /\ JobOK(j) /\ job \in [Job -> JobType(Len(log))] /\ conf.urls \in Seq(Replica)
      /\ Task \cap Replica = {} /\ conf' = conf
  BY Types, ReplicationAssumption DEF Inv, Progress
<1>2. CASE j \in Replica \/ job[j].gave
  <2>1. Drop(j)
    BY <1>1, <1>2 DEF Finish
  <2>. QED
    BY <1>1, <2>1, Dropped
<1>3. CASE ~(j \in Replica \/ job[j].gave)
  <2>1. j \in Task /\ j \notin Replica /\ ~job[j].gave
    BY <1>1, <1>3 DEF Job
  <2>2. PICK u : u = job[j].url
    OBVIOUS
  <2>3. PICK b : b = job[j].batch
    OBVIOUS
  <2>4. /\ u \in 1 .. Len(conf.urls) /\ Len(conf.urls) \in Nat
        /\ b \in Seq(Entry) /\ b # << >> /\ BatchOK(b) /\ b[1].seq \in 1 .. Len(log)
        /\ At(j) = conf.urls[u] /\ Targets(j) \subseteq Replica
        /\ job[j].ok \in BOOLEAN /\ job[j].pc # "idle" /\ job[j].pc # "store" /\ job[j].pc # "read"
    BY <1>1, <2>1, <2>2, <2>3, JobPlace DEF JobOK, JobShape, Handling, At, JobType
  <2>0. PICK o \in BOOLEAN : o = (job[j].ok /\ ok)
    BY Zenon
  <2>5. \/ /\ u < Len(conf.urls)
           /\ job' = [job EXCEPT ![j].url = u + 1, ![j].pc = "log", ![j].ok = o]
        \/ /\ u = Len(conf.urls)
           /\ job' = [job EXCEPT ![j].pc = "store", ![j].ok = o]
    <3>1. CASE u < Len(conf.urls)
      BY <2>0, <2>1, <2>2, <3>1 DEF Finish
    <3>2. CASE ~(u < Len(conf.urls))
      <4>1. u = Len(conf.urls)
        BY <2>4, <3>2
      <4>. QED
        BY <2>0, <2>1, <2>2, <3>2, <4>1 DEF Finish
    <3>. QED
      BY <3>1, <3>2
  <2>6. /\ job' \in [Job -> JobType(Len(log))]
        /\ \A i \in Job \ {j} : job'[i] = job[i]
        /\ job'[j].batch = b /\ job'[j].ok = o
        /\ \/ u < Len(conf.urls) /\ job'[j].pc = "log" /\ job'[j].url = u + 1
           \/ u = Len(conf.urls) /\ job'[j].pc = "store" /\ job'[j].url = u
    <3>1. u + 1 \in Nat \ {0}
      BY <2>4
    <3>2. CASE /\ u < Len(conf.urls)
               /\ job' = [job EXCEPT ![j].url = u + 1, ![j].pc = "log", ![j].ok = o]
      <4>1. PICK w \in Nat \ {0} : w = u + 1
        BY <3>1
      <4>2. job' = [job EXCEPT ![j].url = w, ![j].pc = "log", ![j].ok = o]
        BY <3>2, <4>1
      <4>3. /\ job' \in [Job -> JobType(Len(log))]
            /\ \A i \in Job \ {j} : job'[i] = job[i]
            /\ job'[j].batch = b /\ job'[j].ok = o /\ job'[j].pc = "log" /\ job'[j].url = w
        <5>1. JobType(Len(log)) = [pc : {"idle", "load", "read", "name", "store"} \cup Handling, after : 0 .. Len(log),
                                   batch : Seq(Entry), url : Nat \ {0}, ok : BOOLEAN, gave : BOOLEAN]
          BY DEF JobType
        <5>2. job \in [Job -> JobType(Len(log))] /\ "log" \in Handling
          BY <1>1 DEF Handling
        <5>3. [job[j] EXCEPT !.url = w, !.pc = "log", !.ok = o] \in JobType(Len(log))
          <6>1. PICK x \in JobType(Len(log)) : x = job[j]
            BY <5>2
          <6>2. [x EXCEPT !.url = w, !.pc = "log", !.ok = o] \in JobType(Len(log))
            BY <5>2, <6>1 DEF JobType
          <6>. QED
            BY <6>1, <6>2
        <5>4. /\ job' \in [Job -> JobType(Len(log))]
              /\ \A i \in Job \ {j} : job'[i] = job[i]
          BY <4>2, <5>2, <5>3
        <5>5. job[j].batch = b /\ job[j] \in JobType(Len(log))
          BY <2>3, <5>2
        <5>6. DOMAIN job[j] = {"pc", "after", "batch", "url", "ok", "gave"}
          BY <5>1, <5>5
        <5>7. job'[j] = [job[j] EXCEPT !.url = w, !.pc = "log", !.ok = o]
          BY <4>2, <5>2
        <5>. QED
          BY <5>4, <5>5, <5>6, <5>7
      <4>. QED
        BY <3>2, <4>1, <4>3
    <3>3. CASE /\ u = Len(conf.urls)
               /\ job' = [job EXCEPT ![j].pc = "store", ![j].ok = o]
      BY <1>1, <2>2, <2>3, <3>3, ZenonT(60) DEF JobType, Handling
    <3>. QED
      BY <2>5, <3>2, <3>3
  <2>7. BatchOK(b)' /\ (Named(b) => Named(b)') /\ Targets(j)' = Targets(j)
        /\ \A r \in Replica : HasBatch(r, b) => HasBatch(r, b)'
    BY <1>1, <2>4, Carried
  <2>8. JobShape(j)'
    <3>1. "primary" \notin restarted' => Named(b)'
      BY <1>1, <2>3, <2>7 DEF JobOK, JobShape, Progress
    <3>. QED
      BY <1>1, <2>1, <2>4, <2>6, <2>7, <3>1 DEF JobShape, Handling
  <2>9. JobHere(j)'
    BY <2>6 DEF JobHere
  <2>10. ~refused' => JobFront(j)'
    <3>1. ~refused' => \A r \in Targets(j) : HasTo(r, b[1].seq - 1)
      BY <1>1, <2>3, <2>4 DEF JobOK, JobFront, Progress
    <3>2. PICK n \in 0 .. Len(log) : n = b[1].seq - 1
      BY <1>1, <2>4, Types
    <3>3. ~refused' => \A r \in Targets(j) : HasTo(r, n)'
      BY <1>1, <2>4, <3>1, <3>2, Carried
    <3>. QED
      BY <2>6, <2>7, <3>2, <3>3 DEF JobFront
  <2>11. ~refused' => JobDone(j)'
    <3>1. ASSUME ~refused', job'[j].ok, NEW v \in 1 .. Len(conf.urls),
                 v < job'[j].url \/ job'[j].pc = "store"
          PROVE  HasBatch(conf.urls[v], b)'
      <4>1. v < u \/ v = u
        BY <2>4, <2>6, <3>1
      <4>2. job[j].ok /\ ok /\ ~refused /\ conf.urls[v] \in Replica
        <5>1. o = TRUE
          BY <2>6, <3>1
        <5>2. job[j].ok /\ ok
          BY <2>0, <5>1, Zenon
        <5>. QED
          BY <1>1, <3>1, <5>2 DEF Progress
      <4>3. CASE v < u
        BY <1>1, <2>1, <2>2, <2>3, <2>7, <4>2, <4>3 DEF JobOK, JobDone
      <4>4. CASE v = u
        <5>1. HasBatch(At(j), b)
          BY <2>3, <4>2
        <5>2. At(j) = conf.urls[v]
          BY <2>4, <4>4
        <5>3. HasBatch(conf.urls[v], b)
          BY <5>1, <5>2
        <5>. QED
          BY <1>1, <2>7, <4>2, <5>3
      <4>. QED
        BY <4>1, <4>3, <4>4
    <3>. QED
      BY <1>1, <2>6, <3>1 DEF JobDone
  <2>. QED
    BY <2>6, <2>8, <2>9, <2>10, <2>11 DEF JobOK
<1>. QED
  BY <1>2, <1>3

(* A replica moves its tracker to the end of a batch.                      *)
LEMMA AdvanceStep ==
    ASSUME Inv, NEW j \in Job, apply_advance(j)
    PROVE  Inv'
<1>1. /\ job[j].pc = "advance" /\ Quiet /\ Finish(j, TRUE)
      /\ pushed' = pushed /\ refused' = refused /\ faults' = faults
  BY DEF apply_advance, Quiet, primary, history
<1>2. TypeOK /\ JobOK(j) /\ Progress /\ DictOK' /\ \A r \in Replica : ReplicaOK(r)'
  BY <1>1, QuietStep DEF Inv
<1>3. PICK b : b = job[j].batch
  OBVIOUS
<1>4. PICK q : q = At(j)
  OBVIOUS
<1>5. /\ q \in Targets(j) /\ q \in Replica /\ HasBatch(q, b)
      /\ b \in Seq(Entry) /\ b # << >> /\ BatchOK(b) /\ b[Len(b)].seq \in 1 .. Len(log)
  BY <1>1, <1>2, <1>3, <1>4, JobPlace DEF JobOK, JobShape, JobHere, Handling
<1>6. PICK n : n = b[Len(b)].seq
  OBVIOUS
<1>7. /\ applied' = [applied EXCEPT ![q] = advance(applied[q], n)]
      /\ advance(applied[q], n) \in {applied[q], n}
      /\ n \in 1 .. Len(log) /\ applied \in [Replica -> 0 .. Len(log)]
  BY <1>2, <1>3, <1>4, <1>5, <1>6 DEF apply_advance, advance, TypeOK
<1>8. /\ job' \in [Job -> JobType(Len(log))] /\ JobOK(j)'
      /\ \A i \in Job \ {j} : job'[i] = job[i]
  BY <1>1, <1>2, <1>3, <1>4, <1>5, FinishStep DEF Handling
<1>9. \A i \in Job : JobOK(i)'
  BY <1>2, <1>8, OneJob
<1>10. TypeOK'
  <2>1. pushed' \in 0 .. Len(log) /\ refused' \in BOOLEAN /\ faults' \in 0 .. MaxFaults
    BY <1>1, <1>2 DEF TypeOK
  <2>2. applied' \in [Replica -> 0 .. Len(log)]
    <3>1. n \in 0 .. Len(log)
      BY <1>2, <1>7, Types
    <3>. QED
      BY <1>5, <1>7, <3>1
  <2>. QED
    BY <1>1, <1>8, <1>9, <2>1, <2>2, QuietTypes
<1>11. Fronts'
  <2>1. \A m : \A r \in Replica : HasTo(r, m) => HasTo(r, m)'
    BY <1>1, QuietStep
  <2>2. ASSUME ~refused'
        PROVE  HasTo(q, n)
    <3>1. HasTo(q, b[1].seq - 1)
      BY <1>1, <1>2, <1>3, <1>5, <2>2 DEF JobOK, JobFront
    <3>. QED
      BY <1>2, <1>5, <1>6, <3>1, BatchFront
  <2>3. ASSUME ~refused', NEW r \in Replica
        PROVE  HasTo(r, applied[r])'
    <3>1. PICK m : m = applied'[r]
      OBVIOUS
    <3>2. HasTo(r, m)
      BY <1>1, <1>5, <1>7, <2>2, <2>3, <3>1 DEF Inv, Fronts
    <3>3. HasTo(r, m)'
      BY <2>1, <3>2
    <3>. QED
      BY <3>1, <3>3
  <2>4. ASSUME ~refused', NEW u \in 1 .. Len(conf.urls)
        PROVE  HasTo(conf.urls[u], pushed)'
    <3>1. PICK r \in Replica : r = conf.urls[u]
      BY <1>2, Types
    <3>2. HasTo(r, pushed)
      BY <1>1, <2>4, <3>1 DEF Inv, Fronts
    <3>3. HasTo(r, pushed)'
      BY <1>1, <2>1, <3>2
    <3>. QED
      BY <1>1, <3>1, <3>3 DEF Quiet
  <2>5. conf' = conf
    BY <1>1 DEF Quiet
  <2>. QED
    BY <2>3, <2>4, <2>5 DEF Fronts
<1>. QED
  BY <1>2, <1>9, <1>10, <1>11 DEF Inv

(* A replica extends its dictionary and logs the beginning of a batch.     *)
LEMMA LogStep ==
    ASSUME Inv, NEW q \in Replica, NEW b \in Seq(Entry), BatchOK(b),
           rdict' = [rdict EXCEPT ![q] = Extended(rdict[q], b)],
           NEW n \in 0 .. Len(b), NEW ticks, Len(ticks) = n,
           \A i \in 1 .. n : ticks[i] = Resolved(rdict'[q], b)[i],
           Log(q, ticks),
           UNCHANGED << conf, log, dict, pushed, rmem, applied, refused, late, restarted >>
    PROVE  /\ Progress /\ DictOK' /\ Fronts' /\ \A r \in Replica : ReplicaOK(r)'
           /\ rdict' \in [Replica -> Seq(Symbol)]
           /\ rlog' \in [Replica -> SUBSET (1 .. Len(log))]
           /\ replay' \in [Replica -> [Key -> 0 .. MaxTicks]]
           /\ \A i \in 1 .. n : b[i].seq \in rlog'[q]
           /\ \A i \in 1 .. Len(b) : b[i].name # None => b[i].name \in Known(rdict'[q])
<1>1. TypeOK /\ Len(log) \in Nat /\ MaxTicks \in Nat /\ Len(b) \in Nat
  BY Types DEF Inv
<1>2. PICK d : d = rdict[q]
  OBVIOUS
<1>3. PICK e : e = Extended(d, b)
  OBVIOUS
<1>4. /\ rdict \in [Replica -> Seq(Symbol)] /\ d \in Seq(Symbol) /\ Distinct(d)
      /\ \A r \in Replica : Distinct(rdict[r])
  BY <1>1, <1>2 DEF Inv, TypeOK, ReplicaOK
<1>5. /\ e \in Seq(Symbol) /\ Distinct(e) /\ Grows(d, e)
      /\ \A i \in 1 .. Len(b) : b[i].name # None => b[i].name \in Known(e)
  BY <1>3, <1>4, ExtendNames
<1>6. /\ rdict' = [rdict EXCEPT ![q] = e] /\ rdict'[q] = e
      /\ \A r \in Replica : r # q => rdict'[r] = rdict[r]
  BY <1>2, <1>3, <1>4
<1>7. ASSUME NEW r \in Replica, NEW s \in Known(rdict[r])
      PROVE  s \in Known(rdict'[r]) /\ get_id(rdict'[r], s) = get_id(rdict[r], s)
  <2>1. CASE r = q
    BY <1>2, <1>4, <1>5, <1>6, <2>1, IdsStay
  <2>2. CASE r # q
    BY <1>6, <2>2
  <2>. QED
    BY <2>1, <2>2
<1>8. \A i \in 1 .. n : /\ i \in 1 .. Len(b) /\ ticks[i].ver = b[i].seq
                        /\ b[i].seq \in 1 .. MaxTicks /\ b[i].seq \in 1 .. Len(log)
  <2>1. \A i \in 1 .. n : i \in 1 .. Len(b)
    BY <1>1
  <2>2. \A i \in 1 .. Len(b) : Resolved(rdict'[q], b)[i].ver = b[i].seq /\ b[i].seq \in 1 .. MaxTicks
    BY ResolvedTicks
  <2>3. \A i \in 1 .. Len(b) : b[i].seq <= Len(log)
    BY DEF BatchOK
  <2>. QED
    BY <1>1, <2>1, <2>2, <2>3
<1>9. /\ rlog \in [Replica -> SUBSET (1 .. Len(log))]
      /\ rlog' = [rlog EXCEPT ![q] = rlog[q] \cup { ticks[i].ver : i \in 1 .. n }]
      /\ { ticks[i].ver : i \in 1 .. n } \subseteq 1 .. Len(log)
      /\ \A i \in 1 .. n : b[i].seq \in { ticks[k].ver : k \in 1 .. n }
  <2>1. rlog \in [Replica -> SUBSET (1 .. Len(log))]
    BY <1>1 DEF TypeOK
  <2>2. rlog' = [rlog EXCEPT ![q] = rlog[q] \cup { ticks[i].ver : i \in 1 .. n }]
    BY DEF Log
  <2>. QED
    BY <1>8, <2>1, <2>2
<1>10. /\ rlog' \in [Replica -> SUBSET (1 .. Len(log))]
       /\ \A r \in Replica : rlog[r] \subseteq rlog'[r]
       /\ \A i \in 1 .. n : b[i].seq \in rlog'[q]
  BY <1>9
<1>11. replay' \in [Replica -> [Key -> 0 .. MaxTicks]]
  <2>1. replay \in [Replica -> [Key -> 0 .. MaxTicks]]
    BY <1>1 DEF TypeOK
  <2>2. Put(replay[q], ticks) \in [Key -> 0 .. MaxTicks]
    <3>1. PICK m \in [Key -> 0 .. MaxTicks] : m = replay[q]
      BY <2>1
    <3>2. Len(ticks) \in Nat /\ \A i \in 1 .. Len(ticks) : ticks[i].ver \in 1 .. MaxTicks
      BY <1>1, <1>8
    <3>. QED
      BY <3>1, <3>2, PutType
  <2>3. replay' = [replay EXCEPT ![q] = Put(replay[q], ticks)]
    BY DEF Log
  <2>. QED
    BY <2>1, <2>2, <2>3
<1>12. Progress
  <2>1. \A r \in Replica : Clean(r)' => Clean(r) /\ Known(rdict[r]) \subseteq Known(rdict'[r])
    BY <1>7 DEF Clean
  <2>2. ASSUME NEW r \in Replica, NEW v \in 1 .. Len(log), Has(r, v)
        PROVE  Has(r, v)'
    <3>1. Serves(r, v) => Serves(r, v)'
      BY <1>7 DEF Serves, TickKey
    <3>. QED
      BY <1>10, <2>1, <2>2, <3>1 DEF Has
  <2>. QED
    BY <1>1, <1>10, <2>1, <2>2 DEF Progress
<1>13. Fronts'
  BY <1>1, <1>12, FrontsStay DEF Inv
<1>14. DictOK'
  BY DEF Inv, DictOK, Distinct
<1>15. ASSUME NEW r \in Replica
       PROVE  ReplicaOK(r)'
  <2>1. Distinct(rdict[r])'
    <3>1. CASE r = q
      BY <1>5, <1>6, <3>1 DEF Distinct
    <3>2. CASE r # q
      BY <1>4, <1>6, <3>2 DEF Distinct
    <3>. QED
      BY <3>1, <3>2
  <2>2. Clean(r)' => RowsOK(r)'
    <3>1. Clean(r)' => RowsOK(r)
      BY DEF Inv, ReplicaOK, Clean
    <3>2. RowsOK(r) => RowsOK(r)'
      <4>1. SUFFICES ASSUME RowsOK(r), NEW k \in Key, rmem[r][k] # 0
                     PROVE  LET w == rmem[r][k]
                            IN  /\ w \in 1 .. Len(log)
                                /\ log[w].pair[1] \in Known(rdict'[r])
                                /\ k = TickKey(rdict'[r], log[w].pair)
        BY DEF RowsOK
      <4>2. PICK w : w = rmem[r][k]
        OBVIOUS
      <4>3. /\ w \in 1 .. Len(log) /\ log[w].pair[1] \in Known(rdict[r])
            /\ k = TickKey(rdict[r], log[w].pair)
        BY <4>1, <4>2 DEF RowsOK
      <4>4. /\ log[w].pair[1] \in Known(rdict'[r])
            /\ get_id(rdict'[r], log[w].pair[1]) = get_id(rdict[r], log[w].pair[1])
        BY <1>7, <4>3
      <4>. QED
        BY <4>2, <4>3, <4>4 DEF TickKey
    <3>. QED
      BY <3>1, <3>2
  <2>. QED
    BY <2>1, <2>2 DEF ReplicaOK
<1>. QED
  BY <1>4, <1>5, <1>6, <1>10, <1>11, <1>12, <1>13, <1>14, <1>15

(* A replica logs a batch.                                                 *)
LEMMA ApplyLogStep ==
    ASSUME Inv, NEW j \in Job, apply_log(j)
    PROVE  Inv'
<1>1. job[j].pc = "log" /\ Goto(j, "memtable")
      /\ UNCHANGED << conf, log, dict, pushed, rmem, applied, refused, late, restarted, faults >>
  BY DEF apply_log, primary, history
<1>2. TypeOK /\ JobOK(j) /\ job \in [Job -> JobType(Len(log))]
  BY Types DEF Inv
<1>3. PICK b : b = job[j].batch
  OBVIOUS
<1>4. PICK q : q = At(j)
  OBVIOUS
<1>5. /\ q \in Targets(j) /\ q \in Replica /\ Targets(j) \subseteq Replica
      /\ b \in Seq(Entry) /\ b # << >> /\ BatchOK(b) /\ b[1].seq \in 1 .. Len(log)
  BY <1>1, <1>2, <1>3, <1>4, JobPlace DEF JobOK, JobShape, Handling
<1>6. PICK ticks : ticks = Resolved(rdict'[q], b)
  OBVIOUS
<1>7. Len(ticks) = Len(b) /\ Len(b) \in 0 .. Len(b)
  BY <1>5, <1>6, ResolvedTicks
<1>8. rdict' = [rdict EXCEPT ![q] = Extended(rdict[q], b)] /\ Log(q, ticks)
  BY <1>3, <1>4, <1>6 DEF apply_log
<1>9. /\ Progress /\ DictOK' /\ Fronts' /\ \A r \in Replica : ReplicaOK(r)'
      /\ rdict' \in [Replica -> Seq(Symbol)]
      /\ rlog' \in [Replica -> SUBSET (1 .. Len(log))]
      /\ replay' \in [Replica -> [Key -> 0 .. MaxTicks]]
      /\ \A i \in 1 .. Len(b) : b[i].seq \in rlog'[q]
      /\ \A i \in 1 .. Len(b) : b[i].name # None => b[i].name \in Known(rdict'[q])
  BY <1>1, <1>5, <1>6, <1>7, <1>8, LogStep
<1>10. /\ job'[j].pc = "memtable" /\ job'[j].batch = b /\ job'[j].url = job[j].url
       /\ job'[j].after = job[j].after /\ job'[j].ok = job[j].ok
       /\ job' \in [Job -> JobType(Len(log))]
       /\ \A i \in Job \ {j} : job'[i] = job[i]
  BY <1>1, <1>2, <1>3 DEF Goto, JobType, Handling
<1>11. BatchOK(b)' /\ (Named(b) => Named(b)') /\ Targets(j)' = Targets(j)
       /\ \A r \in Replica : HasBatch(r, b) => HasBatch(r, b)'
  BY <1>2, <1>5, <1>9, Carried
<1>12. JobShape(j)'
  BY <1>1, <1>2, <1>3, <1>5, <1>10, <1>11 DEF JobOK, JobShape, Handling
<1>13. JobHere(j)'
  <2>1. At(j)' = q
    BY <1>1, <1>4, <1>10 DEF At
  <2>2. LoggedAt(q, b)'
    <3>1. Clean(q)' => Named(b)
      BY <1>1, <1>2, <1>3 DEF Clean, JobOK, JobShape, Handling
    <3>2. \A i \in 1 .. Len(b) : b[i].seq \in 1 .. Len(log)
      BY <1>1, <1>2, <1>3, JobPlace DEF JobOK
    <3>3. \A i \in 1 .. Len(b) : Named(b) => b[i].name \in Symbol
      BY <1>2, <3>2, Types DEF Named
    <3>4. \A i \in 1 .. Len(b) : Clean(q)' => b[i].name \in Known(rdict'[q])
      BY <1>9, <3>1, <3>3, ReplicationAssumption
    <3>. QED
      BY <1>9, <3>4 DEF LoggedAt
  <2>. QED
    BY <1>10, <2>1, <2>2 DEF JobHere
<1>14. ~refused' => JobFront(j)' /\ JobDone(j)'
  <2>1. PICK n \in 0 .. Len(log) : n = b[1].seq - 1
    BY <1>2, <1>5, Types
  <2>2. ~refused' => \A r \in Targets(j) : HasTo(r, n)'
    <3>1. ~refused' => \A r \in Targets(j) : HasTo(r, n)
      BY <1>1, <1>2, <1>3, <1>5, <2>1 DEF JobOK, JobFront
    <3>. QED
      BY <1>2, <1>5, <1>9, <3>1, Carried
  <2>3. ~refused' => JobFront(j)'
    BY <1>10, <1>11, <2>1, <2>2 DEF JobFront
  <2>4. \A u \in 1 .. Len(conf.urls) : conf.urls[u] \in Replica
    BY <1>2, Types
  <2>5. ~refused' => JobDone(j)'
    BY <1>1, <1>2, <1>3, <1>10, <1>11, <2>4 DEF JobOK, JobDone, Handling
  <2>. QED
    BY <2>3, <2>5
<1>15. \A i \in Job : JobOK(i)'
  <2>1. JobOK(j)'
    BY <1>12, <1>13, <1>14 DEF JobOK
  <2>. QED
    BY <1>9, <1>10, <2>1, OneJob
<1>16. TypeOK'
  <2>1. \A t \in Task : job'[t].pc \in {"store"} \cup Handling => job'[t].url \in 1 .. Len(conf'.urls)
    BY <1>15 DEF JobOK, JobShape, Job, Handling
  <2>. QED
    BY <1>1, <1>2, <1>9, <1>10, <2>1 DEF TypeOK, JobType
<1>. QED
  BY <1>9, <1>15, <1>16 DEF Inv

(* append_batch fails at a replica.                                        *)
LEMMA ApplyErrorStep ==
    ASSUME Inv, NEW j \in Job, apply_error(j)
    PROVE  Inv'
<1>1. /\ job[j].pc = "log" /\ Finish(j, FALSE) /\ Fault
      /\ UNCHANGED << conf, log, dict, pushed, rmem, applied, refused, late, restarted >>
  BY DEF apply_error, primary, history
<1>2. TypeOK /\ JobOK(j) /\ job \in [Job -> JobType(Len(log))]
  BY Types DEF Inv
<1>3. PICK b : b = job[j].batch
  OBVIOUS
<1>4. PICK q : q = At(j)
  OBVIOUS
<1>5. q \in Replica /\ b \in Seq(Entry) /\ BatchOK(b)
  BY <1>1, <1>2, <1>3, <1>4, JobPlace DEF JobOK, JobShape
<1>6. /\ rdict' = [rdict EXCEPT ![q] = Extended(rdict[q], b)]
      /\ \E n \in 0 .. Len(b) : Log(q, SubSeq(Resolved(rdict'[q], b), 1, n))
  BY <1>3, <1>4 DEF apply_error
<1>7. PICK n \in 0 .. Len(b) : Log(q, SubSeq(Resolved(rdict'[q], b), 1, n))
  BY <1>6
<1>8. PICK ticks : ticks = SubSeq(Resolved(rdict'[q], b), 1, n)
  OBVIOUS
<1>9. Log(q, ticks) /\ Len(ticks) = n /\ \A i \in 1 .. n : ticks[i] = Resolved(rdict'[q], b)[i]
  BY <1>5, <1>7, <1>8, ResolvedTicks
<1>10. /\ Progress /\ DictOK' /\ Fronts' /\ \A r \in Replica : ReplicaOK(r)'
       /\ rdict' \in [Replica -> Seq(Symbol)]
       /\ rlog' \in [Replica -> SUBSET (1 .. Len(log))]
       /\ replay' \in [Replica -> [Key -> 0 .. MaxTicks]]
  BY <1>1, <1>5, <1>6, <1>9, LogStep
<1>11. /\ job' \in [Job -> JobType(Len(log))] /\ JobOK(j)'
       /\ \A i \in Job \ {j} : job'[i] = job[i]
  BY <1>1, <1>10, FinishStep DEF Handling
<1>12. \A i \in Job : JobOK(i)'
  BY <1>10, <1>11, OneJob
<1>13. TypeOK'
  <2>1. \A t \in Task : job'[t].pc \in {"store"} \cup Handling => job'[t].url \in 1 .. Len(conf'.urls)
    BY <1>12 DEF JobOK, JobShape, Job, Handling
  <2>2. faults' \in 0 .. MaxFaults
    BY <1>1, <1>2, FaultType
  <2>. QED
    BY <1>1, <1>2, <1>10, <1>11, <2>1, <2>2 DEF TypeOK, JobType
<1>. QED
  BY <1>10, <1>12, <1>13 DEF Inv

(* The key of a record, at a replica that knows its symbol.                *)
LEMMA KeyType ==
    ASSUME TypeOK, NEW d \in Seq(Symbol), Distinct(d), NEW v \in 1 .. Len(log),
           log[v].pair[1] \in Known(d)
    PROVE  TickKey(d, log[v].pair) \in Key
<1>1. log[v].pair[2] \in Timestamp
  BY Types
<1>2. get_id(d, log[v].pair[1]) \in 0 .. Len(d) - 1
  BY GetId
<1>3. get_id(d, log[v].pair[1]) \in Id
  BY <1>2, IdsSuffice
<1>. QED
  BY <1>1, <1>3 DEF TickKey, Key

(* A replica puts a batch into its memtable.                               *)
LEMMA ApplyMemtableStep ==
    ASSUME Inv, NEW j \in Job, apply_memtable(j)
    PROVE  Inv'
<1>1. job[j].pc = "memtable" /\ Goto(j, "advance")
      /\ UNCHANGED << conf, log, dict, pushed, rdict, rlog, replay, applied, refused, restarted, faults >>
  BY DEF apply_memtable, primary
<1>2. TypeOK /\ JobOK(j) /\ job \in [Job -> JobType(Len(log))] /\ Len(log) \in Nat /\ MaxTicks \in Nat
  BY Types DEF Inv
<1>3. PICK b : b = job[j].batch
  OBVIOUS
<1>4. PICK q : q = At(j)
  OBVIOUS
<1>5. /\ q \in Targets(j) /\ q \in Replica /\ Targets(j) \subseteq Replica
      /\ b \in Seq(Entry) /\ b # << >> /\ BatchOK(b) /\ b[1].seq \in 1 .. Len(log)
      /\ \A i \in 1 .. Len(b) : b[i].seq \in 1 .. Len(log)
      /\ LoggedAt(q, b) /\ ("primary" \notin restarted => Named(b))
  BY <1>1, <1>2, <1>3, <1>4, JobPlace DEF JobOK, JobShape, JobHere, Handling
<1>6. PICK ticks : ticks = Resolved(rdict[q], b)
  OBVIOUS
<1>7. /\ Len(ticks) = Len(b) /\ Len(ticks) \in Nat
      /\ \A i \in 1 .. Len(b) :
            /\ ticks[i].ver = b[i].seq /\ b[i].seq \in 1 .. MaxTicks
            /\ b[i].name # None => ticks[i].key = << get_id(rdict[q], b[i].name), b[i].ts >>
  BY <1>5, <1>6, ResolvedTicks
<1>8. PICK m : m = rmem[q]
  OBVIOUS
<1>9. PICK p : p = Put(m, ticks)
  OBVIOUS
<1>10. /\ rmem \in [Replica -> [Key -> 0 .. MaxTicks]] /\ m \in [Key -> 0 .. MaxTicks]
       /\ rdict \in [Replica -> Seq(Symbol)] /\ \A r \in Replica : Distinct(rdict[r])
  BY <1>2, <1>5, <1>8 DEF TypeOK, Inv, ReplicaOK
<1>11. p \in [Key -> 0 .. MaxTicks]
  BY <1>7, <1>9, <1>10, PutType
<1>12. /\ rmem' = [rmem EXCEPT ![q] = p] /\ rmem'[q] = p
       /\ rmem' \in [Replica -> [Key -> 0 .. MaxTicks]]
       /\ \A r \in Replica : r # q => rmem'[r] = rmem[r]
  <2>1. rmem' = [rmem EXCEPT ![q] = p]
    BY <1>4, <1>6, <1>3, <1>8, <1>9 DEF apply_memtable
  <2>. QED
    BY <1>5, <1>10, <1>11, <2>1
<1>13. late \subseteq late' /\ late' \subseteq Replica /\ (q \notin late' => \A k \in Key : p[k] >= m[k])
  <2>1. late' = IF \E k \in Key : p[k] < m[k] THEN late \cup {q} ELSE late
    BY <1>4, <1>8, <1>12 DEF apply_memtable
  <2>2. late \subseteq Replica
    BY <1>2 DEF TypeOK
  <2>3. \A k \in Key : p[k] \in Nat /\ m[k] \in Nat
    BY <1>10, <1>11, <1>2
  <2>. QED
    BY <1>5, <2>1, <2>2, <2>3
<1>14. \A r \in Replica : Clean(r)' => Clean(r)
  BY <1>1, <1>13 DEF Clean
<1>15. ASSUME Clean(q)', NEW i \in 1 .. Len(b)
       PROVE  /\ log[b[i].seq].pair[1] \in Known(rdict[q])
              /\ ticks[i].key = TickKey(rdict[q], log[b[i].seq].pair)
              /\ ticks[i].key \in Key
  <2>1. Clean(q) /\ "primary" \notin restarted /\ Named(b)
    BY <1>1, <1>5, <1>14, <1>15 DEF Clean
  <2>2. /\ b[i].name = log[b[i].seq].pair[1] /\ b[i].ts = log[b[i].seq].pair[2]
        /\ b[i].name \in Known(rdict[q])
    BY <1>5, <2>1 DEF Named, BatchOK, LoggedAt
  <2>3. b[i].name \in Symbol /\ b[i].name # None
    BY <1>2, <1>5, <2>2, Types, ReplicationAssumption
  <2>4. ticks[i].key = TickKey(rdict[q], log[b[i].seq].pair)
    BY <1>7, <2>2, <2>3 DEF TickKey
  <2>5. rdict[q] \in Seq(Symbol) /\ Distinct(rdict[q]) /\ b[i].seq \in 1 .. Len(log)
    BY <1>5, <1>10
  <2>. QED
    BY <1>2, <2>2, <2>4, <2>5, KeyType
<1>16. ASSUME NEW k \in Key
       PROVE  \/ p[k] = m[k] /\ \A i \in 1 .. Len(b) : ticks[i].key # k
              \/ \E i \in 1 .. Len(b) : /\ ticks[i].key = k /\ p[k] = b[i].seq
                                        /\ \A n \in 1 .. Len(b) : ticks[n].key = k => n <= i
  BY <1>7, <1>9, PutRow
<1>17. Progress
  <2>1. ASSUME NEW r \in Replica, NEW v \in 1 .. Len(log), Has(r, v)
        PROVE  Has(r, v)'
    <3>1. v \in rlog'[r]
      BY <1>1, <2>1 DEF Has
    <3>2. ASSUME Clean(r)'
          PROVE  Serves(r, v)'
      <4>1. Serves(r, v)
        BY <1>14, <2>1, <3>2 DEF Has
      <4>2. TickKey(rdict[r], log[v].pair) \in Key
        BY <1>2, <1>10, <4>1, KeyType DEF Serves
      <4>3. CASE r = q
        <5>1. PICK k \in Key : k = TickKey(rdict[r], log[v].pair)
          BY <4>2
        <5>2. p[k] >= m[k] /\ m[k] >= v
          BY <1>8, <1>13, <3>2, <4>1, <4>3, <5>1 DEF Clean, Serves
        <5>3. p[k] \in Nat /\ m[k] \in Nat
          BY <1>2, <1>10, <1>11
        <5>4. p[k] >= v
          BY <1>2, <5>2, <5>3
        <5>. QED
          BY <1>1, <1>12, <4>1, <4>3, <5>1, <5>4 DEF Serves
      <4>4. CASE r # q
        BY <1>1, <1>12, <4>1, <4>4 DEF Serves
      <4>. QED
        BY <4>3, <4>4
    <3>. QED
      BY <3>1, <3>2 DEF Has
  <2>. QED
    BY <1>1, <1>2, <1>14, <2>1 DEF Progress
<1>18. HasBatch(q, b)'
  <2>1. ASSUME NEW i \in 1 .. Len(b)
        PROVE  Has(q, b[i].seq)'
    <3>1. b[i].seq \in rlog'[q]
      BY <1>1, <1>5 DEF LoggedAt
    <3>2. ASSUME Clean(q)'
          PROVE  Serves(q, b[i].seq)'
      <4>1. PICK k \in Key : k = ticks[i].key
        BY <1>15, <3>2
      <4>2. PICK l \in 1 .. Len(b) : p[k] = b[l].seq /\ i <= l
        BY <1>16, <4>1
      <4>3. p[k] >= b[i].seq
        <5>1. b[i].seq = b[1].seq + i - 1 /\ b[l].seq = b[1].seq + l - 1
          BY <1>5 DEF BatchOK
        <5>2. b[1].seq \in Nat
          BY <1>2, <1>5
        <5>. QED
          BY <4>2, <5>1, <5>2
      <4>4. /\ log[b[i].seq].pair[1] \in Known(rdict[q])
            /\ k = TickKey(rdict[q], log[b[i].seq].pair)
        BY <1>15, <3>2, <4>1
      <4>. QED
        BY <1>1, <1>12, <4>3, <4>4 DEF Serves
    <3>. QED
      BY <3>1, <3>2 DEF Has
  <2>. QED
    BY <2>1 DEF HasBatch
<1>19. ASSUME NEW r \in Replica
       PROVE  ReplicaOK(r)'
  <2>1. Distinct(rdict[r])'
    BY <1>1, <1>10 DEF Distinct
  <2>2. ASSUME Clean(r)'
        PROVE  RowsOK(r)'
    <3>1. RowsOK(r)
      BY <1>14, <2>2 DEF Inv, ReplicaOK
    <3>2. CASE r # q
      BY <1>1, <1>12, <3>1, <3>2 DEF RowsOK
    <3>3. CASE r = q
      <4>1. ASSUME NEW k \in Key, p[k] # 0
            PROVE  /\ p[k] \in 1 .. Len(log) /\ log[p[k]].pair[1] \in Known(rdict[q])
                   /\ k = TickKey(rdict[q], log[p[k]].pair)
        <5>1. CASE p[k] = m[k]
          BY <1>8, <3>1, <3>3, <4>1, <5>1 DEF RowsOK
        <5>2. CASE \E i \in 1 .. Len(b) : ticks[i].key = k /\ p[k] = b[i].seq
          BY <1>5, <1>15, <2>2, <3>3, <5>2
        <5>. QED
          BY <1>16, <5>1, <5>2
      <4>. QED
        BY <1>1, <1>12, <3>3, <4>1 DEF RowsOK
    <3>. QED
      BY <3>2, <3>3
  <2>. QED
    BY <2>1, <2>2 DEF ReplicaOK
<1>20. DictOK' /\ Fronts'
  BY <1>1, <1>2, <1>17, FrontsStay DEF Inv, DictOK, Distinct
<1>21. /\ job'[j].pc = "advance" /\ job'[j].batch = b /\ job'[j].url = job[j].url
       /\ job'[j].after = job[j].after /\ job'[j].ok = job[j].ok
       /\ job' \in [Job -> JobType(Len(log))]
       /\ \A i \in Job \ {j} : job'[i] = job[i]
  BY <1>1, <1>2, <1>3 DEF Goto, JobType, Handling
<1>22. JobOK(j)'
  <2>1. BatchOK(b)' /\ (Named(b) => Named(b)') /\ Targets(j)' = Targets(j)
        /\ \A r \in Replica : HasBatch(r, b) => HasBatch(r, b)'
    BY <1>2, <1>5, <1>17, Carried
  <2>2. JobShape(j)'
    BY <1>1, <1>2, <1>3, <1>5, <1>21, <2>1 DEF JobOK, JobShape, Handling
  <2>3. JobHere(j)'
    <3>1. At(j)' = q
      BY <1>1, <1>4, <1>21 DEF At
    <3>. QED
      BY <1>18, <1>21, <3>1 DEF JobHere
  <2>4. PICK n \in 0 .. Len(log) : n = b[1].seq - 1
    BY <1>2, <1>5
  <2>5. ~refused' => \A r \in Targets(j) : HasTo(r, n)'
    <3>1. ~refused' => \A r \in Targets(j) : HasTo(r, n)
      BY <1>1, <1>2, <1>3, <1>5, <2>4 DEF JobOK, JobFront
    <3>. QED
      BY <1>2, <1>5, <1>17, <3>1, Carried
  <2>6. ~refused' => JobFront(j)'
    BY <1>21, <2>1, <2>4, <2>5 DEF JobFront
  <2>7. \A u \in 1 .. Len(conf.urls) : conf.urls[u] \in Replica
    BY <1>2, Types
  <2>8. ~refused' => JobDone(j)'
    BY <1>1, <1>2, <1>3, <1>21, <2>1, <2>7 DEF JobOK, JobDone, Handling
  <2>. QED
    BY <2>2, <2>3, <2>6, <2>8 DEF JobOK
<1>23. \A i \in Job : JobOK(i)'
  BY <1>17, <1>21, <1>22, OneJob
<1>24. TypeOK'
  <2>1. \A t \in Task : job'[t].pc \in {"store"} \cup Handling => job'[t].url \in 1 .. Len(conf'.urls)
    BY <1>23 DEF JobOK, JobShape, Job, Handling
  <2>. QED
    BY <1>1, <1>2, <1>12, <1>13, <1>21, <2>1 DEF TypeOK, JobType
<1>. QED
  BY <1>19, <1>20, <1>23, <1>24 DEF Inv

(* A tick is written at the primary.                                       *)
LEMMA InsertStep ==
    ASSUME Inv, NEW t \in Task, insert_tick(t)
    PROVE  Inv'
<1>1. /\ job[t].pc = "idle" /\ Len(log) < MaxTicks
      /\ UNCHANGED << conf, pushed, rdict, rlog, replay, rmem, applied, refused, late, restarted, faults >>
  BY DEF insert_tick, replicas, history
<1>2. /\ TypeOK /\ JobOK(t) /\ job \in [Job -> JobType(Len(log))] /\ Len(log) \in Nat
      /\ MaxTicks \in Nat /\ t \in Job /\ conf.urls \in Seq(Replica)
  BY Types DEF Inv, Job
<1>3. PICK pair \in Written[Len(log) + 1] :
        /\ dict' = get_or_insert(dict, pair[1])
        /\ log' = Append(log, [pair |-> pair, id |-> get_id(dict', pair[1])])
  BY DEF insert_tick
<1>4. pair \in Symbol \X Timestamp /\ pair[1] \in Symbol
  <2>1. Len(log) + 1 \in 1 .. MaxTicks
    BY <1>1, <1>2
  <2>2. pair \in Symbol \X Timestamp
    BY <2>1, ReplicationAssumption
  <2>. QED
    BY <2>2
<1>5. dict \in Seq(Symbol) /\ Distinct(dict)
  BY <1>2 DEF TypeOK, Inv, DictOK
<1>6. PICK e : e = get_or_insert(dict, pair[1])
  OBVIOUS
<1>7. e \in Seq(Symbol) /\ Distinct(e) /\ Grows(dict, e) /\ pair[1] \in Known(e)
  BY <1>4, <1>5, <1>6, InsertName
<1>8. PICK id : id = get_id(e, pair[1])
  OBVIOUS
<1>9. id \in 0 .. Len(e) - 1 /\ e[id + 1] = pair[1] /\ id \in Id /\ Len(e) \in Nat
  BY <1>7, <1>8, GetId, IdsSuffice
<1>10. /\ log' \in Seq([pair : Symbol \X Timestamp, id : Id])
       /\ Len(log') = Len(log) + 1
       /\ \A v \in 1 .. Len(log) : log'[v] = log[v]
       /\ log'[Len(log) + 1].pair = pair /\ log'[Len(log) + 1].id = id
  <2>. DEFINE R == [pair : Symbol \X Timestamp, id : Id]
  <2>1. PICK x : x = [pair |-> pair, id |-> id]
    OBVIOUS
  <2>2. x \in R /\ x.pair = pair /\ x.id = id
    BY <1>4, <1>9, <2>1
  <2>3. log \in Seq(R) /\ log' = Append(log, x)
    BY <1>2, <1>3, <1>6, <1>8, <2>1 DEF TypeOK
  <2>. HIDE DEF R
  <2>4. log' \in Seq(R) /\ Len(log') = Len(log) + 1 /\ log'[Len(log) + 1] = x
        /\ \A v \in 1 .. Len(log) : log'[v] = log[v]
    BY <2>2, <2>3
  <2>. QED
    BY <2>2, <2>4 DEF R
<1>11. Progress
  <2>1. \A r \in Replica : Clean(r)' = Clean(r)
    BY <1>1 DEF Clean
  <2>2. \A r \in Replica, v \in 1 .. Len(log) : Has(r, v) => Has(r, v)'
    BY <1>1, <1>10, <2>1 DEF Has, Serves
  <2>. QED
    BY <1>1, <1>2, <1>10, <2>1, <2>2 DEF Progress
<1>12. Fronts'
  BY <1>1, <1>2, <1>11, FrontsStay DEF Inv
<1>13. DictOK'
  <2>1. dict' = e
    BY <1>3, <1>6
  <2>2. Distinct(dict)'
    BY <1>7, <2>1 DEF Distinct
  <2>3. ASSUME "primary" \notin restarted, NEW v \in 1 .. Len(log')
        PROVE  log'[v].id + 1 \in 1 .. Len(e) /\ e[log'[v].id + 1] = log'[v].pair[1]
    <3>1. CASE v \in 1 .. Len(log)
      <4>1. log[v].id + 1 \in 1 .. Len(dict) /\ dict[log[v].id + 1] = log[v].pair[1]
        BY <2>3, <3>1 DEF Inv, DictOK
      <4>. QED
        BY <1>5, <1>7, <1>10, <3>1, <4>1 DEF Grows
    <3>2. CASE v = Len(log) + 1
      BY <1>9, <1>10, <3>2
    <3>. QED
      BY <1>2, <1>10, <3>1, <3>2
  <2>. QED
    BY <1>1, <2>1, <2>2, <2>3 DEF DictOK
<1>14. ASSUME NEW r \in Replica
       PROVE  ReplicaOK(r)'
  <2>1. Distinct(rdict[r])'
    BY <1>1 DEF Inv, ReplicaOK, Distinct
  <2>2. RowsOK(r) => RowsOK(r)'
    <3>1. \A w \in 1 .. Len(log) : w \in 1 .. Len(log') /\ log'[w] = log[w]
      BY <1>2, <1>10
    <3>. QED
      BY <1>1, <3>1 DEF RowsOK
  <2>. QED
    BY <1>1, <2>1, <2>2 DEF Inv, ReplicaOK, Clean
<1>15. /\ job' \in [Job -> JobType(Len(log))] /\ JobOK(t)'
       /\ \A i \in Job \ {t} : job'[i] = job[i]
  <2>1. CASE conf.urls = << >>
    <3>1. job' = job
      BY <2>1 DEF insert_tick
    <3>2. JobOK(t)'
      BY <1>2, <1>11, <3>1, JobStays DEF Rests
    <3>. QED
      BY <1>2, <3>1, <3>2
  <2>2. CASE conf.urls # << >>
    <3>1. job' = [job EXCEPT ![t].pc = "load"]
      BY <2>2 DEF insert_tick, Goto
    <3>2. /\ job'[t].pc = "load" /\ job'[t].url = job[t].url /\ job'[t].batch = job[t].batch
          /\ job' \in [Job -> JobType(Len(log))]
          /\ \A i \in Job \ {t} : job'[i] = job[i]
      BY <1>2, <3>1 DEF JobType
    <3>3. PICK b : b = job[t].batch
      OBVIOUS
    <3>4. /\ b \in Seq(Entry) /\ BatchOK(b) /\ Targets(t) \subseteq Replica
          /\ b # << >> => b[1].seq \in 1 .. Len(log)
      BY <1>2, <3>3, JobPlace DEF JobOK, JobShape
    <3>5. BatchOK(b)' /\ Targets(t)' = Targets(t)
      BY <1>2, <1>11, <3>4, Carried
    <3>6. JobShape(t)'
      <4>1. job[t].url = 1 /\ 1 \in 1 .. Len(conf.urls)
        BY <1>1, <1>2, <2>2 DEF JobOK, JobShape, Handling
      <4>. QED
        BY <1>1, <3>2, <3>3, <3>5, <4>1 DEF JobShape, Handling
    <3>7. JobHere(t)' /\ JobDone(t)'
      BY <3>2 DEF JobHere, JobDone, Handling
    <3>8. ~refused' => JobFront(t)'
      <4>1. PICK n : n = b[1].seq - 1
        OBVIOUS
      <4>2. b # << >> => n \in 0 .. Len(log)
        BY <1>2, <3>4, <4>1
      <4>3. ~refused' /\ b # << >> => \A r \in Targets(t) : HasTo(r, n)
        BY <1>1, <1>2, <3>3, <4>1 DEF JobOK, JobFront
      <4>4. ~refused' /\ b # << >> => \A r \in Targets(t) : HasTo(r, n)'
        BY <1>2, <1>11, <3>4, <4>2, <4>3, Carried
      <4>. QED
        BY <3>2, <3>3, <3>5, <4>1, <4>4 DEF JobFront
    <3>. QED
      BY <3>2, <3>6, <3>7, <3>8 DEF JobOK
  <2>. QED
    BY <2>1, <2>2
<1>16. \A i \in Job : JobOK(i)'
  BY <1>2, <1>11, <1>15, OneJob
<1>17. TypeOK'
  <2>1. \A i \in Task : job'[i].pc \in {"store"} \cup Handling => job'[i].url \in 1 .. Len(conf'.urls)
    BY <1>16 DEF JobOK, JobShape, Job, Handling
  <2>2. 0 .. Len(log) \subseteq 0 .. Len(log') /\ 1 .. Len(log) \subseteq 1 .. Len(log')
        /\ Len(log') <= MaxTicks
    BY <1>1, <1>2, <1>10
  <2>3. job' \in [Job -> JobType(Len(log'))]
    <3>1. \A x \in JobType(Len(log)) : x \in JobType(Len(log'))
      BY <2>2 DEF JobType
    <3>. QED
      BY <1>15, <3>1
  <2>4. /\ pushed' \in 0 .. Len(log') /\ applied' \in [Replica -> 0 .. Len(log')]
        /\ rlog' \in [Replica -> SUBSET (1 .. Len(log'))]
    BY <1>1, <1>2, <2>2 DEF TypeOK
  <2>5. dict' \in Seq(Symbol)
    BY <1>3, <1>6, <1>7
  <2>. QED
    BY <1>1, <1>2, <1>10, <2>1, <2>2, <2>3, <2>4, <2>5 DEF TypeOK, JobType
<1>. QED
  BY <1>12, <1>13, <1>14, <1>16, <1>17 DEF Inv

(* The primary is restarted.                                               *)
LEMMA RestartPrimaryStep ==
    ASSUME Inv, restart_primary
    PROVE  Inv'
<1>1. /\ Fault /\ restarted' = restarted \cup {"primary"} /\ dict' = << >> /\ pushed' = 0
      /\ UNCHANGED << conf, log, rdict, rlog, replay, rmem, applied, refused, late >>
  BY DEF restart_primary, replicas
<1>2. /\ TypeOK /\ job \in [Job -> JobType(Len(log))] /\ Len(log) \in Nat
      /\ conf.urls \in Seq(Replica)
  BY Types DEF Inv
<1>3. \A r : ~Clean(r)'
  BY <1>1 DEF Clean
<1>4. Progress
  <2>1. \A r \in Replica, v \in 1 .. Len(log) : Has(r, v) => Has(r, v)'
    BY <1>1, <1>3 DEF Has
  <2>. QED
    BY <1>1, <1>2, <1>3, <2>1 DEF Progress
<1>5. DictOK' /\ \A r \in Replica : ReplicaOK(r)'
  BY <1>1, <1>3 DEF DictOK, Distinct, Inv, ReplicaOK
<1>6. Idle \in JobType(Len(log))
  <2>1. 0 \in 0 .. Len(log) /\ << >> \in Seq(Entry)
    BY <1>2
  <2>. QED
    BY <2>1 DEF Idle, JobType
<1>7. ASSUME NEW j \in Job
      PROVE  job'[j] \in JobType(Len(log)) /\ JobOK(j)'
  <2>1. \/ job'[j] = Idle
        \/ job'[j] = job[j]
        \/ job'[j] = [job[j] EXCEPT !.gave = TRUE]
    BY DEF restart_primary
  <2>2. CASE job'[j] = Idle
    BY <1>6, <2>2, JobEnds
  <2>3. CASE job'[j] = job[j]
    BY <1>2, <1>4, <2>3, JobStays DEF Rests, Inv
  <2>4. CASE job'[j] = [job[j] EXCEPT !.gave = TRUE]
    <3>1. job[j] \in JobType(Len(log))
      BY <1>2
    <3>2. job'[j] \in JobType(Len(log)) /\ Rests(j)
      BY <2>4, <3>1 DEF JobType, Rests
    <3>. QED
      BY <1>2, <1>4, <3>2, JobStays DEF Inv
  <2>. QED
    BY <2>1, <2>2, <2>3, <2>4
<1>8. job' \in [Job -> JobType(Len(log))]
  <2>1. job' = [j \in Job |-> job'[j]]
    BY DEF restart_primary
  <2>. QED
    BY <1>7, <2>1
<1>9. Fronts'
  <2>1. \A n \in 0 .. Len(log) : \A r \in Replica : HasTo(r, n) => HasTo(r, n)'
    BY <1>2, <1>4, Carried
  <2>2. ASSUME ~refused, NEW r \in Replica
        PROVE  HasTo(r, applied[r])'
    <3>1. PICK n \in 0 .. Len(log) : n = applied[r]
      BY <1>2 DEF TypeOK
    <3>2. HasTo(r, n)'
      BY <2>1, <2>2, <3>1 DEF Inv, Fronts
    <3>. QED
      BY <1>1, <3>1, <3>2
  <2>3. \A r : HasTo(r, pushed)'
    BY <1>1 DEF HasTo
  <2>. QED
    BY <1>1, <2>2, <2>3 DEF Fronts
<1>10. TypeOK'
  <2>1. \A t \in Task : job'[t].pc \in {"store"} \cup Handling => job'[t].url \in 1 .. Len(conf'.urls)
    BY <1>7 DEF JobOK, JobShape, Job, Handling
  <2>2. faults' \in 0 .. MaxFaults /\ pushed' \in 0 .. Len(log) /\ dict' \in Seq(Symbol)
    BY <1>1, <1>2, FaultType
  <2>. QED
    BY <1>1, <1>2, <1>8, <2>1, <2>2 DEF TypeOK, JobType
<1>. QED
  BY <1>5, <1>7, <1>9, <1>10 DEF Inv

(* A replica is restarted.                                                 *)
LEMMA RestartReplicaStep ==
    ASSUME Inv, NEW q \in Replica, restart_replica(q)
    PROVE  Inv'
<1>1. /\ Fault /\ restarted' = restarted \cup {q}
      /\ rdict' = [rdict EXCEPT ![q] = << >>] /\ rmem' = [rmem EXCEPT ![q] = replay[q]]
      /\ UNCHANGED << conf, log, dict, pushed, rlog, replay, applied, refused, late >>
  BY DEF restart_replica, primary
<1>2. /\ TypeOK /\ job \in [Job -> JobType(Len(log))] /\ Len(log) \in Nat
      /\ rdict \in [Replica -> Seq(Symbol)]
      /\ rmem \in [Replica -> [Key -> 0 .. MaxTicks]]
      /\ replay \in [Replica -> [Key -> 0 .. MaxTicks]]
  BY Types, SMTT(60) DEF Inv, TypeOK
<1>3. /\ rdict'[q] = << >> /\ rdict' \in [Replica -> Seq(Symbol)]
      /\ rmem' \in [Replica -> [Key -> 0 .. MaxTicks]]
      /\ \A r \in Replica : r # q => rdict'[r] = rdict[r] /\ rmem'[r] = rmem[r]
  <2>1. << >> \in Seq(Symbol)
    OBVIOUS
  <2>. QED
    BY <1>1, <1>2, <2>1
<1>4. \A r \in Replica : Clean(r)' => Clean(r) /\ r # q
  BY <1>1 DEF Clean
<1>5. Progress
  <2>1. ASSUME NEW r \in Replica, NEW v \in 1 .. Len(log), Has(r, v)
        PROVE  Has(r, v)'
    BY <1>1, <1>3, <1>4, <2>1 DEF Has, Serves
  <2>. QED
    BY <1>1, <1>2, <1>3, <1>4, <2>1 DEF Progress
<1>6. DictOK' /\ Fronts'
  BY <1>1, <1>2, <1>5, FrontsStay, ReplicationAssumption DEF DictOK, Distinct, Inv
<1>7. ASSUME NEW r \in Replica
      PROVE  ReplicaOK(r)'
  <2>1. CASE r = q
    BY <1>3, <1>4, <2>1 DEF ReplicaOK, Distinct
  <2>2. CASE r # q
    BY <1>1, <1>3, <1>4, <2>2 DEF Inv, ReplicaOK, RowsOK, Distinct
  <2>. QED
    BY <2>1, <2>2
<1>8. ASSUME NEW j \in Job
      PROVE  job'[j] \in JobType(Len(log)) /\ JobOK(j)'
  <2>1. job'[j] = Idle \/ job'[j] = job[j]
    BY DEF restart_replica
  <2>2. CASE job'[j] = Idle
    <3>1. 0 \in 0 .. Len(log) /\ << >> \in Seq(Entry)
      BY <1>2
    <3>2. Idle \in JobType(Len(log))
      BY <3>1 DEF Idle, JobType
    <3>. QED
      BY <2>2, <3>2, JobEnds
  <2>3. CASE job'[j] = job[j]
    BY <1>2, <1>5, <2>3, JobStays DEF Rests, Inv
  <2>. QED
    BY <2>1, <2>2, <2>3
<1>9. job' \in [Job -> JobType(Len(log))]
  <2>1. job' = [j \in Job |-> job'[j]]
    BY DEF restart_replica
  <2>. QED
    BY <1>8, <2>1
<1>10. TypeOK'
  <2>1. \A t \in Task : job'[t].pc \in {"store"} \cup Handling => job'[t].url \in 1 .. Len(conf'.urls)
    BY <1>8 DEF JobOK, JobShape, Job, Handling
  <2>2. faults' \in 0 .. MaxFaults /\ restarted' \subseteq Replica \cup {"primary"}
    BY <1>1, <1>2, FaultType DEF TypeOK
  <2>. QED
    BY <1>1, <1>2, <1>3, <1>9, <2>1, <2>2 DEF TypeOK, JobType
<1>. QED
  BY <1>6, <1>7, <1>8, <1>10 DEF Inv

----------------------------------------------------------------------------

(* The invariant holds at first.                                           *)
LEMMA InitInv == Init => Inv
<1>. SUFFICES ASSUME Init PROVE Inv
  OBVIOUS
<1>1. /\ log = << >> /\ dict = << >> /\ pushed = 0 /\ job = [j \in Job |-> Idle]
      /\ rdict = [r \in Replica |-> << >>] /\ rlog = [r \in Replica |-> {}]
      /\ applied = [r \in Replica |-> 0] /\ Len(log) = 0 /\ Len(dict) = 0
  BY DEF Init
<1>2. TypeOK
  <2>1. Idle \in JobType(0)
    <3>1. 0 \in 0 .. 0 /\ << >> \in Seq(Entry)
      OBVIOUS
    <3>. QED
      BY <3>1 DEF Idle, JobType
  <2>2. job \in [Job -> JobType(0)]
    BY <1>1, <2>1
  <2>3. \A t \in Task : job[t].pc = "idle"
    BY <1>1 DEF Idle, Job
  <2>4. log \in Seq([pair : Symbol \X Timestamp, id : Id]) /\ dict \in Seq(Symbol)
        /\ << >> \in Seq(Symbol) /\ rdict \in [Replica -> Seq(Symbol)]
    BY <1>1
  <2>5. MaxTicks \in Nat /\ MaxFaults \in Nat
    BY ReplicationAssumption
  <2>6. {replay, rmem} \subseteq [Replica -> [Key -> 0 .. MaxTicks]]
    BY <2>5 DEF Init
  <2>7. rlog \in [Replica -> SUBSET (1 .. Len(log))] /\ applied \in [Replica -> 0 .. Len(log)]
    BY <1>1
  <2>8. \A t \in Task : job[t].pc \notin {"store"} \cup Handling
    BY <2>3 DEF Handling
  <2>9. /\ conf \in Deployments /\ refused \in BOOLEAN /\ late \subseteq Replica
        /\ restarted \subseteq Replica \cup {"primary"} /\ faults \in 0 .. MaxFaults
    <3>1. refused = FALSE /\ faults = 0 /\ conf \in Deployments /\ late = {} /\ restarted = {}
      BY DEF Init
    <3>2. refused \in BOOLEAN
      BY <3>1, Zenon
    <3>. QED
      BY <2>5, <3>1, <3>2
  <2>10. Len(log) <= MaxTicks /\ pushed \in 0 .. Len(log)
    BY <1>1, <2>5
  <2>. QED
    BY <1>1, <2>2, <2>4, <2>6, <2>7, <2>8, <2>9, <2>10 DEF TypeOK, JobType
<1>3. DictOK /\ Fronts
  <2>1. \A r \in Replica : applied[r] = 0
    BY <1>1
  <2>. QED
    BY <1>1, <2>1 DEF DictOK, Distinct, Fronts, HasTo
<1>4. \A r \in Replica : ReplicaOK(r)
  BY <1>1 DEF Init, ReplicaOK, Distinct, RowsOK
<1>5. ASSUME NEW j \in Job
      PROVE  JobOK(j)
  <2>1. /\ job[j].pc = "idle" /\ job[j].batch = << >> /\ Len(job[j].batch) = 0
        /\ job[j].url = 1
        /\ "idle" \notin Handling \cup {"store", "load", "read"}
    BY <1>1 DEF Idle, Handling
  <2>2. JobShape(j)
    BY <2>1 DEF JobShape, BatchOK, Handling
  <2>3. JobHere(j) /\ JobFront(j) /\ JobDone(j)
    BY <2>1 DEF JobHere, JobFront, JobDone, Handling
  <2>. QED
    BY <2>2, <2>3 DEF JobOK
<1>. QED
  BY <1>2, <1>3, <1>4, <1>5 DEF Inv

(* Every step preserves the invariant.                                     *)
LEMMA NextInv == Inv /\ [Next]_vars => Inv'
<1>. SUFFICES ASSUME Inv, [Next]_vars PROVE Inv'
  OBVIOUS
<1>1. ASSUME NEW t \in Task, Push(t)
      PROVE  Inv'
  BY <1>1, InsertStep, LoadStep, GiveUpStep, StoreStep DEF Push
<1>2. ASSUME NEW j \in Job, Serve(j) \/ lost(j)
      PROVE  Inv'
  BY <1>2, ReadStep, NameStep, ApplyLogStep, ApplyErrorStep, ApplyMemtableStep, AdvanceStep, LostStep
     DEF Serve
<1>3. ASSUME NEW r \in Replica, sync(r) \/ restart_replica(r)
      PROVE  Inv'
  BY <1>3, SyncStep, RestartReplicaStep
<1>4. ASSUME UNCHANGED vars
      PROVE  Inv'
  <2>1. Quiet /\ job' = job /\ pushed' = pushed /\ applied' = applied /\ refused' = refused
        /\ faults' = faults
    BY <1>4 DEF vars, Quiet, primary, replicas, history
  <2>2. Progress /\ DictOK' /\ \A r \in Replica : ReplicaOK(r)'
    BY <2>1, QuietStep
  <2>3. \A j \in Job : JobOK(j)'
    BY <2>1, <2>2, JobStays DEF Rests, Inv
  <2>4. Fronts'
    BY <2>1, <2>2, FrontsStay DEF Inv
  <2>5. TypeOK'
    BY <2>1, <2>3, Types, QuietTypes DEF Inv, TypeOK
  <2>. QED
    BY <2>2, <2>3, <2>4, <2>5 DEF Inv
<1>. QED
  BY <1>1, <1>2, <1>3, <1>4, RestartPrimaryStep DEF Next

(* The state of the primary and of the replicas keeps its type: a tracker, *)
(* a batch and last_pushed_seq never name a record that the primary's log  *)
(* does not have, and a task never posts past the end of replica_urls.     *)
THEOREM ReplicationTyped == Spec => []TypeOK
<1>1. Inv => TypeOK
  BY DEF Inv
<1>. QED
  BY <1>1, InitInv, NextInv, PTL DEF Spec

(* For any number of tasks and replicas, however pushes and pulls overlap, *)
(* are lost, repeated or cut off by restarts: the tracker of a replica     *)
(* never passes a record that the replica has not logged, unless           *)
(* last_pushed_seq has moved past a refused batch.                         *)
THEOREM ReplicationHasNoGap == Spec => []NoGap
<1>1. Inv => NoGap
  BY DEF Inv, Fronts, HasTo, Has, NoGap
<1>. QED
  BY <1>1, InitInv, NextInv, PTL DEF Spec

(* A replica serves, for every record up to its tracker, that record or a  *)
(* newer one of the same symbol and timestamp, as long as the dictionaries *)
(* are whole and no batch was put over newer ticks.                        *)
THEOREM ReplicasAreCurrent == Spec => []ReplicaCurrent
<1>1. Inv => ReplicaCurrent
  <2>1. SUFFICES ASSUME Inv, ~refused, NEW r \in Replica \ (late \cup restarted),
                        "primary" \notin restarted, NEW v \in 1 .. applied[r]
                 PROVE  ShowsTick(r, v)
    BY DEF ReplicaCurrent
  <2>2. TypeOK /\ Len(log) \in Nat /\ applied[r] \in 0 .. Len(log)
    <3>1. TypeOK
      BY <2>1 DEF Inv
    <3>2. applied \in [Replica -> 0 .. Len(log)]
      BY <3>1 DEF TypeOK
    <3>. QED
      BY <3>1, <3>2, Types
  <2>3. v \in 1 .. Len(log) /\ v \in Nat \ {0}
    BY <2>2
  <2>4. PICK d : d = rdict[r]
    OBVIOUS
  <2>5. d \in Seq(Symbol) /\ Distinct(d)
    BY <2>1, <2>2, <2>4 DEF Inv, ReplicaOK, TypeOK
  <2>6. PICK k : k = TickKey(d, log[v].pair)
    OBVIOUS
  <2>7. PICK w : w = rmem[r][k]
    OBVIOUS
  <2>8. log[v].pair[1] \in Known(d) /\ w >= v
    BY <2>1, <2>4, <2>6, <2>7 DEF Inv, Fronts, HasTo, Has, Clean, Serves
  <2>9. k \in Key
    BY <2>2, <2>3, <2>5, <2>6, <2>8, KeyType
  <2>10. w \in Nat /\ w # 0
    <3>1. rmem \in [Replica -> [Key -> 0 .. MaxTicks]] /\ MaxTicks \in Nat
      BY <2>2, Types DEF TypeOK
    <3>. QED
      BY <2>3, <2>7, <2>8, <2>9, <3>1
  <2>11. w \in 1 .. Len(log) /\ log[w].pair[1] \in Known(d) /\ k = TickKey(d, log[w].pair)
    BY <2>1, <2>4, <2>7, <2>9, <2>10 DEF Inv, ReplicaOK, Clean, RowsOK
  <2>12. log[w].pair = log[v].pair
    <3>1. PICK p \in Symbol \X Timestamp : p = log[w].pair
      BY <2>2, <2>11, Types
    <3>2. PICK p2 \in Symbol \X Timestamp : p2 = log[v].pair
      BY <2>2, <2>3, Types
    <3>3. get_id(d, p[1]) = get_id(d, p2[1]) /\ p[2] = p2[2]
      BY <2>6, <2>11, <3>1, <3>2 DEF TickKey
    <3>4. d[get_id(d, p[1]) + 1] = p[1] /\ d[get_id(d, p2[1]) + 1] = p2[1]
      BY <2>5, <2>8, <2>11, <3>1, <3>2, GetId
    <3>5. p[1] = p2[1]
      BY <3>3, <3>4
    <3>6. p = << p[1], p[2] >> /\ p2 = << p2[1], p2[2] >>
      OBVIOUS
    <3>. QED
      BY <3>1, <3>2, <3>3, <3>5, <3>6
  <2>. QED
    BY <2>4, <2>6, <2>7, <2>8, <2>12 DEF TickKey, ShowsTick
<1>. QED
  BY <1>1, InitInv, NextInv, PTL DEF Spec
=============================================================================
