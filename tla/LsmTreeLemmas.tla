--------------------------- MODULE LsmTreeLemmas ---------------------------
(***************************************************************************)
(* The inductive invariant of LsmTree, Steady, and that every action keeps *)
(* it: facts about the operators of the model, the actions sorted by what  *)
(* they do, which parts of the invariant a step of one thread leaves       *)
(* alone, and then the steps one after the other.  Module LsmTreeProofs    *)
(* has the theorems.                                                       *)
(*                                                                         *)
(* The invariant has a part that always holds (Genuine, Shelved, Held,     *)
(* Batched, Asking, Named) and a part that holds until one of the hazards  *)
(* that lose ticks has happened (Orderly, Kept).                           *)
(***************************************************************************)
EXTENDS LsmTree, DataLemmas

(***************************************************************************)
(* The invariant.                                                          *)
(***************************************************************************)

\* The key that version v was written with.
KeyOf(v) == << origin[v][3], origin[v][2] >>

\* The rows R hold versions under their own keys; so do ticks.
RowsGenuine(R) == \A k \in Key : R[k] # 0 => R[k] <= Len(origin) /\ KeyOf(R[k]) = k
TicksGenuine(s) ==
    \A i \in 1 .. Len(s) : s[i].ver \in 1 .. Len(origin) /\ s[i].key = KeyOf(s[i].ver)

Genuine ==
    /\ RowsGenuine(mem) /\ TicksGenuine(wal)
    /\ \A f \in DOMAIN files : RowsGenuine(files[f].rows)
    /\ \A t \in Thread : RowsGenuine(loc[t].rows) /\ TicksGenuine(loc[t].ticks)

\* The steps of a compaction, and those at which a call owns a file that is in
\* no level yet.
CompactionPc == {"c_read", "c_write", "c_sync", "c_next"}
OwnerPc == {"f_sync", "f_add", "c_sync"}
FlushPc == {"f_drain", "f_write", "f_sync", "f_add", "f_truncate"}

\* The tables of the levels are whole files of their level, and the files that
\* are being written belong to one call each.
OnShelf(f, i) == f \in DOMAIN files /\ files[f].level = i - 1 /\ files[f].whole
Owns(t) ==
    pc[t] \in OwnerPc =>
        /\ loc[t].file \in DOMAIN files
        /\ files[loc[t].file].rows = loc[t].rows
        /\ files[loc[t].file].level = (IF pc[t] = "c_sync" THEN loc[t].level + 1 ELSE 0)
        /\ pc[t] = "f_add" => files[loc[t].file].whole
        /\ \A i \in 1 .. Len(levels) : \A j \in 1 .. Len(levels[i]) : levels[i][j].file # loc[t].file
Shelved ==
    /\ \A f \in DOMAIN files : f < nextFile
    /\ \A i \in 1 .. Len(levels) : \A j \in 1 .. Len(levels[i]) : OnShelf(levels[i][j].file, i)
    /\ \A t \in Thread : Owns(t)
    /\ \A t, u \in Thread : pc[t] \in OwnerPc /\ pc[u] \in OwnerPc /\ loc[t].file = loc[u].file => t = u

InsertPc == {"i_wal", "i_mem", "i_len", "b_mem", "b_wal", "b_len"}
ApplyPc == {"a_wal", "a_mem", "a_advance"}

\* Which locks thread t holds, and what a call that has ended has left behind.
Holds(t) ==
    /\ pc[t] \in CompactionPc =>
        /\ compW = t
        /\ loc[t].bound <= Len(levels)
        /\ pc[t] = "c_read" => loc[t].level + 1 <= Len(levels)
        /\ pc[t] \in {"c_write", "c_sync"} => loc[t].level + 2 <= Len(levels)
    /\ pc[t] \in InsertPc => dictW = t
    /\ pc[t] \in {"b_wal", "b_len"} => memW = t
    /\ pc[t] \in ApplyPc => role = "Replica"
    /\ loc[t].after = "a_advance" => pc[t] \in FlushPc /\ role = "Replica"
    /\ pc[t] = "idle" => loc[t] = NoLoc

Held ==
    /\ \A t \in Thread : Holds(t)
    /\ status # "up" => \A t \in Thread : pc[t] = "idle"

\* The ticks of a call are numbered upwards; replication batches are disjoint,
\* and the tracker is at none that has not begun.
Reached(n) == n <= Len(origin) \/ n = Cut
Rising(s) == \A i, j \in 1 .. Len(s) : i < j => s[i].ver < s[j].ver
IsApplying(l, p) == p \in ApplyPc \/ l.after = "a_advance"

Batched ==
    /\ \A t \in Thread : Rising(loc[t].ticks)
    /\ \A b, c \in replicated : b # {} /\ (b # c => b \cap c = {})
    /\ \A t \in Thread : IsApplying(loc[t], pc[t]) => Versions(loc[t].ticks) \in replicated
    /\ Reached(applied) /\ Reached(recorded)

\* Steps of calls whose ticks are not in both the log and the memtable: not in
\* the memtable, not in the log.
UnputPc == {"i_wal", "i_mem", "b_mem", "a_wal", "a_mem"}
UnloggedPc == {"i_wal", "b_mem", "b_wal", "a_wal"}
PuttingPc == UnputPc \cup UnloggedPc
LoggedPc == {"i_mem", "a_mem"}
FlushingPc == {"f_write", "f_sync", "f_add", "f_truncate"}

\* Every version of s is newer than every row of R, than every tick of w.
AboveRows(s, R) == \A i \in 1 .. Len(s), k \in Key : R[k] < s[i].ver
AboveTicks(s, w) == \A i \in 1 .. Len(s), j \in 1 .. Len(w) : w[j].ver < s[i].ver

\* One write and one flush at a time, and what is written is newer than all
\* that the log and the memtable have.
OneSymbolPerId ==
    \A v, w \in 1 .. Len(origin) : origin[v][3] = origin[w][3] => origin[v][1] = origin[w][1]
OneAtATime ==
    /\ \A t, u \in Thread : pc[t] \in PuttingPc /\ pc[u] \in PuttingPc => t = u
    /\ \A t, u \in Thread : pc[t] \in FlushingPc /\ pc[u] \in FlushingPc => t = u
    /\ \A t, u \in Thread : pc[t] \in FlushingPc => pc[u] \notin LoggedPc
InOrder(w) == \A i, j \in 1 .. Len(w) : i < j => w[i].ver <= w[j].ver
Newer ==
    \A t \in Thread : /\ pc[t] \in UnputPc => AboveRows(loc[t].ticks, mem)
                      /\ pc[t] \in UnloggedPc => AboveTicks(loc[t].ticks, wal)

Orderly == OneSymbolPerId /\ OneAtATime /\ InOrder(wal) /\ Newer

\* The versions that the engine may not lose any more.
InCallPc == {"i_len", "b_len", "a_advance"} \cup FlushPc
Recorded(b) == Max(b) \in {applied, recorded}
Promised ==
    acked \cup (UNION { Versions(loc[t].ticks) : t \in { u \in Thread : pc[u] \in InCallPc } })
          \cup (UNION { b \in replicated : Recorded(b) })

Covers(R, v) == R[KeyOf(v)] >= v

\* Version v, or a later one of the tick, is in a table or about to be put into one.
MergedPc == {"c_write", "c_sync"}
InTable(v) ==
    \/ \E f \in DOMAIN files : files[f].whole /\ Covers(files[f].rows, v)
    \/ \E t \in Thread : pc[t] \in MergedPc /\ Covers(loc[t].rows, v)

\* A promised version is in a table or in the log; while no flush is under way,
\* in a table or in the memtable; otherwise in a table or in what was drained.
Logs(v) == InTable(v) \/ v \in Versions(wal)
Serves(v) == InTable(v) \/ Covers(mem, v)
Drained(t, v) == InTable(v) \/ (pc[t] \in {"f_write", "f_sync"} /\ Covers(loc[t].rows, v))

Kept ==
    /\ \A v \in Promised : Logs(v)
    /\ status = "up" /\ (\A t \in Thread : pc[t] \notin FlushingPc) => \A v \in Promised : Serves(v)
    /\ \A t \in Thread : pc[t] \in FlushingPc => \A v \in Promised : Drained(t, v)
    /\ \A t \in Thread : pc[t] \in LoggedPc => Versions(loc[t].ticks) \subseteq Versions(wal)
    /\ \A t \in Thread : pc[t] = "b_wal" => \A v \in Versions(loc[t].ticks) : Covers(mem, v)

ReadPc == {"g_mem", "g_tables", "s_mem", "s_tables"}

\* What a read at label p, with local variables l, was asked for and has found.
Asked(l, p) == p \in ReadPc =>
    /\ l.key \in Key /\ l.key[1] + 1 <= Len(dict)
    /\ l.pair = << dict[l.key[1] + 1], l.key[2] >>
    /\ p = "s_tables" /\ l.found # 0 => l.found <= Len(origin) /\ KeyOf(l.found) = l.key

Asking == \A t \in Thread : Asked(loc[t], pc[t])

\* A symbol has the id that it had when its ticks were written, if it has one.
Named ==
    "remapped" \notin hazards =>
        \A v \in 1 .. Len(origin) :
            origin[v][3] + 1 <= Len(dict) => dict[origin[v][3] + 1] = origin[v][1]

Careful == hazards \cap Lossy = {}

Safe == Careful => Orderly /\ Kept



(***************************************************************************)
(* The symbol dictionary.                                                  *)
(***************************************************************************)

\* The type of the dictionary: its names differ.
IsDict(d) == d \in Seq(Symbol) /\ Len(d) = Cardinality({ d[i] : i \in DOMAIN d })

\* The dictionary e has the entries of d, and besides only symbols of S.
Grown(d, e, S) ==
    /\ Len(d) <= Len(e)
    /\ \A i \in 1 .. Len(d) : e[i] = d[i]
    /\ \A i \in 1 .. Len(e) : i > Len(d) => e[i] \in S

(* The names of a dictionary are finitely many, and so are its ids.        *)
LEMMA DictNames ==
    ASSUME NEW d, IsDict(d)
    PROVE  /\ IsFiniteSet(Known(d)) /\ Known(d) \in SUBSET Symbol
           /\ Len(d) = Cardinality(Known(d))
           /\ Len(d) \in Nat /\ Cardinality(Symbol) \in Nat /\ Len(d) <= Cardinality(Symbol)
<1>1. d \in Seq(Symbol) /\ DOMAIN d = 1 .. Len(d) /\ Len(d) \in Nat
  BY DEF IsDict
<1>2. Known(d) \in SUBSET Symbol
  BY <1>1 DEF Known
<1>3. Len(d) = Cardinality(Known(d))
  BY <1>1 DEF IsDict, Known
<1>4. IsFiniteSet(Symbol)
  BY LsmAssumption
<1>5. IsFiniteSet(Known(d)) /\ Cardinality(Known(d)) <= Cardinality(Symbol)
  BY <1>2, <1>4, FS_Subset
<1>6. Cardinality(Symbol) \in Nat
  BY <1>4, FS_CardinalityType
<1>. QED
  BY <1>1, <1>2, <1>3, <1>5, <1>6

(* The id of a name that is known.                                         *)
LEMMA IdOfName ==
    ASSUME NEW d, IsDict(d), NEW s \in Known(d)
    PROVE  /\ get_id(d, s) \in Id
           /\ get_id(d, s) + 1 \in 1 .. Len(d) /\ d[get_id(d, s) + 1] = s
<1>1. Len(d) \in Nat /\ Cardinality(Symbol) \in Nat /\ Len(d) <= Cardinality(Symbol)
  BY DictNames
<1>2. \E i \in 1 .. Len(d) : d[i] = s
  BY DEF Known
<1>3. PICK i \in 1 .. Len(d) : i = (CHOOSE j \in 1 .. Len(d) : d[j] = s) /\ d[i] = s
  BY <1>2
<1>4. get_id(d, s) = i - 1
  BY <1>3 DEF get_id
<1>5. i \in Nat /\ i >= 1 /\ i <= Len(d)
  BY <1>1
<1>. QED
  BY <1>1, <1>3, <1>4, <1>5 DEF Id

(* No two ids have the same name.                                          *)
LEMMA NamesDiffer ==
    ASSUME NEW d, IsDict(d), NEW i \in 1 .. Len(d), NEW j \in 1 .. Len(d), d[i] = d[j]
    PROVE  i = j
<1>1. /\ d \in Seq(Symbol) /\ Len(d) \in Nat /\ Len(d) = Cardinality(Known(d))
  BY DictNames DEF IsDict
<1>2. PICK S, T : S = 1 .. Len(d) /\ T = Known(d)
  OBVIOUS
<1>3. IsFiniteSet(S) /\ Cardinality(S) = Len(d)
  BY <1>1, <1>2, FS_Interval
<1>4. d \in [S -> T] /\ \A y \in T : \E x \in S : d[x] = y
  <2>1. d \in [S -> Symbol]
    BY <1>1, <1>2
  <2>2. \A x \in S : d[x] \in T
    BY <1>2 DEF Known
  <2>3. \A y \in T : \E x \in S : d[x] = y
    BY <1>2 DEF Known
  <2>. QED
    BY <2>1, <2>2, <2>3
<1>5. d \in Surjection(S, T)
  BY <1>4 DEF Surjection
<1>6. d \in Injection(S, T)
  BY <1>1, <1>2, <1>3, <1>5, FS_SurjSameCardinalityImpliesInj
<1>. QED
  BY <1>2, <1>6 DEF Injection, IsInjective

(* get_or_insert gives a new name the next id and changes no other.        *)
LEMMA DictInsert ==
    ASSUME NEW d, IsDict(d), NEW s \in Symbol
    PROVE  /\ IsDict(get_or_insert(d, s)) /\ s \in Known(get_or_insert(d, s))
           /\ Known(d) \in SUBSET Known(get_or_insert(d, s))
           /\ Grown(d, get_or_insert(d, s), {s})
<1>1. d \in Seq(Symbol) /\ Len(d) \in Nat
  BY DEF IsDict
<1>2. CASE s \in Known(d)
  <2>1. get_or_insert(d, s) = d
    BY <1>2 DEF get_or_insert
  <2>2. Grown(d, d, {s})
    BY <1>1 DEF Grown
  <2>. QED
    BY <1>2, <2>1, <2>2
<1>3. CASE s \notin Known(d)
  <2>1. PICK e : e = Append(d, s)
    OBVIOUS
  <2>2. get_or_insert(d, s) = e
    BY <1>3, <2>1 DEF get_or_insert
  <2>3. /\ e \in Seq(Symbol) /\ Len(e) = Len(d) + 1 /\ DOMAIN e = 1 .. Len(e)
        /\ e[Len(d) + 1] = s /\ \A i \in 1 .. Len(d) : e[i] = d[i]
    BY <1>1, <2>1
  <2>4. Known(e) = Known(d) \cup {s}
    <3>1. 1 .. Len(e) = 1 .. Len(d) \cup {Len(d) + 1}
      BY <1>1, <2>3
    <3>. QED
      BY <2>3, <3>1 DEF Known
  <2>5. Len(e) = Cardinality(Known(e))
    <3>1. IsFiniteSet(Known(d)) /\ Len(d) = Cardinality(Known(d))
      BY DictNames
    <3>2. Cardinality(Known(d) \cup {s}) = Cardinality(Known(d)) + 1
      BY <1>3, <3>1, FS_AddElement
    <3>. QED
      BY <2>3, <2>4, <3>1, <3>2
  <2>6. IsDict(e)
    BY <2>3, <2>5 DEF IsDict, Known
  <2>7. Grown(d, e, {s})
    BY <1>1, <2>3 DEF Grown
  <2>. QED
    BY <2>2, <2>4, <2>6, <2>7
<1>. QED
  BY <1>2, <1>3

\* The symbols of the first n pairs of a batch.
SymbolsTo(pairs, n) == { pairs[i][1] : i \in 1 .. n }

(* resolve_all makes every symbol of a batch known, and no other.          *)
LEMMA DictResolve ==
    ASSUME NEW d, IsDict(d), NEW pairs \in Seq(Written)
    PROVE  /\ IsDict(resolve_all(d, pairs))
           /\ SymbolsTo(pairs, Len(pairs)) \in SUBSET Known(resolve_all(d, pairs))
           /\ Grown(d, resolve_all(d, pairs), SymbolsTo(pairs, Len(pairs)))
<1>. DEFINE n == Len(pairs)
            Good(g, m) == /\ DOMAIN g = 0 .. m /\ g[0] = d
                          /\ \A i \in 1 .. m : g[i] = get_or_insert(g[i - 1], pairs[i][1])
            Partial == { m \in Nat : m <= n => \E g : g = [i \in 0 .. m |-> g[i]] /\ Good(g, m) }
            Made(g) == [i \in 0 .. n |-> IF i = 0 THEN d ELSE get_or_insert(g[i - 1], pairs[i][1])]
<1>1. n \in Nat /\ \A i \in 1 .. n : pairs[i] \in Written /\ pairs[i][1] \in Symbol
  BY LsmAssumption
<1>2. 0 \in Partial
  <2>1. PICK g : g = [i \in 0 .. 0 |-> d]
    OBVIOUS
  <2>2. DOMAIN g = 0 .. 0 /\ g[0] = d
    BY <2>1
  <2>3. g = [i \in 0 .. 0 |-> g[i]]
    BY <2>1
  <2>4. Good(g, 0)
    BY <2>2
  <2>. QED
    BY <2>3, <2>4
<1>3. ASSUME NEW m \in Nat, m \in Partial
      PROVE  m + 1 \in Partial
  <2>1. SUFFICES ASSUME m + 1 <= n
                 PROVE  \E g : g = [i \in 0 .. m + 1 |-> g[i]] /\ Good(g, m + 1)
    OBVIOUS
  <2>2. m <= n
    BY <1>1, <2>1
  <2>3. PICK g : Good(g, m)
    BY <1>3, <2>2
  <2>4. PICK h : h = [i \in 0 .. m + 1 |-> IF i = m + 1 THEN get_or_insert(g[m], pairs[m + 1][1]) ELSE g[i]]
    OBVIOUS
  <2>5. DOMAIN h = 0 .. m + 1 /\ h[0] = d
    BY <2>3, <2>4
  <2>6. ASSUME NEW i \in 1 .. m + 1
        PROVE  h[i] = get_or_insert(h[i - 1], pairs[i][1])
    <3>1. i - 1 \in 0 .. m /\ i \in 0 .. m + 1 /\ i - 1 \in 0 .. m + 1 /\ i - 1 # m + 1
      OBVIOUS
    <3>2. h[i - 1] = g[i - 1]
      BY <2>4, <3>1
    <3>3. CASE i = m + 1
      <4>1. i - 1 = m
        BY <3>3
      <4>. QED
        BY <2>4, <3>1, <3>2, <3>3, <4>1
    <3>4. CASE i # m + 1
      <4>1. i \in 1 .. m
        BY <3>4
      <4>. QED
        BY <2>3, <2>4, <3>1, <3>2, <3>4, <4>1
    <3>. QED
      BY <3>3, <3>4
  <2>7. h = [i \in 0 .. m + 1 |-> h[i]]
    BY <2>4
  <2>. QED
    BY <2>5, <2>6, <2>7
<1>4. \A m \in Nat : m \in Partial
  <2>. HIDE DEF Partial
  <2>. QED
    BY <1>2, <1>3, SetInduction
<1>5. PICK g : g = [i \in 0 .. n |-> g[i]] /\ Good(g, n)
  BY <1>1, <1>4
<1>6. g = Made(g)
  <2>1. \A i \in 0 .. n : g[i] = (IF i = 0 THEN d ELSE get_or_insert(g[i - 1], pairs[i][1]))
    BY <1>1, <1>5
  <2>. QED
    BY <1>5, <2>1
<1>7. PICK a : a = (CHOOSE f : f = Made(f)) /\ a = Made(a)
  BY <1>6
<1>8. resolve_all(d, pairs) = a[n]
  BY <1>7, Zenon DEF resolve_all
<1>9. /\ DOMAIN a = 0 .. n /\ a[0] = d
      /\ \A i \in 1 .. n : a[i] = get_or_insert(a[i - 1], pairs[i][1])
  <2>1. a = [i \in 0 .. n |-> IF i = 0 THEN d ELSE get_or_insert(a[i - 1], pairs[i][1])]
    BY <1>7, Zenon
  <2>. HIDE DEF n, Made
  <2>2. \A i \in 0 .. n : a[i] = (IF i = 0 THEN d ELSE get_or_insert(a[i - 1], pairs[i][1]))
    BY <2>1, Zenon
  <2>3. DOMAIN a = 0 .. n
    BY <2>1, Zenon
  <2>. QED
    BY <1>1, <2>2, <2>3
<1>. DEFINE Fine == { m \in Nat : m <= n => /\ IsDict(a[m])
                                            /\ SymbolsTo(pairs, m) \in SUBSET Known(a[m])
                                            /\ Grown(d, a[m], SymbolsTo(pairs, m)) }
<1>10. 0 \in Fine
  <2>1. SymbolsTo(pairs, 0) = {}
    BY DEF SymbolsTo
  <2>2. Grown(d, d, SymbolsTo(pairs, 0))
    <3>. HIDE DEF n, Made, Good, Partial, Fine
    <3>1. Len(d) \in Nat
      BY DictNames
    <3>. QED
      BY <3>1 DEF Grown
  <2>3. \A m \in 1 .. 0 : FALSE
    OBVIOUS
  <2>. HIDE DEF n, Made, Good, Partial
  <2>4. /\ IsDict(a[0]) /\ SymbolsTo(pairs, 0) \in SUBSET Known(a[0])
        /\ Grown(d, a[0], SymbolsTo(pairs, 0))
    BY <1>9, <2>1, <2>2
  <2>. QED
    BY <2>4
<1>11. ASSUME NEW m \in Nat, m \in Fine
       PROVE  m + 1 \in Fine
  <2>1. SUFFICES ASSUME m + 1 <= n
                 PROVE  /\ IsDict(a[m + 1])
                        /\ SymbolsTo(pairs, m + 1) \in SUBSET Known(a[m + 1])
                        /\ Grown(d, a[m + 1], SymbolsTo(pairs, m + 1))
    OBVIOUS
  <2>2. PICK s : s = pairs[m + 1][1]
    OBVIOUS
  <2>3. m + 1 \in 1 .. n /\ (m + 1) - 1 = m /\ m <= n
    BY <1>1, <2>1
  <2>4. IsDict(a[m]) /\ SymbolsTo(pairs, m) \in SUBSET Known(a[m]) /\ Grown(d, a[m], SymbolsTo(pairs, m))
    BY <1>11, <2>3
  <2>5. s \in Symbol /\ a[m + 1] = get_or_insert(a[m], s)
    BY <1>1, <1>9, <2>2, <2>3
  <2>6. /\ IsDict(a[m + 1]) /\ s \in Known(a[m + 1]) /\ Known(a[m]) \in SUBSET Known(a[m + 1])
        /\ Grown(a[m], a[m + 1], {s})
    BY <2>4, <2>5, DictInsert
  <2>7. SymbolsTo(pairs, m + 1) = SymbolsTo(pairs, m) \cup {s}
    <3>1. 1 .. m + 1 = 1 .. m \cup {m + 1}
      OBVIOUS
    <3>. QED
      BY <2>2, <3>1 DEF SymbolsTo
  <2>8. Grown(d, a[m + 1], SymbolsTo(pairs, m + 1))
    <3>. HIDE DEF Fine, Made, Good, Partial
    <3>1. Len(d) \in Nat /\ Len(a[m]) \in Nat /\ Len(a[m + 1]) \in Nat
      BY <2>4, <2>6 DEF IsDict
    <3>2. Len(d) <= Len(a[m]) /\ Len(a[m]) <= Len(a[m + 1])
      BY <2>4, <2>6 DEF Grown
    <3>3. ASSUME NEW i \in 1 .. Len(d) PROVE a[m + 1][i] = d[i]
      <4>1. i \in 1 .. Len(a[m])
        BY <3>1, <3>2
      <4>. QED
        BY <2>4, <2>6, <4>1 DEF Grown
    <3>4. ASSUME NEW i \in 1 .. Len(a[m + 1]), i > Len(d)
          PROVE  a[m + 1][i] \in SymbolsTo(pairs, m + 1)
      <4>1. CASE i > Len(a[m])
        BY <2>6, <2>7, <4>1 DEF Grown
      <4>2. CASE i <= Len(a[m])
        <5>1. i \in 1 .. Len(a[m])
          BY <3>1, <4>2
        <5>2. a[m + 1][i] = a[m][i] /\ a[m][i] \in SymbolsTo(pairs, m)
          BY <2>4, <2>6, <3>4, <5>1 DEF Grown
        <5>. QED
          BY <2>7, <5>2
      <4>. QED
        BY <3>1, <4>1, <4>2
    <3>. QED
      BY <3>1, <3>2, <3>3, <3>4 DEF Grown
  <2>. QED
    BY <2>4, <2>6, <2>7, <2>8
<1>12. \A m \in Nat : m \in Fine
  <2>. HIDE DEF Fine
  <2>. QED
    BY <1>10, <1>11, SetInduction
<1>13. n \in Fine
  BY <1>1, <1>12
<1>. QED
  BY <1>1, <1>8, <1>13

(***************************************************************************)
(* Ticks, rows and local variables.                                        *)
(***************************************************************************)

(* What a call begins with is well typed.                                  *)
LEMMA Blank ==
    /\ NoRows \in Rows /\ NoLoc \in Loc
    /\ NoLoc.ticks = << >> /\ NoLoc.rows = NoRows /\ NoLoc.after = "idle"
    /\ NoLoc.level = 0 /\ NoLoc.bound = 0
    /\ \A k \in Key : NoRows[k] = 0
    /\ MaxTicks \in Nat /\ 0 \in Version
<1>1. MaxTicks \in Nat /\ MaxFiles \in Nat
  BY LsmAssumption
<1>2. 0 \in Version
  BY <1>1 DEF Version
<1>3. NoRows \in Rows /\ \A k \in Key : NoRows[k] = 0
  BY <1>2 DEF NoRows, Rows
<1>4. 0 \in 0 .. MaxFiles /\ << >> \in Seq(Tick)
  BY <1>1
<1>5. FALSE \in BOOLEAN
  BY Zenon
<1>6. NoLoc \in Loc
  BY <1>2, <1>3, <1>4, <1>5 DEF NoLoc, Loc
<1>. QED
  BY <1>1, <1>2, <1>3, <1>6 DEF NoLoc

(* The components of a key, and of a tick.                                 *)
LEMMA KeyParts ==
    /\ \A k \in Key : k = << k[1], k[2] >> /\ k[1] \in Id /\ k[2] \in Timestamp
    /\ \A i \in Id, s \in Timestamp : << i, s >> \in Key
    /\ \A p \in Written : p[1] \in Symbol /\ p[2] \in Timestamp
  BY LsmAssumption DEF Key

(* One sequence after another.                                             *)
LEMMA Joined ==
    ASSUME NEW E, NEW a \in Seq(E), NEW b \in Seq(E), NEW c, c = a \o b
    PROVE  /\ c \in Seq(E) /\ Len(c) = Len(a) + Len(b)
           /\ Len(a) \in Nat /\ Len(b) \in Nat
           /\ \A i \in 1 .. Len(a) : c[i] = a[i]
           /\ \A i \in 1 .. Len(b) : c[Len(a) + i] = b[i]
<1>1. /\ Len(a) \in Nat /\ Len(b) \in Nat /\ c \in Seq(E) /\ Len(c) = Len(a) + Len(b)
  OBVIOUS
<1>2. \A i \in 1 .. Len(a) : c[i] = a[i]
  BY <1>1
<1>3. \A i \in 1 .. Len(b) : c[Len(a) + i] = b[i]
  BY <1>1
<1>. QED
  BY <1>1, <1>2, <1>3

\* What the history says of a version.
Entry == Symbol \X Timestamp \X Id

\* Ticks T for the pairs of a batch, and the history O that has them.
Numbers(d, pairs, T, O) ==
    /\ Len(origin) \in Nat /\ Len(pairs) \in Nat
    /\ T \in Seq(Tick) /\ Len(T) = Len(pairs)
    /\ O \in Seq(Entry) /\ Len(O) = Len(origin) + Len(pairs)
    /\ \A v \in 1 .. Len(origin) : O[v] = origin[v]
    /\ \A i \in 1 .. Len(pairs) :
        /\ O[Len(origin) + i] = << pairs[i][1], pairs[i][2], get_id(d, pairs[i][1]) >>
        /\ T[i].ver = Len(origin) + i
        /\ T[i].key = << get_id(d, pairs[i][1]), pairs[i][2] >>

(* The versions that a batch is given, and what the history says of them.  *)
LEMMA Numbered ==
    ASSUME origin \in Seq(Entry),
           NEW d, IsDict(d), NEW pairs \in Seq(Written),
           SymbolsTo(pairs, Len(pairs)) \in SUBSET Known(d),
           Len(origin) + Len(pairs) <= MaxTicks,
           NEW T, T = ticks_of(d, pairs),
           NEW O, O = origin \o Origins(d, pairs)
    PROVE  Numbers(d, pairs, T, O)
<1>1. Len(origin) \in Nat /\ Len(pairs) \in Nat /\ MaxTicks \in Nat
  BY Blank
<1>2. PICK P : P = Origins(d, pairs)
  OBVIOUS
<1>3. ASSUME NEW i \in 1 .. Len(pairs)
      PROVE  /\ get_id(d, pairs[i][1]) \in Id /\ pairs[i][1] \in Symbol /\ pairs[i][2] \in Timestamp
             /\ Len(origin) + i \in Version
             /\ << get_id(d, pairs[i][1]), pairs[i][2] >> \in Key
  <2>1. pairs[i] \in Written
    OBVIOUS
  <2>2. pairs[i][1] \in Known(d)
    BY DEF SymbolsTo
  <2>3. get_id(d, pairs[i][1]) \in Id
    BY <2>2, IdOfName
  <2>4. Len(origin) + i \in Version
    BY <1>1 DEF Version
  <2>. QED
    BY <2>1, <2>3, <2>4, KeyParts
<1>4. P \in Seq(Entry) /\ Len(P) = Len(pairs)
  <2>1. \A i \in 1 .. Len(pairs) : << pairs[i][1], pairs[i][2], get_id(d, pairs[i][1]) >> \in Entry
    BY <1>3 DEF Entry
  <2>. QED
    BY <1>1, <1>2, <2>1 DEF Origins
<1>5. /\ T \in Seq(Tick) /\ Len(T) = Len(pairs)
      /\ \A i \in 1 .. Len(pairs) :
            T[i] = [key |-> << get_id(d, pairs[i][1]), pairs[i][2] >>, ver |-> Len(origin) + i]
  <2>1. \A i \in 1 .. Len(pairs) :
            T[i] = [key |-> << get_id(d, pairs[i][1]), pairs[i][2] >>, ver |-> Len(origin) + i]
    BY Zenon DEF ticks_of
  <2>2. T = [i \in 1 .. Len(pairs) |-> T[i]]
    BY Zenon DEF ticks_of
  <2>3. ASSUME NEW i \in 1 .. Len(pairs) PROVE T[i] \in Tick
    <3>1. PICK k \in Key, v \in Version : T[i] = [key |-> k, ver |-> v]
      BY <1>3, <2>1, Zenon
    <3>. QED
      BY <3>1 DEF Tick
  <2>4. T \in Seq(Tick) /\ Len(T) = Len(pairs)
    BY <1>1, <2>2, <2>3
  <2>. QED
    BY <2>1, <2>4
<1>6. O = origin \o P
  BY <1>2
<1>7. /\ O \in Seq(Entry) /\ Len(O) = Len(origin) + Len(pairs)
      /\ \A v \in 1 .. Len(origin) : O[v] = origin[v]
      /\ \A i \in 1 .. Len(pairs) : O[Len(origin) + i] = P[i]
  <2>1. \A v \in 1 .. Len(origin) : O[v] = origin[v]
    BY <1>4, <1>6, Joined
  <2>2. \A i \in 1 .. Len(P) : O[Len(origin) + i] = P[i]
    BY <1>4, <1>6, Joined
  <2>3. Len(O) = Len(origin) + Len(P)
    <3>1. ASSUME NEW a \in Seq(Entry), NEW b \in Seq(Entry)
          PROVE  Len(a \o b) = Len(a) + Len(b)
      OBVIOUS
    <3>. QED
      BY <1>4, <1>6, <3>1, Zenon
  <2>4. O \in Seq(Entry)
    BY <1>4, <1>6
  <2>. QED
    BY <1>4, <2>1, <2>2, <2>3, <2>4
<1>8. ASSUME NEW i \in 1 .. Len(pairs)
      PROVE  /\ O[Len(origin) + i] = << pairs[i][1], pairs[i][2], get_id(d, pairs[i][1]) >>
             /\ T[i].ver = Len(origin) + i
             /\ T[i].key = << get_id(d, pairs[i][1]), pairs[i][2] >>
  <2>1. P[i] = << pairs[i][1], pairs[i][2], get_id(d, pairs[i][1]) >>
    BY <1>2 DEF Origins
  <2>2. O[Len(origin) + i] = P[i]
    BY <1>7
  <2>3. T[i] = [key |-> << get_id(d, pairs[i][1]), pairs[i][2] >>, ver |-> Len(origin) + i]
    BY <1>5
  <2>4. T[i].ver = Len(origin) + i /\ T[i].key = << get_id(d, pairs[i][1]), pairs[i][2] >>
    <3>1. PICK k, v : k = << get_id(d, pairs[i][1]), pairs[i][2] >> /\ v = Len(origin) + i
      BY Zenon
    <3>2. T[i] = [key |-> k, ver |-> v]
      BY <2>3, <3>1, Zenon
    <3>3. T[i].key = k /\ T[i].ver = v
      BY <3>2
    <3>. QED
      BY <3>1, <3>3, Zenon
  <2>. QED
    BY <2>1, <2>2, <2>4, Zenon
<1>. QED
  BY <1>1, <1>5, <1>7, <1>8, Zenon DEF Numbers

(* A nonempty set of positions has the Max and the Min that are meant.     *)
LEMMA Extremes ==
    ASSUME NEW n \in Nat, NEW S \in SUBSET (1 .. n), S # {}
    PROVE  /\ Max(S) \in S /\ \A y \in S : y <= Max(S)
           /\ Min(S) \in S /\ \A y \in S : Min(S) <= y
<1>1. \E x \in S : \A y \in S : y <= x
  BY LastPosition
<1>2. \E x \in S : \A y \in S : x >= y
  BY <1>1
<1>3. Max(S) \in S /\ \A y \in S : Max(S) >= y
  BY <1>2 DEF Max
<1>4. \E x \in S : \A y \in S : x <= y
  BY LeastNatural
<1>5. Min(S) \in S /\ \A y \in S : Min(S) <= y
  BY <1>4 DEF Min
<1>. QED
  BY <1>3, <1>5

(* mem_insert: the last tick of a key wins, the other keys stay.           *)
LEMMA Inserts ==
    ASSUME NEW m \in Rows, NEW s \in Seq(Tick), NEW r, r = mem_insert(m, s)
    PROVE  /\ r \in Rows
           /\ \A k \in Key :
                \/ r[k] = m[k] /\ \A i \in 1 .. Len(s) : s[i].key # k
                \/ \E i \in 1 .. Len(s) :
                    /\ s[i].key = k /\ r[k] = s[i].ver
                    /\ \A j \in 1 .. Len(s) : s[j].key = k => j <= i
<1>1. Len(s) \in Nat /\ \A i \in 1 .. Len(s) : s[i] \in Tick
  OBVIOUS
<1>2. ASSUME NEW k \in Key
      PROVE  /\ r[k] \in Version
             /\ \/ r[k] = m[k] /\ \A i \in 1 .. Len(s) : s[i].key # k
                \/ \E i \in 1 .. Len(s) :
                    /\ s[i].key = k /\ r[k] = s[i].ver
                    /\ \A j \in 1 .. Len(s) : s[j].key = k => j <= i
  <2>1. PICK mine : mine = { i \in 1 .. Len(s) : s[i].key = k }
    OBVIOUS
  <2>2. r[k] = IF mine = {} THEN m[k] ELSE s[Max(mine)].ver
    BY <2>1 DEF mem_insert
  <2>3. CASE mine = {}
    <3>1. r[k] = m[k] /\ m[k] \in Version
      BY <2>2, <2>3 DEF Rows
    <3>. QED
      BY <2>1, <2>3, <3>1
  <2>4. CASE mine # {}
    <3>1. Max(mine) \in mine /\ \A y \in mine : y <= Max(mine)
      BY <1>1, <2>1, <2>4, Extremes
    <3>2. PICK x : x = Max(mine)
      OBVIOUS
    <3>3. x \in 1 .. Len(s) /\ s[x].key = k /\ r[k] = s[x].ver
      BY <2>1, <2>2, <2>4, <3>1, <3>2
    <3>4. s[x].ver \in Version
      BY <1>1, <3>3 DEF Tick
    <3>5. \A j \in 1 .. Len(s) : s[j].key = k => j <= x
      BY <2>1, <3>1, <3>2
    <3>. QED
      BY <3>3, <3>4, <3>5
  <2>. QED
    BY <2>3, <2>4
<1>3. r \in Rows
  <2>1. r = [k \in Key |-> r[k]]
    BY DEF mem_insert
  <2>. QED
    BY <1>2, <2>1 DEF Rows
<1>. QED
  BY <1>2, <1>3

(* The versions of two lists of ticks, one after the other.                *)
LEMMA VersionsJoin ==
    ASSUME NEW s \in Seq(Tick), NEW u \in Seq(Tick)
    PROVE  /\ s \o u \in Seq(Tick) /\ Len(s) \in Nat /\ Len(u) \in Nat /\ Len(s \o u) = Len(s) + Len(u)
           /\ \A i \in 1 .. Len(s \o u) :
                \/ i \in 1 .. Len(s) /\ (s \o u)[i] = s[i]
                \/ i > Len(s) /\ i - Len(s) \in 1 .. Len(u) /\ (s \o u)[i] = u[i - Len(s)]
           /\ Versions(s \o u) = Versions(s) \cup Versions(u)
<1>1. /\ Len(s) \in Nat /\ Len(u) \in Nat /\ Len(s \o u) = Len(s) + Len(u)
      /\ s \o u \in Seq(Tick)
  OBVIOUS
<1>2. PICK c : c = s \o u
  OBVIOUS
<1>3. /\ \A i \in 1 .. Len(s) : c[i] = s[i]
      /\ \A i \in 1 .. Len(u) : c[Len(s) + i] = u[i]
  BY <1>1, <1>2
<1>4. ASSUME NEW i \in 1 .. Len(c)
      PROVE  \/ i \in 1 .. Len(s) /\ c[i] = s[i]
             \/ i > Len(s) /\ i - Len(s) \in 1 .. Len(u) /\ c[i] = u[i - Len(s)]
  <2>1. CASE i <= Len(s)
    BY <1>1, <1>2, <1>3, <2>1
  <2>2. CASE i > Len(s)
    <3>1. i - Len(s) \in 1 .. Len(u) /\ Len(s) + (i - Len(s)) = i
      BY <1>1, <1>2, <2>2
    <3>. QED
      BY <1>3, <2>2, <3>1
  <2>. QED
    BY <1>1, <2>1, <2>2
<1>5. Versions(c) = Versions(s) \cup Versions(u)
  <2>1. Versions(c) \subseteq Versions(s) \cup Versions(u)
    BY <1>4 DEF Versions
  <2>2. Versions(s) \subseteq Versions(c)
    <3>1. \A i \in 1 .. Len(s) : i \in 1 .. Len(c)
      BY <1>1, <1>2
    <3>. QED
      BY <1>3, <3>1 DEF Versions
  <2>3. Versions(u) \subseteq Versions(c)
    <3>1. \A i \in 1 .. Len(u) : Len(s) + i \in 1 .. Len(c)
      BY <1>1, <1>2
    <3>. QED
      BY <1>3, <3>1 DEF Versions
  <2>. QED
    BY <2>1, <2>2, <2>3
<1>. QED
  BY <1>1, <1>2, <1>4, <1>5

(***************************************************************************)
(* The type invariant, in parts.                                           *)
(***************************************************************************)

Handles == [file : 1 .. MaxFiles, size : Nat]
FileType == [rows : Rows, level : Nat, whole : BOOLEAN, names : SUBSET (Symbol \cup {None})]

TFixed(w, r, o, s) ==
    w \in Workloads /\ r \in Roles /\ o \in OpenOutcomes /\ s \in {"up", "down", "failed"}
TTicks(s) == s \in Seq(Tick)
TFiles(fs) == DOMAIN fs \subseteq 1 .. MaxFiles /\ \A f \in DOMAIN fs : fs[f] \in FileType
TNext(n) == n \in 1 .. MaxFiles + 1
TLevels(ls) == ls \in Seq(Seq(Handles)) /\ ls # << >>
TApplied(a, r) == a \in 0 .. MaxTicks /\ r \in 0 .. MaxTicks \cup {Cut}
TPc(p) == p \in [Thread -> Pc]
TLoc(l) == l \in [Thread -> Loc]
TLocks(d, r, m, c) == {d, m, c} \subseteq Thread \cup {None} /\ r \subseteq Thread
TOrigin(o) == o \in Seq(Entry) /\ Len(o) <= MaxTicks
TVersions(o, a, r) == a \cup UNION r \subseteq 1 .. Len(o)
THazards(h) == h \subseteq HazardNames
TCrashes(c) == c \in Seq(0 .. MaxTicks) /\ Len(c) <= MaxCrashes
TCounts(w, c, e) == TCrashes(c) /\ e \in 0 .. w.maxIoErrors

Types ==
    /\ TFixed(work, role, opens, status)
    /\ IsDict(dict) /\ mem \in Rows /\ TTicks(wal)
    /\ TFiles(files) /\ TNext(nextFile) /\ TLevels(levels)
    /\ TApplied(applied, recorded)
    /\ TPc(pc) /\ TLoc(loc) /\ TLocks(dictW, dictR, memW, compW)
    /\ TOrigin(origin) /\ TVersions(origin, acked, replicated)
    /\ THazards(hazards) /\ TCounts(work, crashes, ioErrors)

(* TypeOK is the conjunction of the parts.                                 *)
LEMMA TypeParts == TypeOK <=> Types
  BY DEF TypeOK, Types, TFixed, TTicks, TFiles, TNext, TLevels, TApplied, TPc, TLoc, TLocks, TOrigin,
         TVersions, THazards, TCounts, TCrashes, IsDict, Handles, FileType, Entry

(* The types of what a thread has in its local variables.                  *)
LEMMA LocTypes ==
    ASSUME Types, NEW t \in Thread
    PROVE  /\ loc[t] \in Loc
           /\ loc[t].ticks \in Seq(Tick) /\ loc[t].rows \in Rows /\ loc[t].file \in 0 .. MaxFiles
           /\ loc[t].level \in Nat /\ loc[t].bound \in Nat
           /\ loc[t].after \in {"idle", "a_advance"} /\ loc[t].found \in Version
  BY DEF Types, TLoc, Loc

(* A call changes the local variables and the label of its thread only.    *)
LEMMA LocUpdate ==
    ASSUME Types, NEW t \in Thread, NEW l \in Loc, NEW p \in Pc
    PROVE  /\ TLoc([loc EXCEPT ![t] = l])
           /\ TPc([pc EXCEPT ![t] = p])
  BY DEF Types, TLoc, TPc

(* The ticks of a call have been numbered.                                 *)
LEMMA TicksNumbered ==
    ASSUME Types, Genuine, NEW t \in Thread
    PROVE  /\ Versions(loc[t].ticks) \subseteq 1 .. Len(origin)
           /\ TVersions(origin, acked \cup Versions(loc[t].ticks), replicated)
           /\ TVersions(origin, acked \cup {}, replicated)
<1>1. Versions(loc[t].ticks) \subseteq 1 .. Len(origin)
  BY DEF Genuine, TicksGenuine, Versions
<1>. QED
  BY <1>1 DEF Types, TVersions

(***************************************************************************)
(* What the actions do, those that do much the same together.              *)
(***************************************************************************)

\* A write numbers its ticks: insert, insert_batch and apply_replication_batch.
Begins(t, d, pairs) ==
    /\ status = "up" /\ pc[t] = "idle" /\ dictW = None
    /\ IsDict(d) /\ pairs \in Seq(Written) /\ Len(pairs) > 0
    /\ SymbolsTo(pairs, Len(pairs)) \in SUBSET Known(d)
    /\ Grown(dict, d, SymbolsTo(pairs, Len(pairs)))
    /\ Len(origin) + Len(pairs) <= MaxTicks
    /\ dict' = d
    /\ loc' = [loc EXCEPT ![t].ticks = ticks_of(d, pairs)]
    /\ origin' = origin \o Origins(d, pairs)
    /\ \/ /\ Goto(t, "i_wal") /\ role = "Primary" /\ dictW' = t
          /\ UNCHANGED replicated
       \/ /\ Goto(t, "b_mem") /\ dictW' = t /\ (Careful' => Applying = {})
          /\ UNCHANGED replicated
       \/ /\ Goto(t, "a_wal") /\ role = "Replica" /\ dictW' = dictW /\ (Careful' => Writing = {})
          /\ replicated' = replicated \cup {Versions(ticks_of(d, pairs))}
    /\ THazards(hazards') /\ (Careful' => Careful /\ ~Remaps(d, pairs))
    /\ "remapped" \notin hazards' => "remapped" \notin hazards /\ ~Remaps(d, pairs)
    /\ UNCHANGED << work, role, opens, status, mem, wal, files, nextFile, levels, applied, recorded,
                    dictR, memW, compW, acked, crashes, ioErrors >>

(* Noting a hazard keeps the type of hazards, and undoes none.             *)
LEMMA Notes ==
    ASSUME THazards(hazards), NEW hs \in SUBSET HazardNames, Note(hs)
    PROVE  /\ THazards(hazards')
           /\ Careful' => Careful /\ hs \cap Lossy = {}
           /\ \A h : h \notin hazards' => h \notin hazards /\ h \notin hs
  BY DEF THazards, Note, Careful

(* The batches that the model enumerates are nonempty sequences.           *)
LEMMA BatchType ==
    ASSUME NEW pairs \in Batches
    PROVE  pairs \in Seq(Written) /\ Len(pairs) \in Nat /\ Len(pairs) > 0
<1>1. MaxBatch \in Nat
  BY LsmAssumption
<1>2. PICK n \in 1 .. MaxBatch : pairs \in [1 .. n -> Written]
  BY DEF Batches
<1>3. n \in Nat /\ n > 0
  BY <1>1
<1>. QED
  BY <1>2, <1>3

(* insert begins a write.                                                  *)
LEMMA InsertBegins ==
    ASSUME Types, NEW t \in Thread, insert(t)
    PROVE  \E d, pairs : Begins(t, d, pairs)
<1>1. PICK pair \in Written :
        /\ dict' = get_or_insert(dict, pair[1])
        /\ loc' = [loc EXCEPT ![t].ticks = ticks_of(dict', << pair >>)]
        /\ origin' = origin \o Origins(dict', << pair >>)
        /\ Note(When(Remaps(dict', << pair >>), "remapped"))
  BY DEF insert
<1>2. PICK d, pairs : d = dict' /\ pairs = << pair >>
  OBVIOUS
<1>3. pairs \in Seq(Written) /\ Len(pairs) = 1 /\ pairs[1] = pair
  BY <1>2
<1>4. SymbolsTo(pairs, Len(pairs)) = {pair[1]}
  BY <1>3 DEF SymbolsTo
<1>5. IsDict(dict) /\ pair[1] \in Symbol
  BY KeyParts DEF Types
<1>6. d = get_or_insert(dict, pair[1])
  BY <1>1, <1>2
<1>7. IsDict(d) /\ pair[1] \in Known(d) /\ Grown(dict, d, {pair[1]})
  BY <1>5, <1>6, DictInsert
<1>8. Len(origin) + Len(pairs) <= MaxTicks
  <2>1. Len(origin) \in Nat /\ MaxTicks \in Nat
    BY Blank DEF Types, TOrigin
  <2>. QED
    BY <1>3, <2>1 DEF insert
<1>9. /\ THazards(hazards') /\ (Careful' => Careful /\ ~Remaps(d, pairs))
      /\ "remapped" \notin hazards' => "remapped" \notin hazards /\ ~Remaps(d, pairs)
  <2>1. PICK hs : hs = When(Remaps(d, pairs), "remapped")
    OBVIOUS
  <2>2. hs \in SUBSET HazardNames /\ Note(hs)
    BY <1>1, <1>2, <2>1 DEF When, HazardNames
  <2>3. (hs \cap Lossy = {} => ~Remaps(d, pairs)) /\ ("remapped" \notin hs => ~Remaps(d, pairs))
    BY <2>1 DEF When, Lossy
  <2>. QED
    BY <2>2, <2>3, Notes DEF Types
<1>10. Begins(t, d, pairs)
  <2>1. /\ loc' = [loc EXCEPT ![t].ticks = ticks_of(d, pairs)]
        /\ origin' = origin \o Origins(d, pairs)
    BY <1>1, <1>2, Zenon
  <2>2. /\ status = "up" /\ pc[t] = "idle" /\ dictW = None
        /\ Goto(t, "i_wal") /\ role = "Primary" /\ dictW' = t
        /\ UNCHANGED << work, role, opens, status, mem, wal, files, nextFile, levels, applied, recorded,
                        dictR, memW, compW, acked, crashes, ioErrors, replicated >>
    BY DEF insert, May, Up, DictFree
  <2>3. SymbolsTo(pairs, Len(pairs)) \in SUBSET Known(d) /\ Len(pairs) > 0
    BY <1>3, <1>4, <1>7
  <2>4. Grown(dict, d, SymbolsTo(pairs, Len(pairs)))
    BY <1>4, <1>7
  <2>. QED
    BY <1>2, <1>3, <1>7, <1>8, <1>9, <2>1, <2>2, <2>3, <2>4, Zenon DEF Begins
<1>. QED
  BY <1>10

(* insert_batch begins a write.                                            *)
LEMMA InsertBatchBegins ==
    ASSUME Types, NEW t \in Thread, insert_batch(t)
    PROVE  \E d, pairs : Begins(t, d, pairs)
<1>1. PICK pairs \in Batches :
        /\ Len(origin) + Len(pairs) <= MaxTicks
        /\ dict' = resolve_all(dict, pairs)
        /\ loc' = [loc EXCEPT ![t].ticks = ticks_of(dict', pairs)]
        /\ origin' = origin \o Origins(dict', pairs)
        /\ Note(When(Remaps(dict', pairs), "remapped") \cup When(Applying # {}, "crossed"))
  BY DEF insert_batch
<1>2. PICK d : d = dict'
  OBVIOUS
<1>3. pairs \in Seq(Written) /\ Len(pairs) \in Nat /\ Len(pairs) > 0
  BY BatchType
<1>4. /\ IsDict(d) /\ SymbolsTo(pairs, Len(pairs)) \in SUBSET Known(d)
      /\ Grown(dict, d, SymbolsTo(pairs, Len(pairs)))
  <2>1. IsDict(dict)
    BY DEF Types
  <2>2. d = resolve_all(dict, pairs)
    BY <1>1, <1>2
  <2>. QED
    BY <1>3, <2>1, <2>2, DictResolve
<1>5. /\ THazards(hazards') /\ (Careful' => Careful /\ ~Remaps(d, pairs) /\ Applying = {})
      /\ "remapped" \notin hazards' => "remapped" \notin hazards /\ ~Remaps(d, pairs)
  <2>1. PICK hs : hs = When(Remaps(d, pairs), "remapped") \cup When(Applying # {}, "crossed")
    OBVIOUS
  <2>2. hs \in SUBSET HazardNames /\ Note(hs)
    BY <1>1, <1>2, <2>1 DEF When, HazardNames
  <2>3. /\ hs \cap Lossy = {} => ~Remaps(d, pairs) /\ Applying = {}
        /\ "remapped" \notin hs => ~Remaps(d, pairs)
    BY <2>1 DEF When, Lossy
  <2>. QED
    BY <2>2, <2>3, Notes DEF Types
<1>6. Begins(t, d, pairs)
  <2>1. /\ loc' = [loc EXCEPT ![t].ticks = ticks_of(d, pairs)]
        /\ origin' = origin \o Origins(d, pairs)
    BY <1>1, <1>2, Zenon
  <2>. QED
    BY <1>1, <1>2, <1>3, <1>4, <1>5, <2>1 DEF Begins, insert_batch, May, Up, DictFree
<1>. QED
  BY <1>6

(* apply_replication_batch begins a write.                                 *)
LEMMA ApplyBegins ==
    ASSUME Types, NEW t \in Thread, apply_replication_batch(t)
    PROVE  \E d, pairs : Begins(t, d, pairs)
<1>1. PICK pairs \in Batches :
        /\ Len(origin) + Len(pairs) <= MaxTicks
        /\ dict' = resolve_all(dict, pairs)
        /\ loc' = [loc EXCEPT ![t].ticks = ticks_of(dict', pairs)]
        /\ origin' = origin \o Origins(dict', pairs)
        /\ Note(When(Remaps(dict', pairs), "remapped") \cup When(Writing # {}, "crossed"))
        /\ replicated' = replicated \cup {Versions(ticks_of(dict', pairs))}
  BY DEF apply_replication_batch
<1>2. PICK d : d = dict'
  OBVIOUS
<1>3. pairs \in Seq(Written) /\ Len(pairs) \in Nat /\ Len(pairs) > 0
  BY BatchType
<1>4. /\ IsDict(d) /\ SymbolsTo(pairs, Len(pairs)) \in SUBSET Known(d)
      /\ Grown(dict, d, SymbolsTo(pairs, Len(pairs)))
  <2>1. IsDict(dict)
    BY DEF Types
  <2>2. d = resolve_all(dict, pairs)
    BY <1>1, <1>2
  <2>. QED
    BY <1>3, <2>1, <2>2, DictResolve
<1>5. /\ THazards(hazards') /\ (Careful' => Careful /\ ~Remaps(d, pairs) /\ Writing = {})
      /\ "remapped" \notin hazards' => "remapped" \notin hazards /\ ~Remaps(d, pairs)
  <2>1. PICK hs : hs = When(Remaps(d, pairs), "remapped") \cup When(Writing # {}, "crossed")
    OBVIOUS
  <2>2. hs \in SUBSET HazardNames /\ Note(hs)
    BY <1>1, <1>2, <2>1 DEF When, HazardNames
  <2>3. /\ hs \cap Lossy = {} => ~Remaps(d, pairs) /\ Writing = {}
        /\ "remapped" \notin hs => ~Remaps(d, pairs)
    BY <2>1 DEF When, Lossy
  <2>. QED
    BY <2>2, <2>3, Notes DEF Types
<1>6. Begins(t, d, pairs)
  <2>1. /\ loc' = [loc EXCEPT ![t].ticks = ticks_of(d, pairs)]
        /\ origin' = origin \o Origins(d, pairs)
        /\ replicated' = replicated \cup {Versions(ticks_of(d, pairs))}
    BY <1>1, <1>2, Zenon
  <2>. QED
    BY <1>1, <1>2, <1>3, <1>4, <1>5, <2>1 DEF Begins, apply_replication_batch, May, Up, DictFree, locks
<1>. QED
  BY <1>6

\* A step of a read.
SameWork(l, m) ==
    /\ l.ticks = m.ticks /\ l.rows = m.rows /\ l.after = m.after
    /\ l.file = m.file /\ l.level = m.level /\ l.bound = m.bound
Reads(t, l, p) ==
    /\ status = "up" /\ pc[t] \in {"idle"} \cup ReadPc /\ p \in {"idle"} \cup ReadPc
    /\ l \in Loc /\ Asked(l, p)
    /\ l = NoLoc \/ (SameWork(l, loc[t]) /\ p # "idle")
    /\ pc' = [pc EXCEPT ![t] = p] /\ loc' = [loc EXCEPT ![t] = l]
    /\ dictR' \subseteq Thread
    /\ UNCHANGED << work, role, opens, status, shared, dictW, memW, compW, history >>

(* The newest acknowledged version of a pair is a version.                 *)
LEMMA OwedType ==
    ASSUME Types, NEW pair
    PROVE  Owed(pair) \in Version
<1>1. PICK vs : vs = { v \in acked : PairOf(v) = pair }
  OBVIOUS
<1>2. acked \subseteq 1 .. Len(origin) /\ Len(origin) \in Nat /\ Len(origin) <= MaxTicks
  BY DEF Types, TVersions, TOrigin
<1>3. vs \in SUBSET (1 .. Len(origin))
  BY <1>1, <1>2
<1>4. CASE vs = {}
  BY <1>1, <1>4, Blank DEF Owed
<1>5. CASE vs # {}
  <2>1. Max(vs) \in vs
    BY <1>2, <1>3, <1>5, Extremes
  <2>2. Max(vs) \in Version
    <3>1. Max(vs) \in 1 .. Len(origin) /\ MaxTicks \in Nat
      BY <1>3, <2>1, Blank
    <3>. QED
      BY <1>2, <3>1 DEF Version
  <2>. QED
    BY <1>1, <1>5, <2>2 DEF Owed
<1>. QED
  BY <1>4, <1>5

(* A read begins by looking its symbol up.                                 *)
LEMMA ReadBegins ==
    ASSUME Types, NEW t \in Thread, NEW op, NEW p \in {"g_mem", "s_mem"}, StartRead(t, op, p)
    PROVE  \E l \in Loc : /\ Asked(l, p) /\ SameWork(l, loc[t])
                          /\ status = "up" /\ pc[t] = "idle"
                          /\ loc' = [loc EXCEPT ![t] = l] /\ pc' = [pc EXCEPT ![t] = p]
<1>1. PICK pair \in Known(dict) \X Timestamp :
        loc' = [loc EXCEPT ![t].pair = pair,
                           ![t].key = << get_id(dict, pair[1]), pair[2] >>,
                           ![t].owed = Owed(pair), ![t].gap = Draining # {}]
  BY DEF StartRead
<1>2. IsDict(dict) /\ loc \in [Thread -> Loc]
  BY DEF Types, TLoc
<1>3. /\ pair = << pair[1], pair[2] >> /\ pair[1] \in Known(dict) /\ pair[2] \in Timestamp
      /\ pair[1] \in Symbol /\ pair \in Symbol \X Timestamp
  BY <1>2, DictNames
<1>4. PICK i : i = get_id(dict, pair[1])
  OBVIOUS
<1>5. i \in Id /\ i + 1 \in 1 .. Len(dict) /\ dict[i + 1] = pair[1]
  BY <1>2, <1>3, <1>4, IdOfName
<1>6. PICK k : k = << i, pair[2] >>
  OBVIOUS
<1>7. k \in Key /\ k[1] = i /\ k[2] = pair[2]
  BY <1>3, <1>5, <1>6, KeyParts
<1>8. PICK o : o = Owed(pair)
  OBVIOUS
<1>9. PICK g \in BOOLEAN : g = (Draining # {})
  BY Zenon
<1>10. PICK l : l = [loc[t] EXCEPT !.pair = pair, !.key = k, !.owed = o, !.gap = g]
  OBVIOUS
<1>11. loc' = [loc EXCEPT ![t] = l]
  <2>1. loc' = [loc EXCEPT ![t].pair = pair, ![t].key = k, ![t].owed = o, ![t].gap = g]
    BY <1>1, <1>4, <1>6, <1>8, <1>9, Zenon
  <2>2. loc[t] \in Loc
    BY <1>2
  <2>. QED
    BY <1>2, <1>10, <2>1, <2>2 DEF Loc
<1>12. l \in Loc
  <2>1. loc[t] \in Loc /\ o \in Version /\ pair \in (Symbol \X Timestamp) \cup {<< >>} /\ k \in Key \cup {<< >>}
    BY <1>2, <1>3, <1>7, <1>8, OwedType
  <2>. HIDE DEF Version, Key, Rows, Tick
  <2>. QED
    BY <1>10, <2>1 DEF Loc
<1>13. SameWork(l, loc[t]) /\ l.key = k /\ l.pair = pair
  BY <1>2, <1>10 DEF SameWork, Loc
<1>14. Asked(l, p)
  <2>1. l.key \in Key /\ l.key[1] + 1 <= Len(dict)
    <3>1. Len(dict) \in Nat
      BY <1>2 DEF IsDict
    <3>. QED
      BY <1>5, <1>7, <1>13, <3>1
  <2>2. l.pair = << dict[l.key[1] + 1], l.key[2] >>
    BY <1>3, <1>5, <1>7, <1>13
  <2>3. p # "s_tables"
    OBVIOUS
  <2>. QED
    BY <2>1, <2>2, <2>3 DEF Asked
<1>. QED
  BY <1>11, <1>12, <1>13, <1>14 DEF StartRead, May, Up, Goto

(* A read whose symbol is not found changes nothing but the answer.        *)
LEMMA NotFoundStays ==
    ASSUME NEW t \in Thread, read_not_found(t)
    PROVE  /\ status = "up" /\ pc[t] = "idle"
           /\ UNCHANGED << work, role, opens, status, dict, mem, wal, files, nextFile, levels, applied,
                           recorded, pc, loc, dictW, dictR, memW, compW, origin, acked, replicated, hazards,
                           crashes, ioErrors >>
  BY DEF read_not_found, May, Up, shared, locks, history

(* The steps of get and scan are steps of reads.                           *)
LEMMA ReadSteps ==
    ASSUME Types, Genuine, Held, Asking, NEW t \in Thread,
           \/ read_not_found(t) \/ get(t) \/ get_memtable(t) \/ get_tables(t)
           \/ scan(t) \/ scan_memtable(t) \/ scan_tables(t) \/ read_panic(t)
    PROVE  \E l, p : Reads(t, l, p)
<1>1. NoLoc \in Loc /\ dictR \subseteq Thread /\ loc[t] \in Loc
  BY Blank, LocTypes DEF Types, TLocks
<1>2. Asked(NoLoc, "idle")
  BY DEF Asked, ReadPc
<1>3. ASSUME Return(t, {}), status = "up", pc[t] \in ReadPc, dictR' \in {dictR, dictR \ {t}},
             UNCHANGED << work, role, opens, status, shared, dictW, memW, compW, origin, replicated,
                          hazards, crashes, ioErrors >>
      PROVE  Reads(t, NoLoc, "idle")
  <2>1. acked' = acked
    BY <1>3 DEF Return
  <2>2. dictR' \subseteq Thread
    BY <1>1, <1>3
  <2>. QED
    BY <1>1, <1>2, <1>3, <2>1, <2>2 DEF Reads, Return, history
<1>4. CASE get(t)
  <2>1. PICK l \in Loc : /\ Asked(l, "g_mem") /\ SameWork(l, loc[t])
                         /\ status = "up" /\ pc[t] = "idle"
                         /\ loc' = [loc EXCEPT ![t] = l] /\ pc' = [pc EXCEPT ![t] = "g_mem"]
    BY <1>4, ReadBegins DEF get
  <2>2. Reads(t, l, "g_mem")
    BY <1>1, <1>4, <2>1 DEF Reads, ReadPc, get
  <2>. QED
    BY <2>2
<1>5. CASE scan(t)
  <2>1. PICK l \in Loc : /\ Asked(l, "s_mem") /\ SameWork(l, loc[t])
                         /\ status = "up" /\ pc[t] = "idle"
                         /\ loc' = [loc EXCEPT ![t] = l] /\ pc' = [pc EXCEPT ![t] = "s_mem"]
    BY <1>5, ReadBegins DEF scan
  <2>2. Reads(t, l, "s_mem")
    BY <1>1, <1>5, <2>1 DEF Reads, ReadPc, scan, locks
  <2>. QED
    BY <2>2
<1>6. CASE get_memtable(t)
  <2>1. CASE mem_get(mem, loc[t].key) # 0
    <3>1. Reads(t, NoLoc, "idle")
      BY <1>3, <1>6, <2>1 DEF get_memtable, ReadPc, Up
    <3>. QED
      BY <3>1
  <2>2. CASE mem_get(mem, loc[t].key) = 0
    <3>1. Asked(loc[t], "g_tables")
      <4>1. Asked(loc[t], "g_mem")
        BY <1>6 DEF Asking, get_memtable
      <4>. QED
        BY <4>1 DEF Asked, ReadPc
    <3>2. loc' = [loc EXCEPT ![t] = loc[t]] /\ SameWork(loc[t], loc[t])
      BY <1>6, <2>2 DEF get_memtable, Types, TLoc, SameWork
    <3>3. Reads(t, loc[t], "g_tables")
      BY <1>1, <1>6, <2>2, <3>1, <3>2 DEF Reads, get_memtable, ReadPc, Up, Goto, history
    <3>. QED
      BY <3>3
  <2>. QED
    BY <2>1, <2>2
<1>7. CASE get_tables(t)
  <2>1. Reads(t, NoLoc, "idle")
    BY <1>3, <1>7 DEF get_tables, ReadPc, Up
  <2>. QED
    BY <2>1
<1>8. CASE scan_memtable(t)
  <2>1. Asked(loc[t], "s_mem") /\ loc[t].key \in Key
    BY <1>8 DEF Asking, scan_memtable, Asked, ReadPc
  <2>2. PICK m : m = mem[loc[t].key]
    OBVIOUS
  <2>3. m \in Version /\ (m # 0 => m <= Len(origin) /\ KeyOf(m) = loc[t].key)
    BY <2>1, <2>2 DEF Types, Rows, Genuine, RowsGenuine
  <2>4. PICK l : l = [loc[t] EXCEPT !.found = m]
    OBVIOUS
  <2>5. l \in Loc /\ SameWork(l, loc[t]) /\ l.key = loc[t].key /\ l.pair = loc[t].pair /\ l.found = m
    BY <1>1, <2>3, <2>4 DEF Loc, SameWork
  <2>6. Asked(l, "s_tables")
    BY <2>1, <2>3, <2>5 DEF Asked, ReadPc
  <2>7. loc' = [loc EXCEPT ![t] = l]
    BY <1>1, <1>8, <2>2, <2>4 DEF scan_memtable, Types, TLoc
  <2>8. Reads(t, l, "s_tables")
    BY <1>1, <1>8, <2>5, <2>6, <2>7 DEF Reads, scan_memtable, ReadPc, Up, Goto, locks
  <2>. QED
    BY <2>8
<1>9. CASE scan_tables(t)
  <2>1. Reads(t, NoLoc, "idle")
    BY <1>3, <1>9 DEF scan_tables, ReadPc, Up, locks
  <2>. QED
    BY <2>1
<1>10. CASE read_panic(t)
  <2>1. Reads(t, NoLoc, "idle")
    BY <1>3, <1>10 DEF read_panic, ReadPc, Up
  <2>. QED
    BY <2>1
<1>11. CASE read_not_found(t)
  <2>1. /\ status = "up" /\ pc[t] = "idle" /\ pc' = pc /\ loc' = loc
        /\ UNCHANGED << work, role, opens, status, shared, dictW, dictR, memW, compW, history >>
    BY <1>11, NotFoundStays DEF shared, history
  <2>2. loc[t] = NoLoc
    BY <2>1 DEF Held, Holds
  <2>3. pc' = [pc EXCEPT ![t] = "idle"] /\ loc' = [loc EXCEPT ![t] = NoLoc]
    BY <2>1, <2>2 DEF Types, TPc, TLoc
  <2>4. Reads(t, NoLoc, "idle")
    BY <1>1, <1>2, <2>1, <2>3 DEF Reads
  <2>. QED
    BY <2>4
<1>. QED
  BY <1>4, <1>5, <1>6, <1>7, <1>8, <1>9, <1>10, <1>11

\* A compaction goes on to a level, or ends.
Turns(t, l, p) ==
    /\ status = "up" /\ l \in Loc
    /\ (pc[t] = "idle" /\ compW = None) \/ pc[t] \in {"c_read", "c_next"}
    /\ \/ p = "idle" /\ l = NoLoc /\ compW' = None
       \/ /\ p = "c_read" /\ compW' = t
          /\ l.ticks = loc[t].ticks /\ l.rows = loc[t].rows /\ l.after = loc[t].after
          /\ l.level + 1 <= Len(levels) /\ l.bound <= Len(levels)
    /\ pc' = [pc EXCEPT ![t] = p] /\ loc' = [loc EXCEPT ![t] = l]
    /\ UNCHANGED << work, role, opens, status, shared, dictW, dictR, memW, history >>

(* There is at least one level.                                            *)
LEMMA LevelsLength ==
    ASSUME Types
    PROVE  /\ Len(levels) \in Nat /\ Len(levels) >= 1 /\ DOMAIN levels = 1 .. Len(levels)
           /\ \A i \in 1 .. Len(levels) : /\ levels[i] \in Seq(Handles)
                                          /\ Len(levels[i]) \in Nat /\ DOMAIN levels[i] = 1 .. Len(levels[i])
<1>1. levels \in Seq(Seq(Handles)) /\ levels # << >>
  BY DEF Types, TLevels
<1>2. Len(levels) \in Nat /\ DOMAIN levels = 1 .. Len(levels)
  BY <1>1
<1>3. Len(levels) >= 1
  <2>1. CASE Len(levels) = 0
    BY <1>1, <2>1
  <2>. QED
    BY <1>2, <2>1
<1>4. \A i \in 1 .. Len(levels) : levels[i] \in Seq(Handles)
  BY <1>1, <1>2
<1>5. \A i \in 1 .. Len(levels) : Len(levels[i]) \in Nat /\ DOMAIN levels[i] = 1 .. Len(levels[i])
  BY <1>4
<1>. QED
  BY <1>2, <1>3, <1>4, <1>5

(* The end of a level in compact().                                        *)
LEMMA NextLevelTurns ==
    ASSUME Types, NEW t \in Thread, NEW i \in Nat, NEW b \in Nat, b <= Len(levels), status = "up",
           (pc[t] = "idle" /\ compW = None) \/ pc[t] = "c_next",
           NextLevel(t, i, b),
           UNCHANGED << work, role, opens, status, shared, dictW, dictR, memW, origin, replicated,
                        hazards, crashes, ioErrors >>
    PROVE  \E l, p : Turns(t, l, p)
<1>1. PICK large : large = { j \in i + 1 .. b - 1 : TooLarge(levels, j) }
  OBVIOUS
<1>2. CASE large = {}
  <2>1. Return(t, {}) /\ compW' = None
    BY <1>1, <1>2 DEF NextLevel
  <2>2. acked' = acked
    BY <2>1 DEF Return
  <2>3. Turns(t, NoLoc, "idle")
    BY <2>1, <2>2, Blank DEF Turns, Return, history
  <2>. QED
    BY <2>3
<1>3. CASE large # {}
  <2>1. /\ Goto(t, "c_read")
        /\ loc' = [loc EXCEPT ![t].level = Min(large), ![t].bound = b]
        /\ compW' = t /\ UNCHANGED acked
    BY <1>1, <1>3 DEF NextLevel
  <2>2. Len(levels) \in Nat
    BY LevelsLength
  <2>3. large \in SUBSET (1 .. Len(levels))
    BY <1>1, <2>2
  <2>4. PICK m : m = Min(large)
    OBVIOUS
  <2>5. m \in large
    BY <1>3, <2>2, <2>3, <2>4, Extremes
  <2>6. m \in Nat /\ m + 1 <= Len(levels)
    BY <1>1, <2>2, <2>5
  <2>7. PICK l : l = [loc[t] EXCEPT !.level = m, !.bound = b]
    OBVIOUS
  <2>8. loc[t] \in Loc /\ loc \in [Thread -> Loc]
    BY LocTypes DEF Types, TLoc
  <2>9. /\ l \in Loc /\ l.ticks = loc[t].ticks /\ l.rows = loc[t].rows /\ l.after = loc[t].after
        /\ l.level = m /\ l.bound = b
    BY <2>6, <2>7, <2>8 DEF Loc
  <2>10. loc' = [loc EXCEPT ![t] = l]
    BY <2>1, <2>4, <2>7, <2>8 DEF Loc
  <2>11. Turns(t, l, "c_read")
    BY <2>1, <2>6, <2>9, <2>10 DEF Turns, Goto, history
  <2>. QED
    BY <2>11
<1>. QED
  BY <1>2, <1>3

(* compact, compact_panic and compact_next only move a compaction on.      *)
LEMMA CompactTurns ==
    ASSUME Types, Held, NEW t \in Thread, compact(t) \/ compact_panic(t) \/ compact_next(t)
    PROVE  \E l, p : Turns(t, l, p)
<1>1. Len(levels) \in Nat /\ Len(levels) >= 1 /\ loc[t].level \in Nat /\ loc[t].bound \in Nat
  BY LevelsLength, LocTypes
<1>2. CASE compact(t)
  <2>1. CASE Len(levels[1]) >= L0MaxTables
    <3>1. loc[t] = NoLoc /\ loc[t].level = 0 /\ loc[t].bound = 0
      <4>1. pc[t] = "idle"
        BY <1>2 DEF compact, May
      <4>2. loc[t] = NoLoc
        BY <4>1 DEF Held, Holds
      <4>. QED
        BY <4>2, Blank
    <3>2. loc' = [loc EXCEPT ![t] = loc[t]] /\ loc[t] \in Loc
      BY <1>2, <2>1 DEF compact, Types, TLoc
    <3>3. Turns(t, loc[t], "c_read")
      BY <1>1, <1>2, <2>1, <3>1, <3>2 DEF Turns, compact, May, Up, Goto, history
    <3>. QED
      BY <3>3
  <2>2. CASE ~(Len(levels[1]) >= L0MaxTables)
    <3>1. NextLevel(t, 0, Len(levels))
      BY <1>2, <2>2 DEF compact
    <3>2. status = "up" /\ pc[t] = "idle" /\ compW = None
      BY <1>2 DEF compact, May, Up
    <3>3. UNCHANGED << work, role, opens, status, shared, dictW, dictR, memW, origin, replicated,
                       hazards, crashes, ioErrors >>
      BY <1>2 DEF compact
    <3>. QED
      BY <1>1, <3>1, <3>2, <3>3, NextLevelTurns
  <2>. QED
    BY <2>1, <2>2
<1>3. CASE compact_panic(t)
  <2>1. acked' = acked
    BY <1>3 DEF compact_panic, Return
  <2>2. Turns(t, NoLoc, "idle")
    BY <1>3, <2>1, Blank DEF Turns, compact_panic, Return, Up, history
  <2>. QED
    BY <2>2
<1>4. CASE compact_next(t)
  <2>1. PICK b : b = IF loc[t].level = 0 THEN Len(levels) ELSE loc[t].bound
    OBVIOUS
  <2>2. b \in Nat /\ b <= Len(levels)
    BY <1>1, <1>4, <2>1 DEF compact_next, Held, Holds, CompactionPc
  <2>3. NextLevel(t, loc[t].level, b) /\ status = "up" /\ pc[t] = "c_next"
    BY <1>4, <2>1 DEF compact_next, Up
  <2>4. UNCHANGED << work, role, opens, status, shared, dictW, dictR, memW, origin, replicated,
                     hazards, crashes, ioErrors >>
    BY <1>4 DEF compact_next
  <2>. QED
    BY <1>1, <2>2, <2>3, <2>4, NextLevelTurns
<1>. QED
  BY <1>2, <1>3, <1>4

(***************************************************************************)
(* What a step of thread t leaves of the invariant.                        *)
(***************************************************************************)

\* The other threads stay where they are; a drain only marks reads.
Others(t) ==
    \A u \in Thread \ {t} :
        /\ pc'[u] = pc[u] /\ SameWork(loc'[u], loc[u])
        /\ loc'[u].key = loc[u].key /\ loc'[u].pair = loc[u].pair /\ loc'[u].found = loc[u].found
        /\ loc'[u] = loc[u] \/ pc[u] \in ReadPc

(* A step of one thread.                                                   *)
LEMMA Moves ==
    ASSUME Types, NEW t \in Thread, NEW l \in Loc, NEW p \in Pc,
           pc' = [pc EXCEPT ![t] = p], loc' = [loc EXCEPT ![t] = l]
    PROVE  /\ Others(t) /\ pc'[t] = p /\ loc'[t] = l
           /\ TPc(pc') /\ TLoc(loc')
<1>1. TPc(pc') /\ TLoc(loc')
  BY LocUpdate
<1>2. pc \in [Thread -> Pc] /\ loc \in [Thread -> Loc]
  BY DEF Types, TPc, TLoc
<1>3. pc'[t] = p /\ loc'[t] = l
  BY <1>2
<1>4. \A u \in Thread \ {t} : pc'[u] = pc[u] /\ loc'[u] = loc[u]
  BY <1>2
<1>5. Others(t)
  BY <1>4 DEF Others, SameWork
<1>. QED
  BY <1>1, <1>3, <1>5

(* Shelved is about the files, the levels and the owners of files.         *)
LEMMA ShelvedFrame ==
    ASSUME Shelved, NEW t \in Thread, Others(t), pc'[t] \notin OwnerPc,
           UNCHANGED << files, nextFile, levels >>
    PROVE  Shelved'
<1>1. (\A f \in DOMAIN files : f < nextFile)'
  BY DEF Shelved
<1>2. (\A i \in 1 .. Len(levels) : \A j \in 1 .. Len(levels[i]) : OnShelf(levels[i][j].file, i))'
  BY DEF Shelved, OnShelf
<1>3. ASSUME NEW u \in Thread PROVE Owns(u)'
  <2>1. CASE u = t
    BY <2>1 DEF Owns
  <2>2. CASE u # t
    <3>1. pc'[u] = pc[u] /\ loc'[u].file = loc[u].file /\ loc'[u].rows = loc[u].rows /\ loc'[u].level = loc[u].level
      BY <2>2 DEF Others, SameWork
    <3>2. Owns(u)
      BY DEF Shelved
    <3>. QED
      BY <3>1, <3>2 DEF Owns
  <2>. QED
    BY <2>1, <2>2
<1>4. (\A u, v \in Thread : pc[u] \in OwnerPc /\ pc[v] \in OwnerPc /\ loc[u].file = loc[v].file => u = v)'
  <2>1. \A u \in Thread \ {t} : pc'[u] = pc[u] /\ loc'[u].file = loc[u].file
    BY DEF Others, SameWork
  <2>2. \A u, v \in Thread : pc[u] \in OwnerPc /\ pc[v] \in OwnerPc /\ loc[u].file = loc[v].file => u = v
    BY DEF Shelved
  <2>. QED
    BY <2>1, <2>2
<1>. QED
  BY <1>1, <1>2, <1>3, <1>4 DEF Shelved

(* A lock that another thread holds stays with it.                         *)
LEMMA HeldFrame ==
    ASSUME Types, Held, NEW t \in Thread, Others(t), status = "up", status' = "up", role' = role,
           Len(levels') \in Nat, Len(levels) <= Len(levels'),
           \A u \in Thread \ {t} : /\ compW = u => compW' = u
                                   /\ dictW = u => dictW' = u
                                   /\ memW = u => memW' = u,
           Holds(t)'
    PROVE  Held'
<1>1. ASSUME NEW u \in Thread, u # t PROVE Holds(u)'
  <2>1. /\ pc'[u] = pc[u] /\ loc'[u].after = loc[u].after
        /\ loc'[u].level = loc[u].level /\ loc'[u].bound = loc[u].bound
        /\ loc'[u] = loc[u] \/ pc[u] \in ReadPc
    BY <1>1 DEF Others, SameWork
  <2>2. Holds(u)
    BY DEF Held
  <2>3. loc[u].level \in Nat /\ loc[u].bound \in Nat /\ Len(levels) \in Nat
    BY LocTypes, LevelsLength
  <2>4. /\ loc[u].bound <= Len(levels) => loc'[u].bound <= Len(levels')
        /\ loc[u].level + 1 <= Len(levels) => loc'[u].level + 1 <= Len(levels')
        /\ loc[u].level + 2 <= Len(levels) => loc'[u].level + 2 <= Len(levels')
    BY <2>1, <2>3
  <2>5. /\ pc[u] \in CompactionPc =>
            /\ compW' = u
            /\ loc'[u].bound <= Len(levels')
            /\ pc[u] = "c_read" => loc'[u].level + 1 <= Len(levels')
            /\ pc[u] \in {"c_write", "c_sync"} => loc'[u].level + 2 <= Len(levels')
    BY <1>1, <2>2, <2>4, Zenon DEF Holds
  <2>. QED
    BY <1>1, <2>1, <2>2, <2>5 DEF Holds, ReadPc
<1>. QED
  BY <1>1 DEF Held

(* The ticks of the other threads stay.                                    *)
LEMMA BatchedFrame ==
    ASSUME Batched, NEW t \in Thread, Others(t), replicated' = replicated, origin' = origin,
           Reached(applied'), Reached(recorded'),
           Rising(loc'[t].ticks),
           IsApplying(loc'[t], pc'[t]) => Versions(loc'[t].ticks) \in replicated
    PROVE  Batched'
<1>1. ASSUME NEW u \in Thread, u # t
      PROVE  loc'[u].ticks = loc[u].ticks /\ loc'[u].after = loc[u].after /\ pc'[u] = pc[u]
  BY <1>1 DEF Others, SameWork
<1>2. ASSUME NEW u \in Thread PROVE Rising(loc'[u].ticks)
  BY <1>1 DEF Batched
<1>3. ASSUME NEW u \in Thread, IsApplying(loc'[u], pc'[u])
      PROVE  Versions(loc'[u].ticks) \in replicated'
  BY <1>1, <1>3 DEF Batched, IsApplying
<1>4. (\A b, c \in replicated : b # {} /\ (b # c => b \cap c = {}))'
  BY DEF Batched
<1>5. (Reached(applied) /\ Reached(recorded))'
  BY DEF Reached
<1>. QED
  BY <1>2, <1>3, <1>4, <1>5 DEF Batched, Rising, Versions, IsApplying

(* The reads of the other threads stay what they are.                      *)
LEMMA AskingFrame ==
    ASSUME Asking, NEW t \in Thread, Others(t), dict' = dict, origin' = origin,
           pc'[t] \in ReadPc => Asked(loc'[t], pc'[t])
    PROVE  Asking'
<1>1. ASSUME NEW u \in Thread PROVE Asked(loc[u], pc[u])'
  <2>1. CASE u = t
    BY <2>1 DEF Asked, KeyOf
  <2>2. CASE u # t
    <3>1. /\ pc'[u] = pc[u] /\ loc'[u].key = loc[u].key /\ loc'[u].pair = loc[u].pair
          /\ loc'[u].found = loc[u].found
      BY <2>2 DEF Others
    <3>2. Asked(loc[u], pc[u])
      BY DEF Asking
    <3>. QED
      BY <3>1, <3>2 DEF Asked, KeyOf
  <2>. QED
    BY <2>1, <2>2
<1>. QED
  BY <1>1 DEF Asking

(* Names and ids are as they were, until there is a new dictionary.        *)
LEMMA NamedFrame ==
    ASSUME Named, dict' = dict, origin' = origin, hazards \subseteq hazards'
    PROVE  Named'
  BY DEF Named

(* Rows and ticks are genuine as long as the history stays.                *)
LEMMA GenuineFrame ==
    ASSUME Genuine, NEW t \in Thread, Others(t), origin' = origin,
           RowsGenuine(mem'), TicksGenuine(wal'),
           \A f \in DOMAIN files' : RowsGenuine(files'[f].rows),
           RowsGenuine(loc'[t].rows), TicksGenuine(loc'[t].ticks)
    PROVE  Genuine'
<1>1. ASSUME NEW u \in Thread
      PROVE  RowsGenuine(loc'[u].rows) /\ TicksGenuine(loc'[u].ticks)
  <2>1. CASE u = t
    BY <2>1
  <2>2. CASE u # t
    <3>1. loc'[u].ticks = loc[u].ticks /\ loc'[u].rows = loc[u].rows
      BY <2>2 DEF Others, SameWork
    <3>. QED
      BY <3>1 DEF Genuine
  <2>. QED
    BY <2>1, <2>2
<1>2. ASSUME NEW R, RowsGenuine(R) PROVE RowsGenuine(R)'
  BY <1>2 DEF RowsGenuine, KeyOf
<1>3. ASSUME NEW s, TicksGenuine(s) PROVE TicksGenuine(s)'
  BY <1>3 DEF TicksGenuine, KeyOf
<1>4. RowsGenuine(mem)' /\ TicksGenuine(wal)'
  BY <1>2, <1>3 DEF RowsGenuine, TicksGenuine, KeyOf
<1>5. (\A f \in DOMAIN files : RowsGenuine(files[f].rows))'
  BY <1>2 DEF RowsGenuine, KeyOf
<1>6. (\A u \in Thread : RowsGenuine(loc[u].rows) /\ TicksGenuine(loc[u].ticks))'
  BY <1>1 DEF RowsGenuine, TicksGenuine, KeyOf
<1>. QED
  BY <1>4, <1>5, <1>6 DEF Genuine

(* One write and one flush: t may join where there is none.                *)
LEMMA OneAtATimeFrame ==
    ASSUME OneAtATime, NEW t \in Thread, Others(t),
           pc'[t] \in PuttingPc => pc[t] \in PuttingPc \/ \A u \in Thread : pc[u] \notin PuttingPc,
           pc'[t] \in FlushingPc =>
               pc[t] \in FlushingPc \/ \A u \in Thread : pc[u] \notin FlushingPc /\ pc[u] \notin LoggedPc,
           pc'[t] \in LoggedPc => pc[t] \in LoggedPc \/ \A u \in Thread : pc[u] \notin FlushingPc,
           pc'[t] \in FlushingPc => pc'[t] \notin LoggedPc
    PROVE  OneAtATime'
<1>1. \A u \in Thread \ {t} : pc'[u] = pc[u]
  BY DEF Others
<1>2. ASSUME NEW u \in Thread, NEW w \in Thread, pc'[u] \in PuttingPc, pc'[w] \in PuttingPc
      PROVE  u = w
  BY <1>1, <1>2 DEF OneAtATime
<1>3. ASSUME NEW u \in Thread, NEW w \in Thread, pc'[u] \in FlushingPc, pc'[w] \in FlushingPc
      PROVE  u = w
  BY <1>1, <1>3 DEF OneAtATime
<1>4. ASSUME NEW u \in Thread, NEW w \in Thread, pc'[u] \in FlushingPc
      PROVE  pc'[w] \notin LoggedPc
  BY <1>1, <1>4 DEF OneAtATime
<1>. QED
  BY <1>2, <1>3, <1>4 DEF OneAtATime

(* What the other writes bring stays newer.                                *)
LEMMA NewerFrame ==
    ASSUME Newer, NEW t \in Thread, Others(t),
           \A u \in Thread \ {t} : pc[u] \in UnputPc => AboveRows(loc[u].ticks, mem'),
           \A u \in Thread \ {t} : pc[u] \in UnloggedPc => AboveTicks(loc[u].ticks, wal'),
           pc'[t] \in UnputPc => AboveRows(loc'[t].ticks, mem'),
           pc'[t] \in UnloggedPc => AboveTicks(loc'[t].ticks, wal')
    PROVE  Newer'
<1>1. ASSUME NEW u \in Thread
      PROVE  /\ pc'[u] \in UnputPc => AboveRows(loc'[u].ticks, mem')
             /\ pc'[u] \in UnloggedPc => AboveTicks(loc'[u].ticks, wal')
  <2>1. CASE u = t
    BY <2>1
  <2>2. CASE u # t
    <3>1. pc'[u] = pc[u] /\ loc'[u].ticks = loc[u].ticks
      BY <2>2 DEF Others, SameWork
    <3>. QED
      BY <2>2, <3>1
  <2>. QED
    BY <2>1, <2>2
<1>. QED
  BY <1>1 DEF Newer, AboveRows, AboveTicks

(* A step that leaves log and memtable alone and begins no write.          *)
LEMMA OrderlyFrame ==
    ASSUME Orderly, NEW t \in Thread, Others(t), origin' = origin, mem' = mem, wal' = wal,
           pc'[t] \notin PuttingPc, pc'[t] \in FlushingPc => pc[t] \in FlushingPc
    PROVE  Orderly'
<1>1. OneSymbolPerId'
  BY DEF Orderly, OneSymbolPerId
<1>2. pc'[t] \notin LoggedPc /\ pc'[t] \notin UnputPc /\ pc'[t] \notin UnloggedPc
  BY DEF PuttingPc, UnputPc, LoggedPc
<1>3. OneAtATime'
  BY <1>2, OneAtATimeFrame DEF Orderly
<1>4. InOrder(wal)'
  BY DEF Orderly, InOrder
<1>5. Newer'
  <2>1. Newer
    BY DEF Orderly
  <2>2. \A u \in Thread \ {t} : /\ pc[u] \in UnputPc => AboveRows(loc[u].ticks, mem')
                                /\ pc[u] \in UnloggedPc => AboveTicks(loc[u].ticks, wal')
    BY <2>1 DEF Newer
  <2>. QED
    BY <1>2, <2>1, <2>2, NewerFrame
<1>. QED
  BY <1>1, <1>3, <1>4, <1>5 DEF Orderly

(* Tables stay: files that were whole are, and merged rows stay at hand.   *)
LEMMA TableFrame ==
    ASSUME NEW t \in Thread, Others(t), origin' = origin,
           \A f \in DOMAIN files : files[f].whole =>
                f \in DOMAIN files' /\ files'[f].whole /\ files'[f].rows = files[f].rows,
           pc[t] \in MergedPc => pc'[t] \in MergedPc /\ loc'[t].rows = loc[t].rows,
           NEW v, InTable(v)
    PROVE  InTable(v)'
<1>1. CASE \E f \in DOMAIN files : files[f].whole /\ Covers(files[f].rows, v)
  BY <1>1 DEF InTable, Covers, KeyOf
<1>2. CASE \E u \in Thread : pc[u] \in MergedPc /\ Covers(loc[u].rows, v)
  <2>1. PICK u \in Thread : pc[u] \in MergedPc /\ Covers(loc[u].rows, v)
    BY <1>2
  <2>2. pc'[u] \in MergedPc /\ loc'[u].rows = loc[u].rows
    BY <2>1 DEF Others, SameWork
  <2>. QED
    BY <2>1, <2>2 DEF InTable, Covers, KeyOf
<1>. QED
  BY <1>1, <1>2 DEF InTable

(* No version is promised that was not.                                    *)
LEMMA PromisedFrame ==
    ASSUME NEW t \in Thread, Others(t), replicated' = replicated,
           {applied', recorded'} \subseteq {applied, recorded},
           acked' \subseteq Promised,
           pc'[t] \in InCallPc => Versions(loc'[t].ticks) \subseteq Promised
    PROVE  Promised' \subseteq Promised
<1>1. ASSUME NEW u \in Thread, pc'[u] \in InCallPc
      PROVE  Versions(loc'[u].ticks) \subseteq Promised
  <2>1. CASE u = t
    BY <1>1, <2>1
  <2>2. CASE u # t
    <3>1. pc'[u] = pc[u] /\ loc'[u].ticks = loc[u].ticks
      BY <2>2 DEF Others, SameWork
    <3>. QED
      BY <1>1, <3>1 DEF Promised
  <2>. QED
    BY <2>1, <2>2
<1>2. \A b \in replicated' : Recorded(b)' => b \in replicated /\ Recorded(b)
  BY DEF Recorded
<1>3. ASSUME NEW v \in Promised' PROVE v \in Promised
  <2>1. CASE v \in acked'
    BY <2>1
  <2>2. CASE \E u \in Thread : pc'[u] \in InCallPc /\ v \in Versions(loc'[u].ticks)
    BY <1>1, <2>2
  <2>3. CASE \E b \in replicated' : Recorded(b)' /\ v \in b
    BY <1>2, <2>3 DEF Promised
  <2>. QED
    BY <2>1, <2>2, <2>3 DEF Promised, Versions
<1>. QED
  BY <1>3

(* A version that is promised has been written.                            *)
LEMMA PromisedWritten ==
    ASSUME Types, Genuine
    PROVE  /\ Promised \subseteq 1 .. Len(origin)
           /\ \A t \in Thread : Versions(loc[t].ticks) \subseteq 1 .. Len(origin)
<1>1. \A t \in Thread : Versions(loc[t].ticks) \subseteq 1 .. Len(origin)
  BY DEF Genuine, TicksGenuine, Versions
<1>2. acked \cup UNION replicated \subseteq 1 .. Len(origin)
  BY DEF Types, TVersions
<1>. QED
  BY <1>1, <1>2 DEF Promised

(* A step outside a flush that takes nothing away; what it promises beyond *)
(* the versions that were, it promises while there is no flush.            *)
LEMMA KeptFrame ==
    ASSUME Kept, Promised \subseteq 1 .. Len(origin),
           \A u \in Thread : Versions(loc[u].ticks) \subseteq 1 .. Len(origin),
           NEW t \in Thread, Others(t), origin' = origin, status' = status,
           \A v \in 1 .. Len(origin) : Covers(mem, v) => Covers(mem', v),
           Versions(wal) \subseteq Versions(wal'),
           \A v \in Promised : InTable(v) => InTable(v)',
           \A v \in Promised' :
                \/ v \in Promised
                \/ v \in Versions(wal') /\ Covers(mem', v) /\ \A u \in Thread : pc[u] \notin FlushingPc,
           pc[t] \notin FlushingPc, pc'[t] \notin FlushingPc,
           pc'[t] \in LoggedPc => Versions(loc'[t].ticks) \subseteq Versions(wal'),
           pc'[t] = "b_wal" => \A v \in Versions(loc'[t].ticks) : Covers(mem', v)
    PROVE  Kept'
<1>1. ASSUME NEW v, NEW R, Covers(R, v) PROVE Covers(R, v)'
  BY <1>1 DEF Covers, KeyOf
<1>2. ASSUME NEW v \in 1 .. Len(origin), Covers(mem, v) PROVE Covers(mem, v)'
  BY <1>2 DEF Covers, KeyOf
<1>3. ASSUME NEW u \in Thread, u # t
      PROVE  pc'[u] = pc[u] /\ loc'[u].ticks = loc[u].ticks /\ loc'[u].rows = loc[u].rows
  BY <1>3 DEF Others, SameWork
<1>4. ASSUME NEW v \in Promised' PROVE Logs(v)'
  <2>1. CASE v \in Promised
    <3>1. Logs(v)
      BY <2>1 DEF Kept
    <3>2. v \in Versions(wal) => v \in Versions(wal)'
      BY DEF Versions
    <3>. QED
      BY <2>1, <3>1, <3>2 DEF Logs
  <2>2. CASE v \in Versions(wal')
    BY <2>2 DEF Logs, Versions
  <2>. QED
    BY <2>1, <2>2
<1>5. ASSUME status' = "up", \A u \in Thread : pc'[u] \notin FlushingPc, NEW v \in Promised'
      PROVE  Serves(v)'
  <2>1. \A u \in Thread : pc[u] \notin FlushingPc
    BY <1>3, <1>5
  <2>2. CASE v \in Promised
    <3>1. Serves(v)
      BY <1>5, <2>1, <2>2 DEF Kept
    <3>. QED
      BY <1>2, <2>2, <3>1 DEF Serves
  <2>3. CASE Covers(mem', v)
    BY <2>3 DEF Serves, Covers, KeyOf
  <2>. QED
    BY <2>2, <2>3
<1>6. ASSUME NEW u \in Thread, pc'[u] \in FlushingPc, NEW v \in Promised'
      PROVE  Drained(u, v)'
  <2>1. u # t
    BY <1>6
  <2>2. pc'[u] = pc[u] /\ loc'[u].rows = loc[u].rows
    BY <1>3, <2>1
  <2>3. v \in Promised
    BY <1>6, <2>2
  <2>4. Drained(u, v)
    BY <1>6, <2>2, <2>3 DEF Kept
  <2>. QED
    BY <2>2, <2>3, <2>4 DEF Drained, Covers, KeyOf
<1>7. ASSUME NEW u \in Thread, pc'[u] \in LoggedPc
      PROVE  Versions(loc'[u].ticks) \subseteq Versions(wal')
  <2>1. CASE u = t
    BY <1>7, <2>1
  <2>2. CASE u # t
    BY <1>3, <1>7, <2>2 DEF Kept
  <2>. QED
    BY <2>1, <2>2
<1>8. ASSUME NEW u \in Thread, pc'[u] = "b_wal", NEW v \in Versions(loc'[u].ticks)
      PROVE  Covers(mem, v)'
  <2>1. CASE u = t
    BY <1>8, <2>1 DEF Covers, KeyOf
  <2>2. CASE u # t
    <3>1. pc[u] = "b_wal" /\ v \in Versions(loc[u].ticks)
      BY <1>3, <1>8, <2>2
    <3>. QED
      BY <1>2, <3>1 DEF Kept
  <2>. QED
    BY <2>1, <2>2
<1>9. (status = "up" /\ (\A u \in Thread : pc[u] \notin FlushingPc) => \A v \in Promised : Serves(v))'
  BY <1>5
<1>10. (\A u \in Thread : pc[u] \in FlushingPc => \A v \in Promised : Drained(u, v))'
  BY <1>6
<1>11. (\A u \in Thread : pc[u] \in LoggedPc => Versions(loc[u].ticks) \subseteq Versions(wal))'
  BY <1>7 DEF Versions
<1>12. (\A u \in Thread : pc[u] = "b_wal" => \A v \in Versions(loc[u].ticks) : Covers(mem, v))'
  BY <1>8 DEF Versions
<1>. QED
  BY <1>4, <1>9, <1>10, <1>11, <1>12 DEF Kept

(* The same for a step that changes none of memtable, log and tables.      *)
LEMMA KeptIdle ==
    ASSUME Kept, Types, Genuine, NEW t \in Thread, Others(t),
           UNCHANGED << origin, status, mem, wal, files >>,
           pc[t] \notin MergedPc, Promised' \subseteq Promised,
           pc[t] \notin FlushingPc, pc'[t] \notin FlushingPc,
           pc'[t] \notin LoggedPc, pc'[t] # "b_wal"
    PROVE  Kept'
<1>1. ASSUME NEW v, InTable(v) PROVE InTable(v)'
  BY <1>1, TableFrame
<1>2. /\ Promised \subseteq 1 .. Len(origin)
      /\ \A u \in Thread : Versions(loc[u].ticks) \subseteq 1 .. Len(origin)
  BY PromisedWritten
<1>. QED
  BY <1>1, <1>2, KeptFrame

(***************************************************************************)
(* Every action preserves the invariant.                                   *)
(***************************************************************************)

Steady == Types /\ Genuine /\ Shelved /\ Held /\ Batched /\ Asking /\ Named /\ Safe

(* What a call begins with is genuine.                                     *)
LEMMA BlankGenuine ==
    /\ RowsGenuine(NoRows) /\ TicksGenuine(NoLoc.ticks) /\ RowsGenuine(NoLoc.rows)
    /\ Rising(NoLoc.ticks) /\ Versions(NoLoc.ticks) = {}
    /\ \A p \in Pc : IsApplying(NoLoc, p) => p \in ApplyPc
  BY Blank DEF RowsGenuine, TicksGenuine, Rising, Versions, IsApplying

(* A step of a read.                                                       *)
LEMMA ReadsKeep ==
    ASSUME Steady, NEW t \in Thread, NEW l, NEW p, Reads(t, l, p)
    PROVE  Steady'
<1>1. /\ Types /\ Genuine /\ Shelved /\ Held /\ Batched /\ Asking /\ Named
      /\ l \in Loc /\ p \in {"idle"} \cup ReadPc /\ p \in Pc
      /\ status = "up" /\ status' = "up"
  BY DEF Steady, Reads, ReadPc, Pc
<1>2. UNCHANGED << work, role, opens, status, dict, mem, wal, files, nextFile, levels, applied, recorded,
                   dictW, memW, compW, origin, acked, replicated, hazards, crashes, ioErrors >>
  BY DEF Reads, shared, history
<1>3. Others(t) /\ pc'[t] = p /\ loc'[t] = l /\ TPc(pc') /\ TLoc(loc')
  BY <1>1, Moves DEF Reads
<1>4. /\ RowsGenuine(l.rows) /\ TicksGenuine(l.ticks) /\ Rising(l.ticks)
      /\ l.after = "idle" /\ (p = "idle" => l = NoLoc)
  <2>1. /\ RowsGenuine(loc[t].rows) /\ TicksGenuine(loc[t].ticks) /\ Rising(loc[t].ticks)
    BY <1>1 DEF Genuine, Batched
  <2>2. loc[t].after = "idle"
    <3>1. loc[t].after \in {"idle", "a_advance"} /\ pc[t] \notin FlushPc
      BY <1>1, LocTypes DEF Reads, ReadPc, FlushPc
    <3>. QED
      BY <1>1, <3>1 DEF Held, Holds
  <2>3. l = NoLoc \/ (SameWork(l, loc[t]) /\ p # "idle")
    BY DEF Reads
  <2>. QED
    BY <2>1, <2>2, <2>3, Blank, BlankGenuine DEF SameWork
<1>5. Types'
  BY <1>1, <1>2, <1>3 DEF Types, TLocks, Reads
<1>6. Genuine'
  BY <1>1, <1>2, <1>3, <1>4, GenuineFrame DEF Genuine
<1>7. Shelved'
  <2>1. p \notin OwnerPc
    BY <1>1 DEF OwnerPc, ReadPc
  <2>. QED
    BY <1>1, <1>2, <1>3, <2>1, ShelvedFrame
<1>8. Held'
  <2>1. Holds(t)'
    BY <1>1, <1>3, <1>4 DEF Holds, ReadPc, CompactionPc, InsertPc, ApplyPc
  <2>. QED
    BY <1>1, <1>2, <1>3, <2>1, LevelsLength, HeldFrame
<1>9. Batched'
  <2>1. ~IsApplying(l, p)
    BY <1>1, <1>4 DEF IsApplying, ApplyPc, ReadPc
  <2>. QED
    BY <1>1, <1>2, <1>3, <1>4, <2>1, BatchedFrame DEF Batched
<1>10. Asking'
  BY <1>1, <1>2, <1>3, AskingFrame DEF Reads
<1>11. Named'
  BY <1>1, <1>2, NamedFrame
<1>12. ASSUME Careful' PROVE Orderly' /\ Kept'
  <2>1. Orderly /\ Kept
    BY <1>2, <1>12 DEF Steady, Safe, Careful
  <2>2. /\ p \notin PuttingPc /\ p \notin FlushingPc /\ p \notin LoggedPc /\ p # "b_wal" /\ p \notin InCallPc
        /\ pc[t] \notin FlushingPc /\ pc[t] \notin MergedPc
    BY <1>1 DEF Reads, ReadPc, PuttingPc, UnputPc, UnloggedPc, FlushingPc, LoggedPc, InCallPc, FlushPc, MergedPc
  <2>3. Orderly'
    BY <1>2, <1>3, <2>1, <2>2, OrderlyFrame
  <2>4. Promised' \subseteq Promised
    BY <1>2, <1>3, <2>2, PromisedFrame DEF Promised
  <2>5. Kept'
    BY <1>1, <1>2, <1>3, <2>1, <2>2, <2>4, KeptIdle
  <2>. QED
    BY <2>3, <2>5
<1>13. Safe'
  BY <1>12 DEF Safe
<1>. QED
  BY <1>5, <1>6, <1>7, <1>8, <1>9, <1>10, <1>11, <1>13 DEF Steady

(* A compaction that goes on to a level, or ends.                          *)
LEMMA TurnsKeep ==
    ASSUME Steady, NEW t \in Thread, NEW l, NEW p, Turns(t, l, p)
    PROVE  Steady'
<1>1. /\ Types /\ Genuine /\ Shelved /\ Held /\ Batched /\ Asking /\ Named
      /\ l \in Loc /\ p \in {"idle", "c_read"} /\ p \in Pc
      /\ status = "up" /\ status' = "up"
  BY DEF Steady, Turns, Pc
<1>2. UNCHANGED << work, role, opens, status, dict, mem, wal, files, nextFile, levels, applied, recorded,
                   dictW, dictR, memW, origin, acked, replicated, hazards, crashes, ioErrors >>
  BY DEF Turns, shared, history
<1>3. Others(t) /\ pc'[t] = p /\ loc'[t] = l /\ TPc(pc') /\ TLoc(loc')
  BY <1>1, Moves DEF Turns
<1>4. pc[t] \in {"idle", "c_read", "c_next"} /\ (p = "idle" => l = NoLoc)
  BY DEF Turns
<1>5. RowsGenuine(l.rows) /\ TicksGenuine(l.ticks) /\ Rising(l.ticks) /\ l.after = "idle"
  <2>1. /\ RowsGenuine(loc[t].rows) /\ TicksGenuine(loc[t].ticks) /\ Rising(loc[t].ticks)
    BY <1>1 DEF Genuine, Batched
  <2>2. loc[t].after = "idle"
    <3>1. loc[t].after \in {"idle", "a_advance"} /\ pc[t] \notin FlushPc
      BY <1>1, <1>4, LocTypes DEF FlushPc
    <3>. QED
      BY <1>1, <3>1 DEF Held, Holds
  <2>3. l = NoLoc \/ (l.ticks = loc[t].ticks /\ l.rows = loc[t].rows /\ l.after = loc[t].after)
    BY DEF Turns
  <2>. QED
    BY <2>1, <2>2, <2>3, Blank, BlankGenuine
<1>6. Types'
  <2>1. compW' \in {None, t}
    BY DEF Turns
  <2>. QED
    BY <1>1, <1>2, <1>3, <2>1 DEF Types, TLocks
<1>7. Genuine'
  BY <1>1, <1>2, <1>3, <1>5, GenuineFrame DEF Genuine
<1>8. Shelved'
  <2>1. p \notin OwnerPc
    BY <1>1 DEF OwnerPc
  <2>. QED
    BY <1>1, <1>2, <1>3, <2>1, ShelvedFrame
<1>9. Held'
  <2>1. Holds(t)'
    BY <1>1, <1>2, <1>3, <1>5 DEF Holds, CompactionPc, InsertPc, ApplyPc, Turns
  <2>2. \A u \in Thread \ {t} : compW # u
    <3>1. compW = None \/ compW = t
      BY <1>1, <1>4 DEF Turns, Held, Holds, CompactionPc
    <3>. QED
      BY <3>1, LsmAssumption
  <2>. QED
    BY <1>1, <1>2, <1>3, <2>1, <2>2, LevelsLength, HeldFrame
<1>10. Batched'
  <2>1. ~IsApplying(l, p)
    BY <1>1, <1>5 DEF IsApplying, ApplyPc
  <2>. QED
    BY <1>1, <1>2, <1>3, <1>5, <2>1, BatchedFrame DEF Batched
<1>11. Asking'
  BY <1>1, <1>2, <1>3, AskingFrame DEF ReadPc
<1>12. Named'
  BY <1>1, <1>2, NamedFrame
<1>13. ASSUME Careful' PROVE Orderly' /\ Kept'
  <2>1. Orderly /\ Kept
    BY <1>2, <1>13 DEF Steady, Safe, Careful
  <2>2. /\ p \notin PuttingPc /\ p \notin FlushingPc /\ p \notin LoggedPc /\ p # "b_wal" /\ p \notin InCallPc
        /\ pc[t] \notin FlushingPc /\ pc[t] \notin MergedPc
    BY <1>1, <1>4 DEF PuttingPc, UnputPc, UnloggedPc, FlushingPc, LoggedPc, InCallPc, FlushPc, MergedPc
  <2>3. Orderly'
    BY <1>2, <1>3, <2>1, <2>2, OrderlyFrame
  <2>4. Promised' \subseteq Promised
    BY <1>2, <1>3, <2>2, PromisedFrame DEF Promised
  <2>5. Kept'
    BY <1>1, <1>2, <1>3, <2>1, <2>2, <2>4, KeptIdle
  <2>. QED
    BY <2>3, <2>5
<1>14. Safe'
  BY <1>13 DEF Safe
<1>. QED
  BY <1>6, <1>7, <1>8, <1>9, <1>10, <1>11, <1>12, <1>14 DEF Steady

\* A lock that t leaves alone, takes or gives back.
Locks(t, before, after) == after = before \/ (before \in {t, None} /\ after \in {t, None})

\* A step of thread t to label p, with local variables l, that begins neither a
\* write nor a read.
Advances(t, l, p) ==
    /\ status = "up" /\ p \in Pc \ ReadPc /\ l \in Loc
    /\ Others(t) /\ pc'[t] = p /\ loc'[t] = l /\ TPc(pc') /\ TLoc(loc')
    /\ l.ticks = loc[t].ticks \/ l = NoLoc
    /\ IsApplying(l, p) => IsApplying(loc[t], pc[t]) /\ l.ticks = loc[t].ticks
    /\ Locks(t, dictW, dictW') /\ Locks(t, memW, memW') /\ Locks(t, compW, compW')
    /\ UNCHANGED << work, role, opens, status, dict, origin, replicated, crashes, dictR >>

(* What such a step keeps: the rest is about files, log and memtable.      *)
LEMMA Routine ==
    ASSUME Steady, NEW t \in Thread, NEW l, NEW p, Advances(t, l, p), Holds(t)',
           RowsGenuine(l.rows),
           mem' \in Rows, RowsGenuine(mem'), TTicks(wal'), TicksGenuine(wal'),
           TFiles(files'), \A f \in DOMAIN files' : RowsGenuine(files'[f].rows),
           TNext(nextFile'), TLevels(levels'), Len(levels) <= Len(levels'),
           TApplied(applied', recorded'), Reached(applied'), Reached(recorded'),
           acked' \subseteq acked \cup Versions(loc[t].ticks),
           THazards(hazards'), hazards \subseteq hazards', TCounts(work, crashes, ioErrors')
    PROVE  Types' /\ Genuine' /\ Held' /\ Batched' /\ Asking' /\ Named'
<1>1. /\ Types /\ Genuine /\ Shelved /\ Held /\ Batched /\ Asking /\ Named
      /\ status = "up" /\ status' = "up"
      /\ Others(t) /\ pc'[t] = p /\ loc'[t] = l
      /\ UNCHANGED << role, dict, origin, replicated >>
  BY DEF Steady, Advances
<1>2. Types'
  <2>1. TLocks(dictW', dictR', memW', compW')
    BY <1>1 DEF Types, TLocks, Advances, Locks
  <2>2. TVersions(origin, acked \cup Versions(loc[t].ticks), replicated)
    BY <1>1, TicksNumbered
  <2>3. TVersions(origin', acked', replicated')
    BY <1>1, <2>2 DEF TVersions
  <2>. QED
    BY <1>1, <2>1, <2>3 DEF Types, Advances
<1>3. TicksGenuine(l.ticks) /\ Rising(l.ticks)
  BY <1>1, BlankGenuine DEF Advances, Genuine, Batched
<1>4. Genuine'
  BY <1>1, <1>3, GenuineFrame
<1>5. Held'
  <2>1. \A u \in Thread \ {t} : /\ compW = u => compW' = u
                                /\ dictW = u => dictW' = u
                                /\ memW = u => memW' = u
    BY LsmAssumption DEF Advances, Locks
  <2>2. Len(levels') \in Nat
    BY DEF TLevels
  <2>. QED
    BY <1>1, <2>1, <2>2, HeldFrame
<1>6. Batched'
  <2>1. IsApplying(l, p) => Versions(l.ticks) \in replicated
    BY <1>1 DEF Advances, Batched
  <2>. QED
    BY <1>1, <1>3, <2>1, BatchedFrame
<1>7. Asking'
  <2>1. p \notin ReadPc
    BY DEF Advances
  <2>. QED
    BY <1>1, <2>1, AskingFrame
<1>8. Named'
  BY <1>1, NamedFrame
<1>. QED
  BY <1>2, <1>4, <1>5, <1>6, <1>7, <1>8

(***************************************************************************)
(* Writing.                                                                *)
(***************************************************************************)

(* A thread that goes on to another label with the same local variables.   *)
LEMMA SameLocals ==
    ASSUME Types, NEW t \in Thread, NEW p \in Pc, Goto(t, p), loc' = loc
    PROVE  Others(t) /\ pc'[t] = p /\ loc'[t] = loc[t] /\ TPc(pc') /\ TLoc(loc') /\ loc[t] \in Loc
<1>1. loc' = [loc EXCEPT ![t] = loc[t]] /\ loc[t] \in Loc /\ pc' = [pc EXCEPT ![t] = p]
  BY DEF Types, TLoc, Goto
<1>. QED
  BY <1>1, Moves

(* A thread whose call ends.                                               *)
LEMMA Returns ==
    ASSUME Types, NEW t \in Thread, NEW vers, Return(t, vers)
    PROVE  /\ Others(t) /\ pc'[t] = "idle" /\ loc'[t] = NoLoc /\ TPc(pc') /\ TLoc(loc')
           /\ "idle" \in Pc \ ReadPc /\ NoLoc \in Loc /\ acked' = acked \cup vers
           /\ RowsGenuine(NoLoc.rows) /\ ~IsApplying(NoLoc, "idle") /\ Holds(t)'
<1>1. "idle" \in Pc \ ReadPc
  BY DEF Pc, ReadPc
<1>2. NoLoc \in Loc /\ NoLoc.after = "idle"
  BY Blank
<1>3. Others(t) /\ pc'[t] = "idle" /\ loc'[t] = NoLoc /\ TPc(pc') /\ TLoc(loc')
  BY <1>1, <1>2, Moves DEF Return
<1>4. Holds(t)'
  BY <1>2, <1>3 DEF Holds, CompactionPc, InsertPc, ApplyPc
<1>5. ~IsApplying(NoLoc, "idle")
  BY <1>2 DEF IsApplying, ApplyPc
<1>. QED
  BY <1>1, <1>2, <1>3, <1>4, <1>5, BlankGenuine DEF Return

(* Newer ticks, in their order, after ticks in theirs.                     *)
LEMMA OrderJoined ==
    ASSUME NEW a, NEW s, NEW w, Len(a) \in Nat, Len(s) \in Nat, Len(w) \in Nat,
           \A i \in 1 .. Len(w) :
                \/ i \in 1 .. Len(a) /\ w[i] = a[i]
                \/ i > Len(a) /\ i - Len(a) \in 1 .. Len(s) /\ w[i] = s[i - Len(a)],
           \A i \in 1 .. Len(w) : w[i].ver \in Nat,
           InOrder(a), Rising(s), AboveTicks(s, a)
    PROVE  InOrder(w)
<1>1. SUFFICES ASSUME NEW i \in 1 .. Len(w), NEW j \in 1 .. Len(w), i < j
               PROVE  w[i].ver <= w[j].ver
  BY DEF InOrder
<1>2. w[i].ver \in Nat /\ w[j].ver \in Nat
  OBVIOUS
<1>3. CASE j \in 1 .. Len(a) /\ w[j] = a[j]
  <2>1. i \in 1 .. Len(a) /\ w[i] = a[i]
    BY <1>1, <1>3
  <2>. QED
    BY <1>1, <1>3, <2>1 DEF InOrder
<1>4. CASE j > Len(a) /\ j - Len(a) \in 1 .. Len(s) /\ w[j] = s[j - Len(a)]
  <2>1. CASE i \in 1 .. Len(a) /\ w[i] = a[i]
    <3>1. w[i].ver < w[j].ver
      BY <1>4, <2>1 DEF AboveTicks
    <3>. QED
      BY <1>2, <3>1
  <2>2. CASE i > Len(a) /\ i - Len(a) \in 1 .. Len(s) /\ w[i] = s[i - Len(a)]
    <3>1. i - Len(a) < j - Len(a)
      BY <1>1
    <3>2. w[i].ver < w[j].ver
      BY <1>4, <2>2, <3>1 DEF Rising
    <3>. QED
      BY <1>2, <3>2
  <2>. QED
    BY <2>1, <2>2
<1>. QED
  BY <1>3, <1>4

(* The log after an append of the first n ticks of a call.                 *)
LEMMA Appended ==
    ASSUME Types, Genuine, Batched, NEW t \in Thread, NEW s, s \in Seq(Tick),
           Len(s) <= Len(loc[t].ticks), \A i \in 1 .. Len(s) : s[i] = loc[t].ticks[i],
           NEW w, w = wal \o s
    PROVE  /\ TTicks(w) /\ TicksGenuine(w) /\ Versions(w) = Versions(wal) \cup Versions(s)
           /\ InOrder(wal) /\ AboveTicks(loc[t].ticks, wal) => InOrder(w)
<1>1. wal \in Seq(Tick) /\ loc[t].ticks \in Seq(Tick) /\ Len(loc[t].ticks) \in Nat /\ Len(s) \in Nat
  BY LocTypes DEF Types, TTicks
<1>2. TicksGenuine(wal) /\ TicksGenuine(loc[t].ticks) /\ Rising(loc[t].ticks)
  BY DEF Genuine, Batched
<1>3. /\ w \in Seq(Tick) /\ Len(wal) \in Nat /\ Len(w) = Len(wal) + Len(s)
      /\ \A i \in 1 .. Len(w) :
                \/ i \in 1 .. Len(wal) /\ w[i] = wal[i]
                \/ i > Len(wal) /\ i - Len(wal) \in 1 .. Len(s) /\ w[i] = s[i - Len(wal)]
      /\ Versions(w) = Versions(wal) \cup Versions(s)
  BY <1>1, VersionsJoin
<1>4. \A i \in 1 .. Len(s) : i \in 1 .. Len(loc[t].ticks)
  BY <1>1
<1>5. TicksGenuine(s) /\ Rising(s)
  BY <1>2, <1>4 DEF TicksGenuine, Rising
<1>6. TicksGenuine(w)
  BY <1>2, <1>3, <1>5 DEF TicksGenuine
<1>7. \A i \in 1 .. Len(w) : w[i].ver \in Nat
  <2>1. Len(origin) \in Nat
    BY DEF Types, TOrigin
  <2>. QED
    BY <1>6, <2>1 DEF TicksGenuine
<1>8. InOrder(wal) /\ AboveTicks(loc[t].ticks, wal) => InOrder(w)
  <2>1. ASSUME AboveTicks(loc[t].ticks, wal) PROVE AboveTicks(s, wal)
    BY <1>4, <2>1 DEF AboveTicks
  <2>2. Len(w) \in Nat
    BY <1>1, <1>3
  <2>. QED
    BY <1>1, <1>3, <1>5, <1>7, <2>1, <2>2, OrderJoined, Zenon
<1>. QED
  BY <1>3, <1>6, <1>8 DEF TTicks

\* A call logs its ticks: insert_wal, batch_wal and apply_wal.
LogsTicks(t, p) ==
    /\ \/ pc[t] = "i_wal" /\ p = "i_mem"
       \/ pc[t] = "b_wal" /\ p = "b_len"
       \/ pc[t] = "a_wal" /\ p = "a_mem"
    /\ status = "up" /\ Log(t, p)

(* Logging the ticks of a call.                                            *)
LEMMA LogKeeps ==
    ASSUME Steady, NEW t \in Thread, NEW p, LogsTicks(t, p)
    PROVE  Steady'
<1>1. Types /\ Genuine /\ Shelved /\ Held /\ Batched /\ Asking /\ Named /\ status = "up"
  BY DEF Steady, LogsTicks
<1>2. /\ pc[t] \in {"i_wal", "b_wal", "a_wal"} /\ p \in {"i_mem", "b_len", "a_mem"}
      /\ p \in Pc \ ReadPc /\ p \notin CompactionPc /\ p # "idle" /\ p # "b_wal"
      /\ p \in InsertPc => pc[t] \in InsertPc
      /\ p \in ApplyPc => pc[t] \in ApplyPc
      /\ p \in LoggedPc => pc[t] \in UnputPc
      /\ p \in {"b_wal", "b_len"} => pc[t] = "b_wal"
      /\ p = "b_len" \/ p \in LoggedPc
      /\ pc[t] \notin FlushPc
  BY DEF LogsTicks, Pc, ReadPc, CompactionPc, InsertPc, ApplyPc, LoggedPc, UnputPc, FlushPc
<1>3. UNCHANGED << work, role, opens, status, dict, mem, files, nextFile, levels, applied, recorded, loc,
                   dictW, dictR, memW, compW, origin, acked, replicated, crashes, ioErrors >>
  BY DEF LogsTicks, Log, locks
<1>4. Others(t) /\ pc'[t] = p /\ loc'[t] = loc[t] /\ TPc(pc') /\ TLoc(loc') /\ loc[t] \in Loc
  BY <1>1, <1>2, SameLocals DEF LogsTicks, Log
<1>5. /\ TTicks(wal') /\ TicksGenuine(wal') /\ Versions(wal') = Versions(wal) \cup Versions(loc[t].ticks)
      /\ InOrder(wal) /\ AboveTicks(loc[t].ticks, wal) => InOrder(wal')
  <2>1. loc[t].ticks \in Seq(Tick) /\ Len(loc[t].ticks) <= Len(loc[t].ticks)
    BY <1>1, LocTypes
  <2>2. wal' = wal \o loc[t].ticks
    BY DEF LogsTicks, Log
  <2>. QED
    BY <1>1, <2>1, <2>2, Appended
<1>6. /\ THazards(hazards') /\ hazards \subseteq hazards'
      /\ Careful' => Careful /\ \A u \in Thread : pc[u] \notin FlushingPc
  <2>1. PICK hs : hs = When(Flushing # {}, "overlap")
    OBVIOUS
  <2>2. hs \in SUBSET HazardNames /\ Note(hs)
    BY <2>1 DEF LogsTicks, Log, When, HazardNames
  <2>3. hs \cap Lossy = {} => Flushing = {}
    BY <2>1 DEF When, Lossy
  <2>4. Flushing = {} => \A u \in Thread : pc[u] \notin FlushingPc
    BY DEF Flushing, Draining, FlushingPc
  <2>5. THazards(hazards)
    BY <1>1 DEF Types
  <2>. QED
    BY <2>2, <2>3, <2>4, <2>5, Notes DEF Note
<1>7. Advances(t, loc[t], p)
  <2>1. IsApplying(loc[t], p) => IsApplying(loc[t], pc[t])
    BY <1>2 DEF IsApplying
  <2>. QED
    BY <1>1, <1>2, <1>3, <1>4, <2>1 DEF Advances, Locks
<1>8. Holds(t)'
  <2>1. Holds(t)
    BY <1>1 DEF Held
  <2>. QED
    BY <1>2, <1>3, <1>4, <2>1 DEF Holds
<1>9. Types' /\ Genuine' /\ Held' /\ Batched' /\ Asking' /\ Named'
  <2>1. RowsGenuine(mem) /\ RowsGenuine(loc[t].rows) /\ \A f \in DOMAIN files : RowsGenuine(files[f].rows)
    BY <1>1 DEF Genuine
  <2>2. Reached(applied) /\ Reached(recorded)
    BY <1>1 DEF Batched
  <2>3. Len(levels) <= Len(levels')
    BY <1>1, <1>3, LevelsLength
  <2>. QED
    BY <1>1, <1>3, <1>5, <1>6, <1>7, <1>8, <2>1, <2>2, <2>3, Routine DEF Types
<1>10. Shelved'
  <2>1. p \notin OwnerPc
    BY <1>2 DEF OwnerPc
  <2>. QED
    BY <1>1, <1>3, <1>4, <2>1, ShelvedFrame
<1>11. ASSUME Careful' PROVE Orderly' /\ Kept'
  <2>1. Orderly /\ Kept /\ \A u \in Thread : pc[u] \notin FlushingPc
    BY <1>6, <1>11 DEF Steady, Safe
  <2>2. pc[t] \in UnloggedPc /\ pc[t] \in PuttingPc /\ p \notin FlushingPc /\ p \notin UnloggedPc
    BY <1>2 DEF UnloggedPc, PuttingPc, FlushingPc
  <2>3. \A u \in Thread \ {t} : pc[u] \notin PuttingPc /\ pc[u] \notin UnputPc /\ pc[u] \notin UnloggedPc
    BY <2>1, <2>2 DEF Orderly, OneAtATime, PuttingPc
  <2>4. Orderly'
    <3>1. OneSymbolPerId'
      BY <1>3, <2>1 DEF Orderly, OneSymbolPerId
    <3>2. OneAtATime'
      BY <1>4, <2>1, <2>2, OneAtATimeFrame DEF Orderly
    <3>3. InOrder(wal)'
      <4>1. InOrder(wal')
        BY <1>5, <2>1, <2>2 DEF Orderly, Newer
      <4>. QED
        BY <4>1 DEF InOrder
    <3>4. p \in UnputPc => AboveRows(loc[t].ticks, mem)
      <4>1. p \in UnputPc => pc[t] \in UnputPc
        BY <1>2 DEF UnputPc
      <4>. QED
        BY <2>1, <4>1 DEF Orderly, Newer
    <3>5. Newer'
      BY <1>3, <1>4, <2>1, <2>2, <2>3, <3>4, NewerFrame DEF Orderly
    <3>. QED
      BY <3>1, <3>2, <3>3, <3>5 DEF Orderly
  <2>5. ASSUME NEW v \in Promised' PROVE v \in Promised \/ (p = "b_len" /\ v \in Versions(loc[t].ticks))
    <3>1. p \in InCallPc => p = "b_len"
      BY <1>2 DEF InCallPc, FlushPc
    <3>2. \A u \in Thread \ {t} : pc'[u] = pc[u]
      BY <1>4 DEF Others
    <3>. QED
      BY <1>3, <1>4, <3>1, <3>2 DEF Promised, Recorded, Versions
  <2>6. ASSUME NEW v \in Promised, InTable(v) PROVE InTable(v)'
    <3>1. pc[t] \notin MergedPc
      BY <1>2 DEF MergedPc
    <3>. QED
      BY <1>3, <1>4, <2>6, <3>1, TableFrame
  <2>7. ASSUME p = "b_len", NEW v \in Versions(loc[t].ticks) PROVE v \in Versions(wal') /\ Covers(mem, v)
    BY <1>2, <1>5, <2>1, <2>7 DEF Kept
  <2>8. \A v \in Promised' :
            \/ v \in Promised
            \/ v \in Versions(wal') /\ Covers(mem', v) /\ \A u \in Thread : pc[u] \notin FlushingPc
    BY <1>3, <2>1, <2>5, <2>7
  <2>9. /\ Promised \subseteq 1 .. Len(origin)
        /\ \A u \in Thread : Versions(loc[u].ticks) \subseteq 1 .. Len(origin)
    BY <1>1, PromisedWritten
  <2>10. Kept'
    BY <1>2, <1>3, <1>4, <1>5, <2>1, <2>2, <2>6, <2>8, <2>9, KeptFrame
  <2>. QED
    BY <2>4, <2>10
<1>12. Safe'
  BY <1>11 DEF Safe
<1>. QED
  BY <1>9, <1>10, <1>12 DEF Steady

(* The versions of the ticks of a call, and their keys.                    *)
LEMMA TickVersions ==
    ASSUME Types, Genuine, NEW s \in Seq(Tick), TicksGenuine(s), NEW i \in 1 .. Len(s)
    PROVE  /\ s[i].ver \in Nat /\ s[i].ver > 0 /\ s[i].ver \in Versions(s) /\ s[i].key \in Key
           /\ s[i].key = KeyOf(s[i].ver)
<1>1. Len(origin) \in Nat
  BY DEF Types, TOrigin
<1>2. s[i] \in Tick
  OBVIOUS
<1>3. s[i].key \in Key
  BY <1>2 DEF Tick
<1>. QED
  BY <1>1, <1>3 DEF TicksGenuine, Versions

(* The memtable after the ticks of a list have been put into it, one after *)
(* the other.                                                              *)
LEMMA PutGenuine ==
    ASSUME Types, Genuine, NEW R \in Rows, RowsGenuine(R), NEW s \in Seq(Tick), TicksGenuine(s),
           NEW m, m = mem_insert(R, s)
    PROVE  /\ m \in Rows /\ RowsGenuine(m)
           /\ InOrder(s) /\ AboveRows(s, R) =>
                /\ \A k \in Key : R[k] <= m[k]
                /\ \A v \in Versions(s) : Covers(m, v)
<1>1. /\ m \in Rows
      /\ \A k \in Key :
                \/ m[k] = R[k] /\ \A i \in 1 .. Len(s) : s[i].key # k
                \/ \E i \in 1 .. Len(s) :
                    /\ s[i].key = k /\ m[k] = s[i].ver
                    /\ \A j \in 1 .. Len(s) : s[j].key = k => j <= i
  BY Inserts
<1>2. \A i \in 1 .. Len(s) : /\ s[i].ver \in Nat /\ s[i].ver > 0 /\ s[i].key \in Key
                             /\ s[i].key = KeyOf(s[i].ver)
  BY TickVersions
<1>3. \A i \in 1 .. Len(s) : s[i].ver <= Len(origin)
  <2>1. Len(origin) \in Nat
    BY DEF Types, TOrigin
  <2>. QED
    BY <2>1 DEF TicksGenuine
<1>4. RowsGenuine(m)
  <2>1. SUFFICES ASSUME NEW k \in Key, m[k] # 0
                 PROVE  m[k] <= Len(origin) /\ KeyOf(m[k]) = k
    BY DEF RowsGenuine
  <2>2. CASE m[k] = R[k]
    BY <2>1, <2>2 DEF RowsGenuine
  <2>3. CASE \E i \in 1 .. Len(s) : s[i].key = k /\ m[k] = s[i].ver
    BY <1>2, <1>3, <2>3
  <2>. QED
    BY <1>1, <2>2, <2>3
<1>5. ASSUME InOrder(s), AboveRows(s, R), NEW k \in Key PROVE R[k] <= m[k]
  <2>1. R[k] \in Nat
    BY Blank DEF Rows, Version
  <2>2. CASE m[k] = R[k]
    BY <2>1, <2>2
  <2>3. CASE \E i \in 1 .. Len(s) : s[i].key = k /\ m[k] = s[i].ver
    <3>1. PICK i \in 1 .. Len(s) : s[i].key = k /\ m[k] = s[i].ver
      BY <2>3
    <3>2. R[k] < s[i].ver
      BY <1>5 DEF AboveRows
    <3>. QED
      BY <1>2, <2>1, <3>1, <3>2
  <2>. QED
    BY <1>1, <2>2, <2>3
<1>6. ASSUME InOrder(s), NEW v \in Versions(s) PROVE Covers(m, v)
  <2>1. PICK j \in 1 .. Len(s) : s[j].ver = v
    BY DEF Versions
  <2>2. PICK k \in Key : k = s[j].key /\ k = KeyOf(v)
    BY <1>2, <2>1
  <2>3. PICK i \in 1 .. Len(s) : s[i].key = k /\ m[k] = s[i].ver /\ j <= i
    BY <1>1, <2>2
  <2>4. s[j].ver <= s[i].ver
    <3>1. CASE j = i
      BY <1>2, <3>1
    <3>2. CASE j # i
      <4>1. j < i
        BY <2>3, <3>2
      <4>. QED
        BY <1>6, <4>1 DEF InOrder
    <3>. QED
      BY <3>1, <3>2
  <2>. QED
    BY <1>2, <2>1, <2>2, <2>3, <2>4 DEF Covers
<1>. QED
  BY <1>1, <1>4, <1>5, <1>6

(* The key of a version that has been written.                             *)
LEMMA KeyWritten ==
    ASSUME Types, NEW v \in 1 .. Len(origin)
    PROVE  v \in Nat /\ KeyOf(v) \in Key
<1>1. origin \in Seq(Entry) /\ Len(origin) \in Nat
  BY DEF Types, TOrigin
<1>2. origin[v] \in Entry
  BY <1>1
<1>3. origin[v][3] \in Id /\ origin[v][2] \in Timestamp
  BY <1>2 DEF Entry
<1>. QED
  BY <1>1, <1>3, KeyParts DEF KeyOf

\* A call puts its ticks into the memtable.
PutsTicks(t, l, p) ==
    /\ status = "up" /\ memW = None /\ Put(t)
    /\ \/ pc[t] = "i_mem" /\ p = "i_len" /\ l = loc[t] /\ memW' = memW
       \/ pc[t] = "b_mem" /\ p = "b_wal" /\ l = loc[t] /\ memW' = t
       \/ pc[t] = "a_mem" /\ p = "a_advance" /\ l = loc[t] /\ memW' = memW
       \/ pc[t] = "a_mem" /\ p = "f_drain" /\ l = [loc[t] EXCEPT !.after = "a_advance"] /\ memW' = memW
    /\ pc' = [pc EXCEPT ![t] = p] /\ loc' = [loc EXCEPT ![t] = l]
    /\ UNCHANGED << work, role, opens, status, dict, wal, files, nextFile, levels, applied, recorded,
                    dictW, dictR, compW, history >>

(* insert_memtable, batch_memtable and apply_memtable.                     *)
LEMMA PutSteps ==
    ASSUME Types, NEW t \in Thread, insert_memtable(t) \/ batch_memtable(t) \/ apply_memtable(t)
    PROVE  \E l, p : PutsTicks(t, l, p)
<1>1. loc = [loc EXCEPT ![t] = loc[t]]
  BY DEF Types, TLoc
<1>2. CASE insert_memtable(t)
  <2>1. PutsTicks(t, loc[t], "i_len")
    BY <1>1, <1>2 DEF insert_memtable, PutsTicks, Goto, Up, locks
  <2>. QED
    BY <2>1
<1>3. CASE batch_memtable(t)
  <2>1. PutsTicks(t, loc[t], "b_wal")
    BY <1>1, <1>3 DEF batch_memtable, PutsTicks, Goto, Up
  <2>. QED
    BY <2>1
<1>4. CASE apply_memtable(t)
  <2>1. CASE mem_len(mem') >= FlushThreshold
    <3>1. PICK l : l = [loc[t] EXCEPT !.after = "a_advance"]
      OBVIOUS
    <3>2. loc' = [loc EXCEPT ![t] = l] /\ pc' = [pc EXCEPT ![t] = "f_drain"]
      BY <1>4, <2>1, <3>1 DEF apply_memtable, Goto, Types, TLoc
    <3>3. PutsTicks(t, l, "f_drain")
      BY <1>4, <3>1, <3>2 DEF apply_memtable, PutsTicks, Up, locks
    <3>. QED
      BY <3>3
  <2>2. CASE ~(mem_len(mem') >= FlushThreshold)
    <3>1. PutsTicks(t, loc[t], "a_advance")
      BY <1>1, <1>4, <2>2 DEF apply_memtable, PutsTicks, Goto, Up, locks
    <3>. QED
      BY <3>1
  <2>. QED
    BY <2>1, <2>2
<1>. QED
  BY <1>2, <1>3, <1>4

(* Putting the ticks of a call into the memtable.                          *)
LEMMA PutKeeps ==
    ASSUME Steady, NEW t \in Thread, NEW l, NEW p, PutsTicks(t, l, p)
    PROVE  Steady'
<1>1. Types /\ Genuine /\ Shelved /\ Held /\ Batched /\ Asking /\ Named /\ status = "up"
  BY DEF Steady, PutsTicks
<1>2. /\ pc[t] \in {"i_mem", "b_mem", "a_mem"} /\ p \in {"i_len", "b_wal", "a_advance", "f_drain"}
      /\ p \in Pc \ ReadPc /\ p \notin CompactionPc /\ p # "idle"
      /\ p \in InsertPc => pc[t] \in InsertPc
      /\ p \in ApplyPc => pc[t] \in ApplyPc
      /\ p \in {"b_wal", "b_len"} => memW' = t
      /\ p = "b_wal" => pc[t] = "b_mem"
      /\ p # "b_wal" => pc[t] \in LoggedPc
      /\ p # "f_drain" => l = loc[t]
      /\ p = "f_drain" => p \in FlushPc /\ pc[t] \in ApplyPc
      /\ pc[t] \notin FlushPc
  BY DEF PutsTicks, Pc, ReadPc, CompactionPc, InsertPc, ApplyPc, LoggedPc, FlushPc
<1>3. UNCHANGED << work, role, opens, status, dict, wal, files, nextFile, levels, applied, recorded,
                   dictW, dictR, compW, origin, acked, replicated, hazards, crashes, ioErrors >>
  BY DEF PutsTicks, history
<1>4. l \in Loc /\ l.ticks = loc[t].ticks /\ l.rows = loc[t].rows
  <2>1. loc[t] \in Loc
    BY <1>1, LocTypes
  <2>2. l = loc[t] \/ l = [loc[t] EXCEPT !.after = "a_advance"]
    BY DEF PutsTicks
  <2>. QED
    BY <2>1, <2>2 DEF Loc
<1>5. Others(t) /\ pc'[t] = p /\ loc'[t] = l /\ TPc(pc') /\ TLoc(loc')
  <2>1. pc' = [pc EXCEPT ![t] = p] /\ loc' = [loc EXCEPT ![t] = l] /\ p \in Pc
    BY <1>2 DEF PutsTicks
  <2>. QED
    BY <1>1, <1>4, <2>1, Moves
<1>6. loc[t].after = "idle"
  <2>1. loc[t].after \in {"idle", "a_advance"}
    BY <1>1, LocTypes
  <2>. QED
    BY <1>1, <1>2, <2>1 DEF Held, Holds
<1>7. /\ mem' \in Rows /\ RowsGenuine(mem')
      /\ AboveRows(loc[t].ticks, mem) => /\ \A k \in Key : mem[k] <= mem'[k]
                                         /\ \A v \in Versions(loc[t].ticks) : Covers(mem', v)
  <2>1. /\ mem \in Rows /\ RowsGenuine(mem) /\ TicksGenuine(loc[t].ticks) /\ Rising(loc[t].ticks)
        /\ loc[t].ticks \in Seq(Tick) /\ mem' = mem_insert(mem, loc[t].ticks)
    BY <1>1, LocTypes DEF Types, Genuine, Batched, PutsTicks, Put
  <2>2. InOrder(loc[t].ticks)
    <3>1. \A i \in 1 .. Len(loc[t].ticks) : loc[t].ticks[i].ver \in Nat
      BY <1>1, <2>1, TickVersions
    <3>. QED
      BY <2>1, <3>1 DEF InOrder, Rising
  <2>. QED
    BY <1>1, <2>1, <2>2, PutGenuine
<1>8. Advances(t, l, p)
  <2>1. IsApplying(l, p) => IsApplying(loc[t], pc[t])
    BY <1>2, <1>6 DEF IsApplying
  <2>2. Locks(t, memW, memW')
    BY DEF PutsTicks, Locks
  <2>. QED
    BY <1>1, <1>2, <1>3, <1>4, <1>5, <2>1, <2>2 DEF Advances, Locks
<1>9. Holds(t)'
  <2>1. Holds(t)
    BY <1>1 DEF Held
  <2>. QED
    BY <1>2, <1>3, <1>5, <1>6, <2>1 DEF Holds
<1>10. Types' /\ Genuine' /\ Held' /\ Batched' /\ Asking' /\ Named'
  <2>1. /\ RowsGenuine(l.rows) /\ \A f \in DOMAIN files : RowsGenuine(files[f].rows)
        /\ TicksGenuine(wal)
    BY <1>1, <1>4 DEF Genuine
  <2>2. Reached(applied) /\ Reached(recorded)
    BY <1>1 DEF Batched
  <2>3. Len(levels) <= Len(levels')
    BY <1>1, <1>3, LevelsLength
  <2>. QED
    BY <1>1, <1>3, <1>7, <1>8, <1>9, <2>1, <2>2, <2>3, Routine DEF Types
<1>11. Shelved'
  <2>1. p \notin OwnerPc
    BY <1>2 DEF OwnerPc
  <2>. QED
    BY <1>1, <1>3, <1>5, <2>1, ShelvedFrame
<1>12. ASSUME Careful' PROVE Orderly' /\ Kept'
  <2>1. Orderly /\ Kept
    BY <1>3, <1>12 DEF Steady, Safe, Careful
  <2>2. /\ pc[t] \in UnputPc /\ pc[t] \in PuttingPc /\ pc[t] \notin FlushingPc /\ p \notin FlushingPc
        /\ p \notin UnputPc /\ p \notin LoggedPc
        /\ (p \in UnloggedPc => pc[t] \in UnloggedPc)
    BY <1>2 DEF UnputPc, UnloggedPc, PuttingPc, FlushingPc, LoggedPc
  <2>3. \A u \in Thread \ {t} : pc[u] \notin PuttingPc /\ pc[u] \notin UnputPc /\ pc[u] \notin UnloggedPc
    BY <2>1, <2>2 DEF Orderly, OneAtATime, PuttingPc
  <2>4. AboveRows(loc[t].ticks, mem)
    BY <2>1, <2>2 DEF Orderly, Newer
  <2>5. Orderly'
    <3>1. OneSymbolPerId'
      BY <1>3, <2>1 DEF Orderly, OneSymbolPerId
    <3>2. OneAtATime'
      BY <1>5, <2>1, <2>2, OneAtATimeFrame DEF Orderly
    <3>3. InOrder(wal)'
      BY <1>3, <2>1 DEF Orderly, InOrder
    <3>4. p \in UnloggedPc => AboveTicks(l.ticks, wal)
      BY <1>4, <2>1, <2>2 DEF Orderly, Newer
    <3>5. Newer'
      BY <1>3, <1>5, <2>1, <2>2, <2>3, <3>4, NewerFrame DEF Orderly
    <3>. QED
      BY <3>1, <3>2, <3>3, <3>5 DEF Orderly
  <2>6. ASSUME NEW v \in Promised' PROVE v \in Promised \/ (p # "b_wal" /\ v \in Versions(loc[t].ticks))
    <3>1. p \in InCallPc => p # "b_wal"
      BY DEF InCallPc, FlushPc
    <3>2. \A u \in Thread \ {t} : pc'[u] = pc[u] /\ loc'[u].ticks = loc[u].ticks
      BY <1>5 DEF Others, SameWork
    <3>. QED
      BY <1>3, <1>4, <1>5, <3>1, <3>2 DEF Promised, Recorded, Versions
  <2>7. ASSUME NEW v \in Promised, InTable(v) PROVE InTable(v)'
    <3>1. pc[t] \notin MergedPc
      BY <1>2 DEF MergedPc
    <3>. QED
      BY <1>3, <1>5, <2>7, <3>1, TableFrame
  <2>8. /\ Promised \subseteq 1 .. Len(origin)
        /\ \A u \in Thread : Versions(loc[u].ticks) \subseteq 1 .. Len(origin)
    BY <1>1, PromisedWritten
  <2>9. ASSUME NEW v \in 1 .. Len(origin), Covers(mem, v) PROVE Covers(mem', v)
    <3>1. KeyOf(v) \in Key /\ v \in Nat
      BY <1>1, KeyWritten
    <3>2. mem[KeyOf(v)] \in Nat /\ mem'[KeyOf(v)] \in Nat
      BY <1>1, <1>7, <3>1, Blank DEF Types, Rows, Version
    <3>. QED
      BY <1>7, <2>4, <2>9, <3>1, <3>2 DEF Covers
  <2>10. \A v \in Promised' :
            \/ v \in Promised
            \/ v \in Versions(wal') /\ Covers(mem', v) /\ \A u \in Thread : pc[u] \notin FlushingPc
    <3>1. p # "b_wal" => /\ Versions(loc[t].ticks) \subseteq Versions(wal)
                         /\ \A u \in Thread : pc[u] \notin FlushingPc
      BY <1>2, <2>1 DEF Kept, Orderly, OneAtATime
    <3>. QED
      BY <1>3, <1>7, <2>4, <2>6, <3>1
  <2>11. Kept'
    BY <1>2, <1>3, <1>4, <1>5, <1>7, <2>1, <2>2, <2>4, <2>7, <2>8, <2>9, <2>10, KeptFrame
  <2>. QED
    BY <2>5, <2>11
<1>13. Safe'
  BY <1>12 DEF Safe
<1>. QED
  BY <1>10, <1>11, <1>13 DEF Steady

\* A write, a flush or a compaction ends, or goes on, and leaves log, memtable
\* and tables alone; nothing is promised that was not.
Passes(t, l, p) ==
    /\ Advances(t, l, p) /\ Holds(t)' /\ RowsGenuine(l.rows)
    /\ p \notin PuttingPc /\ p \notin FlushingPc /\ p \notin OwnerPc
    /\ pc[t] \notin MergedPc /\ pc[t] \notin FlushingPc
    /\ TApplied(applied', recorded') /\ Reached(applied') /\ Reached(recorded')
    /\ acked' \subseteq acked \cup Versions(loc[t].ticks)
    /\ TCounts(work, crashes, ioErrors')
    /\ Promised' \subseteq Promised
    /\ UNCHANGED << mem, wal, files, nextFile, levels, hazards >>

(* Such a step keeps the invariant.                                        *)
LEMMA PassKeeps ==
    ASSUME Steady, NEW t \in Thread, NEW l, NEW p, Passes(t, l, p)
    PROVE  Steady'
<1>1. Types /\ Genuine /\ Shelved /\ Held /\ Batched /\ Asking /\ Named
  BY DEF Steady
<1>2. /\ UNCHANGED << mem, wal, files, nextFile, levels, hazards, origin, status >>
      /\ Others(t) /\ pc'[t] = p /\ p \notin PuttingPc /\ p \notin FlushingPc /\ p \notin OwnerPc
      /\ pc[t] \notin MergedPc /\ pc[t] \notin FlushingPc
      /\ Promised' \subseteq Promised
  BY DEF Passes, Advances
<1>3. Types' /\ Genuine' /\ Held' /\ Batched' /\ Asking' /\ Named'
  <2>1. /\ RowsGenuine(mem) /\ \A f \in DOMAIN files : RowsGenuine(files[f].rows)
        /\ TicksGenuine(wal)
    BY <1>1 DEF Genuine
  <2>2. Len(levels) <= Len(levels')
    BY <1>1, <1>2, LevelsLength
  <2>3. /\ Advances(t, l, p) /\ Holds(t)' /\ RowsGenuine(l.rows)
        /\ TApplied(applied', recorded') /\ Reached(applied') /\ Reached(recorded')
        /\ acked' \subseteq acked \cup Versions(loc[t].ticks)
        /\ TCounts(work, crashes, ioErrors')
    BY DEF Passes
  <2>4. /\ mem \in Rows /\ TTicks(wal) /\ TFiles(files) /\ TNext(nextFile) /\ TLevels(levels)
        /\ THazards(hazards)
    BY <1>1 DEF Types
  <2>. QED
    BY <1>2, <2>1, <2>2, <2>3, <2>4, Routine
<1>4. Shelved'
  BY <1>1, <1>2, ShelvedFrame
<1>5. ASSUME Careful' PROVE Orderly' /\ Kept'
  <2>1. Orderly /\ Kept
    BY <1>2, <1>5 DEF Steady, Safe, Careful
  <2>2. p \notin LoggedPc /\ p # "b_wal"
    BY <1>2 DEF PuttingPc, UnputPc, UnloggedPc, LoggedPc
  <2>3. Orderly'
    BY <1>2, <2>1, OrderlyFrame
  <2>4. Kept'
    BY <1>1, <1>2, <2>1, <2>2, KeptIdle
  <2>. QED
    BY <2>3, <2>4
<1>6. Safe'
  BY <1>5 DEF Safe
<1>. QED
  BY <1>3, <1>4, <1>6 DEF Steady

(* A thread that ends its call here has nothing to clean up.               *)
LEMMA EndPasses ==
    ASSUME Steady, NEW t \in Thread, NEW vers, Return(t, vers), status = "up",
           pc[t] \notin MergedPc, pc[t] \notin FlushingPc,
           (pc[t] \in InCallPc /\ vers \subseteq Versions(loc[t].ticks)) \/ vers = {},
           Locks(t, dictW, dictW'), Locks(t, memW, memW'),
           TCounts(work, crashes, ioErrors'),
           UNCHANGED << work, role, opens, status, dict, mem, wal, files, nextFile, levels, applied, recorded,
                        dictR, compW, origin, replicated, hazards, crashes >>
    PROVE  \E l, p : Passes(t, l, p)
<1>1. Types /\ Batched
  BY DEF Steady
<1>2. /\ Others(t) /\ pc'[t] = "idle" /\ loc'[t] = NoLoc /\ TPc(pc') /\ TLoc(loc')
      /\ "idle" \in Pc \ ReadPc /\ NoLoc \in Loc /\ acked' = acked \cup vers
      /\ RowsGenuine(NoLoc.rows) /\ ~IsApplying(NoLoc, "idle") /\ Holds(t)'
  BY <1>1, Returns
<1>3. Advances(t, NoLoc, "idle")
  BY <1>2 DEF Advances, Locks
<1>4. "idle" \notin PuttingPc /\ "idle" \notin FlushingPc /\ "idle" \notin OwnerPc /\ "idle" \notin InCallPc
  BY DEF PuttingPc, UnputPc, UnloggedPc, FlushingPc, OwnerPc, InCallPc, FlushPc
<1>5. acked' \subseteq Promised
  BY <1>2 DEF Promised
<1>6. Promised' \subseteq Promised
  BY <1>2, <1>4, <1>5, PromisedFrame
<1>7. TApplied(applied', recorded') /\ Reached(applied') /\ Reached(recorded')
  BY <1>1 DEF Types, Batched
<1>8. Passes(t, NoLoc, "idle")
  BY <1>2, <1>3, <1>4, <1>6, <1>7 DEF Passes
<1>. QED
  BY <1>8

(* insert and insert_batch end, or go on to a flush.                       *)
LEMMA DonePasses ==
    ASSUME Steady, NEW t \in Thread, insert_done(t) \/ batch_done(t)
    PROVE  \E l, p : Passes(t, l, p)
<1>1. Types /\ Held /\ Batched /\ Genuine
  BY DEF Steady
<1>2. /\ status = "up" /\ pc[t] \in {"i_len", "b_len"}
      /\ UNCHANGED << work, role, opens, status, dict, mem, wal, files, nextFile, levels, applied, recorded,
                      dictR, compW, origin, replicated, hazards, crashes, ioErrors >>
      /\ memW' = memW \/ (pc[t] = "b_len" /\ memW' = None)
      /\ \/ Goto(t, "f_drain") /\ UNCHANGED << loc, dictW, acked >>
         \/ Return(t, Versions(loc[t].ticks)) /\ dictW' = None
  BY DEF insert_done, batch_done, Up, shared
<1>3. /\ pc[t] \in InCallPc /\ pc[t] \notin MergedPc /\ pc[t] \notin FlushingPc /\ pc[t] \notin FlushPc
      /\ pc[t] \notin ApplyPc
  BY <1>2 DEF InCallPc, MergedPc, FlushingPc, FlushPc, ApplyPc
<1>4. /\ dictW = t /\ Locks(t, memW, memW') /\ loc[t].after # "a_advance"
  BY <1>1, <1>2, <1>3 DEF Held, Holds, InsertPc, Locks
<1>5. TCounts(work, crashes, ioErrors') /\ Locks(t, dictW, dictW')
  BY <1>1, <1>2, <1>4 DEF Types, Locks
<1>6. CASE Return(t, Versions(loc[t].ticks))
  BY <1>2, <1>3, <1>4, <1>5, <1>6, EndPasses
<1>7. CASE Goto(t, "f_drain") /\ UNCHANGED << loc, dictW, acked >>
  <2>1. /\ "f_drain" \in Pc \ ReadPc /\ "f_drain" \notin PuttingPc /\ "f_drain" \notin FlushingPc
        /\ "f_drain" \notin OwnerPc /\ "f_drain" \notin CompactionPc /\ "f_drain" \notin InsertPc
        /\ "f_drain" \notin ApplyPc
    BY DEF Pc, ReadPc, PuttingPc, UnputPc, UnloggedPc, FlushingPc, OwnerPc, CompactionPc, InsertPc, ApplyPc
  <2>2. Others(t) /\ pc'[t] = "f_drain" /\ loc'[t] = loc[t] /\ TPc(pc') /\ TLoc(loc') /\ loc[t] \in Loc
    BY <1>1, <1>7, <2>1, SameLocals
  <2>3. Holds(t)'
    BY <1>4, <2>1, <2>2 DEF Holds
  <2>4. ~IsApplying(loc[t], "f_drain")
    BY <1>4, <2>1 DEF IsApplying
  <2>5. Advances(t, loc[t], "f_drain")
    BY <1>2, <1>4, <1>5, <2>1, <2>2, <2>4 DEF Advances, Locks
  <2>6. Promised' \subseteq Promised
    <3>1. Versions(loc[t].ticks) \subseteq Promised /\ acked \subseteq Promised
      BY <1>3 DEF Promised
    <3>. QED
      BY <1>2, <1>7, <2>2, <3>1, PromisedFrame
  <2>7. /\ TApplied(applied', recorded') /\ Reached(applied') /\ Reached(recorded')
        /\ RowsGenuine(loc[t].rows)
    BY <1>1, <1>2 DEF Types, Batched, Genuine
  <2>8. Passes(t, loc[t], "f_drain")
    BY <1>2, <1>3, <1>5, <1>7, <2>1, <2>3, <2>5, <2>6, <2>7 DEF Passes
  <2>. QED
    BY <2>8
<1>. QED
  BY <1>2, <1>6, <1>7

(* The first n elements of a sequence.                                     *)
LEMMA Prefix ==
    ASSUME Types, NEW t \in Thread, NEW n \in 0 .. Len(loc[t].ticks), NEW s, s = SubSeq(loc[t].ticks, 1, n)
    PROVE  /\ s \in Seq(Tick) /\ Len(s) <= Len(loc[t].ticks)
           /\ \A i \in 1 .. Len(s) : s[i] = loc[t].ticks[i]
<1>1. PICK q \in Seq(Tick) : q = loc[t].ticks
  BY LocTypes
<1>2. Len(q) \in Nat /\ n \in Nat /\ n <= Len(q) /\ s = SubSeq(q, 1, n)
  BY <1>1
<1>3. s \in Seq(Tick) /\ Len(s) = n
  BY <1>2
<1>4. \A i \in 1 .. n : s[i] = q[i]
  BY <1>2
<1>. QED
  BY <1>1, <1>2, <1>3, <1>4

(* A failed append.                                                        *)
LEMMA WalErrorKeeps ==
    ASSUME Steady, NEW t \in Thread, wal_error(t)
    PROVE  Steady'
<1>1. Types /\ Genuine /\ Shelved /\ Held /\ Batched /\ Asking /\ Named
  BY DEF Steady
<1>2. /\ status = "up" /\ pc[t] \in {"i_wal", "b_wal", "a_wal"} /\ Return(t, {})
      /\ dictW' = (IF dictW = t THEN None ELSE dictW) /\ memW' = (IF memW = t THEN None ELSE memW)
      /\ UNCHANGED << work, role, opens, status, dict, mem, files, nextFile, levels, applied, recorded, dictR,
                      compW, origin, replicated, hazards, crashes >>
  BY DEF wal_error, Up
<1>3. /\ Others(t) /\ pc'[t] = "idle" /\ loc'[t] = NoLoc /\ TPc(pc') /\ TLoc(loc')
      /\ "idle" \in Pc \ ReadPc /\ NoLoc \in Loc /\ acked' = acked \cup {}
      /\ RowsGenuine(NoLoc.rows) /\ ~IsApplying(NoLoc, "idle") /\ Holds(t)'
  BY <1>1, <1>2, Returns
<1>4. Advances(t, NoLoc, "idle")
  BY <1>2, <1>3 DEF Advances, Locks
<1>5. TCounts(work, crashes, ioErrors')
  <2>1. ioErrors \in Nat /\ work.maxIoErrors \in Nat /\ ioErrors < work.maxIoErrors
        /\ ioErrors' = ioErrors + 1 /\ TCrashes(crashes)
    BY <1>1, LsmAssumption DEF wal_error, Types, TCounts, TFixed, Workload
  <2>. QED
    BY <2>1 DEF TCounts
<1>6. PICK n \in 0 .. Len(loc[t].ticks) : wal' = wal \o SubSeq(loc[t].ticks, 1, n)
  BY DEF wal_error
<1>7. PICK s : s = SubSeq(loc[t].ticks, 1, n)
  OBVIOUS
<1>8. /\ s \in Seq(Tick) /\ Len(s) <= Len(loc[t].ticks)
      /\ \A i \in 1 .. Len(s) : s[i] = loc[t].ticks[i]
  BY <1>1, <1>7, Prefix
<1>9. /\ TTicks(wal') /\ TicksGenuine(wal') /\ Versions(wal') = Versions(wal) \cup Versions(s)
      /\ InOrder(wal) /\ AboveTicks(loc[t].ticks, wal) => InOrder(wal')
  BY <1>1, <1>6, <1>7, <1>8, Appended
<1>10. Types' /\ Genuine' /\ Held' /\ Batched' /\ Asking' /\ Named'
  <2>1. RowsGenuine(mem) /\ \A f \in DOMAIN files : RowsGenuine(files[f].rows)
    BY <1>1 DEF Genuine
  <2>2. Reached(applied) /\ Reached(recorded)
    BY <1>1 DEF Batched
  <2>3. Len(levels) <= Len(levels')
    BY <1>1, <1>2, LevelsLength
  <2>4. /\ mem \in Rows /\ TFiles(files) /\ TNext(nextFile) /\ TLevels(levels) /\ TApplied(applied, recorded)
        /\ THazards(hazards)
    BY <1>1 DEF Types
  <2>. QED
    BY <1>2, <1>3, <1>4, <1>5, <1>9, <2>1, <2>2, <2>3, <2>4, Routine
<1>11. Shelved'
  <2>1. "idle" \notin OwnerPc
    BY DEF OwnerPc
  <2>. QED
    BY <1>1, <1>2, <1>3, <2>1, ShelvedFrame
<1>12. ASSUME Careful' PROVE Orderly' /\ Kept'
  <2>1. Orderly /\ Kept
    BY <1>2, <1>12 DEF Steady, Safe, Careful
  <2>2. /\ "idle" \notin PuttingPc /\ "idle" \notin FlushingPc /\ "idle" \notin LoggedPc /\ "idle" \notin InCallPc
        /\ "idle" \notin UnputPc /\ "idle" \notin UnloggedPc
        /\ pc[t] \in UnloggedPc /\ pc[t] \in PuttingPc /\ pc[t] \notin FlushingPc /\ pc[t] \notin MergedPc
    BY <1>2 DEF PuttingPc, UnputPc, UnloggedPc, FlushingPc, LoggedPc, InCallPc, FlushPc, MergedPc
  <2>3. \A u \in Thread \ {t} : pc[u] \notin PuttingPc /\ pc[u] \notin UnputPc /\ pc[u] \notin UnloggedPc
    BY <2>1, <2>2 DEF Orderly, OneAtATime, PuttingPc
  <2>4. Orderly'
    <3>1. OneSymbolPerId'
      BY <1>2, <2>1 DEF Orderly, OneSymbolPerId
    <3>2. OneAtATime'
      BY <1>3, <2>1, <2>2, OneAtATimeFrame DEF Orderly
    <3>3. InOrder(wal)'
      <4>1. InOrder(wal')
        BY <1>9, <2>1, <2>2 DEF Orderly, Newer
      <4>. QED
        BY <4>1 DEF InOrder
    <3>4. Newer'
      BY <1>3, <2>1, <2>2, <2>3, NewerFrame DEF Orderly
    <3>. QED
      BY <3>1, <3>2, <3>3, <3>4 DEF Orderly
  <2>5. Promised' \subseteq Promised
    BY <1>2, <1>3, <2>2, PromisedFrame DEF Promised
  <2>6. ASSUME NEW v \in Promised, InTable(v) PROVE InTable(v)'
    BY <1>2, <1>3, <2>2, <2>6, TableFrame
  <2>7. /\ Promised \subseteq 1 .. Len(origin)
        /\ \A u \in Thread : Versions(loc[u].ticks) \subseteq 1 .. Len(origin)
    BY <1>1, PromisedWritten
  <2>8. Kept'
    BY <1>2, <1>3, <1>9, <2>1, <2>2, <2>5, <2>6, <2>7, KeptFrame
  <2>. QED
    BY <2>4, <2>8
<1>13. Safe'
  BY <1>12 DEF Safe
<1>. QED
  BY <1>10, <1>11, <1>13 DEF Steady

(***************************************************************************)
(* Replication and the beginning of a flush.                               *)
(***************************************************************************)

(* The batch whose last version is that of the batch of t is its batch.    *)
LEMMA OneBatchEnds ==
    ASSUME Types, Genuine, Batched, NEW t \in Thread, pc[t] = "a_advance",
           NEW b \in replicated, NEW n, n = Max(Versions(loc[t].ticks))
    PROVE  /\ n \in 1 .. Len(origin) /\ n # Cut
           /\ Max(b) # Cut
           /\ Max(b) = n => b = Versions(loc[t].ticks)
<1>1. Len(origin) \in Nat /\ MaxTicks \in Nat /\ Len(origin) <= MaxTicks
  BY Blank DEF Types, TOrigin
<1>2. PICK c : c = Versions(loc[t].ticks)
  OBVIOUS
<1>3. c \in replicated
  BY <1>2 DEF Batched, IsApplying, ApplyPc
<1>4. UNION replicated \subseteq 1 .. Len(origin)
  BY DEF Types, TVersions
<1>5. b # {} /\ c # {} /\ b \in SUBSET (1 .. Len(origin)) /\ c \in SUBSET (1 .. Len(origin))
  BY <1>3, <1>4 DEF Batched
<1>6. Max(b) \in b /\ Max(c) \in c
  BY <1>1, <1>5, Extremes
<1>7. Max(b) = n => b = c
  BY <1>2, <1>3, <1>6 DEF Batched
<1>. QED
  BY <1>1, <1>2, <1>5, <1>6, <1>7 DEF Cut

(* The tracker advances; its write may fail.                               *)
LEMMA AdvancePasses ==
    ASSUME Steady, NEW t \in Thread, apply_advance(t) \/ advance_error(t)
    PROVE  \E l, p : Passes(t, l, p)
<1>1. Types /\ Genuine /\ Batched /\ Held
  BY DEF Steady
<1>2. PICK n : n = Max(Versions(loc[t].ticks))
  OBVIOUS
<1>3. PICK vers \in {{}, Versions(loc[t].ticks)} :
        /\ status = "up" /\ pc[t] = "a_advance" /\ Return(t, vers)
        /\ applied' = advance(applied, n)
        /\ recorded' \in {recorded, applied', Cut}
        /\ ioErrors' = ioErrors \/ (ioErrors < work.maxIoErrors /\ ioErrors' = ioErrors + 1)
        /\ UNCHANGED << work, role, opens, status, dict, mem, wal, files, nextFile, levels, dictW, dictR, memW,
                        compW, origin, replicated, hazards, crashes >>
  <2>1. CASE apply_advance(t)
    BY <1>2, <2>1 DEF apply_advance, Up, locks
  <2>2. CASE advance_error(t)
    BY <1>2, <2>2 DEF advance_error, Up, locks
  <2>. QED
    BY <2>1, <2>2
<1>4. /\ Others(t) /\ pc'[t] = "idle" /\ loc'[t] = NoLoc /\ TPc(pc') /\ TLoc(loc')
      /\ "idle" \in Pc \ ReadPc /\ NoLoc \in Loc /\ acked' = acked \cup vers
      /\ RowsGenuine(NoLoc.rows) /\ ~IsApplying(NoLoc, "idle") /\ Holds(t)'
  BY <1>1, <1>3, Returns
<1>5. Advances(t, NoLoc, "idle")
  BY <1>3, <1>4 DEF Advances, Locks
<1>6. /\ "idle" \notin PuttingPc /\ "idle" \notin FlushingPc /\ "idle" \notin OwnerPc /\ "idle" \notin InCallPc
      /\ pc[t] \in InCallPc /\ pc[t] \notin MergedPc /\ pc[t] \notin FlushingPc
  BY <1>3 DEF PuttingPc, UnputPc, UnloggedPc, FlushingPc, OwnerPc, InCallPc, FlushPc, MergedPc
<1>7. TCounts(work, crashes, ioErrors')
  <2>1. ioErrors \in 0 .. work.maxIoErrors /\ work.maxIoErrors \in Nat /\ TCrashes(crashes)
    BY <1>1, LsmAssumption DEF Types, TCounts, TFixed, Workload
  <2>. QED
    BY <1>3, <2>1 DEF TCounts
<1>8. /\ n \in 1 .. Len(origin) /\ n # Cut
      /\ \A b \in replicated : Max(b) # Cut /\ (Max(b) = n => b = Versions(loc[t].ticks))
  <2>1. replicated # {}
    BY <1>1, <1>3 DEF Batched, IsApplying, ApplyPc
  <2>. QED
    BY <1>1, <1>2, <1>3, <2>1, OneBatchEnds
<1>9. applied' \in {applied, n}
  BY <1>3 DEF advance
<1>10. TApplied(applied', recorded') /\ Reached(applied') /\ Reached(recorded')
  <2>1. Len(origin) \in Nat /\ MaxTicks \in Nat /\ Len(origin) <= MaxTicks
    BY <1>1, Blank DEF Types, TOrigin
  <2>2. TApplied(applied, recorded) /\ Reached(applied) /\ Reached(recorded)
    BY <1>1 DEF Types, Batched
  <2>. QED
    BY <1>3, <1>8, <1>9, <2>1, <2>2 DEF TApplied, Reached
<1>11. Promised' \subseteq Promised
  <2>1. ASSUME NEW v \in Promised' PROVE v \in Promised
    <3>1. Versions(loc[t].ticks) \subseteq Promised
      BY <1>6 DEF Promised
    <3>2. CASE v \in acked'
      BY <1>4, <3>1, <3>2 DEF Promised
    <3>3. CASE \E u \in Thread : pc'[u] \in InCallPc /\ v \in Versions(loc'[u].ticks)
      <4>1. PICK u \in Thread : pc'[u] \in InCallPc /\ v \in Versions(loc'[u].ticks)
        BY <3>3
      <4>2. u # t
        BY <1>4, <1>6, <4>1
      <4>3. pc[u] \in InCallPc /\ v \in Versions(loc[u].ticks)
        BY <1>4, <4>1, <4>2 DEF Others, SameWork
      <4>. QED
        BY <4>3 DEF Promised
    <3>4. CASE \E b \in replicated' : Recorded(b)' /\ v \in b
      <4>1. PICK b \in replicated : Recorded(b)' /\ v \in b
        BY <1>3, <3>4
      <4>2. Max(b) \in {applied, recorded, n}
        BY <1>3, <1>8, <1>9, <4>1 DEF Recorded
      <4>3. CASE Max(b) \in {applied, recorded}
        BY <4>1, <4>3 DEF Promised, Recorded
      <4>4. CASE Max(b) = n
        BY <1>8, <3>1, <4>1, <4>4
      <4>. QED
        BY <4>2, <4>3, <4>4
    <3>. QED
      BY <3>2, <3>3, <3>4 DEF Promised, Versions
  <2>. QED
    BY <2>1
<1>12. Passes(t, NoLoc, "idle")
  BY <1>3, <1>4, <1>5, <1>6, <1>7, <1>10, <1>11 DEF Passes
<1>. QED
  BY <1>12

(* A client asks for a flush.                                              *)
LEMMA FlushBeginsPasses ==
    ASSUME Steady, NEW t \in Thread, flush_memtable(t)
    PROVE  \E l, p : Passes(t, l, p)
<1>1. Types /\ Genuine /\ Batched /\ Held
  BY DEF Steady
<1>2. /\ status = "up" /\ pc[t] = "idle" /\ Goto(t, "f_drain") /\ loc' = loc
      /\ UNCHANGED << work, role, opens, status, dict, mem, wal, files, nextFile, levels, applied, recorded,
                      dictW, dictR, memW, compW, origin, acked, replicated, hazards, crashes, ioErrors >>
  BY DEF flush_memtable, May, Up, shared, locks, history
<1>3. /\ "f_drain" \in Pc \ ReadPc /\ "f_drain" \notin PuttingPc /\ "f_drain" \notin FlushingPc
      /\ "f_drain" \notin OwnerPc /\ "f_drain" \notin CompactionPc /\ "f_drain" \notin InsertPc
      /\ "f_drain" \notin ApplyPc /\ pc[t] \notin MergedPc /\ pc[t] \notin FlushingPc
  BY <1>2 DEF Pc, ReadPc, PuttingPc, UnputPc, UnloggedPc, FlushingPc, OwnerPc, CompactionPc, InsertPc,
              ApplyPc, MergedPc
<1>4. Others(t) /\ pc'[t] = "f_drain" /\ loc'[t] = loc[t] /\ TPc(pc') /\ TLoc(loc') /\ loc[t] \in Loc
  BY <1>1, <1>2, <1>3, SameLocals
<1>5. loc[t] = NoLoc /\ loc[t].after = "idle" /\ Versions(loc[t].ticks) = {}
  <2>1. loc[t] = NoLoc
    BY <1>1, <1>2 DEF Held, Holds
  <2>. QED
    BY <2>1, Blank, BlankGenuine
<1>6. Holds(t)'
  BY <1>3, <1>4, <1>5 DEF Holds
<1>7. Advances(t, loc[t], "f_drain")
  <2>1. ~IsApplying(loc[t], "f_drain")
    BY <1>3, <1>5 DEF IsApplying
  <2>. QED
    BY <1>2, <1>3, <1>4, <2>1 DEF Advances, Locks
<1>8. Promised' \subseteq Promised
  <2>1. acked \subseteq Promised
    BY DEF Promised
  <2>. QED
    BY <1>2, <1>4, <1>5, <2>1, PromisedFrame
<1>9. /\ TApplied(applied', recorded') /\ Reached(applied') /\ Reached(recorded')
      /\ RowsGenuine(loc[t].rows) /\ TCounts(work, crashes, ioErrors')
  BY <1>1, <1>2 DEF Types, Batched, Genuine
<1>10. Passes(t, loc[t], "f_drain")
  BY <1>2, <1>3, <1>6, <1>7, <1>8, <1>9 DEF Passes
<1>. QED
  BY <1>10

(* The call that ran a flush goes on, or ends.                             *)
LEMMA FlushEnds ==
    ASSUME Steady, NEW t \in Thread, AfterFlush(t), status = "up", pc[t] \in FlushPc,
           UNCHANGED << work, role, opens, status, dict, origin, replicated, crashes, dictR, memW, compW >>
    PROVE  \E l, p : /\ p \in {"idle", "a_advance"} /\ Advances(t, l, p) /\ Holds(t)'
                     /\ RowsGenuine(l.rows) /\ acked' \subseteq acked \cup Versions(loc[t].ticks)
                     /\ Versions(l.ticks) \subseteq Versions(loc[t].ticks)
<1>1. Types /\ Genuine /\ Batched /\ Held
  BY DEF Steady
<1>2. CASE loc[t].after = "a_advance"
  <2>1. /\ pc' = [pc EXCEPT ![t] = "a_advance"] /\ UNCHANGED << dictW, acked >>
        /\ loc' = [loc EXCEPT ![t].after = "idle", ![t].rows = NoRows, ![t].file = 0]
    BY <1>2 DEF AfterFlush, Goto
  <2>2. PICK l : l = [loc[t] EXCEPT !.after = "idle", !.rows = NoRows, !.file = 0]
    OBVIOUS
  <2>3. loc[t] \in Loc /\ loc \in [Thread -> Loc]
    BY <1>1 DEF Types, TLoc
  <2>4. loc' = [loc EXCEPT ![t] = l]
    BY <2>1, <2>2, <2>3 DEF Loc
  <2>5. /\ l \in Loc /\ l.ticks = loc[t].ticks /\ l.rows = NoRows /\ l.after = "idle"
    <3>1. NoRows \in Rows /\ 0 \in 0 .. MaxFiles
      BY Blank, LsmAssumption
    <3>. QED
      BY <2>2, <2>3, <3>1 DEF Loc
  <2>6. /\ "a_advance" \in Pc \ ReadPc /\ "a_advance" \notin CompactionPc /\ "a_advance" \notin InsertPc
        /\ "a_advance" \in ApplyPc
    BY DEF Pc, ReadPc, CompactionPc, InsertPc, ApplyPc
  <2>7. Others(t) /\ pc'[t] = "a_advance" /\ loc'[t] = l /\ TPc(pc') /\ TLoc(loc')
    <3>1. l \in Loc /\ "a_advance" \in Pc
      BY <2>5, <2>6
    <3>2. pc' = [pc EXCEPT ![t] = "a_advance"]
      BY <2>1
    <3>. QED
      BY <1>1, <2>4, <3>1, <3>2, Moves
  <2>8. role = "Replica"
    BY <1>1, <1>2 DEF Held, Holds
  <2>9. Holds(t)'
    BY <2>5, <2>6, <2>7, <2>8 DEF Holds
  <2>10. Advances(t, l, "a_advance")
    BY <1>2, <2>1, <2>5, <2>6, <2>7 DEF Advances, Locks, IsApplying
  <2>11. RowsGenuine(l.rows)
    BY <2>5, BlankGenuine
  <2>. QED
    BY <2>1, <2>5, <2>9, <2>10, <2>11
<1>3. CASE loc[t].after # "a_advance"
  <2>1. Return(t, Versions(loc[t].ticks)) /\ dictW' = IF dictW = t THEN None ELSE dictW
    BY <1>3 DEF AfterFlush
  <2>2. /\ Others(t) /\ pc'[t] = "idle" /\ loc'[t] = NoLoc /\ TPc(pc') /\ TLoc(loc')
        /\ "idle" \in Pc \ ReadPc /\ NoLoc \in Loc /\ acked' = acked \cup Versions(loc[t].ticks)
        /\ RowsGenuine(NoLoc.rows) /\ ~IsApplying(NoLoc, "idle") /\ Holds(t)'
    BY <1>1, <2>1, Returns
  <2>3. Advances(t, NoLoc, "idle")
    BY <2>1, <2>2 DEF Advances, Locks
  <2>. QED
    BY <2>2, <2>3, BlankGenuine
<1>. QED
  BY <1>2, <1>3

(* A flush that finds the memtable empty.                                  *)
LEMMA EmptyDrainPasses ==
    ASSUME Steady, NEW t \in Thread, flush_drain(t), mem = NoRows
    PROVE  \E l, p : Passes(t, l, p)
<1>1. Types /\ Genuine /\ Batched /\ Held
  BY DEF Steady
<1>2. /\ status = "up" /\ pc[t] = "f_drain" /\ AfterFlush(t)
      /\ UNCHANGED << work, role, opens, status, dict, mem, wal, files, nextFile, levels, applied, recorded,
                      dictR, memW, compW, origin, replicated, hazards, crashes, ioErrors >>
  BY DEF flush_drain, Up
<1>3. pc[t] \in FlushPc /\ pc[t] \in InCallPc /\ pc[t] \notin MergedPc /\ pc[t] \notin FlushingPc
  BY <1>2 DEF FlushPc, InCallPc, MergedPc, FlushingPc
<1>4. PICK l, p : /\ p \in {"idle", "a_advance"} /\ Advances(t, l, p) /\ Holds(t)'
                  /\ RowsGenuine(l.rows) /\ acked' \subseteq acked \cup Versions(loc[t].ticks)
                  /\ Versions(l.ticks) \subseteq Versions(loc[t].ticks)
  BY <1>2, <1>3, FlushEnds
<1>5. p \notin PuttingPc /\ p \notin FlushingPc /\ p \notin OwnerPc
  BY <1>4 DEF PuttingPc, UnputPc, UnloggedPc, FlushingPc, OwnerPc
<1>6. Promised' \subseteq Promised
  <2>1. acked \cup Versions(loc[t].ticks) \subseteq Promised
    BY <1>3 DEF Promised
  <2>2. Others(t) /\ loc'[t] = l
    BY <1>4 DEF Advances
  <2>. QED
    BY <1>2, <1>4, <2>1, <2>2, PromisedFrame
<1>7. /\ TApplied(applied', recorded') /\ Reached(applied') /\ Reached(recorded')
      /\ TCounts(work, crashes, ioErrors')
  BY <1>1, <1>2 DEF Types, Batched
<1>8. Passes(t, l, p)
  BY <1>2, <1>3, <1>4, <1>5, <1>6, <1>7 DEF Passes
<1>. QED
  BY <1>8

(* A flush that drains the memtable.                                       *)
LEMMA DrainKeeps ==
    ASSUME Steady, NEW t \in Thread, flush_drain(t), mem # NoRows
    PROVE  Steady'
<1>1. Types /\ Genuine /\ Shelved /\ Held /\ Batched /\ Asking /\ Named
  BY DEF Steady
<1>2. /\ status = "up" /\ pc[t] = "f_drain" /\ memW = None /\ mem' = NoRows
      /\ pc' = [pc EXCEPT ![t] = "f_write"]
      /\ UNCHANGED << work, role, opens, status, dict, wal, files, nextFile, levels, applied, recorded, dictW,
                      dictR, memW, compW, origin, acked, replicated, crashes, ioErrors >>
  BY DEF flush_drain, Up, Goto
<1>3. loc' = [u \in Thread |->
                CASE u = t -> [loc[u] EXCEPT !.rows = mem]
                  [] u \in Reading -> [loc[u] EXCEPT !.gap = TRUE]
                  [] OTHER -> loc[u]]
  BY DEF flush_drain
<1>4. /\ THazards(hazards') /\ hazards \subseteq hazards'
      /\ Careful' => Careful /\ \A u \in Thread : pc[u] \notin FlushingPc /\ pc[u] \notin LoggedPc
  <2>1. PICK hs : hs = When(Logged # {} \/ Flushing # {}, "overlap")
    OBVIOUS
  <2>2. hs \in SUBSET HazardNames /\ Note(hs)
    BY <2>1 DEF flush_drain, When, HazardNames
  <2>3. hs \cap Lossy = {} => Logged = {} /\ Flushing = {}
    BY <2>1 DEF When, Lossy
  <2>4. Logged = {} /\ Flushing = {} => \A u \in Thread : pc[u] \notin FlushingPc /\ pc[u] \notin LoggedPc
    BY DEF Flushing, Draining, FlushingPc, Logged, LoggedPc
  <2>5. THazards(hazards)
    BY <1>1 DEF Types
  <2>. QED
    BY <2>2, <2>3, <2>4, <2>5, Notes DEF Note
<1>5. PICK l : l = [loc[t] EXCEPT !.rows = mem]
  OBVIOUS
<1>6. pc \in [Thread -> Pc] /\ loc \in [Thread -> Loc] /\ mem \in Rows /\ RowsGenuine(mem)
  BY <1>1 DEF Types, TPc, TLoc, Genuine
<1>7. l \in Loc /\ l.ticks = loc[t].ticks /\ l.rows = mem /\ l.after = loc[t].after
  BY <1>5, <1>6, ZenonT(60) DEF Loc
<1>8. loc'[t] = l
  <2>1. t \notin Reading
    BY <1>2 DEF Reading
  <2>. QED
    BY <1>3, <1>5, <2>1
<1>9. ASSUME NEW u \in Thread, u # t
      PROVE  /\ loc'[u] \in Loc /\ SameWork(loc'[u], loc[u])
             /\ loc'[u].key = loc[u].key /\ loc'[u].pair = loc[u].pair /\ loc'[u].found = loc[u].found
             /\ loc'[u] = loc[u] \/ pc[u] \in ReadPc
  <2>1. loc[u] \in Loc
    BY <1>6
  <2>2. CASE u \in Reading
    <3>1. PICK m : m = [loc[u] EXCEPT !.gap = TRUE]
      OBVIOUS
    <3>2. loc'[u] = m
      BY <1>3, <1>9, <2>2, <3>1
    <3>3. m \in Loc /\ SameWork(m, loc[u]) /\ m.key = loc[u].key /\ m.pair = loc[u].pair /\ m.found = loc[u].found
      BY <2>1, <3>1 DEF Loc, SameWork
    <3>4. pc[u] \in ReadPc
      BY <2>2 DEF Reading, ReadPc
    <3>. QED
      BY <3>2, <3>3, <3>4
  <2>3. CASE u \notin Reading
    <3>1. loc'[u] = loc[u]
      BY <1>3, <1>9, <2>3
    <3>. QED
      BY <2>1, <3>1 DEF SameWork
  <2>. QED
    BY <2>2, <2>3
<1>10. "f_write" \in Pc \ ReadPc /\ "f_write" \in FlushPc /\ "f_write" \notin OwnerPc /\ "f_write" \notin CompactionPc
       /\ "f_write" \notin InsertPc /\ "f_write" \notin ApplyPc
  BY DEF Pc, ReadPc, FlushPc, OwnerPc, CompactionPc, InsertPc, ApplyPc
<1>11. Others(t) /\ pc'[t] = "f_write" /\ TPc(pc') /\ TLoc(loc')
  <2>1. \A u \in Thread \ {t} : pc'[u] = pc[u]
    BY <1>2, <1>6
  <2>2. pc'[t] = "f_write" /\ TPc(pc')
    BY <1>2, <1>6, <1>10 DEF TPc
  <2>3. loc' = [u \in Thread |-> loc'[u]]
    BY <1>3
  <2>4. TLoc(loc')
    BY <1>7, <1>8, <1>9, <2>3 DEF TLoc
  <2>. QED
    BY <1>9, <2>1, <2>2, <2>4 DEF Others
<1>12. Advances(t, l, "f_write")
  <2>1. IsApplying(l, "f_write") => IsApplying(loc[t], pc[t])
    BY <1>7, <1>10 DEF IsApplying
  <2>. QED
    BY <1>2, <1>7, <1>8, <1>10, <1>11, <2>1 DEF Advances, Locks
<1>13. Holds(t)'
  <2>1. Holds(t)
    BY <1>1 DEF Held
  <2>. QED
    BY <1>2, <1>7, <1>8, <1>10, <1>11, <2>1 DEF Holds
<1>14. Types' /\ Genuine' /\ Held' /\ Batched' /\ Asking' /\ Named'
  <2>1. TicksGenuine(wal) /\ \A f \in DOMAIN files : RowsGenuine(files[f].rows)
    BY <1>1 DEF Genuine
  <2>2. Reached(applied) /\ Reached(recorded)
    BY <1>1 DEF Batched
  <2>3. Len(levels) <= Len(levels')
    BY <1>1, <1>2, LevelsLength
  <2>4. /\ NoRows \in Rows /\ RowsGenuine(NoRows) /\ TTicks(wal) /\ TFiles(files) /\ TNext(nextFile)
        /\ TLevels(levels) /\ TApplied(applied, recorded) /\ TCounts(work, crashes, ioErrors)
    BY <1>1, Blank, BlankGenuine DEF Types
  <2>. QED
    BY <1>2, <1>4, <1>6, <1>7, <1>12, <1>13, <2>1, <2>2, <2>3, <2>4, Routine
<1>15. Shelved'
  BY <1>1, <1>2, <1>10, <1>11, ShelvedFrame
<1>16. ASSUME Careful' PROVE Orderly' /\ Kept'
  <2>1. Orderly /\ Kept /\ \A u \in Thread : pc[u] \notin FlushingPc /\ pc[u] \notin LoggedPc
    BY <1>4, <1>16 DEF Steady, Safe
  <2>2. /\ "f_write" \notin PuttingPc /\ "f_write" \notin UnputPc /\ "f_write" \notin UnloggedPc
        /\ "f_write" \notin LoggedPc /\ "f_write" \in FlushingPc /\ "f_write" \in InCallPc
        /\ pc[t] \in InCallPc /\ pc[t] \notin MergedPc
    BY <1>2 DEF PuttingPc, UnputPc, UnloggedPc, LoggedPc, FlushingPc, InCallPc, FlushPc, MergedPc
  <2>3. Orderly'
    <3>1. OneSymbolPerId'
      BY <1>2, <2>1 DEF Orderly, OneSymbolPerId
    <3>2. OneAtATime'
      BY <1>11, <2>1, <2>2, OneAtATimeFrame DEF Orderly
    <3>3. InOrder(wal)'
      BY <1>2, <2>1 DEF Orderly, InOrder
    <3>4. ASSUME NEW u \in Thread PROVE AboveRows(loc[u].ticks, NoRows)
      <4>1. loc[u].ticks \in Seq(Tick) /\ TicksGenuine(loc[u].ticks)
        BY <1>1, LocTypes DEF Genuine
      <4>2. \A i \in 1 .. Len(loc[u].ticks) : loc[u].ticks[i].ver \in Nat /\ loc[u].ticks[i].ver > 0
        BY <1>1, <4>1, TickVersions
      <4>. QED
        BY <4>2, Blank DEF AboveRows
    <3>5. \A u \in Thread : pc[u] \in UnloggedPc => AboveTicks(loc[u].ticks, wal)
      BY <2>1 DEF Orderly, Newer
    <3>6. Newer'
      BY <1>2, <1>11, <2>1, <2>2, <3>4, <3>5, NewerFrame DEF Orderly
    <3>. QED
      BY <3>1, <3>2, <3>3, <3>6 DEF Orderly
  <2>4. Promised' \subseteq Promised
    <3>1. acked \cup Versions(loc[t].ticks) \subseteq Promised
      BY <2>2 DEF Promised
    <3>. QED
      BY <1>2, <1>7, <1>8, <1>11, <3>1, PromisedFrame
  <2>5. ASSUME NEW v, InTable(v) PROVE InTable(v)'
    BY <1>2, <1>11, <2>2, <2>5, TableFrame
  <2>6. ASSUME NEW v \in Promised' PROVE Logs(v)' /\ Drained(t, v)'
    <3>1. Logs(v) /\ Serves(v)
      BY <1>2, <2>1, <2>4 DEF Kept
    <3>2. v \in Versions(wal) => v \in Versions(wal)'
      BY <1>2 DEF Versions
    <3>3. Covers(mem, v) => Drained(t, v)'
      BY <1>2, <1>7, <1>8, <1>11 DEF Drained, Covers, KeyOf
    <3>4. InTable(v) => Drained(t, v)'
      BY <2>5 DEF Drained
    <3>. QED
      BY <2>5, <3>1, <3>2, <3>3, <3>4 DEF Logs, Serves
  <2>7. \A u \in Thread \ {t} : pc'[u] = pc[u]
    BY <1>11 DEF Others
  <2>8. \A u \in Thread : pc'[u] # "b_wal" /\ pc'[u] \notin LoggedPc /\ (pc'[u] \in FlushingPc => u = t)
    <3>1. \A u \in Thread : pc[u] # "b_wal"
      BY <1>1, <1>2, LsmAssumption DEF Held, Holds
    <3>. QED
      BY <1>11, <2>1, <2>2, <2>7, <3>1
  <2>9. Kept'
    BY <1>11, <2>2, <2>6, <2>8 DEF Kept
  <2>. QED
    BY <2>3, <2>9
<1>17. Safe'
  BY <1>16 DEF Safe
<1>. QED
  BY <1>14, <1>15, <1>17 DEF Steady

(***************************************************************************)
(* Files.                                                                  *)
(***************************************************************************)

(* The file that SsTable::write creates.                                   *)
LEMMA Creates ==
    ASSUME Types, Genuine, Shelved, NEW t \in Thread, NEW n \in Nat, NEW d \in Seq(Symbol),
           CreateFile(t, n, d)
    PROVE  /\ nextFile \in 1 .. MaxFiles /\ nextFile \notin DOMAIN files
           /\ DOMAIN files' = DOMAIN files \cup {nextFile}
           /\ \A g \in DOMAIN files : files'[g] = files[g] /\ g # nextFile
           /\ files'[nextFile].rows = loc[t].rows /\ files'[nextFile].level = n
           /\ files'[nextFile].whole = FALSE
           /\ TFiles(files') /\ TNext(nextFile') /\ \A f \in DOMAIN files' : f < nextFile'
           /\ \A f \in DOMAIN files' : RowsGenuine(files'[f].rows)
<1>1. nextFile \in 1 .. MaxFiles + 1 /\ MaxFiles \in Nat /\ nextFile <= MaxFiles /\ nextFile' = nextFile + 1
  BY LsmAssumption DEF Types, TNext, CreateFile
<1>2. /\ DOMAIN files \subseteq 1 .. MaxFiles /\ \A f \in DOMAIN files : files[f] \in FileType /\ f < nextFile
      /\ loc[t].rows \in Rows
  BY LocTypes DEF Types, TFiles, Shelved
<1>3. nextFile \notin DOMAIN files
  BY <1>1, <1>2
<1>4. PICK F : F = Table(loc[t].rows, n, d, FALSE)
  OBVIOUS
<1>5. files' = [g \in DOMAIN files \cup {nextFile} |-> IF g = nextFile THEN F ELSE files[g]]
  BY <1>4 DEF CreateFile
<1>6. /\ DOMAIN files' = DOMAIN files \cup {nextFile} /\ files'[nextFile] = F
      /\ \A g \in DOMAIN files : files'[g] = files[g] /\ g # nextFile
  BY <1>3, <1>5
<1>7. F.rows = loc[t].rows /\ F.level = n /\ F.whole = FALSE /\ F \in FileType
  <2>1. PICK names : names = { name_of(d, k[1]) : k \in PresentKeys(loc[t].rows) }
    OBVIOUS
  <2>2. F = [rows |-> loc[t].rows, level |-> n, whole |-> FALSE, names |-> names]
    BY <1>4, <2>1 DEF Table
  <2>3. names \in SUBSET (Symbol \cup {None})
    BY <2>1 DEF name_of
  <2>4. FALSE \in BOOLEAN
    BY Zenon
  <2>. QED
    BY <1>2, <2>2, <2>3, <2>4 DEF FileType
<1>8. TFiles(files')
  BY <1>1, <1>2, <1>6, <1>7 DEF TFiles
<1>9. \A f \in DOMAIN files' : f < nextFile'
  BY <1>1, <1>2, <1>6
<1>10. \A f \in DOMAIN files' : RowsGenuine(files'[f].rows)
  BY <1>6, <1>7 DEF Genuine
<1>. QED
  BY <1>1, <1>3, <1>6, <1>7, <1>8, <1>9, <1>10 DEF TNext

(* The local variables of the call that creates a file, and what it notes. *)
LEMMA CreatorGoesOn ==
    ASSUME Types, NEW t \in Thread, NEW n \in Nat, NEW d, CreateFile(t, n, d),
           nextFile \in 1 .. MaxFiles, NEW p \in Pc, Goto(t, p)
    PROVE  /\ \E l \in Loc : /\ loc'[t] = l /\ l.ticks = loc[t].ticks /\ l.rows = loc[t].rows
                             /\ l.after = loc[t].after /\ l.level = loc[t].level /\ l.bound = loc[t].bound
                             /\ l.file = nextFile
           /\ Others(t) /\ pc'[t] = p /\ TPc(pc') /\ TLoc(loc')
           /\ THazards(hazards') /\ hazards \subseteq hazards' /\ (Careful' => Careful)
<1>1. PICK l : l = [loc[t] EXCEPT !.file = nextFile]
  OBVIOUS
<1>2. loc[t] \in Loc /\ loc \in [Thread -> Loc]
  BY DEF Types, TLoc
<1>3. loc' = [loc EXCEPT ![t] = l] /\ pc' = [pc EXCEPT ![t] = p]
  BY <1>1, <1>2 DEF CreateFile, Goto
<1>4. nextFile \in 0 .. MaxFiles
  BY LsmAssumption
<1>5. /\ l \in Loc /\ l.ticks = loc[t].ticks /\ l.rows = loc[t].rows /\ l.after = loc[t].after
      /\ l.level = loc[t].level /\ l.bound = loc[t].bound /\ l.file = nextFile
  BY <1>1, <1>2, <1>4 DEF Loc
<1>6. Others(t) /\ pc'[t] = p /\ loc'[t] = l /\ TPc(pc') /\ TLoc(loc')
  BY <1>3, <1>5, Moves
<1>7. PICK hs \in SUBSET {"unnamed", "skewed"} : Note(hs)
  BY DEF CreateFile, When
<1>8. hs \in SUBSET HazardNames /\ THazards(hazards)
  BY DEF HazardNames, Types
<1>9. THazards(hazards') /\ (Careful' => Careful)
  BY <1>7, <1>8, Notes
<1>. QED
  BY <1>5, <1>6, <1>7, <1>9 DEF Note

(* A file that is new is in no level and has one owner.                    *)
LEMMA CreateShelves ==
    ASSUME Types, Genuine, Shelved, NEW t \in Thread, NEW n \in Nat, NEW d \in Seq(Symbol),
           CreateFile(t, n, d), Others(t), levels' = levels,
           loc'[t].file = nextFile, loc'[t].rows = loc[t].rows, loc'[t].level = loc[t].level,
           \/ pc'[t] = "f_sync" /\ n = 0
           \/ pc'[t] = "c_sync" /\ n = loc[t].level + 1
    PROVE  Shelved'
<1>1. /\ nextFile \notin DOMAIN files /\ DOMAIN files' = DOMAIN files \cup {nextFile}
      /\ \A g \in DOMAIN files : files'[g] = files[g] /\ g # nextFile
      /\ files'[nextFile].rows = loc[t].rows /\ files'[nextFile].level = n
      /\ \A f \in DOMAIN files' : f < nextFile'
  BY Creates
<1>2. /\ \A i \in 1 .. Len(levels) : \A j \in 1 .. Len(levels[i]) : OnShelf(levels[i][j].file, i)
      /\ \A u \in Thread : Owns(u)
      /\ \A u, w \in Thread : pc[u] \in OwnerPc /\ pc[w] \in OwnerPc /\ loc[u].file = loc[w].file => u = w
  BY DEF Shelved
<1>3. (\A i \in 1 .. Len(levels) : \A j \in 1 .. Len(levels[i]) : OnShelf(levels[i][j].file, i))'
  BY <1>1, <1>2 DEF OnShelf
<1>4. \A i \in 1 .. Len(levels) : \A j \in 1 .. Len(levels[i]) : levels[i][j].file # nextFile
  BY <1>1, <1>2 DEF OnShelf
<1>5. \A u \in Thread \ {t} : /\ pc'[u] = pc[u] /\ loc'[u].file = loc[u].file
                              /\ loc'[u].rows = loc[u].rows /\ loc'[u].level = loc[u].level
  BY DEF Others, SameWork
<1>6. ASSUME NEW u \in Thread PROVE Owns(u)'
  <2>1. CASE u = t
    <3>1. pc'[t] \in OwnerPc /\ pc'[t] # "f_add"
      BY DEF OwnerPc
    <3>2. files'[loc'[t].file].level = (IF pc'[t] = "c_sync" THEN loc'[t].level + 1 ELSE 0)
      BY <1>1
    <3>. QED
      BY <1>1, <1>4, <2>1, <3>1, <3>2 DEF Owns
  <2>2. CASE u # t
    <3>1. Owns(u)
      BY <1>2
    <3>2. pc[u] \in OwnerPc => loc[u].file \in DOMAIN files
      BY <3>1 DEF Owns
    <3>3. pc[u] \in OwnerPc => files'[loc[u].file] = files[loc[u].file] /\ loc[u].file \in DOMAIN files'
      BY <1>1, <3>2
    <3>. QED
      BY <1>5, <2>2, <3>1, <3>3 DEF Owns
  <2>. QED
    BY <2>1, <2>2
<1>7. ASSUME NEW u \in Thread, NEW w \in Thread, pc'[u] \in OwnerPc, pc'[w] \in OwnerPc,
             loc'[u].file = loc'[w].file
      PROVE  u = w
  <2>1. \A x \in Thread \ {t} : pc'[x] \in OwnerPc => loc'[x].file # nextFile
    BY <1>1, <1>2, <1>5 DEF Owns
  <2>. QED
    BY <1>2, <1>5, <1>7, <2>1
<1>. QED
  BY <1>1, <1>3, <1>6, <1>7 DEF Shelved

(* A step from one label of a flush to the next.                           *)
LEMMA FlushFrame ==
    ASSUME Kept, OneAtATime, NEW t \in Thread, Others(t), origin' = origin, status' = status,
           mem' = mem, wal' = wal, Promised' \subseteq Promised,
           pc[t] \in FlushingPc, pc'[t] \in FlushingPc,
           \A v \in Promised : InTable(v) => InTable(v)',
           \A v \in Promised : Drained(t, v) => Drained(t, v)'
    PROVE  Kept'
<1>1. \A u \in Thread \ {t} : pc'[u] = pc[u] /\ loc'[u].ticks = loc[u].ticks
  BY DEF Others, SameWork
<1>2. pc'[t] \notin LoggedPc /\ pc'[t] # "b_wal"
  BY DEF FlushingPc, LoggedPc
<1>3. \A u \in Thread : pc'[u] \in FlushingPc => u = t
  BY <1>1 DEF OneAtATime
<1>4. ASSUME NEW v \in Promised' PROVE Logs(v)' /\ Drained(t, v)'
  <2>1. Logs(v) /\ Drained(t, v)
    BY DEF Kept
  <2>2. v \in Versions(wal) => v \in Versions(wal)'
    BY DEF Versions
  <2>. QED
    BY <2>1, <2>2 DEF Logs
<1>5. ASSUME NEW u \in Thread, pc'[u] \in LoggedPc PROVE Versions(loc'[u].ticks) \subseteq Versions(wal')
  BY <1>1, <1>2, <1>5 DEF Kept
<1>6. ASSUME NEW u \in Thread, pc'[u] = "b_wal", NEW v \in Versions(loc'[u].ticks) PROVE Covers(mem, v)'
  <2>1. pc[u] = "b_wal" /\ v \in Versions(loc[u].ticks)
    BY <1>1, <1>2, <1>6
  <2>. QED
    BY <2>1 DEF Kept, Covers, KeyOf
<1>7. (\A u \in Thread : pc[u] \in LoggedPc => Versions(loc[u].ticks) \subseteq Versions(wal))'
  BY <1>5 DEF Versions
<1>8. (\A u \in Thread : pc[u] = "b_wal" => \A v \in Versions(loc[u].ticks) : Covers(mem, v))'
  BY <1>6 DEF Versions
<1>9. (\A u \in Thread : pc[u] \in FlushingPc => \A v \in Promised : Drained(u, v))'
  BY <1>3, <1>4
<1>. QED
  BY <1>4, <1>7, <1>8, <1>9 DEF Kept

(* SsTable::write begins: flush_write and compact_write.                   *)
LEMMA CreateKeeps ==
    ASSUME Steady, NEW t \in Thread, flush_write(t) \/ compact_write(t)
    PROVE  Steady'
<1>1. Types /\ Genuine /\ Shelved /\ Held /\ Batched /\ Asking /\ Named
  BY DEF Steady
<1>2. PICK p, n, d :
        /\ \/ pc[t] = "f_write" /\ p = "f_sync" /\ n = 0 /\ d = dict
           \/ pc[t] = "c_write" /\ p = "c_sync" /\ n = loc[t].level + 1 /\ d = << >>
        /\ status = "up" /\ CreateFile(t, n, d) /\ Goto(t, p)
        /\ UNCHANGED << work, role, opens, status, dict, mem, wal, levels, applied, recorded, dictW, dictR, memW,
                        compW, origin, acked, replicated, crashes, ioErrors >>
  BY DEF flush_write, compact_write, Up, locks
<1>3. n \in Nat /\ d \in Seq(Symbol)
  <2>1. loc[t].level \in Nat /\ dict \in Seq(Symbol) /\ << >> \in Seq(Symbol)
    BY <1>1, LocTypes DEF Types, IsDict
  <2>2. n = 0 \/ n = loc[t].level + 1
    BY <1>2, Zenon
  <2>3. d \in Seq(Symbol)
    BY <1>2, <2>1, Zenon
  <2>. QED
    BY <2>1, <2>2, <2>3
<1>4. /\ nextFile \in 1 .. MaxFiles /\ nextFile \notin DOMAIN files
      /\ DOMAIN files' = DOMAIN files \cup {nextFile}
      /\ \A g \in DOMAIN files : files'[g] = files[g] /\ g # nextFile
      /\ files'[nextFile].whole = FALSE
      /\ TFiles(files') /\ TNext(nextFile')
      /\ \A f \in DOMAIN files' : RowsGenuine(files'[f].rows)
  BY <1>1, <1>2, <1>3, Creates
<1>5. /\ p \in Pc \ ReadPc /\ p \in Pc /\ p \in OwnerPc /\ p \notin PuttingPc /\ p # "idle"
      /\ p \notin InsertPc /\ p \notin ApplyPc
      /\ (p \in CompactionPc => p = "c_sync" /\ pc[t] = "c_write" /\ pc[t] \in CompactionPc)
      /\ (p = "f_sync" => p \in FlushPc)
      /\ (p = "c_sync" => pc[t] \notin FlushPc)
  BY <1>2 DEF Pc, ReadPc, OwnerPc, PuttingPc, UnputPc, UnloggedPc, InsertPc, ApplyPc, CompactionPc, FlushPc
<1>6. /\ Others(t) /\ pc'[t] = p /\ TPc(pc') /\ TLoc(loc')
      /\ THazards(hazards') /\ hazards \subseteq hazards' /\ (Careful' => Careful)
  BY <1>1, <1>2, <1>3, <1>4, <1>5, CreatorGoesOn
<1>7. PICK l \in Loc : /\ loc'[t] = l /\ l.ticks = loc[t].ticks /\ l.rows = loc[t].rows
                       /\ l.after = loc[t].after /\ l.level = loc[t].level /\ l.bound = loc[t].bound
                       /\ l.file = nextFile
  BY <1>1, <1>2, <1>3, <1>4, <1>5, CreatorGoesOn
<1>8. Advances(t, l, p)
  <2>1. IsApplying(l, p) => IsApplying(loc[t], pc[t])
    BY <1>5, <1>7 DEF IsApplying
  <2>. QED
    BY <1>2, <1>5, <1>6, <1>7, <2>1 DEF Advances, Locks
<1>9. Holds(t)'
  <2>1. Holds(t) /\ (l.after = "a_advance" => p = "f_sync")
    BY <1>1, <1>2, <1>5, <1>7 DEF Held, Holds
  <2>. QED
    BY <1>2, <1>5, <1>6, <1>7, <2>1 DEF Holds
<1>10. Types' /\ Genuine' /\ Held' /\ Batched' /\ Asking' /\ Named'
  <2>1. /\ RowsGenuine(l.rows) /\ RowsGenuine(mem) /\ TicksGenuine(wal)
    BY <1>1, <1>7 DEF Genuine
  <2>2. Reached(applied) /\ Reached(recorded)
    BY <1>1 DEF Batched
  <2>3. Len(levels) <= Len(levels')
    BY <1>1, <1>2, LevelsLength
  <2>4. /\ mem \in Rows /\ TTicks(wal) /\ TLevels(levels) /\ TApplied(applied, recorded)
        /\ TCounts(work, crashes, ioErrors)
    BY <1>1 DEF Types
  <2>. QED
    BY <1>2, <1>4, <1>6, <1>8, <1>9, <2>1, <2>2, <2>3, <2>4, Routine
<1>11. Shelved'
  <2>1. \/ pc'[t] = "f_sync" /\ n = 0
        \/ pc'[t] = "c_sync" /\ n = loc[t].level + 1
    BY <1>2, <1>6
  <2>. QED
    BY <1>1, <1>2, <1>3, <1>6, <1>7, <2>1, CreateShelves
<1>12. ASSUME Careful' PROVE Orderly' /\ Kept'
  <2>1. Orderly /\ Kept
    BY <1>6, <1>12 DEF Steady, Safe
  <2>2. p \in FlushingPc => pc[t] \in FlushingPc
    BY <1>2 DEF FlushingPc
  <2>3. Orderly'
    BY <1>2, <1>5, <1>6, <2>1, <2>2, OrderlyFrame
  <2>4. p \in InCallPc => pc[t] \in InCallPc
    BY <1>2 DEF InCallPc, FlushPc
  <2>5. Promised' \subseteq Promised
    <3>1. acked \subseteq Promised /\ (p \in InCallPc => Versions(loc[t].ticks) \subseteq Promised)
      BY <2>4 DEF Promised
    <3>. QED
      BY <1>2, <1>6, <1>7, <3>1, PromisedFrame
  <2>6. ASSUME NEW v, InTable(v) PROVE InTable(v)'
    <3>1. pc[t] \in MergedPc => p \in MergedPc
      BY <1>2 DEF MergedPc
    <3>. QED
      BY <1>2, <1>4, <1>6, <1>7, <2>6, <3>1, TableFrame
  <2>7. CASE pc[t] = "f_write"
    <3>1. p = "f_sync" /\ pc[t] \in FlushingPc /\ p \in FlushingPc
      BY <1>2, <2>7 DEF FlushingPc
    <3>2. ASSUME NEW v, Drained(t, v) PROVE Drained(t, v)'
      BY <1>2, <1>6, <1>7, <2>6, <3>1, <3>2 DEF Drained, Covers, KeyOf
    <3>. QED
      BY <1>2, <1>6, <2>1, <2>3, <2>5, <2>6, <3>1, <3>2, FlushFrame DEF Orderly
  <2>8. CASE pc[t] = "c_write"
    <3>1. p = "c_sync" /\ pc[t] \notin FlushingPc /\ p \notin FlushingPc /\ p \notin LoggedPc /\ p # "b_wal"
      BY <1>2, <2>8 DEF FlushingPc, LoggedPc
    <3>2. /\ Promised \subseteq 1 .. Len(origin)
          /\ \A u \in Thread : Versions(loc[u].ticks) \subseteq 1 .. Len(origin)
      BY <1>1, PromisedWritten
    <3>3. Kept'
      BY <1>2, <1>6, <2>1, <2>5, <2>6, <3>1, <3>2, KeptFrame
    <3>. QED
      BY <2>3, <3>3
  <2>. QED
    BY <1>2, <2>3, <2>7, <2>8
<1>13. Safe'
  BY <1>12 DEF Safe
<1>. QED
  BY <1>10, <1>11, <1>13 DEF Steady

(* A table could not be written.                                           *)
LEMMA WriteErrorKeeps ==
    ASSUME Steady, NEW t \in Thread, write_error(t)
    PROVE  Steady'
<1>1. Types /\ Genuine /\ Shelved /\ Held /\ Batched /\ Asking /\ Named
  BY DEF Steady
<1>2. /\ status = "up" /\ Return(t, {})
      /\ dictW' = (IF dictW = t THEN None ELSE dictW) /\ compW' = (IF compW = t THEN None ELSE compW)
      /\ Note({"failed"})
      /\ UNCHANGED << work, role, opens, status, dict, mem, wal, files, nextFile, levels, applied, recorded, dictR,
                      memW, origin, replicated, crashes >>
  BY DEF write_error, Up, shared
<1>3. /\ Others(t) /\ pc'[t] = "idle" /\ loc'[t] = NoLoc /\ TPc(pc') /\ TLoc(loc')
      /\ "idle" \in Pc \ ReadPc /\ NoLoc \in Loc /\ acked' = acked \cup {}
      /\ RowsGenuine(NoLoc.rows) /\ ~IsApplying(NoLoc, "idle") /\ Holds(t)'
  BY <1>1, <1>2, Returns
<1>4. Advances(t, NoLoc, "idle")
  BY <1>2, <1>3 DEF Advances, Locks
<1>5. TCounts(work, crashes, ioErrors')
  <2>1. ioErrors \in Nat /\ work.maxIoErrors \in Nat /\ ioErrors < work.maxIoErrors
        /\ ioErrors' = ioErrors + 1 /\ TCrashes(crashes)
    BY <1>1, LsmAssumption DEF write_error, Types, TCounts, TFixed, Workload
  <2>. QED
    BY <2>1 DEF TCounts
<1>6. THazards(hazards') /\ hazards \subseteq hazards' /\ ~Careful'
  <2>1. THazards(hazards) /\ {"failed"} \in SUBSET HazardNames /\ "failed" \in Lossy
    BY <1>1 DEF Types, HazardNames, Lossy
  <2>. QED
    BY <1>2, <2>1, Notes DEF Note
<1>7. Types' /\ Genuine' /\ Held' /\ Batched' /\ Asking' /\ Named'
  <2>1. RowsGenuine(mem) /\ TicksGenuine(wal) /\ \A f \in DOMAIN files : RowsGenuine(files[f].rows)
    BY <1>1 DEF Genuine
  <2>2. Reached(applied) /\ Reached(recorded)
    BY <1>1 DEF Batched
  <2>3. Len(levels) <= Len(levels')
    BY <1>1, <1>2, LevelsLength
  <2>4. /\ mem \in Rows /\ TTicks(wal) /\ TFiles(files) /\ TNext(nextFile) /\ TLevels(levels)
        /\ TApplied(applied, recorded)
    BY <1>1 DEF Types
  <2>. QED
    BY <1>2, <1>3, <1>4, <1>5, <1>6, <2>1, <2>2, <2>3, <2>4, Routine
<1>8. Shelved'
  <2>1. "idle" \notin OwnerPc
    BY DEF OwnerPc
  <2>. QED
    BY <1>1, <1>2, <1>3, <2>1, ShelvedFrame
<1>9. Safe'
  BY <1>6 DEF Safe
<1>. QED
  BY <1>7, <1>8, <1>9 DEF Steady

(* The file that a call has synced.                                        *)
LEMMA Syncs ==
    ASSUME Types, Genuine, NEW t \in Thread, NEW f, f = loc[t].file, f \in DOMAIN files, SyncFile(t)
    PROVE  /\ DOMAIN files' = DOMAIN files /\ TFiles(files')
           /\ \A g \in DOMAIN files : files'[g].rows = files[g].rows /\ files'[g].level = files[g].level
           /\ \A g \in DOMAIN files : g # f => files'[g] = files[g]
           /\ files'[f].whole
           /\ \A g \in DOMAIN files' : RowsGenuine(files'[g].rows)
<1>1. files' = [files EXCEPT ![f].whole = TRUE]
  BY DEF SyncFile
<1>2. PICK F : F = [files[f] EXCEPT !.whole = TRUE]
  OBVIOUS
<1>3. DOMAIN files \subseteq 1 .. MaxFiles /\ \A g \in DOMAIN files : files[g] \in FileType
  BY DEF Types, TFiles
<1>4. files[f] \in FileType
  BY <1>3
<1>5. F.rows = files[f].rows /\ F.level = files[f].level /\ F.whole = TRUE /\ F \in FileType
  <2>1. TRUE \in BOOLEAN
    BY Zenon
  <2>. QED
    BY <1>2, <1>4, <2>1 DEF FileType
<1>6. DOMAIN files' = DOMAIN files /\ files'[f] = F /\ \A g \in DOMAIN files : g # f => files'[g] = files[g]
  BY <1>1, <1>2
<1>7. \A g \in DOMAIN files : files'[g].rows = files[g].rows /\ files'[g].level = files[g].level
  BY <1>5, <1>6
<1>8. TFiles(files')
  BY <1>3, <1>5, <1>6 DEF TFiles
<1>9. \A g \in DOMAIN files' : RowsGenuine(files'[g].rows)
  BY <1>6, <1>7 DEF Genuine
<1>. QED
  BY <1>5, <1>6, <1>7, <1>8, <1>9

(* The table that a flush has written is synced.                           *)
LEMMA FlushSyncKeeps ==
    ASSUME Steady, NEW t \in Thread, flush_sync(t)
    PROVE  Steady'
<1>1. Types /\ Genuine /\ Shelved /\ Held /\ Batched /\ Asking /\ Named
  BY DEF Steady
<1>2. /\ status = "up" /\ pc[t] = "f_sync" /\ SyncFile(t) /\ Goto(t, "f_add") /\ loc' = loc
      /\ UNCHANGED << work, role, opens, status, dict, mem, wal, nextFile, levels, applied, recorded,
                      dictW, dictR, memW, compW, origin, acked, replicated, hazards, crashes, ioErrors >>
  BY DEF flush_sync, Up, locks, history
<1>3. /\ "f_add" \in Pc \ ReadPc /\ "f_add" \in Pc /\ "f_add" \in OwnerPc /\ pc[t] \in OwnerPc
      /\ "f_add" \notin PuttingPc /\ "f_add" \in FlushPc /\ "f_add" \notin CompactionPc /\ "f_add" \notin InsertPc
      /\ "f_add" \notin ApplyPc /\ "f_add" \in FlushingPc /\ pc[t] \in FlushingPc
      /\ "f_add" \in InCallPc /\ pc[t] \in InCallPc /\ pc[t] \notin MergedPc
  BY <1>2 DEF Pc, ReadPc, OwnerPc, PuttingPc, UnputPc, UnloggedPc, FlushPc, CompactionPc, InsertPc, ApplyPc,
              FlushingPc, InCallPc, MergedPc
<1>4. Others(t) /\ pc'[t] = "f_add" /\ loc'[t] = loc[t] /\ TPc(pc') /\ TLoc(loc') /\ loc[t] \in Loc
  BY <1>1, <1>2, <1>3, SameLocals
<1>5. PICK f : f = loc[t].file
  OBVIOUS
<1>6. f \in DOMAIN files /\ files[f].rows = loc[t].rows /\ files[f].level = 0
  BY <1>1, <1>2, <1>3, <1>5 DEF Shelved, Owns
<1>7. /\ DOMAIN files' = DOMAIN files /\ TFiles(files')
      /\ \A g \in DOMAIN files : files'[g].rows = files[g].rows /\ files'[g].level = files[g].level
      /\ \A g \in DOMAIN files : g # f => files'[g] = files[g]
      /\ files'[f].whole
      /\ \A g \in DOMAIN files' : RowsGenuine(files'[g].rows)
  BY <1>1, <1>2, <1>5, <1>6, Syncs
<1>8. Advances(t, loc[t], "f_add")
  <2>1. IsApplying(loc[t], "f_add") => IsApplying(loc[t], pc[t])
    BY <1>3 DEF IsApplying
  <2>. QED
    BY <1>2, <1>3, <1>4, <2>1 DEF Advances, Locks
<1>9. Holds(t)'
  <2>1. Holds(t)
    BY <1>1 DEF Held
  <2>. QED
    BY <1>2, <1>3, <1>4, <2>1 DEF Holds
<1>10. Types' /\ Genuine' /\ Held' /\ Batched' /\ Asking' /\ Named'
  <2>1. RowsGenuine(loc[t].rows) /\ RowsGenuine(mem) /\ TicksGenuine(wal)
    BY <1>1 DEF Genuine
  <2>2. Reached(applied) /\ Reached(recorded)
    BY <1>1 DEF Batched
  <2>3. Len(levels) <= Len(levels')
    BY <1>1, <1>2, LevelsLength
  <2>4. /\ mem \in Rows /\ TTicks(wal) /\ TLevels(levels) /\ TNext(nextFile) /\ TApplied(applied, recorded)
        /\ TCounts(work, crashes, ioErrors) /\ THazards(hazards)
    BY <1>1 DEF Types
  <2>. QED
    BY <1>2, <1>7, <1>8, <1>9, <2>1, <2>2, <2>3, <2>4, Routine
<1>11. Shelved'
  <2>1. \A u \in Thread \ {t} : pc'[u] = pc[u]
    BY <1>4 DEF Others
  <2>2. /\ \A g \in DOMAIN files : g < nextFile
        /\ \A i \in 1 .. Len(levels) : \A j \in 1 .. Len(levels[i]) : OnShelf(levels[i][j].file, i)
        /\ \A u \in Thread : Owns(u)
        /\ \A u, w \in Thread : pc[u] \in OwnerPc /\ pc[w] \in OwnerPc /\ loc[u].file = loc[w].file => u = w
    BY <1>1 DEF Shelved
  <2>3. (\A i \in 1 .. Len(levels) : \A j \in 1 .. Len(levels[i]) : OnShelf(levels[i][j].file, i))'
    <3>1. \A g, i : OnShelf(g, i) => OnShelf(g, i)'
      BY <1>7 DEF OnShelf
    <3>. QED
      BY <1>2, <2>2, <3>1
  <2>4. ASSUME NEW u \in Thread PROVE Owns(u)'
    <3>1. CASE u = t
      <4>1. \A i \in 1 .. Len(levels) : \A j \in 1 .. Len(levels[i]) : levels[i][j].file # loc[t].file
        BY <1>3, <2>2 DEF Owns
      <4>. QED
        BY <1>2, <1>4, <1>5, <1>6, <1>7, <3>1, <4>1 DEF Owns
    <3>2. CASE u # t
      <4>1. Owns(u) /\ pc'[u] = pc[u]
        BY <2>1, <2>2, <3>2
      <4>2. pc[u] \in OwnerPc => files'[loc[u].file] = files[loc[u].file]
        BY <1>3, <1>5, <1>7, <2>2, <3>2 DEF Owns
      <4>. QED
        BY <1>2, <1>7, <4>1, <4>2 DEF Owns
    <3>. QED
      BY <3>1, <3>2
  <2>5. (\A u, w \in Thread : pc[u] \in OwnerPc /\ pc[w] \in OwnerPc /\ loc[u].file = loc[w].file => u = w)'
    BY <1>2, <1>3, <1>4, <2>1, <2>2
  <2>. QED
    BY <1>2, <1>7, <2>2, <2>3, <2>4, <2>5 DEF Shelved
<1>12. ASSUME Careful' PROVE Orderly' /\ Kept'
  <2>1. Orderly /\ Kept
    BY <1>2, <1>12 DEF Steady, Safe, Careful
  <2>2. Orderly'
    BY <1>2, <1>3, <1>4, <2>1, OrderlyFrame
  <2>3. Promised' \subseteq Promised
    <3>1. acked \subseteq Promised /\ Versions(loc[t].ticks) \subseteq Promised
      BY <1>3 DEF Promised
    <3>. QED
      BY <1>2, <1>4, <3>1, PromisedFrame
  <2>4. ASSUME NEW v, InTable(v) PROVE InTable(v)'
    <3>1. \A g \in DOMAIN files : files[g].whole =>
                g \in DOMAIN files' /\ files'[g].whole /\ files'[g].rows = files[g].rows
      BY <1>7
    <3>. QED
      BY <1>2, <1>3, <1>4, <2>4, <3>1, TableFrame
  <2>5. ASSUME NEW v, Drained(t, v) PROVE Drained(t, v)'
    <3>1. CASE InTable(v)
      BY <2>4, <3>1 DEF Drained
    <3>2. CASE Covers(loc[t].rows, v)
      <4>1. f \in DOMAIN files' /\ files'[f].whole /\ Covers(files'[f].rows, v)
        BY <1>6, <1>7, <3>2
      <4>2. InTable(v)'
        BY <1>2, <4>1 DEF InTable, Covers, KeyOf
      <4>. QED
        BY <4>2 DEF Drained
    <3>. QED
      BY <2>5, <3>1, <3>2 DEF Drained
  <2>6. Kept'
    BY <1>2, <1>3, <1>4, <2>1, <2>3, <2>4, <2>5, FlushFrame DEF Orderly
  <2>. QED
    BY <2>2, <2>6
<1>13. Safe'
  BY <1>12 DEF Safe
<1>. QED
  BY <1>10, <1>11, <1>13 DEF Steady

(* There are finitely many keys: the rows of a table can be counted.       *)
LEMMA RowCount ==
    ASSUME NEW R
    PROVE  IsFiniteSet(Key) /\ mem_len(R) \in Nat
<1>1. IsFiniteSet(Symbol) /\ IsFiniteSet(Timestamp)
  BY LsmAssumption
<1>2. Cardinality(Symbol) \in Nat
  BY <1>1, FS_CardinalityType
<1>3. IsFiniteSet(Id)
  BY <1>2, FS_Interval DEF Id
<1>4. IsFiniteSet(Key)
  BY <1>1, <1>3, FS_Product DEF Key
<1>5. PresentKeys(R) \in SUBSET Key
  BY DEF PresentKeys
<1>6. IsFiniteSet(PresentKeys(R))
  BY <1>4, <1>5, FS_Subset
<1>. QED
  BY <1>4, <1>6, FS_CardinalityType DEF mem_len

(* A level after a table has been added to it.                             *)
LEMMA AddTable ==
    ASSUME Types, NEW n \in 1 .. Len(levels), NEW f \in DOMAIN files,
           NEW ls, ls = [levels EXCEPT ![n] = Append(@, Handle(f))]
    PROVE  /\ TLevels(ls) /\ Len(ls) = Len(levels)
           /\ \A i \in 1 .. Len(ls) : \A j \in 1 .. Len(ls[i]) :
                \/ j \in 1 .. Len(levels[i]) /\ ls[i][j] = levels[i][j]
                \/ i = n /\ ls[i][j].file = f
<1>1. /\ Len(levels) \in Nat /\ Len(levels) >= 1 /\ DOMAIN levels = 1 .. Len(levels)
      /\ \A i \in 1 .. Len(levels) : levels[i] \in Seq(Handles)
  BY LevelsLength
<1>2. levels \in Seq(Seq(Handles))
  BY DEF Types, TLevels
<1>3. PICK h : h = Handle(f)
  OBVIOUS
<1>4. h \in Handles /\ h.file = f
  <2>1. f \in 1 .. MaxFiles /\ files[f] \in FileType
    BY DEF Types, TFiles
  <2>2. files[f].rows \in Rows
    BY <2>1 DEF FileType
  <2>3. PICK s : s = mem_len(files[f].rows)
    OBVIOUS
  <2>4. s \in Nat
    BY <2>2, <2>3, RowCount
  <2>5. h = [file |-> f, size |-> s]
    BY <1>3, <2>3 DEF Handle
  <2>. QED
    BY <2>1, <2>4, <2>5 DEF Handles
<1>5. PICK new : new = Append(levels[n], h)
  OBVIOUS
<1>6. /\ new \in Seq(Handles) /\ Len(levels[n]) \in Nat /\ Len(new) = Len(levels[n]) + 1
      /\ \A j \in 1 .. Len(levels[n]) : new[j] = levels[n][j]
      /\ new[Len(levels[n]) + 1] = h
  <2>1. PICK old \in Seq(Handles) : old = levels[n]
    BY <1>1
  <2>2. /\ Append(old, h) \in Seq(Handles) /\ Len(old) \in Nat /\ Len(Append(old, h)) = Len(old) + 1
        /\ \A j \in 1 .. Len(old) : Append(old, h)[j] = old[j]
        /\ Append(old, h)[Len(old) + 1] = h
    BY <1>4
  <2>. QED
    BY <1>5, <2>1, <2>2
<1>7. ls = [levels EXCEPT ![n] = new]
  BY <1>3, <1>5
<1>8. ls \in Seq(Seq(Handles)) /\ Len(ls) = Len(levels)
  BY <1>2, <1>6, <1>7
<1>9. ls[n] = new /\ \A i \in 1 .. Len(levels) : i # n => ls[i] = levels[i]
  BY <1>1, <1>7
<1>10. ls # << >>
  <2>1. CASE ls = << >>
    <3>1. Len(ls) = 0
      BY <2>1
    <3>. QED
      BY <1>1, <1>8, <3>1
  <2>. QED
    BY <2>1
<1>11. ASSUME NEW i \in 1 .. Len(ls), NEW j \in 1 .. Len(ls[i])
       PROVE  \/ j \in 1 .. Len(levels[i]) /\ ls[i][j] = levels[i][j]
              \/ i = n /\ ls[i][j].file = f
  <2>1. CASE i # n
    BY <1>8, <1>9, <2>1
  <2>2. CASE i = n
    <3>1. j \in 1 .. Len(new) /\ ls[i] = new
      BY <1>9, <2>2
    <3>2. j \in 1 .. Len(levels[n]) \/ j = Len(levels[n]) + 1
      BY <1>6, <3>1
    <3>. QED
      BY <1>4, <1>6, <2>2, <3>1, <3>2
  <2>. QED
    BY <2>1, <2>2
<1>. QED
  BY <1>8, <1>10, <1>11 DEF TLevels

\* The table of file f is added to level n - 1.
Adds(n, f) == levels' = [levels EXCEPT ![n] = Append(@, Handle(f))]

(* A table joins its level and has no owner any more.                      *)
LEMMA JoinsLevel ==
    ASSUME Types, Shelved, NEW t \in Thread, pc[t] \in OwnerPc, pc'[t] \notin OwnerPc, Others(t),
           NEW f, f = loc[t].file,
           nextFile' = nextFile, DOMAIN files' = DOMAIN files,
           \A g \in DOMAIN files : g # f => files'[g] = files[g],
           files'[f].whole, files'[f].level = files[f].level,
           NEW n \in 1 .. Len(levels), files[f].level = n - 1,
           Adds(n, f)
    PROVE  Shelved'
<1>1. /\ \A g \in DOMAIN files : g < nextFile
      /\ \A i \in 1 .. Len(levels) : \A j \in 1 .. Len(levels[i]) : OnShelf(levels[i][j].file, i)
      /\ \A u \in Thread : Owns(u)
      /\ \A u, w \in Thread : pc[u] \in OwnerPc /\ pc[w] \in OwnerPc /\ loc[u].file = loc[w].file => u = w
  BY DEF Shelved
<1>2. f \in DOMAIN files
  BY <1>1 DEF Owns
<1>3. \A i \in 1 .. Len(levels) : \A j \in 1 .. Len(levels[i]) : levels[i][j].file # f
  BY <1>1 DEF Owns
<1>4. /\ Len(levels') = Len(levels)
      /\ \A i \in 1 .. Len(levels') : \A j \in 1 .. Len(levels'[i]) :
                \/ j \in 1 .. Len(levels[i]) /\ levels'[i][j] = levels[i][j]
                \/ i = n /\ levels'[i][j].file = f
  BY <1>2, AddTable DEF Adds
<1>5. \A g \in DOMAIN files' : g < nextFile'
  BY <1>1
<1>6. (\A i \in 1 .. Len(levels) : \A j \in 1 .. Len(levels[i]) : OnShelf(levels[i][j].file, i))'
  <2>1. SUFFICES ASSUME NEW i \in 1 .. Len(levels'), NEW j \in 1 .. Len(levels'[i])
                 PROVE  /\ levels'[i][j].file \in DOMAIN files'
                        /\ files'[levels'[i][j].file].level = i - 1
                        /\ files'[levels'[i][j].file].whole
    BY DEF OnShelf
  <2>2. CASE j \in 1 .. Len(levels[i]) /\ levels'[i][j] = levels[i][j]
    BY <1>1, <1>3, <1>4, <2>2 DEF OnShelf
  <2>3. CASE i = n /\ levels'[i][j].file = f
    BY <1>2, <2>3
  <2>. QED
    BY <1>4, <2>2, <2>3
<1>7. \A u \in Thread \ {t} : /\ pc'[u] = pc[u] /\ loc'[u].file = loc[u].file
                              /\ loc'[u].rows = loc[u].rows /\ loc'[u].level = loc[u].level
  BY DEF Others, SameWork
<1>8. ASSUME NEW u \in Thread PROVE Owns(u)'
  <2>1. CASE u = t
    BY <2>1 DEF Owns
  <2>2. CASE u # t
    <3>1. SUFFICES ASSUME pc[u] \in OwnerPc PROVE Owns(u)'
      BY <1>7, <2>2 DEF Owns
    <3>2. Owns(u) /\ loc[u].file # f /\ loc[u].file \in DOMAIN files
      BY <1>1, <2>2, <3>1 DEF Owns
    <3>3. files'[loc[u].file] = files[loc[u].file]
      BY <3>2
    <3>4. \A i \in 1 .. Len(levels') : \A j \in 1 .. Len(levels'[i]) : levels'[i][j].file # loc[u].file
      BY <1>4, <3>1, <3>2 DEF Owns
    <3>. QED
      BY <1>7, <2>2, <3>2, <3>3, <3>4 DEF Owns
  <2>. QED
    BY <2>1, <2>2
<1>9. (\A u, w \in Thread : pc[u] \in OwnerPc /\ pc[w] \in OwnerPc /\ loc[u].file = loc[w].file => u = w)'
  BY <1>1, <1>7
<1>. QED
  BY <1>5, <1>6, <1>8, <1>9 DEF Shelved

(* A flush adds its table to the first level.                              *)
LEMMA FlushAddKeeps ==
    ASSUME Steady, NEW t \in Thread, flush_add(t)
    PROVE  Steady'
<1>1. Types /\ Genuine /\ Shelved /\ Held /\ Batched /\ Asking /\ Named
  BY DEF Steady
<1>2. /\ status = "up" /\ pc[t] = "f_add" /\ Goto(t, "f_truncate") /\ loc' = loc
      /\ levels' = [levels EXCEPT ![1] = Append(@, Handle(loc[t].file))]
      /\ UNCHANGED << work, role, opens, status, dict, mem, wal, files, nextFile, applied, recorded,
                      dictW, dictR, memW, compW, origin, acked, replicated, hazards, crashes, ioErrors >>
  BY DEF flush_add, Up, locks, history
<1>3. /\ "f_truncate" \in Pc \ ReadPc /\ "f_truncate" \in Pc /\ "f_truncate" \notin OwnerPc /\ pc[t] \in OwnerPc
      /\ "f_truncate" \notin PuttingPc /\ "f_truncate" \in FlushPc /\ "f_truncate" \notin CompactionPc
      /\ "f_truncate" \notin InsertPc /\ "f_truncate" \notin ApplyPc /\ "f_truncate" \in FlushingPc
      /\ pc[t] \in FlushingPc /\ "f_truncate" \in InCallPc /\ pc[t] \in InCallPc /\ pc[t] \notin MergedPc
  BY <1>2 DEF Pc, ReadPc, OwnerPc, PuttingPc, UnputPc, UnloggedPc, FlushPc, CompactionPc, InsertPc, ApplyPc,
              FlushingPc, InCallPc, MergedPc
<1>4. Others(t) /\ pc'[t] = "f_truncate" /\ loc'[t] = loc[t] /\ TPc(pc') /\ TLoc(loc') /\ loc[t] \in Loc
  BY <1>1, <1>2, <1>3, SameLocals
<1>5. PICK f : f = loc[t].file
  OBVIOUS
<1>6. f \in DOMAIN files /\ files[f].level = 0 /\ files[f].whole
  BY <1>1, <1>2, <1>3, <1>5 DEF Shelved, Owns
<1>7. 1 \in 1 .. Len(levels) /\ Len(levels) \in Nat
  BY <1>1, LevelsLength
<1>8. TLevels(levels') /\ Len(levels') = Len(levels)
  <2>1. PICK n, ls : n = 1 /\ ls = levels'
    OBVIOUS
  <2>2. n \in 1 .. Len(levels) /\ f \in DOMAIN files
    BY <1>6, <1>7, <2>1
  <2>3. ls = [levels EXCEPT ![n] = Append(@, Handle(f))]
    BY <1>2, <1>5, <2>1, Zenon
  <2>4. TLevels(ls) /\ Len(ls) = Len(levels)
    BY <1>1, <2>2, <2>3, AddTable
  <2>. QED
    BY <2>1, <2>4
<1>9. Advances(t, loc[t], "f_truncate")
  <2>1. IsApplying(loc[t], "f_truncate") => IsApplying(loc[t], pc[t])
    BY <1>3 DEF IsApplying
  <2>. QED
    BY <1>2, <1>3, <1>4, <2>1 DEF Advances, Locks
<1>10. Holds(t)'
  <2>1. Holds(t)
    BY <1>1 DEF Held
  <2>. QED
    BY <1>2, <1>3, <1>4, <2>1 DEF Holds
<1>11. Types' /\ Genuine' /\ Held' /\ Batched' /\ Asking' /\ Named'
  <2>1. /\ RowsGenuine(loc[t].rows) /\ RowsGenuine(mem) /\ TicksGenuine(wal)
        /\ \A g \in DOMAIN files : RowsGenuine(files[g].rows)
    BY <1>1 DEF Genuine
  <2>2. Reached(applied) /\ Reached(recorded)
    BY <1>1 DEF Batched
  <2>3. Len(levels) <= Len(levels')
    BY <1>7, <1>8
  <2>4. /\ mem \in Rows /\ TTicks(wal) /\ TFiles(files) /\ TNext(nextFile) /\ TApplied(applied, recorded)
        /\ TCounts(work, crashes, ioErrors) /\ THazards(hazards)
    BY <1>1 DEF Types
  <2>. QED
    BY <1>2, <1>8, <1>9, <1>10, <2>1, <2>2, <2>3, <2>4, Routine
<1>12. Shelved'
  <2>1. files[f].level = 1 - 1
    BY <1>6
  <2>2. Adds(1, f)
    BY <1>2, <1>5, Zenon DEF Adds
  <2>. QED
    BY <1>1, <1>2, <1>3, <1>4, <1>5, <1>6, <1>7, <2>1, <2>2, JoinsLevel
<1>13. ASSUME Careful' PROVE Orderly' /\ Kept'
  <2>1. Orderly /\ Kept
    BY <1>2, <1>13 DEF Steady, Safe, Careful
  <2>2. Orderly'
    BY <1>2, <1>3, <1>4, <2>1, OrderlyFrame
  <2>3. Promised' \subseteq Promised
    <3>1. acked \subseteq Promised /\ Versions(loc[t].ticks) \subseteq Promised
      BY <1>3 DEF Promised
    <3>. QED
      BY <1>2, <1>4, <3>1, PromisedFrame
  <2>4. ASSUME NEW v, InTable(v) PROVE InTable(v)'
    BY <1>2, <1>3, <1>4, <2>4, TableFrame
  <2>5. ASSUME NEW v, Drained(t, v) PROVE Drained(t, v)'
    BY <1>2, <2>4, <2>5 DEF Drained
  <2>6. Kept'
    BY <1>2, <1>3, <1>4, <2>1, <2>3, <2>4, <2>5, FlushFrame DEF Orderly
  <2>. QED
    BY <2>2, <2>6
<1>14. Safe'
  BY <1>13 DEF Safe
<1>. QED
  BY <1>11, <1>12, <1>14 DEF Steady

\* A flush ends at its truncate, with the log emptied or, after an error, not.
Truncates(t, l, p) ==
    /\ pc[t] = "f_truncate" /\ p \in {"idle", "a_advance"} /\ Advances(t, l, p) /\ Holds(t)'
    /\ RowsGenuine(l.rows) /\ acked' \subseteq acked \cup Versions(loc[t].ticks)
    /\ Versions(l.ticks) \subseteq Versions(loc[t].ticks)
    /\ wal' \in {wal, << >>} /\ TCounts(work, crashes, ioErrors')
    /\ UNCHANGED << mem, files, nextFile, levels, applied, recorded, hazards >>

(* flush_truncate and truncate_error.                                      *)
LEMMA TruncateSteps ==
    ASSUME Steady, NEW t \in Thread, flush_truncate(t) \/ truncate_error(t)
    PROVE  \E l, p : Truncates(t, l, p)
<1>1. Types /\ Genuine /\ Batched /\ Held
  BY DEF Steady
<1>2. CASE flush_truncate(t)
  <2>1. /\ status = "up" /\ pc[t] = "f_truncate" /\ AfterFlush(t)
        /\ UNCHANGED << work, role, opens, status, dict, origin, replicated, crashes, dictR, memW, compW >>
    BY <1>2 DEF flush_truncate, Up
  <2>2. wal' \in {wal, << >>} /\ UNCHANGED << mem, files, nextFile, levels, applied, recorded, hazards >>
    BY <1>2 DEF flush_truncate
  <2>3. pc[t] \in FlushPc
    BY <2>1 DEF FlushPc
  <2>4. PICK l, p : /\ p \in {"idle", "a_advance"} /\ Advances(t, l, p) /\ Holds(t)'
                    /\ RowsGenuine(l.rows) /\ acked' \subseteq acked \cup Versions(loc[t].ticks)
                    /\ Versions(l.ticks) \subseteq Versions(loc[t].ticks)
    BY <2>1, <2>3, FlushEnds
  <2>5. TCounts(work, crashes, ioErrors')
    BY <1>1, <1>2 DEF flush_truncate, Types
  <2>. QED
    BY <2>1, <2>2, <2>4, <2>5 DEF Truncates
<1>3. CASE truncate_error(t)
  <2>1. /\ status = "up" /\ pc[t] = "f_truncate" /\ Return(t, {})
        /\ dictW' = (IF dictW = t THEN None ELSE dictW)
        /\ UNCHANGED << work, role, opens, status, dict, origin, replicated, crashes, dictR, memW, compW >>
    BY <1>3 DEF truncate_error, Up
  <2>2. wal' \in {wal, << >>} /\ UNCHANGED << mem, files, nextFile, levels, applied, recorded, hazards >>
    BY <1>3 DEF truncate_error
  <2>3. /\ Others(t) /\ pc'[t] = "idle" /\ loc'[t] = NoLoc /\ TPc(pc') /\ TLoc(loc')
        /\ "idle" \in Pc \ ReadPc /\ NoLoc \in Loc /\ acked' = acked \cup {}
        /\ RowsGenuine(NoLoc.rows) /\ ~IsApplying(NoLoc, "idle") /\ Holds(t)'
    BY <1>1, <2>1, Returns
  <2>4. Advances(t, NoLoc, "idle")
    BY <2>1, <2>3 DEF Advances, Locks
  <2>5. TCounts(work, crashes, ioErrors')
    <3>1. ioErrors \in Nat /\ work.maxIoErrors \in Nat /\ ioErrors < work.maxIoErrors
          /\ ioErrors' = ioErrors + 1 /\ TCrashes(crashes)
      BY <1>1, <1>3, LsmAssumption DEF truncate_error, Types, TCounts, TFixed, Workload
    <3>. QED
      BY <3>1 DEF TCounts
  <2>6. Truncates(t, NoLoc, "idle")
    BY <2>1, <2>2, <2>3, <2>4, <2>5, BlankGenuine DEF Truncates
  <2>. QED
    BY <2>6
<1>. QED
  BY <1>2, <1>3

(* The end of a flush.                                                     *)
LEMMA TruncateKeeps ==
    ASSUME Steady, NEW t \in Thread, NEW l, NEW p, Truncates(t, l, p)
    PROVE  Steady'
<1>1. Types /\ Genuine /\ Shelved /\ Held /\ Batched /\ Asking /\ Named
  BY DEF Steady
<1>2. /\ pc[t] = "f_truncate" /\ p \in {"idle", "a_advance"} /\ Advances(t, l, p)
      /\ Others(t) /\ pc'[t] = p /\ loc'[t] = l
      /\ wal' = wal \/ wal' = << >>
      /\ UNCHANGED << mem, files, nextFile, levels, applied, recorded, hazards, origin, status, replicated >>
  BY DEF Truncates, Advances
<1>3. TTicks(wal') /\ TicksGenuine(wal')
  <2>1. TTicks(<< >>) /\ TicksGenuine(<< >>)
    BY DEF TTicks, TicksGenuine
  <2>2. TTicks(wal) /\ TicksGenuine(wal)
    BY <1>1 DEF Types, Genuine
  <2>. QED
    BY <1>2, <2>1, <2>2, Zenon
<1>4. Types' /\ Genuine' /\ Held' /\ Batched' /\ Asking' /\ Named'
  <2>1. RowsGenuine(mem) /\ \A g \in DOMAIN files : RowsGenuine(files[g].rows)
    BY <1>1 DEF Genuine
  <2>2. Reached(applied) /\ Reached(recorded)
    BY <1>1 DEF Batched
  <2>3. Len(levels) <= Len(levels')
    BY <1>1, <1>2, LevelsLength
  <2>4. /\ mem \in Rows /\ TFiles(files) /\ TNext(nextFile) /\ TLevels(levels) /\ TApplied(applied, recorded)
        /\ THazards(hazards)
    BY <1>1 DEF Types
  <2>5. /\ Holds(t)' /\ RowsGenuine(l.rows) /\ acked' \subseteq acked \cup Versions(loc[t].ticks)
        /\ TCounts(work, crashes, ioErrors')
    BY DEF Truncates
  <2>. QED
    BY <1>2, <1>3, <2>1, <2>2, <2>3, <2>4, <2>5, Routine
<1>5. /\ p \notin PuttingPc /\ p \notin FlushingPc /\ p \notin OwnerPc /\ p \notin LoggedPc /\ p # "b_wal"
      /\ p \notin UnputPc /\ p \notin UnloggedPc
      /\ pc[t] \in FlushingPc /\ pc[t] \in InCallPc /\ pc[t] \notin MergedPc
  BY <1>2 DEF PuttingPc, UnputPc, UnloggedPc, FlushingPc, OwnerPc, LoggedPc, InCallPc, FlushPc, MergedPc
<1>6. Shelved'
  BY <1>1, <1>2, <1>5, ShelvedFrame
<1>7. ASSUME Careful' PROVE Orderly' /\ Kept'
  <2>1. Orderly /\ Kept
    BY <1>2, <1>7 DEF Steady, Safe, Careful
  <2>2. Orderly'
    <3>1. OneSymbolPerId'
      BY <1>2, <2>1 DEF Orderly, OneSymbolPerId
    <3>2. OneAtATime'
      BY <1>2, <1>5, <2>1, OneAtATimeFrame DEF Orderly
    <3>3. InOrder(wal')
      <4>1. InOrder(<< >>)
        BY DEF InOrder
      <4>2. InOrder(wal)
        BY <2>1 DEF Orderly
      <4>. QED
        BY <1>2, <4>1, <4>2, Zenon
    <3>4. \A u \in Thread : pc[u] \in UnloggedPc => AboveTicks(loc[u].ticks, wal')
      <4>1. \A s : AboveTicks(s, << >>)
        BY DEF AboveTicks
      <4>2. \A u \in Thread : pc[u] \in UnloggedPc => AboveTicks(loc[u].ticks, wal)
        BY <2>1 DEF Orderly, Newer
      <4>. QED
        BY <1>2, <4>1, <4>2, Zenon
    <3>5. \A u \in Thread : pc[u] \in UnputPc => AboveRows(loc[u].ticks, mem)
      BY <2>1 DEF Orderly, Newer
    <3>6. Newer'
      BY <1>2, <1>5, <2>1, <3>4, <3>5, NewerFrame DEF Orderly
    <3>7. InOrder(wal)'
      BY <3>3 DEF InOrder
    <3>. QED
      BY <3>1, <3>2, <3>6, <3>7 DEF Orderly
  <2>3. Promised' \subseteq Promised
    <3>1. acked' \subseteq Promised /\ Versions(l.ticks) \subseteq Promised
      BY <1>5 DEF Promised, Truncates
    <3>. QED
      BY <1>2, <3>1, PromisedFrame
  <2>4. ASSUME NEW v \in Promised' PROVE InTable(v)'
    <3>1. v \in Promised /\ Drained(t, v)
      BY <1>5, <2>1, <2>3 DEF Kept
    <3>2. InTable(v)
      BY <1>2, <3>1 DEF Drained
    <3>. QED
      BY <1>2, <1>5, <3>2, TableFrame
  <2>5. \A u \in Thread \ {t} : pc'[u] = pc[u] /\ loc'[u].ticks = loc[u].ticks
    BY <1>2 DEF Others, SameWork
  <2>6. \A u \in Thread : pc'[u] \notin LoggedPc /\ pc'[u] \notin FlushingPc
    BY <1>2, <1>5, <2>1, <2>5 DEF Orderly, OneAtATime
  <2>7. ASSUME NEW u \in Thread, pc'[u] = "b_wal", NEW v \in Versions(loc'[u].ticks) PROVE Covers(mem, v)'
    <3>1. pc[u] = "b_wal" /\ v \in Versions(loc[u].ticks)
      BY <1>2, <1>5, <2>5, <2>7
    <3>. QED
      BY <1>2, <2>1, <3>1 DEF Kept, Covers, KeyOf
  <2>8. (\A u \in Thread : pc[u] = "b_wal" => \A v \in Versions(loc[u].ticks) : Covers(mem, v))'
    BY <2>7 DEF Versions
  <2>9. Kept'
    BY <2>4, <2>6, <2>8 DEF Kept, Logs, Serves
  <2>. QED
    BY <2>2, <2>9
<1>8. Safe'
  BY <1>7 DEF Safe
<1>. QED
  BY <1>4, <1>6, <1>8 DEF Steady

(***************************************************************************)
(* Compaction.                                                             *)
(***************************************************************************)

(* A compaction syncs its table and adds it to the next level.             *)
LEMMA CompactSyncKeeps ==
    ASSUME Steady, NEW t \in Thread, compact_sync(t)
    PROVE  Steady'
<1>1. Types /\ Genuine /\ Shelved /\ Held /\ Batched /\ Asking /\ Named
  BY DEF Steady
<1>2. /\ status = "up" /\ pc[t] = "c_sync" /\ SyncFile(t) /\ Goto(t, "c_next") /\ loc' = loc
      /\ levels' = [levels EXCEPT ![loc[t].level + 2] = Append(@, Handle(loc[t].file))]
      /\ UNCHANGED << work, role, opens, status, dict, mem, wal, nextFile, applied, recorded,
                      dictW, dictR, memW, compW, origin, acked, replicated, hazards, crashes, ioErrors >>
  BY DEF compact_sync, Up, locks, history
<1>3. /\ "c_next" \in Pc \ ReadPc /\ "c_next" \in Pc /\ "c_next" \notin OwnerPc /\ pc[t] \in OwnerPc
      /\ "c_next" \notin PuttingPc /\ "c_next" \notin FlushPc /\ "c_next" \in CompactionPc
      /\ pc[t] \in CompactionPc /\ pc[t] \notin FlushPc
      /\ "c_next" \notin InsertPc /\ "c_next" \notin ApplyPc /\ "c_next" \notin FlushingPc
      /\ pc[t] \notin FlushingPc /\ "c_next" \notin InCallPc /\ "c_next" \notin LoggedPc
  BY <1>2 DEF Pc, ReadPc, OwnerPc, PuttingPc, UnputPc, UnloggedPc, FlushPc, CompactionPc, InsertPc, ApplyPc,
              FlushingPc, InCallPc, LoggedPc
<1>4. Others(t) /\ pc'[t] = "c_next" /\ loc'[t] = loc[t] /\ TPc(pc') /\ TLoc(loc') /\ loc[t] \in Loc
  BY <1>1, <1>2, <1>3, SameLocals
<1>5. PICK f, n, ls : f = loc[t].file /\ n = loc[t].level + 2 /\ ls = levels'
  OBVIOUS
<1>6. f \in DOMAIN files /\ files[f].rows = loc[t].rows /\ files[f].level = loc[t].level + 1
  BY <1>1, <1>2, <1>3, <1>5 DEF Shelved, Owns
<1>7. Holds(t) /\ n \in 1 .. Len(levels) /\ files[f].level = n - 1 /\ Len(levels) \in Nat
  <2>1. Holds(t) /\ loc[t].level \in Nat /\ Len(levels) \in Nat
    BY <1>1, LocTypes, LevelsLength DEF Held
  <2>2. loc[t].level + 2 <= Len(levels)
    BY <1>2, <1>3, <2>1 DEF Holds
  <2>. QED
    BY <1>5, <1>6, <2>1, <2>2
<1>8. ls = [levels EXCEPT ![n] = Append(@, Handle(f))]
  BY <1>2, <1>5, Zenon
<1>9. TLevels(ls) /\ Len(ls) = Len(levels)
  BY <1>1, <1>6, <1>7, <1>8, AddTable
<1>10. /\ DOMAIN files' = DOMAIN files /\ TFiles(files')
       /\ \A g \in DOMAIN files : files'[g].rows = files[g].rows /\ files'[g].level = files[g].level
       /\ \A g \in DOMAIN files : g # f => files'[g] = files[g]
       /\ files'[f].whole
       /\ \A g \in DOMAIN files' : RowsGenuine(files'[g].rows)
  BY <1>1, <1>2, <1>5, <1>6, Syncs
<1>11. loc[t].after # "a_advance"
  BY <1>3, <1>7 DEF Holds
<1>12. Advances(t, loc[t], "c_next")
  <2>1. ~IsApplying(loc[t], "c_next")
    BY <1>3, <1>11 DEF IsApplying
  <2>. QED
    BY <1>2, <1>3, <1>4, <2>1 DEF Advances, Locks
<1>13. Holds(t)'
  <2>1. Len(levels') = Len(levels)
    BY <1>5, <1>9
  <2>. QED
    BY <1>2, <1>3, <1>4, <1>7, <1>11, <2>1 DEF Holds
<1>14. Types' /\ Genuine' /\ Held' /\ Batched' /\ Asking' /\ Named'
  <2>1. RowsGenuine(loc[t].rows) /\ RowsGenuine(mem) /\ TicksGenuine(wal)
    BY <1>1 DEF Genuine
  <2>2. Reached(applied) /\ Reached(recorded)
    BY <1>1 DEF Batched
  <2>3. TLevels(levels') /\ Len(levels) <= Len(levels')
    BY <1>5, <1>7, <1>9
  <2>4. /\ mem \in Rows /\ TTicks(wal) /\ TNext(nextFile) /\ TApplied(applied, recorded)
        /\ TCounts(work, crashes, ioErrors) /\ THazards(hazards)
    BY <1>1 DEF Types
  <2>. QED
    BY <1>2, <1>10, <1>12, <1>13, <2>1, <2>2, <2>3, <2>4, Routine
<1>15. Shelved'
  <2>1. Adds(n, f)
    BY <1>5, <1>8, Zenon DEF Adds
  <2>2. files'[f].level = files[f].level /\ files'[f].whole
    BY <1>6, <1>10
  <2>3. pc[t] \in OwnerPc /\ pc'[t] \notin OwnerPc /\ f = loc[t].file /\ nextFile' = nextFile
    BY <1>2, <1>3, <1>4, <1>5
  <2>4. DOMAIN files' = DOMAIN files /\ \A g \in DOMAIN files : g # f => files'[g] = files[g]
    BY <1>10
  <2>5. n \in 1 .. Len(levels) /\ files[f].level = n - 1
    BY <1>7
  <2>6. Types /\ Shelved /\ Others(t)
    BY <1>1, <1>4
  <2>. QED
    BY <2>1, <2>2, <2>3, <2>4, <2>5, <2>6, JoinsLevel
<1>16. ASSUME Careful' PROVE Orderly' /\ Kept'
  <2>1. Orderly /\ Kept
    BY <1>2, <1>16 DEF Steady, Safe, Careful
  <2>2. Orderly'
    BY <1>2, <1>3, <1>4, <2>1, OrderlyFrame
  <2>3. Promised' \subseteq Promised
    <3>1. acked \subseteq Promised
      BY DEF Promised
    <3>. QED
      BY <1>2, <1>3, <1>4, <3>1, PromisedFrame
  <2>4. ASSUME NEW v, InTable(v) PROVE InTable(v)'
    <3>1. CASE \E g \in DOMAIN files : files[g].whole /\ Covers(files[g].rows, v)
      <4>1. PICK g \in DOMAIN files : files[g].whole /\ Covers(files[g].rows, v)
        BY <3>1
      <4>2. g \in DOMAIN files' /\ files'[g].whole /\ Covers(files'[g].rows, v)
        BY <1>10, <4>1
      <4>. QED
        BY <1>2, <4>2 DEF InTable, Covers, KeyOf
    <3>2. CASE \E u \in Thread : pc[u] \in MergedPc /\ Covers(loc[u].rows, v)
      <4>1. PICK u \in Thread : pc[u] \in MergedPc /\ Covers(loc[u].rows, v)
        BY <3>2
      <4>2. CASE u = t
        <5>1. f \in DOMAIN files' /\ files'[f].whole /\ Covers(files'[f].rows, v)
          BY <1>6, <1>10, <4>1, <4>2
        <5>. QED
          BY <1>2, <5>1 DEF InTable, Covers, KeyOf
      <4>3. CASE u # t
        <5>1. pc'[u] \in MergedPc /\ loc'[u].rows = loc[u].rows
          BY <1>4, <4>1, <4>3 DEF Others, SameWork
        <5>. QED
          BY <1>2, <4>1, <5>1 DEF InTable, Covers, KeyOf
      <4>. QED
        BY <4>2, <4>3
    <3>. QED
      BY <2>4, <3>1, <3>2 DEF InTable
  <2>5. /\ Promised \subseteq 1 .. Len(origin)
        /\ \A u \in Thread : Versions(loc[u].ticks) \subseteq 1 .. Len(origin)
    BY <1>1, PromisedWritten
  <2>6. Kept'
    BY <1>2, <1>3, <1>4, <2>1, <2>3, <2>4, <2>5, KeptFrame
  <2>. QED
    BY <2>2, <2>6
<1>17. Safe'
  BY <1>16 DEF Safe
<1>. QED
  BY <1>14, <1>15, <1>17 DEF Steady

(* The rows that a compaction merges.                                      *)
LEMMA Merges ==
    ASSUME Types, Genuine, NEW tables \in Seq(Handles), FilesOf(tables) \subseteq DOMAIN files,
           NEW r, r = merge(tables)
    PROVE  /\ r \in Rows /\ RowsGenuine(r)
           /\ ~Stale(tables) => \A i \in 1 .. Len(tables), k \in Key : RowsOf(tables[i])[k] <= r[k]
<1>1. Len(tables) \in Nat /\ DOMAIN tables = 1 .. Len(tables)
  OBVIOUS
<1>2. ASSUME NEW i \in 1 .. Len(tables)
      PROVE  RowsOf(tables[i]) \in Rows /\ RowsGenuine(RowsOf(tables[i]))
  <2>1. tables[i].file \in DOMAIN files
    BY <1>1 DEF FilesOf
  <2>2. files[tables[i].file] \in FileType
    BY <2>1 DEF Types, TFiles
  <2>. QED
    BY <2>1, <2>2 DEF RowsOf, FileType, Genuine
<1>3. ASSUME NEW k \in Key
      PROVE  r[k] = 0 \/ \E i \in 1 .. Len(tables) : r[k] = RowsOf(tables[i])[k]
  <2>1. PICK have : have = { i \in DOMAIN tables : RowsOf(tables[i])[k] # 0 }
    OBVIOUS
  <2>2. r[k] = IF have = {} THEN 0 ELSE RowsOf(tables[Min(have)])[k]
    BY <2>1 DEF merge
  <2>3. CASE have = {}
    BY <2>2, <2>3
  <2>4. CASE have # {}
    <3>1. have \in SUBSET (1 .. Len(tables))
      BY <1>1, <2>1
    <3>2. Min(have) \in have
      BY <1>1, <2>4, <3>1, Extremes
    <3>. QED
      BY <2>2, <2>4, <3>1, <3>2
  <2>. QED
    BY <2>3, <2>4
<1>4. r = [k \in Key |-> r[k]]
  BY DEF merge
<1>5. \A k \in Key : r[k] \in Version
  BY <1>2, <1>3, Blank DEF Rows
<1>6. r \in Rows
  BY <1>4, <1>5 DEF Rows
<1>7. RowsGenuine(r)
  BY <1>2, <1>3 DEF RowsGenuine
<1>8. ASSUME ~Stale(tables), NEW i \in 1 .. Len(tables), NEW k \in Key
      PROVE  RowsOf(tables[i])[k] <= r[k]
  <2>1. ~(RowsOf(tables[i])[k] > r[k])
    BY <1>1, <1>8 DEF Stale
  <2>2. RowsOf(tables[i])[k] \in Nat /\ r[k] \in Nat
    BY <1>2, <1>5, Blank DEF Rows, Version
  <2>. QED
    BY <2>1, <2>2
<1>. QED
  BY <1>6, <1>7, <1>8

(* The levels after a compaction has taken the tables of level n.          *)
LEMMA EmptyLevel ==
    ASSUME Types, NEW n \in 1 .. Len(levels), NEW m \in Nat, Len(levels) <= m,
           NEW ls, ls = [i \in 1 .. m |-> IF i = n \/ i > Len(levels) THEN << >> ELSE levels[i]]
    PROVE  /\ TLevels(ls) /\ Len(ls) = m
           /\ \A i \in 1 .. Len(ls) : \A j \in 1 .. Len(ls[i]) :
                i \in 1 .. Len(levels) /\ i # n /\ j \in 1 .. Len(levels[i]) /\ ls[i][j] = levels[i][j]
<1>1. Len(levels) \in Nat /\ \A i \in 1 .. Len(levels) : levels[i] \in Seq(Handles)
  BY LevelsLength
<1>2. << >> \in Seq(Handles) /\ Len(<< >>) = 0
  OBVIOUS
<1>3. PICK e : e = << >>
  OBVIOUS
<1>4. ASSUME NEW i \in 1 .. m
      PROVE  /\ (i = n \/ i > Len(levels)) => ls[i] = e
             /\ ~(i = n \/ i > Len(levels)) => i \in 1 .. Len(levels) /\ ls[i] = levels[i]
  <2>1. ls[i] = IF i = n \/ i > Len(levels) THEN e ELSE levels[i]
    BY <1>3, Zenon
  <2>. QED
    BY <1>1, <2>1
<1>5. e \in Seq(Handles) /\ Len(e) = 0
  BY <1>2, <1>3
<1>6. \A i \in 1 .. m : ls[i] \in Seq(Handles)
  BY <1>1, <1>4, <1>5
<1>7. ls = [i \in 1 .. m |-> ls[i]]
  OBVIOUS
<1>8. ls \in Seq(Seq(Handles)) /\ Len(ls) = m
  BY <1>6, <1>7
<1>9. ls # << >>
  BY <1>1, <1>8
<1>10. ASSUME NEW i \in 1 .. Len(ls), NEW j \in 1 .. Len(ls[i])
       PROVE  i \in 1 .. Len(levels) /\ i # n /\ j \in 1 .. Len(levels[i]) /\ ls[i][j] = levels[i][j]
  <2>1. i \in 1 .. m
    BY <1>8
  <2>2. ls[i] # e
    BY <1>5, <1>10
  <2>. QED
    BY <1>4, <1>10, <2>1, <2>2
<1>. QED
  BY <1>8, <1>9, <1>10 DEF TLevels

\* Tables as they are in level n: whole files of that level.
InLevel(tables, n) ==
    /\ tables \in Seq(Handles) /\ DOMAIN tables = 1 .. Len(tables)
    /\ FilesOf(tables) \subseteq DOMAIN files
    /\ \A f \in FilesOf(tables) :
        /\ files[f].level = n - 1 /\ files[f].whole
        /\ \E i \in 1 .. Len(tables) : tables[i].file = f

(* The tables that a compaction reads are whole files of their level.      *)
LEMMA LevelTables ==
    ASSUME Types, Shelved
    PROVE  \A n \in 1 .. Len(levels) : InLevel(levels[n], n)
<1>1. SUFFICES ASSUME NEW n \in 1 .. Len(levels) PROVE InLevel(levels[n], n)
  OBVIOUS
<1>2. PICK tables : tables = levels[n]
  OBVIOUS
<1>3. tables \in Seq(Handles) /\ DOMAIN tables = 1 .. Len(tables)
  BY <1>2, LevelsLength
<1>4. \A j \in 1 .. Len(tables) : OnShelf(tables[j].file, n)
  BY <1>2 DEF Shelved
<1>5. \A f \in FilesOf(tables) : \E i \in 1 .. Len(tables) : tables[i].file = f
  BY <1>3 DEF FilesOf
<1>6. InLevel(tables, n)
  BY <1>3, <1>4, <1>5 DEF OnShelf, InLevel
<1>. QED
  BY <1>2, <1>6

\* A compaction has merged its tables and removes them.
Takes(t, n, r, gone, m) ==
    /\ status = "up" /\ pc[t] = "c_read" /\ n = loc[t].level + 1
    /\ r = merge(levels[n]) /\ gone \subseteq FilesOf(levels[n])
    /\ m \in Nat /\ m >= Len(levels) /\ m >= loc[t].level + 2
    /\ loc' = [loc EXCEPT ![t].rows = r]
    /\ Goto(t, "c_write")
    /\ files' = [f \in DOMAIN files \ gone |-> files[f]]
    /\ levels' = [i \in 1 .. m |-> IF i = n \/ i > Len(levels) THEN << >> ELSE levels[i]]
    /\ THazards(hazards') /\ hazards \subseteq hazards'
    /\ Careful' => Careful /\ ~Stale(levels[n])
    /\ TCounts(work, crashes, ioErrors')
    /\ UNCHANGED << work, role, opens, status, dict, mem, wal, nextFile, applied, recorded,
                    dictW, dictR, memW, compW, origin, acked, replicated, crashes >>

(* compact_read is such a step.                                            *)
LEMMA ReadTakes ==
    ASSUME Types, Shelved, Held, NEW t \in Thread, compact_read(t)
    PROVE  \E n \in 1 .. Len(levels) : \E r, gone, m : Takes(t, n, r, gone, m)
<1>1. PICK n, tables, m : /\ n = loc[t].level + 1 /\ tables = Tables(t)
                          /\ m = Max({Len(levels), loc[t].level + 2})
  OBVIOUS
<1>2. /\ status = "up" /\ pc[t] = "c_read" /\ Goto(t, "c_write")
      /\ loc' = [loc EXCEPT ![t].rows = merge(tables)]
      /\ levels' = [i \in 1 .. m |-> IF i = n \/ i > Len(levels) THEN << >> ELSE levels[i]]
      /\ UNCHANGED << work, role, opens, status, dict, mem, wal, nextFile, applied, recorded,
                      dictW, dictR, memW, compW, origin, acked, replicated, crashes >>
  BY <1>1, Zenon DEF compact_read, Up, locks
<1>3. PICK kept \in SUBSET FilesOf(tables) :
        /\ ioErrors + Cardinality(kept) <= work.maxIoErrors
        /\ ioErrors' = ioErrors + Cardinality(kept)
        /\ files' = [f \in DOMAIN files \ (FilesOf(tables) \ kept) |-> files[f]]
        /\ Note(When(Stale(tables), "merged") \cup When(kept # {}, "kept"))
  BY <1>1, Zenon DEF compact_read
<1>4. /\ loc[t].level \in Nat /\ Len(levels) \in Nat /\ loc[t].level + 1 <= Len(levels)
  BY <1>2, LocTypes, LevelsLength DEF Held, Holds, CompactionPc
<1>5. n \in 1 .. Len(levels) /\ tables = levels[n]
  BY <1>1, <1>4 DEF Tables
<1>6. m \in Nat /\ m >= Len(levels) /\ m >= loc[t].level + 2
  <2>1. PICK a, b : a = Len(levels) /\ b = loc[t].level + 2
    OBVIOUS
  <2>2. a \in Nat /\ b \in Nat /\ a >= 1 /\ b >= 1
    BY <1>4, <2>1
  <2>3. PICK S : S = {a, b}
    OBVIOUS
  <2>4. S \in SUBSET (1 .. a + b) /\ S # {} /\ a + b \in Nat
    BY <2>2, <2>3
  <2>5. Max(S) \in S /\ \A y \in S : y <= Max(S)
    BY <2>4, Extremes
  <2>. QED
    BY <1>1, <2>1, <2>2, <2>3, <2>5
<1>7. TCounts(work, crashes, ioErrors')
  <2>1. DOMAIN files \subseteq 1 .. MaxFiles /\ MaxFiles \in Nat
    BY LsmAssumption DEF Types, TFiles
  <2>2. kept \subseteq 1 .. MaxFiles
    BY <1>5, <2>1, LevelTables DEF InLevel
  <2>3. IsFiniteSet(1 .. MaxFiles)
    BY <2>1, FS_Interval
  <2>4. IsFiniteSet(kept)
    BY <2>2, <2>3, FS_Subset
  <2>5. Cardinality(kept) \in Nat
    BY <2>4, FS_CardinalityType
  <2>6. work.maxIoErrors \in Nat
    <3>1. work \in Workload
      BY LsmAssumption DEF Types, TFixed
    <3>. QED
      BY <3>1 DEF Workload
  <2>. QED
    BY <1>3, <2>5, <2>6 DEF Types, TCounts
<1>8. THazards(hazards') /\ hazards \subseteq hazards' /\ (Careful' => Careful /\ ~Stale(tables))
  <2>1. PICK hs : hs = When(Stale(tables), "merged") \cup When(kept # {}, "kept")
    OBVIOUS
  <2>2. hs \in SUBSET HazardNames /\ Note(hs)
    BY <1>3, <2>1 DEF When, HazardNames
  <2>3. hs \cap Lossy = {} => ~Stale(tables)
    BY <2>1 DEF When, Lossy
  <2>4. hazards \subseteq hazards'
    BY <2>2 DEF Note
  <2>. QED
    BY <2>2, <2>3, <2>4, Notes DEF Types
<1>9. PICK gone, r : gone = FilesOf(tables) \ kept /\ r = merge(tables)
  OBVIOUS
<1>10. Takes(t, n, r, gone, m)
  <2>1. files' = [f \in DOMAIN files \ gone |-> files[f]] /\ gone \subseteq FilesOf(levels[n])
    BY <1>3, <1>5, <1>9
  <2>2. r = merge(levels[n]) /\ loc' = [loc EXCEPT ![t].rows = r]
    BY <1>2, <1>5, <1>9, Zenon
  <2>3. Careful' => Careful /\ ~Stale(levels[n])
    BY <1>5, <1>8
  <2>. QED
    BY <1>1, <1>2, <1>6, <1>7, <1>8, <2>1, <2>2, <2>3 DEF Takes
<1>. QED
  BY <1>5, <1>10

(* The files that stay, when the tables of a level are removed.            *)
LEMMA TakeShelves ==
    ASSUME Types, Shelved, NEW t \in Thread, Others(t), pc'[t] \notin OwnerPc, nextFile' = nextFile,
           NEW n \in 1 .. Len(levels), NEW gone, gone \subseteq FilesOf(levels[n]),
           files' = [f \in DOMAIN files \ gone |-> files[f]],
           \A i \in 1 .. Len(levels') : \A j \in 1 .. Len(levels'[i]) :
                i \in 1 .. Len(levels) /\ i # n /\ j \in 1 .. Len(levels[i]) /\ levels'[i][j] = levels[i][j]
    PROVE  Shelved'
<1>1. /\ \A g \in DOMAIN files : g < nextFile
      /\ \A i \in 1 .. Len(levels) : \A j \in 1 .. Len(levels[i]) : OnShelf(levels[i][j].file, i)
      /\ \A u \in Thread : Owns(u)
      /\ \A u, w \in Thread : pc[u] \in OwnerPc /\ pc[w] \in OwnerPc /\ loc[u].file = loc[w].file => u = w
  BY DEF Shelved
<1>2. PICK tables : tables = levels[n]
  OBVIOUS
<1>3. \A f \in gone : files[f].level = n - 1 /\ \E j \in 1 .. Len(levels[n]) : levels[n][j].file = f
  <2>1. InLevel(tables, n)
    BY <1>2, LevelTables
  <2>. QED
    BY <1>2, <2>1 DEF InLevel
<1>4. DOMAIN files' = DOMAIN files \ gone /\ \A f \in DOMAIN files \ gone : files'[f] = files[f]
  OBVIOUS
<1>5. \A g \in DOMAIN files' : g < nextFile'
  BY <1>1, <1>4
<1>6. (\A i \in 1 .. Len(levels) : \A j \in 1 .. Len(levels[i]) : OnShelf(levels[i][j].file, i))'
  <2>1. SUFFICES ASSUME NEW i \in 1 .. Len(levels'), NEW j \in 1 .. Len(levels'[i])
                 PROVE  /\ levels'[i][j].file \in DOMAIN files'
                        /\ files'[levels'[i][j].file].level = i - 1
                        /\ files'[levels'[i][j].file].whole
    BY DEF OnShelf
  <2>2. i \in 1 .. Len(levels) /\ i # n /\ j \in 1 .. Len(levels[i]) /\ levels'[i][j] = levels[i][j]
    OBVIOUS
  <2>3. PICK f : f = levels[i][j].file
    OBVIOUS
  <2>4. f \in DOMAIN files /\ files[f].level = i - 1 /\ files[f].whole
    BY <1>1, <2>2, <2>3 DEF OnShelf
  <2>5. f \notin gone
    BY <1>3, <2>2, <2>4, LevelsLength
  <2>. QED
    BY <1>4, <2>2, <2>3, <2>4, <2>5
<1>7. \A u \in Thread \ {t} : /\ pc'[u] = pc[u] /\ loc'[u].file = loc[u].file
                              /\ loc'[u].rows = loc[u].rows /\ loc'[u].level = loc[u].level
  BY DEF Others, SameWork
<1>8. ASSUME NEW u \in Thread PROVE Owns(u)'
  <2>1. CASE u = t
    BY <2>1 DEF Owns
  <2>2. CASE u # t
    <3>1. SUFFICES ASSUME pc[u] \in OwnerPc PROVE Owns(u)'
      BY <1>7, <2>2 DEF Owns
    <3>2. Owns(u) /\ loc[u].file \in DOMAIN files
      BY <1>1, <2>2, <3>1 DEF Owns
    <3>3. loc[u].file \notin gone
      BY <1>3, <3>1, <3>2 DEF Owns
    <3>4. loc[u].file \in DOMAIN files' /\ files'[loc[u].file] = files[loc[u].file]
      BY <1>4, <3>2, <3>3
    <3>5. ASSUME NEW i \in 1 .. Len(levels'), NEW j \in 1 .. Len(levels'[i])
          PROVE  levels'[i][j].file # loc[u].file
      <4>1. \A a \in 1 .. Len(levels) : \A b \in 1 .. Len(levels[a]) : levels[a][b].file # loc[u].file
        BY <3>1, <3>2 DEF Owns
      <4>2. i \in 1 .. Len(levels) /\ j \in 1 .. Len(levels[i]) /\ levels'[i][j] = levels[i][j]
        BY <3>5
      <4>. QED
        BY <4>1, <4>2
    <3>. QED
      BY <1>7, <2>2, <3>2, <3>4, <3>5 DEF Owns
  <2>. QED
    BY <2>1, <2>2
<1>9. (\A u, w \in Thread : pc[u] \in OwnerPc /\ pc[w] \in OwnerPc /\ loc[u].file = loc[w].file => u = w)'
  BY <1>1, <1>7
<1>. QED
  BY <1>5, <1>6, <1>8, <1>9 DEF Shelved

(* A compaction merges the tables of a level and removes them.             *)
LEMMA TakesKeep ==
    ASSUME Steady, NEW t \in Thread, NEW n \in 1 .. Len(levels), NEW r, NEW gone, NEW m,
           Takes(t, n, r, gone, m)
    PROVE  Steady'
<1>1. Types /\ Genuine /\ Shelved /\ Held /\ Batched /\ Asking /\ Named
  BY DEF Steady
<1>2. /\ status = "up" /\ pc[t] = "c_read" /\ pc' = [pc EXCEPT ![t] = "c_write"]
      /\ m \in Nat /\ m >= Len(levels) /\ m >= loc[t].level + 2
      /\ loc' = [loc EXCEPT ![t].rows = r]
      /\ THazards(hazards') /\ hazards \subseteq hazards'
      /\ TCounts(work, crashes, ioErrors')
      /\ gone \subseteq FilesOf(levels[n])
      /\ UNCHANGED << work, role, opens, status, dict, mem, wal, nextFile, applied, recorded,
                      dictW, dictR, memW, compW, origin, acked, replicated, crashes >>
  BY DEF Takes, Goto
<1>3. /\ "c_write" \in Pc \ ReadPc /\ "c_write" \in Pc /\ "c_write" \notin OwnerPc
      /\ "c_write" \notin PuttingPc /\ "c_write" \notin FlushPc /\ "c_write" \in CompactionPc
      /\ pc[t] \in CompactionPc /\ pc[t] \notin FlushPc /\ "c_write" \in MergedPc
      /\ "c_write" \notin InsertPc /\ "c_write" \notin ApplyPc /\ "c_write" \notin FlushingPc
      /\ pc[t] \notin FlushingPc /\ "c_write" \notin InCallPc /\ "c_write" \notin LoggedPc
  BY <1>2 DEF Pc, ReadPc, OwnerPc, PuttingPc, UnputPc, UnloggedPc, FlushPc, CompactionPc, InsertPc, ApplyPc,
              FlushingPc, InCallPc, LoggedPc, MergedPc
<1>4. PICK tables : tables = levels[n]
  OBVIOUS
<1>5. /\ tables \in Seq(Handles) /\ FilesOf(tables) \subseteq DOMAIN files
      /\ \A f \in FilesOf(tables) : \E i \in 1 .. Len(tables) : tables[i].file = f
  <2>1. InLevel(tables, n)
    BY <1>1, <1>4, LevelTables
  <2>. QED
    BY <2>1 DEF InLevel
<1>6. /\ r \in Rows /\ RowsGenuine(r)
      /\ ~Stale(tables) => \A i \in 1 .. Len(tables), k \in Key : RowsOf(tables[i])[k] <= r[k]
  <2>1. r = merge(tables)
    BY <1>4 DEF Takes
  <2>. QED
    BY <1>1, <1>5, <2>1, Merges
<1>7. PICK l : l = [loc[t] EXCEPT !.rows = r]
  OBVIOUS
<1>8. /\ l \in Loc /\ loc' = [loc EXCEPT ![t] = l]
      /\ l.rows = r /\ l.ticks = loc[t].ticks /\ l.after = loc[t].after
      /\ l.level = loc[t].level /\ l.bound = loc[t].bound
  <2>1. loc[t] \in Loc /\ loc \in [Thread -> Loc]
    BY <1>1 DEF Types, TLoc
  <2>. QED
    BY <1>2, <1>6, <1>7, <2>1 DEF Loc
<1>9. Others(t) /\ pc'[t] = "c_write" /\ loc'[t] = l /\ TPc(pc') /\ TLoc(loc')
  <2>1. PICK p \in Pc : p = "c_write"
    BY <1>3
  <2>2. pc' = [pc EXCEPT ![t] = p]
    BY <1>2, <2>1
  <2>. QED
    BY <1>1, <1>8, <2>1, <2>2, Moves, ZenonT(60)
<1>10. /\ TLevels(levels') /\ Len(levels') = m
       /\ \A i \in 1 .. Len(levels') : \A j \in 1 .. Len(levels'[i]) :
            i \in 1 .. Len(levels) /\ i # n /\ j \in 1 .. Len(levels[i]) /\ levels'[i][j] = levels[i][j]
  <2>1. PICK ls : ls = levels'
    OBVIOUS
  <2>2. ls = [i \in 1 .. m |-> IF i = n \/ i > Len(levels) THEN << >> ELSE levels[i]]
    BY <2>1, Zenon DEF Takes
  <2>3. m \in Nat /\ Len(levels) <= m
    BY <1>1, <1>2, LevelsLength
  <2>4. /\ TLevels(ls) /\ Len(ls) = m
        /\ \A i \in 1 .. Len(ls) : \A j \in 1 .. Len(ls[i]) :
             i \in 1 .. Len(levels) /\ i # n /\ j \in 1 .. Len(levels[i]) /\ ls[i][j] = levels[i][j]
    BY <1>1, <2>2, <2>3, EmptyLevel
  <2>. QED
    BY <2>1, <2>4
<1>11. files' = [f \in DOMAIN files \ gone |-> files[f]]
  BY DEF Takes
<1>12. DOMAIN files' = DOMAIN files \ gone /\ \A f \in DOMAIN files \ gone : files'[f] = files[f]
  BY <1>11
<1>13. Holds(t) /\ loc[t].after # "a_advance"
  <2>1. Holds(t)
    BY <1>1 DEF Held
  <2>. QED
    BY <1>3, <2>1 DEF Holds
<1>14. Advances(t, l, "c_write")
  <2>1. ~IsApplying(l, "c_write")
    BY <1>3, <1>8, <1>13 DEF IsApplying
  <2>. QED
    BY <1>2, <1>3, <1>8, <1>9, <2>1 DEF Advances, Locks
<1>15. Holds(t)'
  <2>1. loc[t].level \in Nat /\ loc[t].bound \in Nat /\ Len(levels) \in Nat
    BY <1>1, LocTypes, LevelsLength
  <2>2. compW = t /\ loc[t].bound <= Len(levels)
    BY <1>3, <1>13 DEF Holds
  <2>3. loc'[t].bound <= Len(levels') /\ loc'[t].level + 2 <= Len(levels') /\ compW' = t
    BY <1>2, <1>8, <1>9, <1>10, <2>1, <2>2
  <2>. QED
    BY <1>3, <1>8, <1>9, <1>13, <2>3 DEF Holds
<1>16. Types' /\ Genuine' /\ Held' /\ Batched' /\ Asking' /\ Named'
  <2>1. RowsGenuine(mem) /\ TicksGenuine(wal) /\ \A f \in DOMAIN files' : RowsGenuine(files'[f].rows)
    BY <1>1, <1>12 DEF Genuine
  <2>2. Reached(applied) /\ Reached(recorded)
    BY <1>1 DEF Batched
  <2>3. Len(levels) <= Len(levels')
    BY <1>1, <1>2, <1>10, LevelsLength
  <2>4. mem \in Rows /\ TTicks(wal) /\ TNext(nextFile) /\ TApplied(applied, recorded)
    BY <1>1 DEF Types
  <2>5. TFiles(files')
    BY <1>1, <1>12 DEF Types, TFiles
  <2>. QED
    BY <1>2, <1>6, <1>8, <1>10, <1>14, <1>15, <2>1, <2>2, <2>3, <2>4, <2>5, Routine
<1>17. Shelved'
  <2>1. pc'[t] \notin OwnerPc /\ nextFile' = nextFile
    BY <1>2, <1>3, <1>9
  <2>. QED
    BY <1>1, <1>2, <1>9, <1>10, <1>11, <2>1, TakeShelves
<1>18. ASSUME Careful' PROVE Orderly' /\ Kept'
  <2>1. Orderly /\ Kept /\ ~Stale(tables)
    BY <1>4, <1>18 DEF Steady, Safe, Takes
  <2>2. Orderly'
    BY <1>2, <1>3, <1>9, <2>1, OrderlyFrame
  <2>3. Promised' \subseteq Promised
    <3>1. acked \subseteq Promised
      BY DEF Promised
    <3>. QED
      BY <1>2, <1>3, <1>9, <3>1, PromisedFrame
  <2>4. /\ Promised \subseteq 1 .. Len(origin)
        /\ \A u \in Thread : Versions(loc[u].ticks) \subseteq 1 .. Len(origin)
    BY <1>1, PromisedWritten
  <2>5. \A u \in Thread : pc[u] \notin MergedPc
    <3>1. \A u \in Thread : pc[u] \in CompactionPc => compW = u
      BY <1>1 DEF Held, Holds
    <3>2. \A u \in Thread : pc[u] \in MergedPc => u = t
      BY <1>3, <3>1 DEF MergedPc, CompactionPc
    <3>. QED
      BY <1>2, <3>2 DEF MergedPc
  <2>6. ASSUME NEW v \in Promised, InTable(v) PROVE InTable(v)'
    <3>1. PICK g \in DOMAIN files : files[g].whole /\ Covers(files[g].rows, v)
      BY <2>5, <2>6 DEF InTable
    <3>2. CASE g \notin gone
      <4>1. g \in DOMAIN files' /\ files'[g].whole /\ Covers(files'[g].rows, v)
        BY <1>12, <3>1, <3>2
      <4>. QED
        BY <1>2, <4>1 DEF InTable, Covers, KeyOf
    <3>3. CASE g \in gone
      <4>1. PICK i \in 1 .. Len(tables) : tables[i].file = g
        BY <1>2, <1>4, <1>5, <3>3
      <4>2. v \in Nat /\ KeyOf(v) \in Key
        BY <1>1, <2>4, KeyWritten
      <4>3. files[g].rows[KeyOf(v)] <= r[KeyOf(v)]
        BY <1>6, <2>1, <4>1, <4>2 DEF RowsOf
      <4>4. files[g].rows[KeyOf(v)] \in Nat /\ r[KeyOf(v)] \in Nat
        <5>1. files[g].rows \in Rows
          BY <1>1, <3>1 DEF Types, TFiles, FileType
        <5>. QED
          BY <1>6, <4>2, <5>1, Blank DEF Rows, Version
      <4>5. Covers(r, v)
        BY <3>1, <4>2, <4>3, <4>4 DEF Covers
      <4>6. pc'[t] \in MergedPc /\ loc'[t].rows = r
        BY <1>3, <1>8, <1>9
      <4>. QED
        BY <1>2, <4>5, <4>6 DEF InTable, Covers, KeyOf
    <3>. QED
      BY <3>2, <3>3
  <2>7. Kept'
    BY <1>2, <1>3, <1>9, <2>1, <2>3, <2>4, <2>6, KeptFrame
  <2>. QED
    BY <2>2, <2>7
<1>19. Safe'
  BY <1>18 DEF Safe
<1>. QED
  BY <1>16, <1>17, <1>19 DEF Steady

(***************************************************************************)
(* The beginning of a write.                                               *)
(***************************************************************************)

\* The history has been given the ticks T, numbered upwards.
Grows(T) ==
    /\ T \in Seq(Tick) /\ Len(T) > 0
    /\ TOrigin(origin') /\ Len(origin') = Len(origin) + Len(T)
    /\ \A v \in 1 .. Len(origin) : origin'[v] = origin[v]
    /\ \A i \in 1 .. Len(T) : T[i].ver = Len(origin) + i /\ T[i].key = KeyOf(T[i].ver)'

(* A write begins with ticks that the history has not seen.                *)
LEMMA BeginsGrow ==
    ASSUME Types, NEW t \in Thread, NEW d, NEW pairs, Begins(t, d, pairs), NEW T, T = ticks_of(d, pairs)
    PROVE  /\ Grows(T) /\ Len(T) = Len(pairs) /\ Len(pairs) \in Nat
           /\ \A i \in 1 .. Len(pairs) :
                origin'[Len(origin) + i] = << pairs[i][1], pairs[i][2], get_id(d, pairs[i][1]) >>
<1>1. PICK O : O = origin'
  OBVIOUS
<1>2. /\ origin \in Seq(Entry) /\ IsDict(d) /\ pairs \in Seq(Written) /\ Len(pairs) > 0
      /\ SymbolsTo(pairs, Len(pairs)) \in SUBSET Known(d) /\ Len(origin) + Len(pairs) <= MaxTicks
  BY DEF Types, TOrigin, Begins
<1>3. O = origin \o Origins(d, pairs)
  BY <1>1 DEF Begins
<1>4. /\ Len(origin) \in Nat /\ Len(pairs) \in Nat
      /\ T \in Seq(Tick) /\ Len(T) = Len(pairs)
      /\ O \in Seq(Entry) /\ Len(O) = Len(origin) + Len(pairs)
      /\ \A v \in 1 .. Len(origin) : O[v] = origin[v]
      /\ \A i \in 1 .. Len(pairs) :
           /\ O[Len(origin) + i] = << pairs[i][1], pairs[i][2], get_id(d, pairs[i][1]) >>
           /\ T[i].ver = Len(origin) + i
           /\ T[i].key = << get_id(d, pairs[i][1]), pairs[i][2] >>
  <2>1. Numbers(d, pairs, T, O)
    BY <1>2, <1>3, Numbered, Zenon
  <2>. QED
    BY <2>1, Zenon DEF Numbers
<1>5. ASSUME NEW i \in 1 .. Len(T) PROVE T[i].key = KeyOf(T[i].ver)'
  <2>1. PICK e : e = O[Len(origin) + i]
    OBVIOUS
  <2>2. e = << pairs[i][1], pairs[i][2], get_id(d, pairs[i][1]) >> /\ T[i].ver = Len(origin) + i
    BY <1>4, <2>1
  <2>3. e[3] = get_id(d, pairs[i][1]) /\ e[2] = pairs[i][2]
    BY <2>2
  <2>4. KeyOf(T[i].ver)' = << e[3], e[2] >>
    BY <1>1, <2>1, <2>2 DEF KeyOf
  <2>. QED
    BY <1>4, <2>3, <2>4
<1>6. \A v \in 1 .. Len(origin) : origin'[v] = origin[v]
  BY <1>1, <1>4
<1>7. TOrigin(origin') /\ Len(origin') = Len(origin) + Len(T) /\ Len(T) > 0
  BY <1>1, <1>2, <1>4 DEF TOrigin
<1>8. \A i \in 1 .. Len(T) : T[i].ver = Len(origin) + i
  BY <1>4
<1>9. \A i \in 1 .. Len(pairs) :
        origin'[Len(origin) + i] = << pairs[i][1], pairs[i][2], get_id(d, pairs[i][1]) >>
  BY <1>1, <1>4
<1>10. Grows(T)
  BY <1>4, <1>5, <1>6, <1>7, <1>8 DEF Grows
<1>. QED
  BY <1>4, <1>9, <1>10

(* What the history says of earlier versions stays, and the versions of    *)
(* the new ticks are above them.                                           *)
LEMMA GrownHistory ==
    ASSUME Types, NEW T, Grows(T)
    PROVE  /\ Len(origin) \in Nat /\ Len(origin') \in Nat /\ Len(T) \in Nat
           /\ Len(origin) < Len(origin') /\ Len(origin') <= MaxTicks
           /\ \A v \in 1 .. Len(origin) : v \in 1 .. Len(origin') /\ KeyOf(v)' = KeyOf(v)
           /\ \A v \in Versions(T) : v \in 1 .. Len(origin') /\ v > Len(origin)
           /\ Versions(T) # {} /\ Rising(T)
           /\ TicksGenuine(T)'
<1>1. Len(origin) \in Nat /\ Len(origin') \in Nat /\ Len(T) \in Nat /\ Len(T) > 0
  BY DEF Types, TOrigin, Grows
<1>2. Len(origin') = Len(origin) + Len(T) /\ Len(origin') <= MaxTicks
  BY DEF Grows, TOrigin
<1>3. Len(origin) < Len(origin')
  BY <1>1, <1>2
<1>4. \A v \in 1 .. Len(origin) : v \in 1 .. Len(origin') /\ KeyOf(v)' = KeyOf(v)
  <2>1. \A v \in 1 .. Len(origin) : v \in 1 .. Len(origin')
    BY <1>1, <1>3
  <2>2. \A v \in 1 .. Len(origin) : origin'[v] = origin[v]
    BY DEF Grows
  <2>. QED
    BY <2>1, <2>2 DEF KeyOf
<1>5. \A i \in 1 .. Len(T) : /\ T[i].ver = Len(origin) + i
                             /\ T[i].ver \in 1 .. Len(origin') /\ T[i].ver > Len(origin)
  <2>1. \A i \in 1 .. Len(T) : T[i].ver = Len(origin) + i
    BY DEF Grows
  <2>2. \A i \in 1 .. Len(T) : Len(origin) + i \in 1 .. Len(origin') /\ Len(origin) + i > Len(origin)
    BY <1>1, <1>2
  <2>. QED
    BY <2>1, <2>2
<1>6. \A v \in Versions(T) : v \in 1 .. Len(origin') /\ v > Len(origin)
  BY <1>5 DEF Versions
<1>7. Versions(T) # {}
  <2>1. 1 \in 1 .. Len(T)
    BY <1>1
  <2>. QED
    BY <2>1 DEF Versions
<1>8. Rising(T)
  <2>1. \A i, j \in 1 .. Len(T) : i < j => Len(origin) + i < Len(origin) + j
    BY <1>1
  <2>. QED
    BY <1>5, <2>1 DEF Rising
<1>9. TicksGenuine(T)'
  <2>1. \A i \in 1 .. Len(T) : T[i].key = KeyOf(T[i].ver)'
    BY DEF Grows
  <2>. QED
    BY <1>5, <2>1 DEF TicksGenuine, KeyOf
<1>. QED
  BY <1>1, <1>2, <1>3, <1>4, <1>6, <1>7, <1>8, <1>9

(* Rows and ticks stay genuine when the history grows.                     *)
LEMMA GrownGenuine ==
    ASSUME Types, NEW T, Grows(T)
    PROVE  /\ \A R \in Rows : RowsGenuine(R) => RowsGenuine(R)'
           /\ \A s \in Seq(Tick) : TicksGenuine(s) => TicksGenuine(s)'
<1>1. /\ Len(origin) \in Nat /\ Len(origin') \in Nat /\ Len(origin) < Len(origin')
      /\ \A v \in 1 .. Len(origin) : v \in 1 .. Len(origin') /\ KeyOf(v)' = KeyOf(v)
  BY GrownHistory
<1>2. ASSUME NEW R \in Rows, RowsGenuine(R) PROVE RowsGenuine(R)'
  <2>1. SUFFICES ASSUME NEW k \in Key, R[k] # 0 PROVE R[k] <= Len(origin') /\ KeyOf(R[k])' = k
    BY DEF RowsGenuine, KeyOf
  <2>2. R[k] <= Len(origin) /\ KeyOf(R[k]) = k /\ R[k] \in Nat
    BY <1>2, <2>1, Blank DEF RowsGenuine, Rows, Version
  <2>3. R[k] \in 1 .. Len(origin)
    BY <1>1, <2>1, <2>2
  <2>. QED
    BY <1>1, <2>2, <2>3
<1>3. ASSUME NEW s \in Seq(Tick), TicksGenuine(s) PROVE TicksGenuine(s)'
  <2>1. \A i \in 1 .. Len(s) : s[i].ver \in 1 .. Len(origin') /\ s[i].key = KeyOf(s[i].ver)'
    BY <1>1, <1>3 DEF TicksGenuine
  <2>. QED
    BY <2>1 DEF TicksGenuine, KeyOf
<1>. QED
  BY <1>2, <1>3

\* The symbol and the id that version v was written with.
SymbolOf(v) == origin[v][1]
IdOf(v) == origin[v][3]

\* The dictionary has the name of an id that a version was written with, or none.
KnowsIds == \A v \in 1 .. Len(origin) : IdOf(v) + 1 <= Len(dict) => dict[IdOf(v) + 1] = SymbolOf(v)

(* A version of the longer history is an earlier one or a new one.         *)
LEMMA GrownEntries ==
    ASSUME Types, NEW t \in Thread, NEW d, NEW pairs, Begins(t, d, pairs), NEW v \in 1 .. Len(origin')
    PROVE  \/ v \in 1 .. Len(origin) /\ SymbolOf(v)' = SymbolOf(v) /\ IdOf(v)' = IdOf(v)
           \/ \E i \in 1 .. Len(pairs) :
                /\ SymbolOf(v)' = pairs[i][1] /\ IdOf(v)' = get_id(d, pairs[i][1])
                /\ pairs[i][1] \in Known(d)
<1>1. PICK T, n : T = ticks_of(d, pairs) /\ n = Len(pairs)
  OBVIOUS
<1>2. /\ Grows(T) /\ Len(T) = n /\ n \in Nat
      /\ \A i \in 1 .. n :
            origin'[Len(origin) + i] = << pairs[i][1], pairs[i][2], get_id(d, pairs[i][1]) >>
  BY <1>1, BeginsGrow
<1>3. Len(origin) \in Nat /\ Len(origin') = Len(origin) + n
  BY <1>2 DEF Types, TOrigin, Grows
<1>4. CASE v <= Len(origin)
  <2>1. v \in 1 .. Len(origin)
    BY <1>3, <1>4
  <2>2. origin'[v] = origin[v]
    BY <1>2, <2>1 DEF Grows
  <2>. QED
    BY <2>1, <2>2 DEF SymbolOf, IdOf
<1>5. CASE v > Len(origin)
  <2>1. PICK i : i = v - Len(origin)
    OBVIOUS
  <2>2. i \in 1 .. n /\ v = Len(origin) + i
    BY <1>2, <1>3, <1>5, <2>1
  <2>3. PICK e : e = origin'[v]
    OBVIOUS
  <2>4. e = << pairs[i][1], pairs[i][2], get_id(d, pairs[i][1]) >>
    BY <1>2, <2>2, <2>3
  <2>5. e[1] = pairs[i][1] /\ e[3] = get_id(d, pairs[i][1])
    BY <2>4
  <2>6. pairs[i][1] \in Known(d)
    BY <1>1, <2>2 DEF Begins, SymbolsTo
  <2>7. SymbolOf(v)' = pairs[i][1] /\ IdOf(v)' = get_id(d, pairs[i][1])
    BY <2>3, <2>5 DEF SymbolOf, IdOf
  <2>. QED
    BY <1>1, <2>2, <2>6, <2>7
<1>. QED
  BY <1>3, <1>4, <1>5

(* Ids stay with their symbols when a write is no hazard to them.          *)
LEMMA BeginsNamed ==
    ASSUME Types, NEW t \in Thread, NEW d, NEW pairs, Begins(t, d, pairs), ~Remaps(d, pairs)
    PROVE  /\ OneSymbolPerId => OneSymbolPerId'
           /\ KnowsIds => KnowsIds'
<1>1. /\ IsDict(d) /\ IsDict(dict) /\ dict' = d /\ Grown(dict, d, SymbolsTo(pairs, Len(pairs)))
  BY DEF Begins, Types
<1>2. Len(d) \in Nat /\ Len(dict) \in Nat
  BY <1>1, DictNames
<1>3. \A v \in 1 .. Len(origin), i \in 1 .. Len(pairs) :
        IdOf(v) = get_id(d, pairs[i][1]) => SymbolOf(v) = pairs[i][1]
  BY DEF Remaps, IdOf, SymbolOf
<1>4. \A s \in Known(d) : get_id(d, s) \in Nat /\ get_id(d, s) + 1 \in 1 .. Len(d) /\ d[get_id(d, s) + 1] = s
  BY <1>1, <1>2, IdOfName DEF Id
<1>5. ASSUME OneSymbolPerId, NEW v \in 1 .. Len(origin'), NEW w \in 1 .. Len(origin'), IdOf(v)' = IdOf(w)'
      PROVE  SymbolOf(v)' = SymbolOf(w)'
  <2>1. PICK sv, iv, sw, iw : sv = SymbolOf(v)' /\ iv = IdOf(v)' /\ sw = SymbolOf(w)' /\ iw = IdOf(w)'
    OBVIOUS
  <2>2. \/ v \in 1 .. Len(origin) /\ sv = SymbolOf(v) /\ iv = IdOf(v)
        \/ \E i \in 1 .. Len(pairs) : sv = pairs[i][1] /\ iv = get_id(d, sv) /\ sv \in Known(d)
    <3>1. \/ v \in 1 .. Len(origin) /\ SymbolOf(v)' = SymbolOf(v) /\ IdOf(v)' = IdOf(v)
          \/ \E i \in 1 .. Len(pairs) :
                /\ SymbolOf(v)' = pairs[i][1] /\ IdOf(v)' = get_id(d, pairs[i][1])
                /\ pairs[i][1] \in Known(d)
      BY GrownEntries
    <3>. QED
      BY <2>1, <3>1
  <2>3. \/ w \in 1 .. Len(origin) /\ sw = SymbolOf(w) /\ iw = IdOf(w)
        \/ \E i \in 1 .. Len(pairs) : sw = pairs[i][1] /\ iw = get_id(d, sw) /\ sw \in Known(d)
    <3>1. \/ w \in 1 .. Len(origin) /\ SymbolOf(w)' = SymbolOf(w) /\ IdOf(w)' = IdOf(w)
          \/ \E i \in 1 .. Len(pairs) :
                /\ SymbolOf(w)' = pairs[i][1] /\ IdOf(w)' = get_id(d, pairs[i][1])
                /\ pairs[i][1] \in Known(d)
      BY GrownEntries
    <3>. QED
      BY <2>1, <3>1
  <2>4. \A x, y \in 1 .. Len(origin) : IdOf(x) = IdOf(y) => SymbolOf(x) = SymbolOf(y)
    BY <1>5 DEF OneSymbolPerId, IdOf, SymbolOf
  <2>5. iv = iw
    BY <1>5, <2>1
  <2>. SUFFICES sv = sw
    BY <2>1
  <2>6. CASE v \in 1 .. Len(origin) /\ sv = SymbolOf(v) /\ iv = IdOf(v)
    <3>1. CASE w \in 1 .. Len(origin) /\ sw = SymbolOf(w) /\ iw = IdOf(w)
      BY <2>4, <2>5, <2>6, <3>1
    <3>2. CASE \E i \in 1 .. Len(pairs) : sw = pairs[i][1] /\ iw = get_id(d, sw) /\ sw \in Known(d)
      BY <1>3, <2>5, <2>6, <3>2
    <3>. QED
      BY <2>3, <3>1, <3>2
  <2>7. CASE \E i \in 1 .. Len(pairs) : sv = pairs[i][1] /\ iv = get_id(d, sv) /\ sv \in Known(d)
    <3>1. CASE w \in 1 .. Len(origin) /\ sw = SymbolOf(w) /\ iw = IdOf(w)
      BY <1>3, <2>5, <2>7, <3>1
    <3>2. CASE \E i \in 1 .. Len(pairs) : sw = pairs[i][1] /\ iw = get_id(d, sw) /\ sw \in Known(d)
      <4>1. d[iv + 1] = sv /\ d[iw + 1] = sw
        BY <1>4, <2>7, <3>2
      <4>. QED
        BY <2>5, <4>1
    <3>. QED
      BY <2>3, <3>1, <3>2
  <2>. QED
    BY <2>2, <2>6, <2>7
<1>6. OneSymbolPerId => OneSymbolPerId'
  BY <1>5 DEF OneSymbolPerId, IdOf, SymbolOf
<1>7. ASSUME KnowsIds, NEW v \in 1 .. Len(origin'), IdOf(v)' + 1 <= Len(d)
      PROVE  d[IdOf(v)' + 1] = SymbolOf(v)'
  <2>1. CASE v \in 1 .. Len(origin) /\ SymbolOf(v)' = SymbolOf(v) /\ IdOf(v)' = IdOf(v)
    <3>1. PICK i : i = IdOf(v)
      OBVIOUS
    <3>2. i \in Nat
      <4>1. origin[v] \in Entry
        BY <2>1 DEF Types, TOrigin
      <4>2. i \in Id
        BY <3>1, <4>1 DEF IdOf, Entry
      <4>3. Cardinality(Symbol) \in Nat
        BY <1>1, DictNames
      <4>. QED
        BY <4>2, <4>3 DEF Id
    <3>3. i + 1 \in 1 .. Len(d)
      BY <1>2, <1>7, <2>1, <3>1, <3>2
    <3>4. CASE i + 1 <= Len(dict)
      <4>1. i + 1 \in 1 .. Len(dict)
        BY <1>2, <3>2, <3>4
      <4>2. d[i + 1] = dict[i + 1]
        BY <1>1, <4>1 DEF Grown
      <4>. QED
        BY <1>7, <2>1, <3>1, <3>4, <4>2 DEF KnowsIds
    <3>5. CASE i + 1 > Len(dict)
      <4>1. d[i + 1] \in SymbolsTo(pairs, Len(pairs))
        BY <1>1, <3>3, <3>5 DEF Grown
      <4>2. PICK j \in 1 .. Len(pairs) : d[i + 1] = pairs[j][1]
        BY <4>1 DEF SymbolsTo
      <4>3. PICK s : s = pairs[j][1]
        OBVIOUS
      <4>4. s \in Known(d)
        BY <3>3, <4>2, <4>3 DEF Known
      <4>5. get_id(d, s) + 1 \in 1 .. Len(d) /\ d[get_id(d, s) + 1] = d[i + 1] /\ get_id(d, s) \in Nat
        BY <1>4, <4>2, <4>3, <4>4
      <4>6. get_id(d, s) + 1 = i + 1
        BY <1>1, <3>3, <4>5, NamesDiffer
      <4>7. get_id(d, s) = i
        BY <3>2, <4>5, <4>6
      <4>. QED
        BY <1>3, <2>1, <3>1, <4>2, <4>3, <4>7
    <3>. QED
      BY <1>2, <3>2, <3>4, <3>5
  <2>2. CASE \E i \in 1 .. Len(pairs) : /\ SymbolOf(v)' = pairs[i][1] /\ IdOf(v)' = get_id(d, pairs[i][1])
                                        /\ pairs[i][1] \in Known(d)
    BY <1>4, <2>2
  <2>. QED
    BY <2>1, <2>2, GrownEntries
<1>8. KnowsIds => KnowsIds'
  BY <1>1, <1>7 DEF KnowsIds, IdOf, SymbolOf
<1>. QED
  BY <1>6, <1>8

(* The promises stand while the history grows.                             *)
LEMMA GrownKept ==
    ASSUME Kept, Types, Genuine, NEW t \in Thread, Others(t), NEW T, Grows(T),
           UNCHANGED << status, mem, wal, files >>, Promised' \subseteq Promised,
           pc[t] = "idle", pc'[t] \in {"i_wal", "b_mem", "a_wal"}
    PROVE  Kept'
<1>1. \A v \in 1 .. Len(origin) : KeyOf(v)' = KeyOf(v)
  BY GrownHistory
<1>2. /\ Promised \subseteq 1 .. Len(origin)
      /\ \A u \in Thread : Versions(loc[u].ticks) \subseteq 1 .. Len(origin)
  BY PromisedWritten
<1>3. ASSUME NEW R, NEW v \in 1 .. Len(origin), Covers(R, v) PROVE R[KeyOf(v)'] >= v
  BY <1>1, <1>3 DEF Covers
<1>4. /\ pc[t] \notin MergedPc /\ pc[t] \notin FlushingPc /\ pc'[t] \notin MergedPc
      /\ pc'[t] \notin FlushingPc /\ pc'[t] \notin LoggedPc /\ pc'[t] # "b_wal"
  BY DEF MergedPc, FlushingPc, LoggedPc
<1>5. \A u \in Thread \ {t} : pc'[u] = pc[u] /\ loc'[u].ticks = loc[u].ticks /\ loc'[u].rows = loc[u].rows
  BY DEF Others, SameWork
<1>6. ASSUME NEW v \in 1 .. Len(origin), InTable(v) PROVE InTable(v)'
  <2>1. CASE \E f \in DOMAIN files : files[f].whole /\ Covers(files[f].rows, v)
    <3>1. PICK f \in DOMAIN files : files[f].whole /\ Covers(files[f].rows, v)
      BY <2>1
    <3>2. f \in DOMAIN files' /\ files'[f].whole /\ files'[f].rows[KeyOf(v)'] >= v
      BY <1>3, <3>1
    <3>. QED
      BY <3>2 DEF InTable, Covers, KeyOf
  <2>2. CASE \E u \in Thread : pc[u] \in MergedPc /\ Covers(loc[u].rows, v)
    <3>1. PICK u \in Thread : pc[u] \in MergedPc /\ Covers(loc[u].rows, v)
      BY <2>2
    <3>2. pc'[u] \in MergedPc /\ loc'[u].rows[KeyOf(v)'] >= v
      BY <1>3, <1>4, <1>5, <3>1
    <3>. QED
      BY <3>2 DEF InTable, Covers, KeyOf
  <2>. QED
    BY <1>6, <2>1, <2>2 DEF InTable
<1>7. ASSUME NEW v \in 1 .. Len(origin), Covers(mem, v) PROVE Covers(mem, v)'
  <2>1. mem'[KeyOf(v)'] >= v
    BY <1>3, <1>7
  <2>. QED
    BY <2>1 DEF Covers, KeyOf
<1>8. ASSUME NEW v \in Promised' PROVE Logs(v)'
  <2>1. v \in Promised /\ v \in 1 .. Len(origin)
    BY <1>2
  <2>2. Logs(v)
    BY <2>1 DEF Kept
  <2>. QED
    BY <1>6, <2>1, <2>2 DEF Logs, Versions
<1>9. ASSUME status' = "up", \A u \in Thread : pc'[u] \notin FlushingPc, NEW v \in Promised'
      PROVE  Serves(v)'
  <2>1. v \in Promised /\ v \in 1 .. Len(origin)
    BY <1>2
  <2>2. \A u \in Thread : pc[u] \notin FlushingPc
    BY <1>4, <1>5, <1>9
  <2>3. Serves(v)
    BY <1>9, <2>1, <2>2 DEF Kept
  <2>. QED
    BY <1>6, <1>7, <2>1, <2>3 DEF Serves
<1>10. ASSUME NEW u \in Thread, pc'[u] \in FlushingPc, NEW v \in Promised' PROVE Drained(u, v)'
  <2>1. v \in Promised /\ v \in 1 .. Len(origin) /\ u # t
    BY <1>2, <1>4, <1>10
  <2>2. pc'[u] = pc[u] /\ loc'[u].rows = loc[u].rows
    BY <1>5, <2>1
  <2>3. Drained(u, v)
    BY <1>10, <2>1, <2>2 DEF Kept
  <2>4. CASE InTable(v)
    BY <1>6, <2>1, <2>4 DEF Drained
  <2>5. CASE pc[u] \in {"f_write", "f_sync"} /\ Covers(loc[u].rows, v)
    <3>1. pc'[u] \in {"f_write", "f_sync"} /\ loc'[u].rows[KeyOf(v)'] >= v
      BY <1>3, <2>1, <2>2, <2>5
    <3>. QED
      BY <3>1 DEF Drained, Covers, KeyOf
  <2>. QED
    BY <2>3, <2>4, <2>5 DEF Drained
<1>11. ASSUME NEW u \in Thread, pc'[u] \in LoggedPc PROVE Versions(loc'[u].ticks) \subseteq Versions(wal')
  <2>1. pc'[u] = pc[u] /\ loc'[u].ticks = loc[u].ticks
    BY <1>4, <1>5, <1>11
  <2>. QED
    BY <1>11, <2>1 DEF Kept
<1>12. ASSUME NEW u \in Thread, pc'[u] = "b_wal", NEW v \in Versions(loc'[u].ticks) PROVE Covers(mem, v)'
  <2>1. pc'[u] = pc[u] /\ loc'[u].ticks = loc[u].ticks
    BY <1>4, <1>5, <1>12
  <2>2. v \in 1 .. Len(origin) /\ Covers(mem, v)
    BY <1>2, <1>12, <2>1 DEF Kept
  <2>. QED
    BY <1>7, <2>2
<1>13. (\A v \in Promised : Logs(v))'
  BY <1>8
<1>14. (status = "up" /\ (\A u \in Thread : pc[u] \notin FlushingPc) => \A v \in Promised : Serves(v))'
  BY <1>9
<1>15. (\A u \in Thread : pc[u] \in FlushingPc => \A v \in Promised : Drained(u, v))'
  BY <1>10
<1>16. (\A u \in Thread : pc[u] \in LoggedPc => Versions(loc[u].ticks) \subseteq Versions(wal))'
  BY <1>11 DEF Versions
<1>17. (\A u \in Thread : pc[u] = "b_wal" => \A v \in Versions(loc[u].ticks) : Covers(mem, v))'
  BY <1>12 DEF Versions
<1>. QED
  BY <1>13, <1>14, <1>15, <1>16, <1>17 DEF Kept

(* The tracker of a replica is at no batch that has only begun.            *)
LEMMA BeginsPromised ==
    ASSUME Types, Batched, NEW t \in Thread, Others(t), NEW T, Grows(T),
           replicated' \in {replicated, replicated \cup {Versions(T)}},
           UNCHANGED << applied, recorded, acked >>, pc'[t] \notin InCallPc
    PROVE  Promised' \subseteq Promised
<1>1. /\ Len(origin) \in Nat /\ Len(origin') \in Nat /\ Len(origin') <= MaxTicks
      /\ \A v \in Versions(T) : v \in 1 .. Len(origin') /\ v > Len(origin)
      /\ Versions(T) # {}
  BY GrownHistory
<1>2. ~Recorded(Versions(T))'
  <2>1. PICK m : m = Max(Versions(T))
    OBVIOUS
  <2>2. Versions(T) \in SUBSET (1 .. Len(origin'))
    BY <1>1
  <2>3. m \in Versions(T)
    BY <1>1, <2>1, <2>2, Extremes
  <2>4. m \in Nat /\ m > Len(origin) /\ m <= MaxTicks /\ MaxTicks \in Nat
    BY <1>1, <2>3, Blank
  <2>5. applied \in Nat /\ recorded \in Nat
    BY <2>4 DEF Types, TApplied, Cut
  <2>6. ASSUME NEW n \in Nat, Reached(n) PROVE m # n
    BY <1>1, <2>4, <2>6 DEF Reached, Cut
  <2>7. m # applied /\ m # recorded
    BY <2>5, <2>6 DEF Batched
  <2>. QED
    BY <2>1, <2>7 DEF Recorded
<1>3. ASSUME NEW v \in Promised' PROVE v \in Promised
  <2>1. CASE v \in acked'
    BY <2>1 DEF Promised
  <2>2. CASE \E u \in Thread : pc'[u] \in InCallPc /\ v \in Versions(loc'[u].ticks)
    <3>1. PICK u \in Thread : pc'[u] \in InCallPc /\ v \in Versions(loc'[u].ticks)
      BY <2>2
    <3>2. pc'[u] = pc[u] /\ loc'[u].ticks = loc[u].ticks
      BY <3>1 DEF Others, SameWork
    <3>. QED
      BY <3>1, <3>2 DEF Promised
  <2>3. CASE \E b \in replicated' : Recorded(b)' /\ v \in b
    <3>1. PICK b \in replicated' : Recorded(b)' /\ v \in b
      BY <2>3
    <3>2. b # Versions(T)
      BY <1>2, <3>1 DEF Recorded
    <3>3. b \in replicated /\ Recorded(b)
      BY <3>1, <3>2 DEF Recorded
    <3>. QED
      BY <3>1, <3>3 DEF Promised
  <2>. QED
    BY <2>1, <2>2, <2>3 DEF Promised, Versions
<1>. QED
  BY <1>3

(* A write begins while no other one is between log and memtable.          *)
LEMMA BeginsAlone ==
    ASSUME Types, Held, NEW t \in Thread, NEW d, NEW pairs, Begins(t, d, pairs), Careful'
    PROVE  \A u \in Thread : pc[u] \notin PuttingPc
<1>1. SUFFICES ASSUME NEW u \in Thread, pc[u] \in PuttingPc PROVE FALSE
  OBVIOUS
<1>2. Holds(u)
  BY DEF Held
<1>3. dictW = None
  BY DEF Begins
<1>4. pc[u] \notin InsertPc
  BY <1>2, <1>3, LsmAssumption DEF Holds
<1>5. pc[u] \in {"a_wal", "a_mem"} /\ pc[u] \in ApplyPc
  BY <1>1, <1>4 DEF PuttingPc, UnputPc, UnloggedPc, InsertPc, ApplyPc
<1>6. u \in Applying /\ u \in Writing
  BY <1>5 DEF Applying, Writing
<1>7. role = "Replica"
  BY <1>2, <1>5 DEF Holds
<1>. QED
  BY <1>6, <1>7 DEF Begins

(* A write is given its ticks: insert, insert_batch and                    *)
(* apply_replication_batch.                                                *)
LEMMA BeginsKeep ==
    ASSUME Steady, NEW t \in Thread, NEW d, NEW pairs, Begins(t, d, pairs)
    PROVE  Steady'
<1>1. Types /\ Genuine /\ Shelved /\ Held /\ Batched /\ Asking /\ Named
  BY DEF Steady
<1>2. PICK T : T = ticks_of(d, pairs)
  OBVIOUS
<1>3. Grows(T)
  BY <1>1, <1>2, BeginsGrow
<1>4. PICK p \in {"i_wal", "b_mem", "a_wal"} :
        /\ pc' = [pc EXCEPT ![t] = p]
        /\ p \in {"i_wal", "b_mem"} => dictW' = t /\ replicated' = replicated
        /\ p = "a_wal" => role = "Replica" /\ dictW' = dictW /\ replicated' = replicated \cup {Versions(T)}
  BY <1>2 DEF Begins, Goto
<1>5. /\ status = "up" /\ status' = "up" /\ pc[t] = "idle" /\ dictW = None
      /\ IsDict(d) /\ dict' = d /\ Grown(dict, d, SymbolsTo(pairs, Len(pairs)))
      /\ loc' = [loc EXCEPT ![t].ticks = T]
      /\ THazards(hazards')
      /\ UNCHANGED << work, role, opens, status, mem, wal, files, nextFile, levels, applied, recorded,
                      dictR, memW, compW, acked, crashes, ioErrors >>
  BY <1>2 DEF Begins
<1>6. /\ p \in Pc /\ p \notin ReadPc /\ p \notin OwnerPc /\ p \notin CompactionPc /\ p \notin FlushPc
      /\ p \in PuttingPc /\ p \notin FlushingPc /\ p \notin LoggedPc /\ p \notin InCallPc
      /\ p \in InsertPc => p \in {"i_wal", "b_mem"}
      /\ p \in ApplyPc => p = "a_wal"
      /\ p # "b_wal" /\ p # "b_len" /\ p # "idle" /\ pc[t] \notin OwnerPc
  BY <1>4, <1>5 DEF Pc, ReadPc, OwnerPc, PuttingPc, UnputPc, UnloggedPc, FlushPc, CompactionPc, InsertPc,
                    ApplyPc, FlushingPc, InCallPc, LoggedPc
<1>7. /\ Len(origin) \in Nat /\ Len(origin') \in Nat /\ Len(T) \in Nat
      /\ Len(origin) < Len(origin') /\ Len(origin') <= MaxTicks
      /\ \A v \in 1 .. Len(origin) : v \in 1 .. Len(origin') /\ KeyOf(v)' = KeyOf(v)
      /\ \A v \in Versions(T) : v \in 1 .. Len(origin') /\ v > Len(origin)
      /\ Versions(T) # {} /\ Rising(T)
      /\ TicksGenuine(T)'
  BY <1>1, <1>3, GrownHistory
<1>8. PICK l : l = [loc[t] EXCEPT !.ticks = T]
  OBVIOUS
<1>9. /\ l \in Loc /\ loc' = [loc EXCEPT ![t] = l] /\ l.ticks = T
      /\ l.rows = NoRows /\ l.after = "idle"
  <2>1. loc[t] \in Loc /\ loc \in [Thread -> Loc] /\ T \in Seq(Tick)
    BY <1>1, <1>3 DEF Types, TLoc, Grows
  <2>2. loc[t].rows = NoRows /\ loc[t].after = "idle"
    <3>1. loc[t] = NoLoc
      BY <1>1, <1>5 DEF Held, Holds
    <3>. QED
      BY <3>1, Blank
  <2>. QED
    BY <1>5, <1>8, <2>1, <2>2 DEF Loc
<1>10. Others(t) /\ pc'[t] = p /\ loc'[t] = l /\ TPc(pc') /\ TLoc(loc')
  BY <1>1, <1>4, <1>6, <1>9, Moves
<1>11. \A u \in Thread \ {t} : pc'[u] = pc[u] /\ loc'[u].ticks = loc[u].ticks /\ loc'[u].rows = loc[u].rows
  BY <1>10 DEF Others, SameWork
<1>12. Types'
  <2>1. TLocks(dictW', dictR', memW', compW')
    BY <1>1, <1>4, <1>5 DEF Types, TLocks
  <2>2. TOrigin(origin')
    BY <1>3 DEF Grows
  <2>3. TVersions(origin', acked', replicated')
    <3>1. acked \cup UNION replicated \subseteq 1 .. Len(origin)
      BY <1>1 DEF Types, TVersions
    <3>2. acked \cup UNION replicated \subseteq 1 .. Len(origin')
      BY <1>7, <3>1
    <3>3. replicated' = replicated \/ replicated' = replicated \cup {Versions(T)}
      BY <1>4
    <3>. QED
      BY <1>5, <1>7, <3>2, <3>3 DEF TVersions
  <2>4. TFixed(work, role, opens, status)' /\ TCounts(work, crashes, ioErrors)' /\ IsDict(dict')
    BY <1>1, <1>5 DEF Types, TFixed, TCounts
  <2>5. /\ mem' \in Rows /\ TTicks(wal') /\ TFiles(files') /\ TNext(nextFile') /\ TLevels(levels')
        /\ TApplied(applied', recorded')
    BY <1>1, <1>5 DEF Types
  <2>. QED
    BY <1>5, <1>10, <2>1, <2>2, <2>3, <2>4, <2>5 DEF Types
<1>13. Genuine'
  <2>1. /\ \A R \in Rows : RowsGenuine(R) => RowsGenuine(R)'
        /\ \A s \in Seq(Tick) : TicksGenuine(s) => TicksGenuine(s)'
    BY <1>1, <1>3, GrownGenuine
  <2>2. RowsGenuine(mem)' /\ TicksGenuine(wal)'
    <3>1. PICK m \in Rows, w \in Seq(Tick) : m = mem /\ w = wal
      BY <1>1 DEF Types, TTicks
    <3>2. RowsGenuine(m)' /\ TicksGenuine(w)'
      BY <1>1, <2>1, <3>1 DEF Genuine
    <3>3. m = mem' /\ w = wal'
      BY <1>5, <3>1
    <3>. QED
      BY <3>2, <3>3 DEF RowsGenuine, TicksGenuine, KeyOf
  <2>3. ASSUME NEW f \in DOMAIN files' PROVE RowsGenuine(files[f].rows)'
    <3>1. f \in DOMAIN files /\ files' = files
      BY <1>5
    <3>2. PICK R \in Rows : R = files[f].rows
      BY <1>1, <3>1 DEF Types, TFiles, FileType
    <3>3. RowsGenuine(R)'
      BY <1>1, <2>1, <3>1, <3>2 DEF Genuine
    <3>. QED
      BY <3>1, <3>2, <3>3 DEF RowsGenuine, KeyOf
  <2>4. ASSUME NEW u \in Thread PROVE RowsGenuine(loc[u].rows)' /\ TicksGenuine(loc[u].ticks)'
    <3>1. PICK R \in Rows, s \in Seq(Tick) : R = loc'[u].rows /\ s = loc'[u].ticks
      BY <1>10 DEF TLoc, Loc
    <3>2. RowsGenuine(R)' /\ TicksGenuine(s)'
      <4>1. CASE u = t
        <5>1. R = NoRows /\ s = T
          BY <1>9, <1>10, <3>1, <4>1
        <5>2. RowsGenuine(R)
          BY <5>1, BlankGenuine
        <5>. QED
          BY <1>7, <2>1, <5>1, <5>2
      <4>2. CASE u # t
        <5>1. R = loc[u].rows /\ s = loc[u].ticks
          BY <1>11, <3>1, <4>2
        <5>2. RowsGenuine(R) /\ TicksGenuine(s)
          BY <1>1, <5>1 DEF Genuine
        <5>. QED
          BY <2>1, <5>2
      <4>. QED
        BY <4>1, <4>2
    <3>. QED
      BY <3>1, <3>2 DEF RowsGenuine, TicksGenuine, KeyOf
  <2>5. (\A f \in DOMAIN files : RowsGenuine(files[f].rows))'
    BY <2>3
  <2>6. (\A u \in Thread : RowsGenuine(loc[u].rows) /\ TicksGenuine(loc[u].ticks))'
    BY <2>4
  <2>. QED
    BY <2>2, <2>5, <2>6 DEF Genuine
<1>14. Shelved'
  BY <1>1, <1>5, <1>6, <1>10, ShelvedFrame
<1>15. Held'
  <2>1. Holds(t)'
    BY <1>4, <1>5, <1>6, <1>9, <1>10 DEF Holds
  <2>2. Len(levels') \in Nat /\ Len(levels) <= Len(levels')
    BY <1>1, <1>5, LevelsLength
  <2>3. \A u \in Thread \ {t} : /\ compW = u => compW' = u
                                /\ dictW = u => dictW' = u
                                /\ memW = u => memW' = u
    BY <1>5, LsmAssumption
  <2>. QED
    BY <1>1, <1>5, <1>10, <2>1, <2>2, <2>3, HeldFrame
<1>16. Batched'
  <2>1. ASSUME NEW u \in Thread PROVE Rising(loc'[u].ticks)
    BY <1>1, <1>7, <1>9, <1>10, <1>11 DEF Batched
  <2>2. ASSUME NEW b \in replicated', NEW c \in replicated' PROVE b # {} /\ (b # c => b \cap c = {})
    <3>1. \A e \in replicated : e \subseteq 1 .. Len(origin)
      BY <1>1 DEF Types, TVersions
    <3>2. \A e \in replicated : e \cap Versions(T) = {}
      BY <1>7, <3>1
    <3>3. \A e, g \in replicated : e # {} /\ (e # g => e \cap g = {})
      BY <1>1 DEF Batched
    <3>4. b \in replicated \/ b = Versions(T)
      BY <1>4
    <3>5. c \in replicated \/ c = Versions(T)
      BY <1>4
    <3>. QED
      BY <1>7, <3>2, <3>3, <3>4, <3>5
  <2>3. ASSUME NEW u \in Thread, IsApplying(loc'[u], pc'[u]) PROVE Versions(loc'[u].ticks) \in replicated'
    <3>1. CASE u = t
      BY <1>4, <1>6, <1>9, <1>10, <2>3, <3>1 DEF IsApplying
    <3>2. CASE u # t
      <4>1. pc'[u] = pc[u] /\ loc'[u].ticks = loc[u].ticks /\ loc'[u].after = loc[u].after
        BY <1>10, <3>2 DEF Others, SameWork
      <4>2. Versions(loc[u].ticks) \in replicated
        BY <1>1, <2>3, <4>1 DEF Batched, IsApplying
      <4>. QED
        BY <1>4, <4>1, <4>2
    <3>. QED
      BY <3>1, <3>2
  <2>4. (Reached(applied) /\ Reached(recorded))'
    <3>1. applied \in Nat /\ recorded \in Nat
      BY <1>1, Blank DEF Types, TApplied, Cut
    <3>2. Reached(applied) /\ Reached(recorded)
      BY <1>1 DEF Batched
    <3>. QED
      BY <1>5, <1>7, <3>1, <3>2 DEF Reached
  <2>. QED
    BY <2>1, <2>2, <2>3, <2>4 DEF Batched, Rising, Versions, IsApplying
<1>17. Asking'
  <2>1. ASSUME NEW u \in Thread PROVE Asked(loc[u], pc[u])'
    <3>1. CASE u = t
      BY <1>6, <1>10, <3>1 DEF Asked
    <3>2. CASE u # t
      <4>1. /\ pc'[u] = pc[u] /\ loc'[u].key = loc[u].key /\ loc'[u].pair = loc[u].pair
            /\ loc'[u].found = loc[u].found
        BY <1>10, <3>2 DEF Others
      <4>2. SUFFICES ASSUME pc[u] \in ReadPc PROVE Asked(loc[u], pc[u])'
        BY <4>1 DEF Asked
      <4>3. PICK k, q, f : k = loc[u].key /\ q = loc[u].pair /\ f = loc[u].found
        OBVIOUS
      <4>4. /\ k \in Key /\ k[1] + 1 <= Len(dict) /\ q = << dict[k[1] + 1], k[2] >>
            /\ pc[u] = "s_tables" /\ f # 0 => f <= Len(origin) /\ KeyOf(f) = k
        BY <1>1, <4>2, <4>3 DEF Asking, Asked
      <4>5. k[1] + 1 \in 1 .. Len(dict) /\ Len(dict) \in Nat /\ Len(d) \in Nat /\ Len(dict) <= Len(d)
        <5>1. Len(dict) \in Nat /\ Len(d) \in Nat /\ Cardinality(Symbol) \in Nat
          BY <1>1, <1>5, DictNames DEF Types
        <5>2. k[1] \in Nat
          BY <4>4, <5>1, KeyParts DEF Id
        <5>. QED
          BY <1>5, <4>4, <5>1, <5>2 DEF Grown
      <4>6. k[1] + 1 <= Len(d) /\ d[k[1] + 1] = dict[k[1] + 1]
        BY <1>5, <4>5 DEF Grown
      <4>7. f \in Nat
        BY <1>1, <4>3, LocTypes, Blank DEF Version
      <4>8. pc[u] = "s_tables" /\ f # 0 => f <= Len(origin') /\ KeyOf(f)' = k
        <5>1. f # 0 /\ f <= Len(origin) => f \in 1 .. Len(origin)
          BY <1>7, <4>7
        <5>2. f <= Len(origin) => f <= Len(origin')
          BY <1>7, <4>7
        <5>. QED
          BY <1>7, <4>4, <5>1, <5>2
      <4>. QED
        BY <1>5, <4>1, <4>3, <4>4, <4>6, <4>8 DEF Asked, KeyOf
    <3>. QED
      BY <3>1, <3>2
  <2>. QED
    BY <2>1 DEF Asking
<1>18. Named'
  <2>1. SUFFICES ASSUME "remapped" \notin hazards' PROVE KnowsIds'
    BY DEF Named, KnowsIds, IdOf, SymbolOf
  <2>2. ~Remaps(d, pairs) /\ "remapped" \notin hazards
    BY <2>1 DEF Begins
  <2>3. KnowsIds
    BY <1>1, <2>2 DEF Named, KnowsIds, IdOf, SymbolOf
  <2>. QED
    BY <1>1, <2>2, <2>3, BeginsNamed
<1>19. ASSUME Careful' PROVE Orderly' /\ Kept'
  <2>1. Orderly /\ Kept /\ ~Remaps(d, pairs)
    BY <1>19 DEF Begins, Steady, Safe
  <2>2. OneSymbolPerId'
    BY <1>1, <2>1, BeginsNamed DEF Orderly
  <2>3. OneAtATime'
    <3>1. \A u \in Thread : pc[u] \notin PuttingPc
      BY <1>1, <1>19, BeginsAlone
    <3>. QED
      BY <1>6, <1>10, <2>1, <3>1, OneAtATimeFrame DEF Orderly
  <2>4. InOrder(wal)'
    BY <1>5, <2>1 DEF Orderly, InOrder
  <2>5. AboveRows(T, mem) /\ AboveTicks(T, wal)
    <3>1. ASSUME NEW i \in 1 .. Len(T) PROVE T[i].ver \in Nat /\ T[i].ver > Len(origin)
      <4>1. T[i].ver = Len(origin) + i
        BY <1>3 DEF Grows
      <4>. QED
        BY <1>7, <4>1
    <3>2. \A k \in Key : mem[k] \in Nat /\ mem[k] <= Len(origin)
      BY <1>1, <1>7, Blank DEF Types, Genuine, RowsGenuine, Rows, Version
    <3>3. \A j \in 1 .. Len(wal) : wal[j].ver \in 1 .. Len(origin)
      BY <1>1 DEF Genuine, TicksGenuine
    <3>4. AboveRows(T, mem)
      BY <1>7, <3>1, <3>2 DEF AboveRows
    <3>5. AboveTicks(T, wal)
      BY <1>7, <3>1, <3>3 DEF AboveTicks
    <3>. QED
      BY <3>4, <3>5
  <2>6. Newer'
    <3>1. Newer
      BY <2>1 DEF Orderly
    <3>2. \A u \in Thread \ {t} : /\ pc[u] \in UnputPc => AboveRows(loc[u].ticks, mem')
                                  /\ pc[u] \in UnloggedPc => AboveTicks(loc[u].ticks, wal')
      BY <1>5, <3>1 DEF Newer
    <3>3. AboveRows(loc'[t].ticks, mem') /\ AboveTicks(loc'[t].ticks, wal')
      BY <1>5, <1>9, <1>10, <2>5
    <3>. QED
      BY <1>10, <3>1, <3>2, <3>3, NewerFrame
  <2>7. Orderly'
    BY <2>2, <2>3, <2>4, <2>6 DEF Orderly
  <2>8. Promised' \subseteq Promised
    <3>1. replicated' \in {replicated, replicated \cup {Versions(T)}}
      BY <1>4
    <3>. QED
      BY <1>1, <1>3, <1>5, <1>6, <1>10, <3>1, BeginsPromised
  <2>9. Kept'
    BY <1>1, <1>3, <1>4, <1>5, <1>10, <2>1, <2>8, GrownKept
  <2>. QED
    BY <2>7, <2>9
<1>20. Safe'
  BY <1>19 DEF Safe
<1>. QED
  BY <1>12, <1>13, <1>14, <1>15, <1>16, <1>17, <1>18, <1>20 DEF Steady

(***************************************************************************)
(* Crash and restart.                                                      *)
(***************************************************************************)

\* No call is under way.
AllIdle == \A t \in Thread : pc[t] = "idle" /\ loc[t] = NoLoc

(* What holds of calls that are not under way.                             *)
LEMMA IdleHolds ==
    ASSUME AllIdle
    PROVE  /\ \A t \in Thread : Owns(t) /\ Holds(t)
           /\ \A t, u \in Thread : pc[t] \in OwnerPc /\ pc[u] \in OwnerPc /\ loc[t].file = loc[u].file => t = u
           /\ \A t \in Thread : Rising(loc[t].ticks) /\ ~IsApplying(loc[t], pc[t])
           /\ \A t \in Thread : RowsGenuine(loc[t].rows) /\ TicksGenuine(loc[t].ticks)
           /\ Asking /\ OneAtATime /\ Newer
           /\ \A t \in Thread : /\ pc[t] \notin FlushingPc /\ pc[t] \notin LoggedPc /\ pc[t] # "b_wal"
                                /\ pc[t] \notin InCallPc /\ pc[t] \notin MergedPc
<1>1. \A t \in Thread : pc[t] = "idle" /\ loc[t] = NoLoc
  BY DEF AllIdle
<1>2. \A t \in Thread : Owns(t) /\ Holds(t)
  BY <1>1, Blank DEF Owns, Holds, OwnerPc, CompactionPc, InsertPc, ApplyPc
<1>3. \A t, u \in Thread : pc[t] \in OwnerPc /\ pc[u] \in OwnerPc /\ loc[t].file = loc[u].file => t = u
  BY <1>1 DEF OwnerPc
<1>4. \A t \in Thread : Rising(loc[t].ticks) /\ ~IsApplying(loc[t], pc[t])
  BY <1>1, Blank, BlankGenuine DEF IsApplying, ApplyPc
<1>5. \A t \in Thread : RowsGenuine(loc[t].rows) /\ TicksGenuine(loc[t].ticks)
  BY <1>1, BlankGenuine
<1>6. Asking
  BY <1>1 DEF Asking, Asked, ReadPc
<1>7. OneAtATime /\ Newer
  BY <1>1 DEF OneAtATime, Newer, PuttingPc, UnputPc, UnloggedPc, FlushingPc, LoggedPc
<1>8. \A t \in Thread : /\ pc[t] \notin FlushingPc /\ pc[t] \notin LoggedPc /\ pc[t] # "b_wal"
                        /\ pc[t] \notin InCallPc /\ pc[t] \notin MergedPc
  BY <1>1 DEF FlushingPc, LoggedPc, InCallPc, FlushPc, MergedPc
<1>. QED
  BY <1>2, <1>3, <1>4, <1>5, <1>6, <1>7, <1>8

(* What a crash leaves of the log: the log, and the first ticks of a call. *)
LEMMA CrashLog ==
    ASSUME Types, Genuine, Batched, NEW w \in WalAfterCrash
    PROVE  /\ TTicks(w) /\ TicksGenuine(w) /\ Versions(wal) \subseteq Versions(w)
           /\ InOrder(wal) /\ Newer => InOrder(w)
<1>1. CASE w = wal
  BY <1>1 DEF Types, Genuine
<1>2. CASE w # wal
  <2>1. PICK t \in Thread : /\ pc[t] \in {"i_wal", "b_wal", "a_wal"}
                            /\ \E n \in 1 .. Len(loc[t].ticks) : w = wal \o SubSeq(loc[t].ticks, 1, n)
    BY <1>2, Zenon DEF WalAfterCrash
  <2>2. PICK n \in 1 .. Len(loc[t].ticks) : w = wal \o SubSeq(loc[t].ticks, 1, n)
    BY <2>1
  <2>3. PICK s : s = SubSeq(loc[t].ticks, 1, n)
    OBVIOUS
  <2>4. n \in 0 .. Len(loc[t].ticks)
    OBVIOUS
  <2>5. /\ s \in Seq(Tick) /\ Len(s) <= Len(loc[t].ticks)
        /\ \A i \in 1 .. Len(s) : s[i] = loc[t].ticks[i]
    BY <2>3, <2>4, Prefix
  <2>6. w = wal \o s
    BY <2>2, <2>3
  <2>7. /\ TTicks(w) /\ TicksGenuine(w) /\ Versions(w) = Versions(wal) \cup Versions(s)
        /\ InOrder(wal) /\ AboveTicks(loc[t].ticks, wal) => InOrder(w)
    BY <2>5, <2>6, Appended
  <2>8. Newer => AboveTicks(loc[t].ticks, wal)
    BY <2>1 DEF Newer, UnloggedPc
  <2>. QED
    BY <2>7, <2>8
<1>. QED
  BY <1>1, <1>2

(* The numbers of batches are versions, so that no batch has the number 0  *)
(* or the mark of a record cut short.                                      *)
LEMMA BatchNumbers ==
    ASSUME Types, Batched, NEW b \in replicated
    PROVE  Max(b) # 0 /\ Max(b) # Cut
<1>1. Len(origin) \in Nat /\ Len(origin) <= MaxTicks /\ b \in SUBSET (1 .. Len(origin)) /\ b # {}
  BY DEF Types, TOrigin, TVersions, Batched
<1>2. Max(b) \in 1 .. Len(origin)
  BY <1>1, Extremes
<1>. QED
  BY <1>1, <1>2, Blank DEF Cut

(* The dictionary of an engine that has just been started.                 *)
LEMMA EmptyDict == IsDict(<< >>)
<1>1. PICK d : d = << >>
  OBVIOUS
<1>2. d \in Seq(Symbol) /\ Len(d) = 0 /\ DOMAIN d = {}
  BY <1>1
<1>3. { d[i] : i \in DOMAIN d } = {}
  BY <1>2
<1>. QED
  BY <1>1, <1>2, <1>3, FS_EmptySet DEF IsDict

(* A crash.                                                                *)
LEMMA CrashKeeps ==
    ASSUME Steady, crash
    PROVE  Steady'
<1>1. Types /\ Genuine /\ Shelved /\ Held /\ Batched /\ Asking /\ Named
  BY DEF Steady
<1>2. /\ status = "up" /\ status' \in {"down", "failed"}
      /\ Len(crashes) < MaxCrashes /\ crashes' = Append(crashes, Len(origin))
      /\ recorded' \in {recorded, Cut} /\ wal' \in WalAfterCrash
      /\ dict' = << >> /\ mem' = NoRows /\ levels' = << << >> >> /\ applied' = 0
      /\ dictW' = None /\ dictR' = {} /\ memW' = None /\ compW' = None
      /\ UNCHANGED << work, role, opens, nextFile, origin, acked, replicated, ioErrors >>
  BY DEF crash, Up, When
<1>3. pc' = [t \in Thread |-> "idle"] /\ loc' = [t \in Thread |-> NoLoc]
  BY DEF crash
<1>4. PICK gone \in SUBSET Removable :
        /\ files' = [f \in DOMAIN files \ gone |-> files[f]]
        /\ Note(When(gone # {} \/ \E t \in Thread : pc[t] \in {"c_write", "c_sync"}, "torn"))
  BY DEF crash
<1>5. /\ THazards(hazards') /\ (Careful' => Careful)
      /\ Careful' => gone = {} /\ \A t \in Thread : pc[t] \notin MergedPc
  <2>1. PICK hs : hs = When(gone # {} \/ \E t \in Thread : pc[t] \in {"c_write", "c_sync"}, "torn")
    OBVIOUS
  <2>2. hs \in SUBSET HazardNames
    BY <2>1 DEF When, HazardNames
  <2>3. /\ THazards(hazards')
        /\ Careful' => Careful /\ hs \cap Lossy = {}
    BY <1>1, <1>4, <2>1, <2>2, Notes DEF Types
  <2>4. hs \cap Lossy = {} => ~(gone # {} \/ \E t \in Thread : pc[t] \in {"c_write", "c_sync"})
    BY <2>1 DEF When, Lossy
  <2>. QED
    BY <2>3, <2>4 DEF MergedPc
<1>6. /\ AllIdle' /\ TPc(pc') /\ TLoc(loc')
  BY <1>3, Blank DEF AllIdle, TPc, TLoc, Pc
<1>7. /\ (\A t \in Thread : Owns(t) /\ Holds(t))'
      /\ (\A t, u \in Thread : pc[t] \in OwnerPc /\ pc[u] \in OwnerPc /\ loc[t].file = loc[u].file => t = u)'
      /\ (\A t \in Thread : Rising(loc[t].ticks) /\ ~IsApplying(loc[t], pc[t]))'
      /\ (\A t \in Thread : RowsGenuine(loc[t].rows) /\ TicksGenuine(loc[t].ticks))'
      /\ Asking' /\ OneAtATime' /\ Newer'
      /\ (\A t \in Thread : /\ pc[t] \notin FlushingPc /\ pc[t] \notin LoggedPc /\ pc[t] # "b_wal"
                            /\ pc[t] \notin InCallPc /\ pc[t] \notin MergedPc)'
  BY <1>6, IdleHolds, PTL
<1>8. /\ TTicks(wal') /\ TicksGenuine(wal') /\ Versions(wal) \subseteq Versions(wal')
      /\ InOrder(wal) /\ Newer => InOrder(wal')
  BY <1>1, <1>2, CrashLog
<1>9. /\ DOMAIN files' \subseteq DOMAIN files
      /\ \A f \in DOMAIN files' : files'[f] = files[f]
  BY <1>4
<1>10. Len(levels') = 1 /\ levels'[1] = << >> /\ TLevels(levels')
  BY <1>2 DEF TLevels
<1>11. Types'
  <2>1. TFixed(work, role, opens, status)' /\ TCounts(work, crashes, ioErrors)'
    <3>1. crashes \in Seq(0 .. MaxTicks) /\ Len(origin) \in 0 .. MaxTicks /\ MaxCrashes \in Nat
      BY <1>1, Blank, LsmAssumption DEF Types, TCounts, TCrashes, TOrigin
    <3>2. TCrashes(crashes')
      BY <1>2, <3>1 DEF TCrashes
    <3>. QED
      BY <1>1, <1>2, <3>2 DEF Types, TFixed, TCounts
  <2>2. IsDict(dict')
    BY <1>2, EmptyDict
  <2>3. TFiles(files')
    BY <1>1, <1>9 DEF Types, TFiles
  <2>4. TApplied(applied', recorded')
    BY <1>1, <1>2, Blank DEF Types, TApplied
  <2>5. TLocks(dictW', dictR', memW', compW')
    BY <1>2 DEF TLocks
  <2>. QED
    BY <1>1, <1>2, <1>5, <1>6, <1>8, <1>10, <2>1, <2>2, <2>3, <2>4, <2>5, Blank DEF Types
<1>12. Genuine'
  <2>1. RowsGenuine(mem)'
    BY <1>2, Blank DEF RowsGenuine
  <2>2. TicksGenuine(wal)'
    BY <1>2, <1>8 DEF TicksGenuine, KeyOf
  <2>3. (\A f \in DOMAIN files : RowsGenuine(files[f].rows))'
    BY <1>1, <1>2, <1>9 DEF Genuine, RowsGenuine, KeyOf
  <2>. QED
    BY <1>7, <2>1, <2>2, <2>3 DEF Genuine
<1>13. Shelved'
  <2>1. (\A f \in DOMAIN files : f < nextFile)'
    BY <1>1, <1>2, <1>9 DEF Shelved
  <2>2. (\A i \in 1 .. Len(levels) : \A j \in 1 .. Len(levels[i]) : OnShelf(levels[i][j].file, i))'
    <3>1. \A i \in 1 .. Len(levels') : levels'[i] = << >>
      BY <1>10
    <3>. QED
      BY <3>1
  <2>. QED
    BY <1>7, <2>1, <2>2 DEF Shelved
<1>14. Held'
  BY <1>6, <1>7 DEF Held, AllIdle
<1>15. Batched'
  <2>1. (Reached(applied) /\ Reached(recorded))'
    BY <1>1, <1>2 DEF Types, TOrigin, Batched, Reached
  <2>2. (\A b, c \in replicated : b # {} /\ (b # c => b \cap c = {}))'
    BY <1>1, <1>2 DEF Batched
  <2>. QED
    BY <1>7, <2>1, <2>2 DEF Batched
<1>16. Named'
  <2>1. Len(dict') = 0 /\ Cardinality(Symbol) \in Nat
    BY <1>2, LsmAssumption, FS_CardinalityType
  <2>2. ASSUME NEW v \in 1 .. Len(origin') PROVE ~(origin'[v][3] + 1 <= Len(dict'))
    <3>1. origin'[v][3] \in Nat
      BY <1>1, <1>2, <2>1, <2>2 DEF Types, TOrigin, Entry, Id
    <3>. QED
      BY <2>1, <3>1
  <2>. QED
    BY <2>2 DEF Named
<1>17. ASSUME Careful' PROVE Orderly' /\ Kept'
  <2>1. Orderly /\ Kept /\ gone = {} /\ \A t \in Thread : pc[t] \notin MergedPc
    BY <1>5, <1>17 DEF Steady, Safe
  <2>2. Orderly'
    <3>1. OneSymbolPerId'
      BY <1>2, <2>1 DEF Orderly, OneSymbolPerId
    <3>2. InOrder(wal)'
      BY <1>8, <2>1 DEF Orderly, InOrder
    <3>. QED
      BY <1>7, <3>1, <3>2 DEF Orderly
  <2>3. Promised' \subseteq Promised
    <3>1. \A b \in replicated : Recorded(b)' => Recorded(b)
      BY <1>1, <1>2, BatchNumbers DEF Recorded
    <3>. QED
      BY <1>2, <1>7, <3>1 DEF Promised
  <2>4. DOMAIN files' = DOMAIN files
    BY <1>4, <2>1
  <2>5. ASSUME NEW v, InTable(v) PROVE InTable(v)'
    BY <1>2, <1>9, <2>1, <2>4, <2>5 DEF InTable, Covers, KeyOf
  <2>6. ASSUME NEW v \in Promised' PROVE Logs(v)'
    <3>1. Logs(v)
      BY <2>1, <2>3 DEF Kept
    <3>. QED
      BY <1>8, <2>5, <3>1 DEF Logs, Versions
  <2>7. Kept'
    BY <1>2, <1>7, <2>6 DEF Kept
  <2>. QED
    BY <2>2, <2>7
<1>18. Safe'
  BY <1>17 DEF Safe
<1>. QED
  BY <1>7, <1>11, <1>12, <1>13, <1>14, <1>15, <1>16, <1>18 DEF Steady

(* The level of the files that are there has a bound.                      *)
LEMMA LevelsBounded ==
    ASSUME Types
    PROVE  \E n \in Nat : \A f \in DOMAIN files : files[f].level <= n
<1>. DEFINE S == { m \in Nat : \E n \in Nat : \A f \in DOMAIN files : f <= m => files[f].level <= n }
<1>1. \A f \in DOMAIN files : f \in 1 .. MaxFiles /\ files[f].level \in Nat
  BY DEF Types, TFiles, FileType
<1>2. MaxFiles \in Nat
  BY LsmAssumption
<1>3. 0 \in S
  <2>1. \A f \in DOMAIN files : ~(f <= 0)
    BY <1>1, <1>2
  <2>. QED
    BY <2>1
<1>4. ASSUME NEW m \in Nat, m \in S PROVE m + 1 \in S
  <2>1. PICK n \in Nat : \A f \in DOMAIN files : f <= m => files[f].level <= n
    BY <1>4
  <2>2. PICK k \in Nat : k = (IF m + 1 \in DOMAIN files THEN files[m + 1].level ELSE 0)
    BY <1>1
  <2>3. \A f \in DOMAIN files : f <= m + 1 => files[f].level <= n + k
    <3>1. SUFFICES ASSUME NEW f \in DOMAIN files, f <= m + 1 PROVE files[f].level <= n + k
      OBVIOUS
    <3>2. f \in Nat /\ files[f].level \in Nat
      BY <1>1, <1>2
    <3>3. CASE f <= m
      BY <2>1, <2>2, <3>2, <3>3
    <3>4. CASE f = m + 1
      BY <2>2, <3>2, <3>4
    <3>. QED
      BY <3>1, <3>2, <3>3, <3>4
  <2>4. n + k \in Nat /\ m + 1 \in Nat
    OBVIOUS
  <2>. QED
    BY <2>3, <2>4
<1>5. MaxFiles \in S
  <2>1. \A m \in Nat : m \in S
    <3>. HIDE DEF S
    <3>. QED
      BY <1>3, <1>4, SetInduction
  <2>. QED
    BY <1>2, <2>1
<1>6. PICK n \in Nat : \A f \in DOMAIN files : f <= MaxFiles => files[f].level <= n
  BY <1>5
<1>. QED
  BY <1>1, <1>2, <1>6

(* The number of levels that load_sstables makes.                          *)
LEMMA TopLevel ==
    ASSUME Types
    PROVE  Max({0} \cup { files[f].level : f \in DOMAIN files }) \in Nat
<1>1. PICK L : L = {0} \cup { files[f].level : f \in DOMAIN files }
  OBVIOUS
<1>2. PICK n \in Nat : \A f \in DOMAIN files : files[f].level <= n
  BY LevelsBounded
<1>3. \A f \in DOMAIN files : files[f].level \in Nat
  BY DEF Types, TFiles, FileType
<1>4. L \subseteq 0 .. n /\ 0 \in L
  BY <1>1, <1>2, <1>3
<1>5. PICK T : T = { x + 1 : x \in L }
  OBVIOUS
<1>6. T \in SUBSET (1 .. n + 1) /\ 1 \in T /\ n + 1 \in Nat
  BY <1>4, <1>5
<1>7. PICK i \in T : \A k \in T : k <= i
  BY <1>6, LastPosition
<1>8. PICK x \in L : i = x + 1
  BY <1>5
<1>9. \A y \in L : x >= y
  BY <1>4, <1>5, <1>7, <1>8
<1>10. Max(L) \in L
  BY <1>9 DEF Max
<1>. QED
  BY <1>1, <1>4, <1>10

(* The levels that load_sstables makes have the files of their level.      *)
LEMMA LoadedShelves ==
    ASSUME Types, \A f \in DOMAIN files : files[f].whole,
           NEW order \in SetToSeqs(DOMAIN files), NEW ls, ls = Loaded(order)
    PROVE  /\ TLevels(ls)
           /\ \A i \in 1 .. Len(ls) : \A j \in 1 .. Len(ls[i]) : OnShelf(ls[i][j].file, i)
<1>1. PICK top \in Nat : top = Max({0} \cup { files[f].level : f \in DOMAIN files })
  BY TopLevel
<1>2. DOMAIN files \in SUBSET (1 .. MaxFiles) /\ MaxFiles \in Nat
  BY LsmAssumption DEF Types, TFiles
<1>3. PICK n : n = Cardinality(DOMAIN files)
  OBVIOUS
<1>4. n \in Nat
  <2>1. IsFiniteSet(DOMAIN files)
    BY <1>2, CountTo, FS_Subset
  <2>. QED
    BY <1>3, <2>1, FS_CardinalityType
<1>5. order \in [1 .. n -> DOMAIN files]
  BY <1>3 DEF SetToSeqs
<1>6. Len(order) = n
  BY <1>4, <1>5
<1>7. ASSUME NEW i \in 1 .. top + 1
      PROVE  /\ ls[i] \in Seq(Handles)
             /\ \A j \in 1 .. Len(ls[i]) : OnShelf(ls[i][j].file, i)
  <2>1. PICK mine : mine = AtLevel(order, i)
    OBVIOUS
  <2>2. mine \in SUBSET Int /\ IsFiniteSet(mine)
    <3>1. mine \in SUBSET (1 .. n)
      BY <1>6, <2>1 DEF AtLevel
    <3>2. \A x \in 1 .. n : x \in Int
      BY <1>4
    <3>. QED
      BY <1>4, <3>1, <3>2, CountTo, FS_Subset
  <2>3. PICK c : c = Cardinality(mine)
    OBVIOUS
  <2>4. c \in Nat /\ \A j \in 1 .. c : \E p \in mine : Rank(mine, p) = j
    BY <2>2, <2>3, Ranks
  <2>5. ls[i] = [j \in 1 .. c |-> LoadedHandle(order[Nth(mine, j)])]
    BY <1>1, <2>1, <2>3 DEF Loaded
  <2>6. ASSUME NEW j \in 1 .. c
        PROVE  ls[i][j] \in Handles /\ OnShelf(ls[i][j].file, i)
    <3>1. PICK p : p = Nth(mine, j)
      OBVIOUS
    <3>2. p \in mine
      BY <2>4, <3>1 DEF Nth, Rank
    <3>3. PICK f : f = order[p]
      OBVIOUS
    <3>4. p \in 1 .. n /\ files[f].level = i - 1
      BY <1>6, <2>1, <3>2, <3>3 DEF AtLevel
    <3>5. f \in DOMAIN files
      BY <1>5, <3>3, <3>4
    <3>6. ls[i][j] = [file |-> f, size |-> 0]
      BY <2>5, <3>1, <3>3 DEF LoadedHandle
    <3>. QED
      BY <1>2, <3>4, <3>5, <3>6 DEF Handles, OnShelf
  <2>7. ls[i] \in Seq(Handles) /\ Len(ls[i]) = c
    <3>1. ls[i] \in [1 .. c -> Handles]
      BY <2>5, <2>6
    <3>. QED
      BY <2>4, <3>1
  <2>. QED
    BY <2>6, <2>7
<1>8. ls \in [1 .. top + 1 -> Seq(Handles)]
  <2>1. ls = [i \in 1 .. top + 1 |-> ls[i]]
    BY <1>1 DEF Loaded
  <2>. QED
    BY <1>7, <2>1
<1>9. ls \in Seq(Seq(Handles)) /\ Len(ls) = top + 1 /\ top + 1 \in Nat
  <2>1. PICK N \in Nat : N = top + 1
    <3>1. top + 1 \in Nat
      OBVIOUS
    <3>. QED
      BY <3>1, Zenon
  <2>2. ls \in [1 .. N -> Seq(Handles)]
    BY <1>8, <2>1
  <2>3. ls \in Seq(Seq(Handles)) /\ Len(ls) = N
    BY <2>2
  <2>. QED
    BY <2>1, <2>3
<1>10. ls # << >>
  BY <1>1, <1>9
<1>. QED
  BY <1>7, <1>9, <1>10 DEF TLevels

(* A restart.                                                              *)
LEMMA OpenKeeps ==
    ASSUME Steady, open
    PROVE  Steady'
<1>1. Types /\ Genuine /\ Shelved /\ Held /\ Batched /\ Asking /\ Named
  BY DEF Steady
<1>2. /\ status = "down" /\ status' = "up" /\ recorded # Cut
      /\ applied' = recorded /\ mem' = mem_insert(NoRows, wal)
      /\ UNCHANGED << work, role, opens, dict, wal, files, nextFile, recorded, pc, loc,
                      dictW, dictR, memW, compW, origin, acked, replicated, crashes, ioErrors >>
  BY DEF open, Loadable, locks
<1>3. \A f \in DOMAIN files : files[f].whole
  BY DEF open, Loadable
<1>4. PICK order \in SetToSeqs(DOMAIN files) : levels' = Loaded(order)
  BY DEF open
<1>5. /\ TLevels(levels')
      /\ \A i \in 1 .. Len(levels') : \A j \in 1 .. Len(levels'[i]) : OnShelf(levels'[i][j].file, i)
  BY <1>1, <1>3, <1>4, LoadedShelves
<1>6. /\ THazards(hazards') /\ (Careful' => Careful)
      /\ "remapped" \notin hazards' => "remapped" \notin hazards
  <2>1. PICK hs : hs = When(\E i \in DOMAIN levels' : Len(levels'[i]) > 1, "reloaded")
    OBVIOUS
  <2>2. hs \in SUBSET HazardNames
    BY <2>1 DEF When, HazardNames
  <2>3. Note(hs)
    BY <2>1 DEF open
  <2>. QED
    BY <1>1, <2>2, <2>3, Notes DEF Types
<1>7. AllIdle /\ AllIdle'
  <2>1. \A t \in Thread : pc[t] = "idle" /\ loc[t] = NoLoc
    BY <1>1, <1>2 DEF Held, Holds
  <2>. QED
    BY <1>2, <2>1 DEF AllIdle
<1>8. /\ (\A t \in Thread : Owns(t) /\ Holds(t))'
      /\ (\A t, u \in Thread : pc[t] \in OwnerPc /\ pc[u] \in OwnerPc /\ loc[t].file = loc[u].file => t = u)'
      /\ (\A t \in Thread : Rising(loc[t].ticks) /\ ~IsApplying(loc[t], pc[t]))'
      /\ (\A t \in Thread : RowsGenuine(loc[t].rows) /\ TicksGenuine(loc[t].ticks))'
      /\ Asking' /\ OneAtATime' /\ Newer'
      /\ (\A t \in Thread : /\ pc[t] \notin FlushingPc /\ pc[t] \notin LoggedPc /\ pc[t] # "b_wal"
                            /\ pc[t] \notin InCallPc /\ pc[t] \notin MergedPc)'
  BY <1>7, IdleHolds, PTL
<1>9. /\ mem' \in Rows /\ RowsGenuine(mem')
      /\ InOrder(wal) => \A v \in Versions(wal) : Covers(mem', v)
  <2>1. wal \in Seq(Tick) /\ TicksGenuine(wal) /\ NoRows \in Rows /\ RowsGenuine(NoRows)
    BY <1>1, Blank, BlankGenuine DEF Types, TTicks, Genuine
  <2>2. AboveRows(wal, NoRows)
    <3>1. Len(origin) \in Nat
      BY <1>1 DEF Types, TOrigin
    <3>. QED
      BY <2>1, <3>1, Blank DEF AboveRows, TicksGenuine
  <2>. QED
    BY <1>1, <1>2, <2>1, <2>2, PutGenuine
<1>10. Types'
  <2>1. TApplied(applied', recorded')
    BY <1>1, <1>2 DEF Types, TApplied
  <2>2. TFixed(work, role, opens, status)'
    BY <1>1, <1>2 DEF Types, TFixed
  <2>. QED
    BY <1>1, <1>2, <1>5, <1>6, <1>9, <2>1, <2>2 DEF Types
<1>11. Genuine'
  <2>1. RowsGenuine(mem)'
    BY <1>2, <1>9 DEF RowsGenuine, KeyOf
  <2>2. TicksGenuine(wal)'
    BY <1>1, <1>2 DEF Genuine, TicksGenuine, KeyOf
  <2>3. (\A f \in DOMAIN files : RowsGenuine(files[f].rows))'
    BY <1>1, <1>2 DEF Genuine, RowsGenuine, KeyOf
  <2>. QED
    BY <1>8, <2>1, <2>2, <2>3 DEF Genuine
<1>12. Shelved'
  <2>1. (\A f \in DOMAIN files : f < nextFile)'
    BY <1>1, <1>2 DEF Shelved
  <2>2. (\A i \in 1 .. Len(levels) : \A j \in 1 .. Len(levels[i]) : OnShelf(levels[i][j].file, i))'
    BY <1>2, <1>5 DEF OnShelf
  <2>. QED
    BY <1>8, <2>1, <2>2 DEF Shelved
<1>13. Held'
  BY <1>2, <1>8 DEF Held
<1>14. Batched'
  <2>1. (Reached(applied) /\ Reached(recorded))'
    BY <1>1, <1>2 DEF Batched, Reached
  <2>2. (\A b, c \in replicated : b # {} /\ (b # c => b \cap c = {}))'
    BY <1>1, <1>2 DEF Batched
  <2>. QED
    BY <1>8, <2>1, <2>2 DEF Batched
<1>15. Named'
  BY <1>1, <1>2, <1>6 DEF Named
<1>16. ASSUME Careful' PROVE Orderly' /\ Kept'
  <2>1. Orderly /\ Kept
    BY <1>6, <1>16 DEF Steady, Safe
  <2>2. Orderly'
    <3>1. OneSymbolPerId'
      BY <1>2, <2>1 DEF Orderly, OneSymbolPerId
    <3>2. InOrder(wal)'
      BY <1>2, <2>1 DEF Orderly, InOrder
    <3>. QED
      BY <1>8, <3>1, <3>2 DEF Orderly
  <2>3. Promised' \subseteq Promised
    <3>1. \A b \in replicated : Recorded(b)' => Recorded(b)
      BY <1>2 DEF Recorded
    <3>. QED
      BY <1>2, <1>8, <3>1 DEF Promised
  <2>4. ASSUME NEW v, InTable(v) PROVE InTable(v)'
    BY <1>2, <2>4 DEF InTable, Covers, KeyOf
  <2>5. ASSUME NEW v \in Promised' PROVE Logs(v)' /\ Serves(v)'
    <3>1. InTable(v) \/ v \in Versions(wal)
      BY <2>1, <2>3 DEF Kept, Logs
    <3>2. CASE InTable(v)
      BY <2>4, <3>2 DEF Logs, Serves
    <3>3. CASE v \in Versions(wal)
      <4>1. Covers(mem, v)'
        BY <1>2, <1>9, <2>1, <3>3 DEF Orderly, Covers, KeyOf
      <4>. QED
        BY <1>2, <3>3, <4>1 DEF Logs, Serves, Versions
    <3>. QED
      BY <3>1, <3>2, <3>3
  <2>6. Kept'
    BY <1>8, <2>5 DEF Kept
  <2>. QED
    BY <2>2, <2>6
<1>17. Safe'
  BY <1>16 DEF Safe
<1>. QED
  BY <1>8, <1>10, <1>11, <1>12, <1>13, <1>14, <1>15, <1>17 DEF Steady

(* A restart that fails.                                                   *)
LEMMA OpenFailedKeeps ==
    ASSUME Steady, open_failed
    PROVE  Steady'
<1>1. Types /\ Genuine /\ Shelved /\ Held /\ Batched /\ Asking /\ Named
  BY DEF Steady
<1>2. /\ status \in {"failed", "down"} /\ status' = "failed"
      /\ UNCHANGED << work, role, opens, dict, mem, wal, files, nextFile, levels, applied, recorded, pc, loc,
                      dictW, dictR, memW, compW, origin, acked, replicated, hazards, crashes, ioErrors >>
  BY DEF open_failed, shared, locks, history
<1>3. Types'
  BY <1>1, <1>2 DEF Types, TFixed
<1>4. Genuine' /\ Shelved' /\ Batched' /\ Asking' /\ Named'
  <2>1. Genuine'
    BY <1>1, <1>2 DEF Genuine, RowsGenuine, TicksGenuine, KeyOf
  <2>2. Shelved'
    BY <1>1, <1>2 DEF Shelved, OnShelf, Owns
  <2>3. Batched'
    BY <1>1, <1>2 DEF Batched, Reached, Rising, IsApplying, Versions
  <2>4. Asking' /\ Named'
    BY <1>1, <1>2 DEF Asking, Asked, KeyOf, Named
  <2>. QED
    BY <2>1, <2>2, <2>3, <2>4
<1>5. Held'
  BY <1>1, <1>2 DEF Held, Holds
<1>6. ASSUME Careful' PROVE Orderly' /\ Kept'
  <2>1. Orderly /\ Kept
    BY <1>2, <1>6 DEF Steady, Safe, Careful
  <2>2. Orderly'
    BY <1>2, <2>1 DEF Orderly, OneSymbolPerId, OneAtATime, InOrder, Newer, AboveRows, AboveTicks
  <2>3. ASSUME NEW v, InTable(v) PROVE InTable(v)'
    BY <1>2, <2>3 DEF InTable, Covers, KeyOf
  <2>4. Promised' = Promised
    BY <1>2 DEF Promised, Recorded, Versions
  <2>5. \A t \in Thread : pc'[t] = "idle"
    BY <1>1, <1>2 DEF Held
  <2>6. ASSUME NEW v \in Promised' PROVE Logs(v)'
    BY <1>2, <2>1, <2>3, <2>4 DEF Kept, Logs, Versions
  <2>7. Kept'
    BY <1>2, <2>5, <2>6 DEF Kept, FlushingPc, LoggedPc
  <2>. QED
    BY <2>2, <2>7
<1>7. Safe'
  BY <1>6 DEF Safe
<1>. QED
  BY <1>3, <1>4, <1>5, <1>7 DEF Steady
=============================================================================
