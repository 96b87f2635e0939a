----------------------------- MODULE StructureProofs ------------------------
(***************************************************************************)
(* What the data structures of the engine promise, whatever their sizes:   *)
(* the symbol dictionary, for every set of symbols and every number of     *)
(* ids, the block cache, for every set of keys and every capacity, and the *)
(* skip list, for every set of keys and every number of levels.            *)
(***************************************************************************)
EXTENDS Dictionary, BlockCache, SkipList, DataLemmas

(***************************************************************************)
(* The symbol dictionary.                                                  *)
(***************************************************************************)

Positions == 1 .. Len(id_to_symbol)

\* Every symbol is listed once, and its id is the one of its position.
Listed ==
    /\ \A i, j \in Positions : id_to_symbol[i] = id_to_symbol[j] => i = j
    /\ \A i \in Positions : symbol_to_id[id_to_symbol[i]] = IdAt(i - 1)
    /\ \A s \in Names : symbol_to_id[s] # NoId => \E i \in Positions : id_to_symbol[i] = s
    /\ \A s \in Names : (\E i \in Positions : id_to_symbol[i] = s) => symbol_to_id[s] # NoId

DictionaryInv ==
    /\ symbol_to_id \in [Names -> Int]
    /\ id_to_symbol \in Seq(Names)
    /\ Listed

----------------------------------------------------------------------------

\* The cast of a position gives an id of the id space, the position itself while
\* it fits.
LEMMA IdAtRange ==
    ASSUME NEW n \in Nat
    PROVE  /\ IdAt(n) \in 0 .. IdSpace - 1
           /\ n < IdSpace => IdAt(n) = n
  BY DictionaryAssumption DEF IdAt

\* get_or_insert lists a symbol at most once, under the id of its position.
LEMMA DictionaryInvPreserved == ASSUME DictionaryInv, [DictionaryNext]_dictVars PROVE DictionaryInv'
  <1>1. CASE UNCHANGED dictVars
    BY <1>1 DEF DictionaryInv, Listed, Positions, dictVars
  <1>2. ASSUME NEW s \in Names, get_or_insert(s) PROVE DictionaryInv'
    <2>1. CASE symbol_to_id[s] # NoId
      BY <1>1, <1>2, <2>1 DEF get_or_insert
    <2>2. CASE symbol_to_id[s] = NoId
      <3> PICK n \in Nat : n = Len(id_to_symbol)
        BY DEF DictionaryInv
      <3> PICK x : x = IdAt(n)
        OBVIOUS
      <3>1. x \in Int /\ x # NoId
        BY IdAtRange, DictionaryAssumption DEF NoId
      <3>2. /\ symbol_to_id' = [symbol_to_id EXCEPT ![s] = x]
            /\ id_to_symbol' = Append(id_to_symbol, s)
        BY <1>2, <2>2 DEF get_or_insert
      <3>3. /\ symbol_to_id' \in [Names -> Int]
            /\ id_to_symbol' \in Seq(Names)
        BY <3>1, <3>2 DEF DictionaryInv
      <3>4. /\ Len(id_to_symbol') = n + 1
            /\ id_to_symbol'[n + 1] = s
            /\ \A i \in 1 .. n : id_to_symbol'[i] = id_to_symbol[i] /\ id_to_symbol[i] \in Names
        BY <3>2 DEF DictionaryInv
      <3>5. \A i \in 1 .. n : id_to_symbol[i] # s
        BY <2>2 DEF DictionaryInv, Listed, Positions
      <3>6. symbol_to_id'[s] = x /\ \A t \in Names \ {s} : symbol_to_id'[t] = symbol_to_id[t]
        BY <3>2 DEF DictionaryInv
      <3>7. \A i, j \in 1 .. n + 1 : id_to_symbol'[i] = id_to_symbol'[j] => i = j
        <4>1. \A i, j \in 1 .. n : id_to_symbol[i] = id_to_symbol[j] => i = j
          BY DEF DictionaryInv, Listed, Positions
        <4>2. \A i \in 1 .. n + 1 : i \in 1 .. n \/ i = n + 1
          OBVIOUS
        <4> QED
          BY <3>4, <3>5, <4>1, <4>2, Zenon
      <3>8. \A i \in 1 .. n + 1 : symbol_to_id'[id_to_symbol'[i]] = IdAt(i - 1)
        <4>1. \A i \in 1 .. n : symbol_to_id[id_to_symbol[i]] = IdAt(i - 1)
          BY DEF DictionaryInv, Listed, Positions
        <4>2. \A i \in 1 .. n : symbol_to_id'[id_to_symbol'[i]] = IdAt(i - 1)
          BY <3>4, <3>5, <3>6, <4>1
        <4>3. IdAt((n + 1) - 1) = x
          OBVIOUS
        <4>4. \A i \in 1 .. n + 1 : i \in 1 .. n \/ i = n + 1
          OBVIOUS
        <4> QED
          BY <3>4, <3>6, <4>2, <4>3, <4>4
      <3>9. \A t \in Names : symbol_to_id'[t] # NoId <=> \E i \in 1 .. n + 1 : id_to_symbol'[i] = t
        <4>1. \A t \in Names : symbol_to_id[t] # NoId <=> \E i \in 1 .. n : id_to_symbol[i] = t
          BY DEF DictionaryInv, Listed, Positions
        <4> QED
          BY <3>1, <3>4, <3>5, <3>6, <4>1
      <3> QED
        BY <3>3, <3>4, <3>7, <3>8, <3>9 DEF DictionaryInv, Listed, Positions
    <2> QED
      BY <2>1, <2>2
  <1> QED
    BY <1>1, <1>2 DEF DictionaryNext

----------------------------------------------------------------------------

\* The id of a symbol among the first IdSpace leads back to it.
LEMMA EarlyResolves ==
    ASSUME DictionaryInv, NEW s \in Range(id_to_symbol) \ Wrapped
    PROVE  \E i \in Positions : /\ id_to_symbol[i] = s
                                /\ get_id(s) = i - 1
                                /\ get_symbol(get_id(s)) = s
  <1> PICK i \in Positions : id_to_symbol[i] = s
    BY DEF DictionaryInv, Range, Positions
  <1>1. i <= IdSpace
    BY DictionaryAssumption DEF Wrapped, Positions, DictionaryInv
  <1>2. IdAt(i - 1) = i - 1
    BY <1>1, IdAtRange, DictionaryAssumption DEF Positions, DictionaryInv
  <1>3. get_id(s) = i - 1
    BY <1>2 DEF DictionaryInv, Listed, get_id
  <1> QED
    BY <1>3 DEF get_symbol, Positions, DictionaryInv

\* The id of a later symbol leads to one of the first IdSpace.
LEMMA LateIsTaken ==
    ASSUME DictionaryInv, NEW s \in Wrapped
    PROVE  get_symbol(get_id(s)) # s /\ get_id(s) \in 0 .. IdSpace - 1
  <1> PICK i \in IdSpace + 1 .. Len(id_to_symbol) : id_to_symbol[i] = s
    BY DEF Wrapped
  <1> PICK x : x = IdAt(i - 1)
    OBVIOUS
  <1>1. i \in Positions
    BY DictionaryAssumption DEF Positions, DictionaryInv
  <1>2. x \in 0 .. IdSpace - 1
    BY IdAtRange, DictionaryAssumption DEF DictionaryInv
  <1>3. get_id(s) = x
    BY <1>1 DEF DictionaryInv, Listed, get_id
  <1>4. x + 1 \in Positions /\ x + 1 # i /\ x \in 0 .. Len(id_to_symbol) - 1
    BY <1>2, DictionaryAssumption DEF Positions, DictionaryInv
  <1>5. id_to_symbol[x + 1] # s
    BY <1>1, <1>4 DEF DictionaryInv, Listed
  <1> QED
    BY <1>2, <1>3, <1>4, <1>5 DEF get_symbol

\* A dictionary read back from its first n symbols has their ids.
LEMMA MetadataRestores ==
    ASSUME DictionaryInv, NEW n \in 0 .. Len(id_to_symbol), NEW s \in Names
    PROVE  from_metadata(SubSeq(id_to_symbol, 1, n))[s]
             = (IF s \in Range(SubSeq(id_to_symbol, 1, n)) THEN get_id(s) ELSE NoId)
  <1> PICK q : q = SubSeq(id_to_symbol, 1, n)
    OBVIOUS
  <1>1. DOMAIN q = 1 .. n /\ \A i \in 1 .. n : q[i] = id_to_symbol[i] /\ i \in Positions
    BY DEF DictionaryInv, Positions
  <1>2. CASE s \in Range(q)
    <2> PICK i \in 1 .. n : q[i] = s
      BY <1>1, <1>2 DEF Range
    <2>1. \A j \in 1 .. n : q[j] = s => j = i
      <3>1. \A j, k \in Positions : id_to_symbol[j] = id_to_symbol[k] => j = k
        BY DEF DictionaryInv, Listed
      <3> QED
        BY <1>1, <3>1, Zenon
    <2>2. (CHOOSE j \in DOMAIN q : q[j] = s) = i
      BY <1>1, <2>1
    <2>3. symbol_to_id[s] = IdAt(i - 1)
      BY <1>1 DEF DictionaryInv, Listed
    <2> QED
      BY <1>2, <2>2, <2>3 DEF from_metadata, get_id
  <1>3. CASE s \notin Range(q)
    BY <1>3 DEF from_metadata
  <1> QED
    BY <1>2, <1>3

\* A symbol is found again under its id, alone as long as the ids last, and a
\* symbol beyond them reads another one's ticks; a table's dictionary, whole or
\* cut short, has the ids the table was written with (get_or_insert, from_metadata).
THEOREM DictionaryResolves == DictionarySpec => []IdsResolve
  <1>1. DictionaryInit => DictionaryInv
    BY DEF DictionaryInit, EmptyIds, NoId, DictionaryInv, Listed, Positions
  <1>2. DictionaryInv /\ [DictionaryNext]_dictVars => DictionaryInv'
    BY DictionaryInvPreserved
  <1>3. DictionaryInv => IdsResolve
    <2> SUFFICES ASSUME DictionaryInv PROVE IdsResolve
      OBVIOUS
    <2>1. \A s \in Range(id_to_symbol) \ Wrapped : get_symbol(get_id(s)) = s
      BY EarlyResolves
    <2>2. \A s \in Wrapped : get_symbol(get_id(s)) # s /\ get_id(s) \in 0 .. IdSpace - 1
      BY LateIsTaken
    <2>3. \A s, t \in Range(id_to_symbol) \ Wrapped : get_id(s) = get_id(t) => s = t
      BY <2>1
    <2>4. \A n \in 0 .. Len(id_to_symbol), s \in Names :
            from_metadata(SubSeq(id_to_symbol, 1, n))[s]
              = (IF s \in Range(SubSeq(id_to_symbol, 1, n)) THEN get_id(s) ELSE NoId)
      BY MetadataRestores
    <2> QED
      BY <2>1, <2>2, <2>3, <2>4 DEF IdsResolve
  <1> QED
    BY <1>1, <1>2, <1>3, PTL DEF DictionarySpec

----------------------------------------------------------------------------

(***************************************************************************)
(* The block cache.                                                        *)
(***************************************************************************)

NodeType == [key : CacheKey, block : Block, prev : Nat, next : Nat]

\* The blocks are in the nodes of s, the youngest first; sum[i] counts the bytes of
\* the first i of them.
Typed(nodes, map, free, s, sum) ==
    /\ nodes \in Seq(NodeType)
    /\ map \in [CacheKey -> Nat]
    /\ free \in Seq(Nat)
    /\ s \in Seq(1 .. Len(nodes))
    /\ \A i \in 0 .. Len(s) : sum[i] \in Int

\* The pointers of the nodes follow s, and a free node points nowhere.
Pointers(nodes, head, tail, free, s) ==
    /\ \A i \in 1 .. Len(s) :
        /\ nodes[s[i]].prev = (IF i = 1 THEN Nil ELSE s[i - 1])
        /\ nodes[s[i]].next = (IF i = Len(s) THEN Nil ELSE s[i + 1])
    /\ head = (IF Len(s) = 0 THEN Nil ELSE s[1])
    /\ tail = (IF Len(s) = 0 THEN Nil ELSE s[Len(s)])
    /\ \A j \in 1 .. Len(free) : nodes[free[j]].next = Nil

\* Every node is in s or free, once.
Apart(nodes, free, s) ==
    /\ \A i, j \in 1 .. Len(s) : s[i] = s[j] => i = j
    /\ \A i, j \in 1 .. Len(free) : free[i] = free[j] => i = j
    /\ \A i \in 1 .. Len(s), j \in 1 .. Len(free) : s[i] # free[j]
    /\ \A n \in 1 .. Len(nodes) : \/ \E i \in 1 .. Len(s) : s[i] = n
                                  \/ \E j \in 1 .. Len(free) : free[j] = n
    /\ \A j \in 1 .. Len(free) : free[j] \in 1 .. Len(nodes)

\* The map leads to the nodes of s.
Mapped(nodes, map, s) ==
    /\ \A i \in 1 .. Len(s) : map[nodes[s[i]].key] = s[i]
    /\ \A k \in CacheKey : map[k] # Nil =>
            \E i \in 1 .. Len(s) : s[i] = map[k] /\ nodes[s[i]].key = k

\* The bytes are counted.
Summed(nodes, size, s, sum) ==
    /\ sum[0] = 0
    /\ \A i \in 1 .. Len(s) : sum[i] = sum[i - 1] + nodes[s[i]].block
    /\ size = sum[Len(s)]

CacheType ==
    [nodes : Seq(NodeType), map : [CacheKey -> Nat], head : Nat, tail : Nat,
     free : Seq(Nat), size : Int]

Linked(c, s, sum) ==
    /\ c \in CacheType
    /\ Typed(c.nodes, c.map, c.free, s, sum)
    /\ Pointers(c.nodes, c.head, c.tail, c.free, s)
    /\ Apart(c.nodes, c.free, s)
    /\ Mapped(c.nodes, c.map, s)
    /\ Summed(c.nodes, c.size, s, sum)

\* Between two calls the blocks fit.
CacheInv ==
    /\ \E s, sum : Linked(cache, s, sum)
    /\ cache.size <= Capacity

----------------------------------------------------------------------------

\* What setting a pointer changes.
LEMMA SetPointer ==
    ASSUME NEW nodes \in Seq(NodeType), NEW n \in 0 .. Len(nodes), NEW p \in Nat
    PROVE  /\ SetPrev(nodes, n, p) \in Seq(NodeType)
           /\ SetNext(nodes, n, p) \in Seq(NodeType)
           /\ Len(SetPrev(nodes, n, p)) = Len(nodes)
           /\ Len(SetNext(nodes, n, p)) = Len(nodes)
           /\ \A m \in 1 .. Len(nodes) :
                /\ SetPrev(nodes, n, p)[m].key = nodes[m].key
                /\ SetNext(nodes, n, p)[m].key = nodes[m].key
                /\ SetPrev(nodes, n, p)[m].block = nodes[m].block
                /\ SetNext(nodes, n, p)[m].block = nodes[m].block
                /\ SetPrev(nodes, n, p)[m].next = nodes[m].next
                /\ SetNext(nodes, n, p)[m].prev = nodes[m].prev
                /\ SetPrev(nodes, n, p)[m].prev = (IF m = n THEN p ELSE nodes[m].prev)
                /\ SetNext(nodes, n, p)[m].next = (IF m = n THEN p ELSE nodes[m].next)
<1>1. CASE n = Nil
  BY <1>1 DEF SetPrev, SetNext, Nil
<1>2. CASE n # Nil
  <2>1. n \in 1 .. Len(nodes) /\ nodes[n] \in NodeType
    BY <1>2 DEF Nil
  <2>2. PICK x : x = [nodes[n] EXCEPT !.prev = p]
    OBVIOUS
  <2>3. PICK y : y = [nodes[n] EXCEPT !.next = p]
    OBVIOUS
  <2>4. /\ x \in NodeType /\ x.key = nodes[n].key /\ x.block = nodes[n].block
        /\ x.next = nodes[n].next /\ x.prev = p
    BY <2>1, <2>2 DEF NodeType
  <2>5. /\ y \in NodeType /\ y.key = nodes[n].key /\ y.block = nodes[n].block
        /\ y.prev = nodes[n].prev /\ y.next = p
    BY <2>1, <2>3 DEF NodeType
  <2>6. SetPrev(nodes, n, p) = [nodes EXCEPT ![n] = x]
    BY <1>2, <2>2 DEF SetPrev
  <2>7. SetNext(nodes, n, p) = [nodes EXCEPT ![n] = y]
    BY <1>2, <2>3 DEF SetNext
  <2>. QED
    BY <2>1, <2>4, <2>5, <2>6, <2>7
<1>. QED
  BY <1>1, <1>2

\* The nodes ns with the pointer of n, prev or next, set to p; none if n is Nil.
PrevIs(new, ns, N, n, p) ==
    /\ new \in Seq(NodeType) /\ Len(new) = N
    /\ \A m \in 1 .. N : /\ new[m].key = ns[m].key /\ new[m].block = ns[m].block
                         /\ new[m].prev = (IF m = n THEN p ELSE ns[m].prev)
                         /\ new[m].next = ns[m].next

NextIs(new, ns, N, n, p) ==
    /\ new \in Seq(NodeType) /\ Len(new) = N
    /\ \A m \in 1 .. N : /\ new[m].key = ns[m].key /\ new[m].block = ns[m].block
                         /\ new[m].prev = ns[m].prev
                         /\ new[m].next = (IF m = n THEN p ELSE ns[m].next)

\* That is what SetPrev and SetNext do.
LEMMA PointerSet ==
    ASSUME NEW ns \in Seq(NodeType), NEW n \in 0 .. Len(ns), NEW p \in Nat
    PROVE  /\ PrevIs(SetPrev(ns, n, p), ns, Len(ns), n, p)
           /\ NextIs(SetNext(ns, n, p), ns, Len(ns), n, p)
BY SetPointer DEF PrevIs, NextIs

\* remove_tail takes the last node off the list.
LEMMA TailRemoved ==
    ASSUME NEW c, NEW s, NEW sum, Linked(c, s, sum), Len(s) # 0
    PROVE  /\ Linked(remove_tail(c), SubSeq(s, 1, Len(s) - 1), sum)
           /\ Len(remove_tail(c).nodes) = Len(c.nodes)
           /\ \A n \in 1 .. Len(c.nodes) : /\ remove_tail(c).nodes[n].key = c.nodes[n].key
                                           /\ remove_tail(c).nodes[n].block = c.nodes[n].block
<1>1. PICK M, K, G : M = c.nodes /\ K = c.map /\ G = c.free
  OBVIOUS
<1>2. PICK h, t, z : h = c.head /\ t = c.tail /\ z = c.size
  OBVIOUS
<1>3. /\ Typed(M, K, G, s, sum) /\ Pointers(M, h, t, G, s) /\ Apart(M, G, s)
      /\ Mapped(M, K, s) /\ Summed(M, z, s, sum)
  BY <1>1, <1>2 DEF Linked
<1>4. PICK N, L, F : N = Len(M) /\ L = Len(s) /\ F = Len(G)
  OBVIOUS
<1>5. /\ M \in Seq(NodeType) /\ K \in [CacheKey -> Nat] /\ G \in Seq(Nat)
      /\ s \in Seq(1 .. N) /\ \A i \in 0 .. L : sum[i] \in Int
      /\ N \in Nat /\ L \in Nat /\ L >= 1 /\ F \in Nat
      /\ \A i \in 1 .. L : s[i] \in 1 .. N
      /\ \A m \in 1 .. N : M[m] \in NodeType
  <2>1. /\ M \in Seq(NodeType) /\ K \in [CacheKey -> Nat] /\ G \in Seq(Nat)
        /\ s \in Seq(1 .. N) /\ \A i \in 0 .. L : sum[i] \in Int
    BY <1>3, <1>4 DEF Typed
  <2>. QED
    BY <1>4, <2>1
<1>6. \A m \in 1 .. N : /\ M[m].key \in CacheKey /\ M[m].block \in Nat
                        /\ M[m].prev \in Nat /\ M[m].next \in Nat
  BY <1>5, CacheAssumption DEF NodeType
<1>7. /\ \A i \in 1 .. L : /\ M[s[i]].prev = (IF i = 1 THEN Nil ELSE s[i - 1])
                           /\ M[s[i]].next = (IF i = L THEN Nil ELSE s[i + 1])
      /\ h = s[1] /\ t = s[L]
      /\ \A j \in 1 .. F : M[G[j]].next = Nil
  BY <1>3, <1>4, <1>5 DEF Pointers
<1>8. /\ \A i, j \in 1 .. L : s[i] = s[j] => i = j
      /\ \A i, j \in 1 .. F : G[i] = G[j] => i = j
      /\ \A i \in 1 .. L, j \in 1 .. F : s[i] # G[j]
      /\ \A n \in 1 .. N : (\E i \in 1 .. L : s[i] = n) \/ (\E j \in 1 .. F : G[j] = n)
      /\ \A j \in 1 .. F : G[j] \in 1 .. N
  BY <1>3, <1>4 DEF Apart
<1>9. /\ \A i \in 1 .. L : K[M[s[i]].key] = s[i]
      /\ \A x \in CacheKey : K[x] # Nil => \E i \in 1 .. L : s[i] = K[x] /\ M[s[i]].key = x
  BY <1>3, <1>4 DEF Mapped
<1>10. /\ sum[0] = 0 /\ z = sum[L]
       /\ \A i \in 1 .. L : sum[i] = sum[i - 1] + M[s[i]].block
  BY <1>3, <1>4 DEF Summed
<1>11. PICK q : q = s[L]
  OBVIOUS
<1>12. q \in 1 .. N /\ t = q
  BY <1>5, <1>7, <1>11
<1>13. PICK p : p = M[q].prev
  OBVIOUS
<1>14. p = (IF L = 1 THEN Nil ELSE s[L - 1]) /\ p \in 0 .. N /\ p # q
  <2>1. p = (IF L = 1 THEN Nil ELSE s[L - 1])
    BY <1>5, <1>7, <1>11, <1>13
  <2>2. L # 1 => s[L - 1] \in 1 .. N /\ s[L - 1] # s[L]
    BY <1>5, <1>8
  <2>. QED
    BY <1>5, <1>11, <1>12, <2>1, <2>2, SMTT(60) DEF Nil
<1>15. PICK nodes : nodes = SetNext(M, p, Nil)
  OBVIOUS
<1>16. /\ nodes \in Seq(NodeType) /\ Len(nodes) = N
       /\ \A m \in 1 .. N : /\ nodes[m].key = M[m].key
                            /\ nodes[m].block = M[m].block
                            /\ nodes[m].prev = M[m].prev
                            /\ nodes[m].next = (IF m = p THEN Nil ELSE M[m].next)
  <2>1. M \in Seq(NodeType) /\ Len(M) = N /\ p \in 0 .. N /\ Nil \in Nat
    BY <1>4, <1>5, <1>14 DEF Nil
  <2>2. NextIs(nodes, M, N, p, Nil)
    BY <1>15, <2>1, PointerSet, Zenon
  <2>. QED
    BY <2>2 DEF NextIs
<1>17. PICK k, b : k = M[q].key /\ b = M[q].block
  OBVIOUS
<1>18. k \in CacheKey /\ b \in Nat /\ K[k] = q
  <2>1. k \in CacheKey /\ b \in Nat
    BY <1>6, <1>12, <1>17
  <2>2. L \in 1 .. L
    BY <1>5
  <2>3. K[M[s[L]].key] = s[L]
    BY <1>9, <2>2, Zenon
  <2>. QED
    BY <1>11, <1>17, <2>1, <2>3
<1>19. PICK d : d = remove_tail(c)
  OBVIOUS
<1>20. PICK J, H : J = [K EXCEPT ![k] = Nil] /\ H = Append(G, q)
  OBVIOUS
<1>24. /\ H \in Seq(Nat) /\ Len(H) = F + 1 /\ H[F + 1] = q
       /\ \A j \in 1 .. F : H[j] = G[j]
  BY <1>4, <1>5, <1>12, <1>20
<1>25. /\ J \in [CacheKey -> Nat]
       /\ \A x \in CacheKey : J[x] = IF x = k THEN Nil ELSE K[x]
  BY <1>5, <1>18, <1>20 DEF Nil
<1>21. /\ d \in CacheType /\ d.nodes = nodes /\ d.tail = p /\ d.head = (IF p = Nil THEN Nil ELSE h)
       /\ d.size = z - b /\ d.map = J /\ d.free = H
  <2>1. /\ SetNext(c.nodes, c.nodes[c.tail].prev, Nil) = nodes /\ c.nodes[c.tail].prev = p
        /\ c.nodes[c.tail].key = k /\ c.nodes[c.tail].block = b /\ c.tail = q
    BY <1>1, <1>2, <1>12, <1>13, <1>15, <1>17
  <2>2. d = [c EXCEPT !.nodes = nodes, !.tail = p, !.head = IF p = Nil THEN Nil ELSE @,
                      !.size = @ - b, !.map[k] = Nil, !.free = Append(@, q)]
    BY <1>19, <2>1 DEF remove_tail
  <2>3. c \in CacheType /\ p \in Nat /\ z - b \in Int
    <3>1. L \in 1 .. L /\ L - 1 \in 0 .. L
      BY <1>5
    <3>2. sum[L] = sum[L - 1] + b /\ sum[L - 1] \in Int
      BY <1>5, <1>10, <1>11, <1>17, <3>1
    <3>3. z - b \in Int
      BY <1>10, <1>18, <3>2
    <3>. QED
      BY <1>14, <3>3 DEF Linked
  <2>. QED
    BY <1>1, <1>2, <1>16, <1>20, <2>2, <2>3, <1>24, <1>25 DEF CacheType
<1>22. PICK r : r = SubSeq(s, 1, L - 1)
  OBVIOUS
<1>23. /\ r \in Seq(1 .. N) /\ Len(r) = L - 1
       /\ \A i \in 1 .. L - 1 : r[i] = s[i]
  BY <1>4, <1>5, <1>22, SMTT(60)
<1>26. Typed(nodes, J, H, r, sum)
  BY <1>5, <1>16, <1>23, <1>24, <1>25 DEF Typed
<1>27. Pointers(nodes, d.head, p, H, r)
  <2>1. \A i \in 1 .. L - 1 : s[i] = p <=> i = L - 1
    <3>1. CASE L = 1
      BY <3>1
    <3>2. CASE L # 1
      <4>1. p = s[L - 1] /\ L - 1 \in 1 .. L
        BY <1>5, <1>14, <3>2
      <4>2. \A i \in 1 .. L - 1 : i \in 1 .. L
        BY <1>5
      <4>. QED
        BY <1>8, <4>1, <4>2
    <3>. QED
      BY <3>1, <3>2
  <2>2. \A i \in 1 .. L - 1 :
            /\ nodes[r[i]].prev = (IF i = 1 THEN Nil ELSE r[i - 1])
            /\ nodes[r[i]].next = (IF i = L - 1 THEN Nil ELSE r[i + 1])
    <3>1. ASSUME NEW i \in 1 .. L - 1
          PROVE  /\ nodes[r[i]].prev = (IF i = 1 THEN Nil ELSE r[i - 1])
                 /\ nodes[r[i]].next = (IF i = L - 1 THEN Nil ELSE r[i + 1])
      <4>1. /\ i \in 1 .. L /\ i # L /\ s[i] \in 1 .. N /\ r[i] = s[i]
            /\ i # 1 => r[i - 1] = s[i - 1]
            /\ i # L - 1 => r[i + 1] = s[i + 1]
        BY <1>5, <1>23, SMTT(60)
      <4>2. M[s[i]].prev = (IF i = 1 THEN Nil ELSE s[i - 1]) /\ M[s[i]].next = s[i + 1]
        BY <1>7, <4>1
      <4>. QED
        BY <1>16, <2>1, <4>1, <4>2
    <3>. QED
      BY <3>1
  <2>3. d.head = (IF L - 1 = 0 THEN Nil ELSE r[1])
    <3>1. L = 1 => p = Nil
      BY <1>14
    <3>2. L # 1 => L - 1 \in 1 .. L /\ 1 \in 1 .. L - 1 /\ p = s[L - 1]
      BY <1>5, <1>14
    <3>3. L # 1 => p # Nil /\ r[1] = s[1]
      BY <1>5, <1>23, <3>2 DEF Nil
    <3>. QED
      BY <1>5, <1>7, <1>21, <3>1, <3>3
  <2>4. p = (IF L - 1 = 0 THEN Nil ELSE r[L - 1])
    BY <1>5, <1>14, <1>23
  <2>5. nodes[q].next = Nil
    <3>1. L \in 1 .. L
      BY <1>5
    <3>2. M[q].next = Nil
      BY <1>7, <1>11, <3>1
    <3>. QED
      BY <1>12, <1>16, <3>2
  <2>6. \A j \in 1 .. F : nodes[G[j]].next = Nil
    BY <1>7, <1>8, <1>16
  <2>7. \A j \in 1 .. F + 1 : nodes[H[j]].next = Nil
    <3>1. \A j \in 1 .. F + 1 : j \in 1 .. F \/ j = F + 1
      BY <1>5
    <3>. QED
      BY <1>24, <2>5, <2>6, <3>1, Zenon
  <2>. QED
    BY <1>23, <1>24, <2>2, <2>3, <2>4, <2>7 DEF Pointers
<1>28. Apart(nodes, H, r)
  <2>1. \A i \in 1 .. L - 1 : i \in 1 .. L /\ i # L
    BY <1>5
  <2>2. \A i \in 1 .. L : i \in 1 .. L - 1 \/ i = L
    BY <1>5
  <2>3. \A j \in 1 .. F + 1 : j \in 1 .. F \/ j = F + 1
    BY <1>5
  <2>4. L \in 1 .. L /\ F + 1 \in 1 .. F + 1 /\ \A j \in 1 .. F : j \in 1 .. F + 1
    BY <1>5
  <2>5. \A i, j \in 1 .. L - 1 : r[i] = r[j] => i = j
    BY <1>8, <1>23, <2>1, Zenon
  <2>6. \A i, j \in 1 .. F + 1 : H[i] = H[j] => i = j
    <3>1. \A j \in 1 .. F : H[j] # q
      BY <1>8, <1>11, <1>24, <2>4
    <3>. QED
      BY <1>8, <1>24, <2>3, <3>1, Zenon
  <2>7. \A i \in 1 .. L - 1, j \in 1 .. F + 1 : r[i] # H[j]
    <3>1. \A i \in 1 .. L - 1 : r[i] = s[i] /\ s[i] # q
      BY <1>8, <1>11, <1>23, <2>1, <2>4
    <3>2. \A i \in 1 .. L - 1, j \in 1 .. F : r[i] # H[j]
      BY <1>8, <1>24, <2>1, <3>1
    <3>. QED
      BY <1>24, <2>3, <3>1, <3>2, Zenon
  <2>8. \A n \in 1 .. N : (\E i \in 1 .. L - 1 : r[i] = n) \/ (\E j \in 1 .. F + 1 : H[j] = n)
    <3>1. ASSUME NEW n \in 1 .. N, \A j \in 1 .. F + 1 : H[j] # n
          PROVE  \E i \in 1 .. L - 1 : r[i] = n
      <4>1. n # q /\ \A j \in 1 .. F : G[j] # n
        BY <1>24, <2>4, <3>1, Zenon
      <4>2. PICK i \in 1 .. L : s[i] = n
        BY <1>8, <4>1, Zenon
      <4>3. i \in 1 .. L - 1
        BY <1>11, <2>2, <4>1, <4>2
      <4>. QED
        BY <1>23, <4>2, <4>3, Zenon
    <3>. QED
      BY <3>1, Zenon
  <2>9. \A j \in 1 .. F + 1 : H[j] \in 1 .. N
    BY <1>8, <1>12, <1>24, <2>3
  <2>. QED
    BY <1>16, <1>23, <1>24, <2>5, <2>6, <2>7, <2>8, <2>9, ZenonT(90) DEF Apart
<1>29. Mapped(nodes, J, r)
  <2>1. \A i \in 1 .. L - 1 : i \in 1 .. L /\ s[i] # q /\ s[i] \in 1 .. N
    BY <1>5, <1>8, <1>11
  <2>2. \A i \in 1 .. L : i \in 1 .. L - 1 \/ i = L
    BY <1>5
  <2>3. \A i \in 1 .. L - 1 : J[nodes[r[i]].key] = r[i]
    <3>1. ASSUME NEW i \in 1 .. L - 1 PROVE J[nodes[r[i]].key] = r[i]
      <4>1. nodes[r[i]].key = M[s[i]].key /\ M[s[i]].key \in CacheKey
        BY <1>6, <1>16, <1>23, <2>1
      <4>2. K[M[s[i]].key] = s[i] /\ M[s[i]].key # k
        BY <1>9, <1>18, <2>1
      <4>. QED
        BY <1>23, <1>25, <4>1, <4>2
    <3>. QED
      BY <3>1
  <2>4. ASSUME NEW x \in CacheKey, J[x] # Nil
        PROVE  \E i \in 1 .. L - 1 : r[i] = J[x] /\ nodes[r[i]].key = x
    <3>1. x # k /\ K[x] # Nil /\ J[x] = K[x]
      BY <1>25, <2>4
    <3>2. PICK i \in 1 .. L : s[i] = K[x] /\ M[s[i]].key = x
      BY <1>9, <3>1
    <3>3. i \in 1 .. L - 1
      BY <1>11, <1>17, <2>2, <3>1, <3>2
    <3>4. r[i] = s[i] /\ nodes[r[i]].key = x
      BY <1>16, <1>23, <2>1, <3>2, <3>3
    <3>. QED
      BY <3>1, <3>2, <3>3, <3>4
  <2>. QED
    BY <1>23, <2>3, <2>4 DEF Mapped
<1>30. Summed(nodes, d.size, r, sum)
  <2>1. sum[L] = sum[L - 1] + b /\ sum[L - 1] \in Int
    BY <1>5, <1>10, <1>11, <1>17
  <2>2. d.size = sum[L - 1]
    BY <1>10, <1>18, <1>21, <2>1
  <2>3. \A i \in 1 .. L - 1 : sum[i] = sum[i - 1] + nodes[r[i]].block
    <3>1. \A i \in 1 .. L - 1 : i \in 1 .. L /\ s[i] \in 1 .. N
      BY <1>5
    <3>. QED
      BY <1>10, <1>16, <1>23, <3>1
  <2>. QED
    BY <1>10, <1>23, <2>2, <2>3 DEF Summed
<1>31. Linked(d, r, sum)
  BY <1>21, <1>26, <1>27, <1>28, <1>29, <1>30 DEF Linked
<1>. QED
  BY <1>1, <1>4, <1>16, <1>19, <1>21, <1>22, <1>31

\* Cache d is cache c with a new node for the block at the head of the list r.
NewHead(c, s, k, b, r, d, total) ==
    /\ d = add_to_head(alloc_node(c, k, b), alloc_node(c, k, b).map[k])
    /\ Linked(d, r, total)
    /\ Len(r) = Len(s) + 1 /\ Len(d.nodes) >= Len(c.nodes)
    /\ \A i \in 1 .. Len(s) : r[i + 1] = s[i]
    /\ \A n \in 1 .. Len(c.nodes) :
        n # r[1] => d.nodes[n].key = c.nodes[n].key /\ d.nodes[n].block = c.nodes[n].block
    /\ d.nodes[r[1]].key = k /\ d.nodes[r[1]].block = b

\* A new node is put at the head of the list (alloc_node and add_to_head).
LEMMA HeadAdded ==
    ASSUME NEW c, NEW s, NEW sum, Linked(c, s, sum),
           NEW k \in CacheKey, NEW b \in Block, c.map[k] = Nil
    PROVE  \E r, d, total : NewHead(c, s, k, b, r, d, total)
<1>1. PICK M, K, G : M = c.nodes /\ K = c.map /\ G = c.free
  OBVIOUS
<1>2. PICK h, t, z : h = c.head /\ t = c.tail /\ z = c.size
  OBVIOUS
<1>3. /\ Typed(M, K, G, s, sum) /\ Pointers(M, h, t, G, s) /\ Apart(M, G, s)
      /\ Mapped(M, K, s) /\ Summed(M, z, s, sum)
  BY <1>1, <1>2 DEF Linked
<1>4. PICK N, L, F : N = Len(M) /\ L = Len(s) /\ F = Len(G)
  OBVIOUS
<1>5. /\ M \in Seq(NodeType) /\ K \in [CacheKey -> Nat] /\ G \in Seq(Nat)
      /\ s \in Seq(1 .. N) /\ \A i \in 0 .. L : sum[i] \in Int
      /\ N \in Nat /\ L \in Nat /\ F \in Nat
      /\ \A i \in 1 .. L : s[i] \in 1 .. N
      /\ \A m \in 1 .. N : M[m] \in NodeType
  <2>1. /\ M \in Seq(NodeType) /\ K \in [CacheKey -> Nat] /\ G \in Seq(Nat)
        /\ s \in Seq(1 .. N) /\ \A i \in 0 .. L : sum[i] \in Int
    BY <1>3, <1>4 DEF Typed
  <2>. QED
    BY <1>4, <2>1
<1>6. \A m \in 1 .. N : /\ M[m].key \in CacheKey /\ M[m].block \in Nat
                        /\ M[m].prev \in Nat /\ M[m].next \in Nat
  BY <1>5, CacheAssumption DEF NodeType
<1>7. /\ \A i \in 1 .. L : /\ M[s[i]].prev = (IF i = 1 THEN Nil ELSE s[i - 1])
                           /\ M[s[i]].next = (IF i = L THEN Nil ELSE s[i + 1])
      /\ h = (IF L = 0 THEN Nil ELSE s[1]) /\ t = (IF L = 0 THEN Nil ELSE s[L])
      /\ \A j \in 1 .. F : M[G[j]].next = Nil
  BY <1>3, <1>4 DEF Pointers
<1>8. /\ \A i, j \in 1 .. L : s[i] = s[j] => i = j
      /\ \A i, j \in 1 .. F : G[i] = G[j] => i = j
      /\ \A i \in 1 .. L, j \in 1 .. F : s[i] # G[j]
      /\ \A n \in 1 .. N : (\E i \in 1 .. L : s[i] = n) \/ (\E j \in 1 .. F : G[j] = n)
      /\ \A j \in 1 .. F : G[j] \in 1 .. N
  BY <1>3, <1>4 DEF Apart
<1>9. /\ \A i \in 1 .. L : K[M[s[i]].key] = s[i]
      /\ \A x \in CacheKey : K[x] # Nil => \E i \in 1 .. L : s[i] = K[x] /\ M[s[i]].key = x
  BY <1>3, <1>4 DEF Mapped
<1>10. /\ sum[0] = 0 /\ z = sum[L]
       /\ \A i \in 1 .. L : sum[i] = sum[i - 1] + M[s[i]].block
  BY <1>3, <1>4 DEF Summed
<1>11. /\ c \in CacheType /\ c.nodes = M /\ c.map = K /\ c.head = h /\ c.tail = t
       /\ c.free = G /\ c.size = z
  BY <1>1, <1>2 DEF Linked
<1>12. PICK q : q = IF G # << >> THEN G[F] ELSE N + 1
  OBVIOUS
<1>13. PICK P : P = IF G # << >> THEN N ELSE N + 1
  OBVIOUS
<1>14. PICK new : new = [key |-> k, block |-> b, prev |-> Nil, next |-> Nil]
  OBVIOUS
<1>15. /\ new \in NodeType /\ new.key = k /\ new.block = b /\ new.prev = Nil /\ new.next = Nil
       /\ b \in Nat
  BY <1>14, CacheAssumption DEF NodeType, Nil
<1>16. PICK A, H : /\ A = IF G # << >> THEN [M EXCEPT ![q] = new] ELSE Append(M, new)
                   /\ H = IF G # << >> THEN SubSeq(G, 1, F - 1) ELSE G
  OBVIOUS
<1>17. /\ P \in Nat /\ P >= N /\ q \in 1 .. P
       /\ A \in Seq(NodeType) /\ Len(A) = P /\ A[q] = new
       /\ \A m \in 1 .. P : m # q => m \in 1 .. N /\ A[m] = M[m]
       /\ \A i \in 1 .. L : s[i] # q /\ s[i] \in 1 .. P
       /\ \A m \in 1 .. N : m \in 1 .. P
  <2>1. CASE G # << >>
    <3>1. F >= 1 /\ F \in 1 .. F
      BY <1>4, <1>5, <2>1
    <3>2. q = G[F] /\ q \in 1 .. N
      BY <1>8, <1>12, <2>1, <3>1
    <3>3. \A i \in 1 .. L : s[i] # q
      BY <1>8, <3>1, <3>2
    <3>. QED
      BY <1>4, <1>5, <1>13, <1>15, <1>16, <2>1, <3>2, <3>3
  <2>2. CASE G = << >>
    <3>1. q = N + 1 /\ P = N + 1 /\ A = Append(M, new)
      BY <1>12, <1>13, <1>16, <2>2
    <3>2. \A i \in 1 .. L : s[i] \in 1 .. N
      BY <1>5
    <3>. QED
      BY <1>4, <1>5, <1>15, <3>1, <3>2
  <2>. QED
    BY <2>1, <2>2
<1>18. /\ H \in Seq(Nat) /\ Len(H) \in Nat /\ Len(H) <= F
       /\ \A j \in 1 .. Len(H) : j \in 1 .. F /\ H[j] = G[j] /\ H[j] # q
       /\ \A j \in 1 .. F : j \in 1 .. Len(H) \/ G[j] = q
  <2>1. CASE G # << >>
    <3>1. F >= 1 /\ F \in 1 .. F
      BY <1>4, <1>5, <2>1
    <3>2. q = G[F]
      BY <1>12, <2>1
    <3>3. /\ H \in Seq(Nat) /\ Len(H) = F - 1
          /\ \A j \in 1 .. F - 1 : H[j] = G[j] /\ j \in 1 .. F /\ j # F
      <4>1. H = SubSeq(G, 1, F - 1)
        BY <1>16, <2>1
      <4>2. H \in Seq(Nat) /\ Len(H) = F - 1 /\ \A j \in 1 .. F - 1 : H[j] = G[j]
        BY <1>4, <1>5, <3>1, <4>1, SMTT(60)
      <4>. QED
        BY <1>5, <3>1, <4>2
    <3>4. \A j \in 1 .. F - 1 : G[j] # q
      BY <1>8, <3>1, <3>2, <3>3
    <3>5. \A j \in 1 .. F : j \in 1 .. F - 1 \/ j = F
      BY <1>5
    <3>. QED
      BY <1>5, <3>2, <3>3, <3>4, <3>5
  <2>2. CASE G = << >>
    <3>1. H = G /\ F = 0
      BY <1>4, <1>16, <2>2
    <3>. QED
      BY <1>4, <1>5, <3>1
  <2>. QED
    BY <2>1, <2>2
<1>19. PICK J : J = [K EXCEPT ![k] = q]
  OBVIOUS
<1>20. /\ J \in [CacheKey -> Nat] /\ J[k] = q /\ q # Nil
       /\ \A x \in CacheKey : J[x] = IF x = k THEN q ELSE K[x]
  BY <1>5, <1>17, <1>19 DEF Nil
<1>21. /\ alloc_node(c, k, b) \in CacheType /\ alloc_node(c, k, b).nodes = A
       /\ alloc_node(c, k, b).map = J /\ alloc_node(c, k, b).head = h
       /\ alloc_node(c, k, b).tail = t /\ alloc_node(c, k, b).free = H
       /\ alloc_node(c, k, b).size = z + b
  <2>1. /\ (IF G # << >> THEN G[Len(G)] ELSE Len(M) + 1) = q
        /\ (IF G # << >> THEN [M EXCEPT ![q] = new] ELSE Append(M, new)) = A
        /\ (IF G # << >> THEN SubSeq(G, 1, Len(G) - 1) ELSE G) = H
    BY <1>4, <1>12, <1>16
  <2>2. PICK c1, c2 : c1 = [c EXCEPT !.nodes = A] /\ c2 = [c1 EXCEPT !.free = H]
    OBVIOUS
  <2>3. PICK c3, c4 : c3 = [c2 EXCEPT !.map[k] = q] /\ c4 = [c3 EXCEPT !.size = @ + b]
    OBVIOUS
  <2>4. alloc_node(c, k, b) = c4
    <3>1. CASE c.free # << >>
      <4>1. /\ c.free[Len(c.free)] = q /\ [c.nodes EXCEPT ![q] = new] = A
            /\ SubSeq(c.free, 1, Len(c.free) - 1) = H
        BY <1>1, <2>1, <3>1
      <4>. QED
        BY <1>14, <2>2, <2>3, <3>1, <4>1 DEF alloc_node
    <3>2. CASE c.free = << >>
      <4>1. Len(c.nodes) + 1 = q /\ Append(c.nodes, new) = A /\ c.free = H
        BY <1>1, <2>1, <3>2
      <4>. QED
        BY <1>14, <2>2, <2>3, <3>2, <4>1 DEF alloc_node
    <3>. QED
      BY <3>1, <3>2
  <2>5. /\ c1 \in CacheType /\ c1.nodes = A /\ c1.map = K /\ c1.head = h /\ c1.tail = t
        /\ c1.free = G /\ c1.size = z
    BY <1>11, <1>17, <2>2 DEF CacheType
  <2>6. /\ c2 \in CacheType /\ c2.nodes = A /\ c2.map = K /\ c2.head = h /\ c2.tail = t
        /\ c2.free = H /\ c2.size = z
    BY <1>18, <2>2, <2>5 DEF CacheType
  <2>7. /\ c3 \in CacheType /\ c3.nodes = A /\ c3.map = J /\ c3.head = h /\ c3.tail = t
        /\ c3.free = H /\ c3.size = z
    BY <1>19, <1>20, <2>3, <2>6 DEF CacheType
  <2>8. /\ c4 \in CacheType /\ c4.nodes = A /\ c4.map = J /\ c4.head = h /\ c4.tail = t
        /\ c4.free = H /\ c4.size = z + b
    <3>1. PICK y \in Int : y = z + b
      BY <1>15, <2>7 DEF CacheType
    <3>2. c4 = [c3 EXCEPT !.size = y]
      BY <2>3, <2>7, <3>1
    <3>. QED
      BY <2>7, <3>1, <3>2 DEF CacheType
  <2>. QED
    BY <2>4, <2>8
<1>22. PICK B : B = SetNext(SetPrev(A, q, Nil), q, h)
  OBVIOUS
<1>23. PICK nodes : nodes = SetPrev(B, h, q)
  OBVIOUS
<1>24. PICK d : d = add_to_head(alloc_node(c, k, b), alloc_node(c, k, b).map[k])
  OBVIOUS
<1>25. d = [alloc_node(c, k, b) EXCEPT !.nodes = nodes, !.head = q,
                                       !.tail = IF t = Nil THEN q ELSE t]
  <2>1. B = [A EXCEPT ![q].prev = Nil, ![q].next = h]
    BY <1>20, <1>22 DEF SetNext, SetPrev
  <2>2. PICK e : e = alloc_node(c, k, b)
    OBVIOUS
  <2>3. e.nodes = A /\ e.map[k] = q /\ e.head = h /\ e.tail = t
    BY <1>20, <1>21, <2>2
  <2>4. d = [e EXCEPT !.nodes = nodes, !.head = q, !.tail = IF t = Nil THEN q ELSE t]
    BY <1>20, <1>23, <1>24, <2>1, <2>2, <2>3 DEF add_to_head
  <2>. QED
    BY <2>2, <2>4
<1>26. h \in 0 .. P /\ h # q /\ Nil \in Nat /\ q \in Nat /\ h \in Nat /\ q \in 0 .. P
  <2>1. L # 0 => 1 \in 1 .. L
    BY <1>5
  <2>2. L # 0 => s[1] \in 1 .. P /\ s[1] # q
    BY <1>17, <2>1
  <2>. QED
    BY <1>7, <1>17, <2>2 DEF Nil
<1>27. /\ nodes \in Seq(NodeType) /\ Len(nodes) = P
       /\ \A m \in 1 .. P :
            /\ nodes[m].key = A[m].key /\ nodes[m].block = A[m].block
            /\ nodes[m].prev = (IF m = h THEN q ELSE IF m = q THEN Nil ELSE A[m].prev)
            /\ nodes[m].next = (IF m = q THEN h ELSE A[m].next)
  <2>1. PICK C : C = SetPrev(A, q, Nil)
    OBVIOUS
  <2>2. /\ C \in Seq(NodeType) /\ Len(C) = P
        /\ \A m \in 1 .. P : /\ C[m].key = A[m].key /\ C[m].block = A[m].block
                             /\ C[m].prev = (IF m = q THEN Nil ELSE A[m].prev)
                             /\ C[m].next = A[m].next
    <3>1. A \in Seq(NodeType) /\ Len(A) = P /\ q \in 0 .. P /\ Nil \in Nat
      BY <1>17, <1>26
    <3>2. PrevIs(C, A, P, q, Nil)
      BY <2>1, <3>1, PointerSet, Zenon
    <3>. QED
      BY <3>2 DEF PrevIs
  <2>3. /\ B \in Seq(NodeType) /\ Len(B) = P
        /\ \A m \in 1 .. P : /\ B[m].key = C[m].key /\ B[m].block = C[m].block
                             /\ B[m].prev = C[m].prev
                             /\ B[m].next = (IF m = q THEN h ELSE C[m].next)
    <3>1. C \in Seq(NodeType) /\ Len(C) = P /\ q \in 0 .. P /\ h \in Nat
      BY <1>26, <2>2
    <3>2. NextIs(B, C, P, q, h)
      BY <1>22, <2>1, <3>1, PointerSet, Zenon
    <3>. QED
      BY <3>2 DEF NextIs
  <2>4. /\ nodes \in Seq(NodeType) /\ Len(nodes) = P
        /\ \A m \in 1 .. P : /\ nodes[m].key = B[m].key /\ nodes[m].block = B[m].block
                             /\ nodes[m].prev = (IF m = h THEN q ELSE B[m].prev)
                             /\ nodes[m].next = B[m].next
    <3>1. B \in Seq(NodeType) /\ Len(B) = P /\ h \in 0 .. P /\ q \in Nat
      BY <1>26, <2>3
    <3>2. PrevIs(nodes, B, P, h, q)
      BY <1>23, <3>1, PointerSet, Zenon
    <3>. QED
      BY <3>2 DEF PrevIs
  <2>. QED
    BY <2>2, <2>3, <2>4
<1>28. PICK r : r = << q >> \o s
  OBVIOUS
<1>29. /\ r \in Seq(1 .. P) /\ Len(r) = L + 1 /\ r[1] = q
       /\ \A i \in 1 .. L : r[i + 1] = s[i]
       /\ \A i \in 2 .. L + 1 : r[i] = s[i - 1] /\ i - 1 \in 1 .. L
  <2>1. s \in Seq(1 .. P) /\ << q >> \in Seq(1 .. P) /\ Len(<< q >>) = 1 /\ << q >>[1] = q
    BY <1>4, <1>5, <1>17
  <2>. QED
    BY <1>4, <1>5, <1>28, <2>1
<1>30. PICK total : total = [i \in 0 .. L + 1 |-> IF i = 0 THEN 0 ELSE b + sum[i - 1]]
  OBVIOUS
<1>31. /\ total[0] = 0 /\ \A i \in 1 .. L + 1 : total[i] = b + sum[i - 1] /\ sum[i - 1] \in Int
       /\ \A i \in 0 .. L + 1 : total[i] \in Int
  BY <1>5, <1>15, <1>30
<1>32. Typed(nodes, J, H, r, total)
  BY <1>18, <1>20, <1>27, <1>29, <1>31 DEF Typed
<1>33. \A i \in 2 .. L + 1 : /\ i - 1 \in 1 .. L /\ r[i] = s[i - 1] /\ r[i] # q
                             /\ r[i] \in 1 .. N /\ r[i] \in 1 .. P /\ A[r[i]] = M[r[i]]
  <2>1. ASSUME NEW i \in 2 .. L + 1
        PROVE  /\ i - 1 \in 1 .. L /\ r[i] = s[i - 1] /\ r[i] # q
               /\ r[i] \in 1 .. N /\ r[i] \in 1 .. P /\ A[r[i]] = M[r[i]]
    <3>1. i - 1 \in 1 .. L /\ r[i] = s[i - 1]
      BY <1>29
    <3>2. r[i] # q /\ r[i] \in 1 .. N /\ r[i] \in 1 .. P
      BY <1>5, <1>17, <3>1
    <3>. QED
      BY <1>17, <3>1, <3>2
  <2>. QED
    BY <2>1
<1>34. \A i \in 1 .. L + 1 : i = 1 \/ i \in 2 .. L + 1
  BY <1>5
<1>35. Pointers(nodes, q, IF t = Nil THEN q ELSE t, H, r)
  <2>1. nodes[q].prev = Nil /\ nodes[q].next = (IF L + 1 = 1 THEN Nil ELSE r[2])
    <3>1. L # 0 => 2 \in 2 .. L + 1 /\ 2 - 1 = 1
      BY <1>5
    <3>2. h = (IF L + 1 = 1 THEN Nil ELSE r[2])
      BY <1>5, <1>7, <1>29, <3>1
    <3>. QED
      BY <1>17, <1>26, <1>27, <3>2
  <2>2. ASSUME NEW i \in 2 .. L + 1
        PROVE  /\ nodes[r[i]].prev = r[i - 1]
               /\ nodes[r[i]].next = (IF i = L + 1 THEN Nil ELSE r[i + 1])
    <3>1. PICK j \in 1 .. L : j = i - 1
      BY <1>33
    <3>2. /\ M[s[j]].prev = (IF j = 1 THEN Nil ELSE s[j - 1])
          /\ M[s[j]].next = (IF j = L THEN Nil ELSE s[j + 1])
      BY <1>7
    <3>3. /\ s[j] = h <=> j = 1
          /\ r[i] = s[j]
          /\ j = 1 => r[i - 1] = q
          /\ j # 1 => r[i - 1] = s[j - 1]
          /\ i = L + 1 <=> j = L
          /\ j # L => r[i + 1] = s[j + 1]
      <4>1. 1 \in 1 .. L /\ L # 0
        BY <1>5
      <4>2. s[j] = h <=> j = 1
        BY <1>7, <1>8, <4>1
      <4>. QED
        BY <1>5, <1>29, <3>1, <4>2
    <3>. QED
      BY <1>27, <1>33, <3>1, <3>2, <3>3
  <2>3. (IF t = Nil THEN q ELSE t) = r[L + 1]
    <3>1. L # 0 => L \in 1 .. L
      BY <1>5
    <3>2. L # 0 => s[L] # Nil
      BY <1>17, <3>1 DEF Nil
    <3>. QED
      BY <1>5, <1>7, <1>29, <3>1, <3>2
  <2>4. \A j \in 1 .. Len(H) : nodes[H[j]].next = Nil
    <3>1. \A j \in 1 .. Len(H) : H[j] \in 1 .. P /\ H[j] # q /\ M[H[j]].next = Nil
      BY <1>7, <1>8, <1>17, <1>18, SMTT(60)
    <3>. QED
      BY <1>17, <1>27, <3>1
  <2>5. \A i \in 1 .. L + 1 :
            /\ nodes[r[i]].prev = (IF i = 1 THEN Nil ELSE r[i - 1])
            /\ nodes[r[i]].next = (IF i = L + 1 THEN Nil ELSE r[i + 1])
    <3>1. \A i \in 2 .. L + 1 : i # 1
      BY <1>5
    <3>2. 1 + 1 = 2 /\ 1 = L + 1 <=> L + 1 = 1
      BY <1>5
    <3>. QED
      BY <1>29, <1>34, <2>1, <2>2, <3>1, <3>2
  <2>. QED
    BY <1>5, <1>29, <2>3, <2>4, <2>5 DEF Pointers
<1>36. Apart(nodes, H, r)
  <2>1. \A i, j \in 1 .. L + 1 : r[i] = r[j] => i = j
    <3>1. \A i, j \in 2 .. L + 1 : r[i] = r[j] => i = j
      <4>1. ASSUME NEW i \in 2 .. L + 1, NEW j \in 2 .. L + 1, r[i] = r[j] PROVE i = j
        <5>1. i - 1 = j - 1
          BY <1>8, <1>33, <4>1
        <5>. QED
          BY <5>1
      <4>. QED
        BY <4>1
    <3>. QED
      BY <1>29, <1>33, <1>34, <3>1, Zenon
  <2>2. \A i, j \in 1 .. Len(H) : H[i] = H[j] => i = j
    BY <1>8, <1>18, ZenonT(90)
  <2>3. \A i \in 1 .. L + 1, j \in 1 .. Len(H) : r[i] # H[j]
    BY <1>8, <1>18, <1>29, <1>33, <1>34
  <2>4. \A n \in 1 .. P : (\E i \in 1 .. L + 1 : r[i] = n) \/ (\E j \in 1 .. Len(H) : H[j] = n)
    <3>1. ASSUME NEW n \in 1 .. P, n # q, ~ \E j \in 1 .. Len(H) : H[j] = n
          PROVE  \E i \in 1 .. L + 1 : r[i] = n
      <4>1. n \in 1 .. N
        BY <1>17, <3>1
      <4>2. \A j \in 1 .. F : G[j] # n
        BY <1>18, <3>1
      <4>3. PICK i \in 1 .. L : s[i] = n
        BY <1>8, <4>1, <4>2
      <4>4. i + 1 \in 1 .. L + 1 /\ r[i + 1] = n
        BY <1>5, <1>29, <4>3
      <4>. QED
        BY <4>4
    <3>2. 1 \in 1 .. L + 1
      BY <1>5
    <3>. QED
      BY <1>29, <3>1, <3>2
  <2>5. \A j \in 1 .. Len(H) : H[j] \in 1 .. P
    BY <1>8, <1>17, <1>18
  <2>. QED
    BY <1>27, <1>29, <2>1, <2>2, <2>3, <2>4, <2>5, Zenon DEF Apart
<1>37. Mapped(nodes, J, r)
  <2>1. K[k] = Nil /\ \A i \in 1 .. L : s[i] # Nil
    BY <1>1, <1>17 DEF Nil
  <2>2. J[nodes[r[1]].key] = r[1]
    BY <1>15, <1>17, <1>20, <1>27, <1>29
  <2>3. ASSUME NEW i \in 2 .. L + 1 PROVE J[nodes[r[i]].key] = r[i] /\ nodes[r[i]].key = M[r[i]].key
    <3>1. nodes[r[i]].key = M[s[i - 1]].key /\ M[s[i - 1]].key \in CacheKey
      BY <1>6, <1>27, <1>33
    <3>2. K[M[s[i - 1]].key] = s[i - 1]
      BY <1>9, <1>33
    <3>. QED
      BY <1>20, <1>33, <2>1, <3>1, <3>2
  <2>4. ASSUME NEW x \in CacheKey, J[x] # Nil
        PROVE  \E i \in 1 .. L + 1 : r[i] = J[x] /\ nodes[r[i]].key = x
    <3>1. CASE x = k
      <4>1. 1 \in 1 .. L + 1
        BY <1>5
      <4>. QED
        BY <1>15, <1>17, <1>20, <1>27, <1>29, <3>1, <4>1
    <3>2. CASE x # k
      <4>1. J[x] = K[x]
        BY <1>20, <3>2
      <4>2. PICK i \in 1 .. L : s[i] = K[x] /\ M[s[i]].key = x
        BY <1>9, <2>4, <4>1
      <4>3. PICK j \in 2 .. L + 1 : j = i + 1
        BY <1>5
      <4>4. j \in 1 .. L + 1 /\ r[j] = s[i]
        BY <1>5, <1>29, <4>3
      <4>. QED
        BY <2>3, <4>1, <4>2, <4>4
    <3>. QED
      BY <3>1, <3>2
  <2>. QED
    BY <1>29, <1>34, <2>2, <2>3, <2>4 DEF Mapped
<1>38. Summed(nodes, z + b, r, total)
  <2>1. total[1] = total[0] + nodes[r[1]].block
    BY <1>5, <1>10, <1>15, <1>17, <1>27, <1>29, <1>31
  <2>2. ASSUME NEW i \in 2 .. L + 1 PROVE total[i] = total[i - 1] + nodes[r[i]].block
    <3>1. nodes[r[i]].block = M[s[i - 1]].block
      BY <1>27, <1>33
    <3>2. sum[i - 1] = sum[i - 2] + M[s[i - 1]].block
      BY <1>10, <1>33
    <3>3. total[i] = b + sum[i - 1] /\ total[i - 1] = b + sum[i - 2]
      BY <1>5, <1>31
    <3>4. sum[i - 1] \in Int /\ sum[i - 2] \in Int
      BY <1>5
    <3>5. M[s[i - 1]].block \in Nat
      BY <1>6, <1>33
    <3>. QED
      BY <1>15, <3>1, <3>2, <3>3, <3>4, <3>5
  <2>3. z + b = total[L + 1]
    BY <1>5, <1>10, <1>15, <1>31
  <2>4. 1 - 1 = 0
    OBVIOUS
  <2>. QED
    BY <1>29, <1>31, <1>34, <2>1, <2>2, <2>3, <2>4 DEF Summed
<1>39. /\ d \in CacheType /\ d.nodes = nodes /\ d.map = J /\ d.free = H /\ d.head = q
       /\ d.tail = (IF t = Nil THEN q ELSE t) /\ d.size = z + b
  <2>1. PICK e \in CacheType : e = alloc_node(c, k, b)
    BY <1>21
  <2>2. /\ e.nodes = A /\ e.map = J /\ e.head = h /\ e.tail = t
        /\ e.free = H /\ e.size = z + b
    BY <1>21, <2>1
  <2>3. d = [e EXCEPT !.nodes = nodes, !.head = q, !.tail = IF t = Nil THEN q ELSE t]
    BY <1>25, <2>1
  <2>4. t \in Nat
    BY <1>2 DEF Linked, CacheType
  <2>. QED
    BY <1>26, <1>27, <2>1, <2>2, <2>3, <2>4 DEF CacheType
<1>40. Linked(d, r, total)
  BY <1>32, <1>35, <1>36, <1>37, <1>38, <1>39 DEF Linked
<1>41. \A n \in 1 .. N : n # r[1] => nodes[n].key = M[n].key /\ nodes[n].block = M[n].block
  BY <1>17, <1>27, <1>29
<1>42. nodes[r[1]].key = k /\ nodes[r[1]].block = b
  BY <1>15, <1>17, <1>27, <1>29
<1>. QED
  <2>1. /\ Len(r) = Len(s) + 1 /\ Len(d.nodes) >= Len(c.nodes)
        /\ \A i \in 1 .. Len(s) : r[i + 1] = s[i]
        /\ \A n \in 1 .. Len(c.nodes) :
             n # r[1] => d.nodes[n].key = c.nodes[n].key /\ d.nodes[n].block = c.nodes[n].block
        /\ d.nodes[r[1]].key = k /\ d.nodes[r[1]].block = b
    BY <1>1, <1>4, <1>17, <1>27, <1>29, <1>39, <1>41, <1>42
  <2>. QED
    BY <1>24, <1>40, <2>1, Zenon DEF NewHead

\* The cache after a new block b has come under the key of node n.
Touched(c, n, b) ==
    move_to_head([c EXCEPT !.nodes[n].block = b, !.size = @ - c.nodes[n].block + b], n)

\* In r, the p-th node of s has come before the others, and has block b in d.
Moved(c, s, p, b, d, r) ==
    /\ Len(r) = Len(s) /\ Len(d.nodes) = Len(c.nodes)
    /\ \A i \in 1 .. Len(s) :
         r[i] = (IF i = 1 THEN s[p] ELSE IF i <= p THEN s[i - 1] ELSE s[i])
    /\ \A n \in 1 .. Len(c.nodes) :
         /\ d.nodes[n].key = c.nodes[n].key
         /\ d.nodes[n].block = IF n = s[p] THEN b ELSE c.nodes[n].block

\* A block is replaced and its node moves to the head of the list.
LEMMA HeadMoved ==
    ASSUME NEW c, NEW s, NEW sum, Linked(c, s, sum), NEW p \in 1 .. Len(s), NEW b \in Block
    PROVE  \E r, d, total :
             d = Touched(c, s[p], b) /\ Linked(d, r, total) /\ Moved(c, s, p, b, d, r)
<1>1. PICK M, K, G : M = c.nodes /\ K = c.map /\ G = c.free
  OBVIOUS
<1>2. PICK h, t, z : h = c.head /\ t = c.tail /\ z = c.size
  OBVIOUS
<1>3. /\ Typed(M, K, G, s, sum) /\ Pointers(M, h, t, G, s) /\ Apart(M, G, s)
      /\ Mapped(M, K, s) /\ Summed(M, z, s, sum)
  BY <1>1, <1>2 DEF Linked
<1>4. PICK N, L, F : N = Len(M) /\ L = Len(s) /\ F = Len(G)
  OBVIOUS
<1>5. /\ M \in Seq(NodeType) /\ K \in [CacheKey -> Nat] /\ G \in Seq(Nat)
      /\ s \in Seq(1 .. N) /\ \A i \in 0 .. L : sum[i] \in Int
      /\ N \in Nat /\ L \in Nat /\ F \in Nat
      /\ \A i \in 1 .. L : s[i] \in 1 .. N
      /\ \A m \in 1 .. N : M[m] \in NodeType
  <2>1. /\ M \in Seq(NodeType) /\ K \in [CacheKey -> Nat] /\ G \in Seq(Nat)
        /\ s \in Seq(1 .. N) /\ \A i \in 0 .. L : sum[i] \in Int
    BY <1>3, <1>4 DEF Typed
  <2>. QED
    BY <1>4, <2>1, SMTT(60)
<1>6. \A m \in 1 .. N : /\ M[m].key \in CacheKey /\ M[m].block \in Nat
                        /\ M[m].prev \in Nat /\ M[m].next \in Nat
  BY <1>5, CacheAssumption DEF NodeType
<1>7. /\ \A i \in 1 .. L : /\ M[s[i]].prev = (IF i = 1 THEN Nil ELSE s[i - 1])
                           /\ M[s[i]].next = (IF i = L THEN Nil ELSE s[i + 1])
      /\ h = (IF L = 0 THEN Nil ELSE s[1]) /\ t = (IF L = 0 THEN Nil ELSE s[L])
      /\ \A j \in 1 .. F : M[G[j]].next = Nil
  BY <1>3, <1>4 DEF Pointers
<1>8. /\ \A i, j \in 1 .. L : s[i] = s[j] => i = j
      /\ \A i, j \in 1 .. F : G[i] = G[j] => i = j
      /\ \A i \in 1 .. L, j \in 1 .. F : s[i] # G[j]
      /\ \A n \in 1 .. N : (\E i \in 1 .. L : s[i] = n) \/ (\E j \in 1 .. F : G[j] = n)
      /\ \A j \in 1 .. F : G[j] \in 1 .. N
  BY <1>3, <1>4 DEF Apart
<1>9. /\ \A i \in 1 .. L : K[M[s[i]].key] = s[i]
      /\ \A x \in CacheKey : K[x] # Nil => \E i \in 1 .. L : s[i] = K[x] /\ M[s[i]].key = x
  BY <1>3, <1>4 DEF Mapped
<1>10. /\ sum[0] = 0 /\ z = sum[L]
       /\ \A i \in 1 .. L : sum[i] = sum[i - 1] + M[s[i]].block
  BY <1>3, <1>4 DEF Summed
<1>11. /\ c \in CacheType /\ c.nodes = M /\ c.map = K /\ c.head = h /\ c.tail = t
       /\ c.free = G /\ c.size = z
  BY <1>1, <1>2 DEF Linked
<1>12. PICK q, old : q = s[p] /\ old = M[q].block
  OBVIOUS
<1>13. /\ p \in 1 .. L /\ p \in Int /\ 1 <= p /\ p <= L /\ L >= 1 /\ L \in Nat /\ N \in Nat
       /\ q \in 1 .. N /\ old \in Nat /\ b \in Nat /\ q # Nil
  BY <1>4, <1>5, <1>6, <1>12, CacheAssumption DEF Nil
<1>14. PICK A, e : /\ A = [M EXCEPT ![q].block = b]
                   /\ e = [c EXCEPT !.nodes = A, !.size = z - old + b]
  OBVIOUS
<1>15. /\ A \in Seq(NodeType) /\ Len(A) = N
       /\ \A m \in 1 .. N : /\ A[m].key = M[m].key /\ A[m].prev = M[m].prev
                            /\ A[m].next = M[m].next
                            /\ A[m].block = (IF m = q THEN b ELSE M[m].block)
  <2>1. PICK x : x = [M[q] EXCEPT !.block = b]
    OBVIOUS
  <2>2. M[q] \in NodeType
    BY <1>5, <1>13
  <2>3. /\ x \in NodeType /\ x.key = M[q].key /\ x.prev = M[q].prev
        /\ x.next = M[q].next /\ x.block = b
    BY <2>1, <2>2 DEF NodeType
  <2>4. A = [M EXCEPT ![q] = x]
    BY <1>14, <2>1
  <2>. QED
    BY <1>4, <1>5, <1>13, <2>3, <2>4
<1>16. /\ e \in CacheType /\ e.nodes = A /\ e.map = K /\ e.head = h /\ e.tail = t
       /\ e.free = G /\ e.size = z - old + b
  <2>1. PICK y \in Int : y = z - old + b
    BY <1>11, <1>13 DEF CacheType
  <2>2. e = [c EXCEPT !.nodes = A, !.size = y]
    BY <1>14, <2>1
  <2>. QED
    BY <1>11, <1>15, <2>1, <2>2 DEF CacheType
<1>42. PICK d : d = Touched(c, s[p], b)
  OBVIOUS
<1>17. d = move_to_head(e, q)
  <2>1. e = [c EXCEPT !.nodes[s[p]].block = b, !.size = @ - c.nodes[s[p]].block + b]
    BY <1>11, <1>12, <1>14 DEF CacheType
  <2>. QED
    BY <1>12, <1>42, <2>1 DEF Touched
<1>18. PICK pv, nx : pv = M[q].prev /\ nx = M[q].next
  OBVIOUS
<1>19. /\ pv = (IF p = 1 THEN Nil ELSE s[p - 1]) /\ nx = (IF p = L THEN Nil ELSE s[p + 1])
       /\ h = s[1] /\ t = s[L]
  BY <1>7, <1>12, <1>13, <1>18, SMTT(60)
<1>20. /\ \A i \in 1 .. L : s[i] = q <=> i = p
       /\ \A i \in 1 .. L : s[i] = h <=> i = 1
       /\ \A i \in 1 .. L : s[i] = t <=> i = L
       /\ \A i \in 1 .. L : s[i] = pv <=> i = p - 1
       /\ \A i \in 1 .. L : s[i] = nx <=> i = p + 1
       /\ \A i \in 1 .. L : s[i] # Nil
  <2>1. /\ 1 \in 1 .. L /\ L \in 1 .. L
        /\ p # 1 => p - 1 \in 1 .. L
        /\ p # L => p + 1 \in 1 .. L
    BY <1>5, <1>13
  <2>2. \A i \in 1 .. L : s[i] # Nil
    BY <1>5 DEF Nil
  <2>3. \A i \in 1 .. L : (s[i] = q <=> i = p) /\ (s[i] = h <=> i = 1) /\ (s[i] = t <=> i = L)
    BY <1>8, <1>12, <1>13, <1>19, <2>1
  <2>4. \A i \in 1 .. L : (s[i] = pv <=> i = p - 1)
    <3>1. CASE p = 1
      <4>1. pv = Nil /\ \A i \in 1 .. L : i # p - 1
        BY <1>5, <1>19, <3>1
      <4>. QED
        BY <2>2, <4>1
    <3>2. CASE p # 1
      BY <1>8, <1>19, <2>1, <3>2
    <3>. QED
      BY <3>1, <3>2
  <2>5. \A i \in 1 .. L : (s[i] = nx <=> i = p + 1)
    <3>1. CASE p = L
      <4>1. nx = Nil /\ \A i \in 1 .. L : i # p + 1
        BY <1>5, <1>19, <3>1
      <4>. QED
        BY <2>2, <4>1
    <3>2. CASE p # L
      BY <1>8, <1>19, <2>1, <3>2
    <3>. QED
      BY <3>1, <3>2
  <2>. QED
    BY <2>2, <2>3, <2>4, <2>5
<1>21. /\ pv \in 0 .. N /\ nx \in 0 .. N /\ h \in 1 .. N /\ t \in 1 .. N
       /\ (p = 1 <=> h = q) /\ (p = L <=> t = q) /\ pv # q /\ nx # q
  <2>1. /\ 1 \in 1 .. L /\ L \in 1 .. L
        /\ p # 1 => p - 1 \in 1 .. L
        /\ p # L => p + 1 \in 1 .. L
    BY <1>5, <1>13
  <2>2. pv \in 0 .. N /\ nx \in 0 .. N /\ h \in 1 .. N /\ t \in 1 .. N
    <3>1. /\ p # 1 => s[p - 1] \in 1 .. N
          /\ p # L => s[p + 1] \in 1 .. N
          /\ s[1] \in 1 .. N /\ s[L] \in 1 .. N
      BY <1>5, <2>1
    <3>2. h \in 1 .. N /\ t \in 1 .. N
      BY <1>19, <3>1
    <3>3. pv = 0 \/ pv \in 1 .. N
      BY <1>19, <3>1 DEF Nil
    <3>4. nx = 0 \/ nx \in 1 .. N
      BY <1>19, <3>1 DEF Nil
    <3>. QED
      BY <1>13, <3>2, <3>3, <3>4
  <2>3. (p = 1 <=> h = q) /\ (p = L <=> t = q)
    BY <1>12, <1>20, <2>1, <1>13
  <2>4. pv # q /\ nx # q
    <3>1. p # p - 1 /\ p # p + 1
      BY <1>13
    <3>. QED
      BY <1>12, <1>13, <1>20, <3>1
  <2>. QED
    BY <2>2, <2>3, <2>4
<1>22. /\ d \in CacheType /\ Len(d.nodes) = N /\ d.map = K /\ d.free = G /\ d.size = z - old + b
       /\ d.head = q /\ d.tail = (IF p = L /\ p # 1 THEN pv ELSE t)
       /\ \A m \in 1 .. N :
            /\ d.nodes[m].key = A[m].key /\ d.nodes[m].block = A[m].block
            /\ d.nodes[m].prev = (IF p = 1 THEN M[m].prev
                                  ELSE IF m = h THEN q ELSE IF m = q THEN Nil
                                  ELSE IF m = nx THEN pv ELSE M[m].prev)
            /\ d.nodes[m].next = (IF p = 1 THEN M[m].next
                                  ELSE IF m = q THEN h
                                  ELSE IF m = pv THEN nx ELSE M[m].next)
  <2>1. CASE p = 1
    <3>1. d = e
      BY <1>16, <1>17, <1>21, <2>1 DEF move_to_head
    <3>. QED
      BY <1>15, <1>16, <1>21, <2>1, <3>1
  <2>2. CASE p # 1
    <3>1. e.head # q /\ A[q].prev = pv /\ A[q].next = nx
      BY <1>13, <1>15, <1>16, <1>18, <1>21, <2>2
    <3>2. PICK C1, C2 : C1 = SetNext(A, pv, nx) /\ C2 = SetPrev(C1, nx, pv)
      OBVIOUS
    <3>3. PICK C3, C4 : C3 = SetPrev(C2, q, Nil) /\ C4 = SetNext(C3, q, h)
      OBVIOUS
    <3>4. PICK C5 : C5 = SetPrev(C4, h, q)
      OBVIOUS
    <3>5. C4 = [C2 EXCEPT ![q].prev = Nil, ![q].next = h]
      BY <1>13, <3>3 DEF SetNext, SetPrev
    <3>6. d = [e EXCEPT !.nodes = C5, !.head = q, !.tail = IF @ = q THEN pv ELSE @]
      BY <1>16, <1>17, <3>1, <3>2, <3>4, <3>5 DEF move_to_head
    <3>7. pv \in Nat /\ nx \in Nat /\ h \in Nat /\ q \in Nat /\ Nil \in Nat /\ q \in 0 .. N /\ h \in 0 .. N
      BY <1>13, <1>21 DEF Nil
    <3>8. /\ C1 \in Seq(NodeType) /\ Len(C1) = N
          /\ \A m \in 1 .. N : /\ C1[m].key = A[m].key /\ C1[m].block = A[m].block
                               /\ C1[m].prev = A[m].prev
                               /\ C1[m].next = (IF m = pv THEN nx ELSE A[m].next)
      <4>1. A \in Seq(NodeType) /\ Len(A) = N /\ pv \in 0 .. N /\ nx \in Nat
        BY <1>15, <1>21, <3>7
      <4>2. NextIs(C1, A, N, pv, nx)
        BY <3>2, <4>1, PointerSet, Zenon
      <4>. QED
        BY <4>2 DEF NextIs
    <3>9. /\ C2 \in Seq(NodeType) /\ Len(C2) = N
          /\ \A m \in 1 .. N : /\ C2[m].key = C1[m].key /\ C2[m].block = C1[m].block
                               /\ C2[m].prev = (IF m = nx THEN pv ELSE C1[m].prev)
                               /\ C2[m].next = C1[m].next
      <4>1. C1 \in Seq(NodeType) /\ Len(C1) = N /\ nx \in 0 .. N /\ pv \in Nat
        BY <1>21, <3>7, <3>8
      <4>2. PrevIs(C2, C1, N, nx, pv)
        BY <3>2, <4>1, PointerSet, Zenon
      <4>. QED
        BY <4>2 DEF PrevIs
    <3>10. /\ C3 \in Seq(NodeType) /\ Len(C3) = N
           /\ \A m \in 1 .. N : /\ C3[m].key = C2[m].key /\ C3[m].block = C2[m].block
                                /\ C3[m].prev = (IF m = q THEN Nil ELSE C2[m].prev)
                                /\ C3[m].next = C2[m].next
      <4>1. C2 \in Seq(NodeType) /\ Len(C2) = N /\ q \in 0 .. N /\ Nil \in Nat
        BY <3>7, <3>9
      <4>2. PrevIs(C3, C2, N, q, Nil)
        BY <3>3, <4>1, PointerSet, Zenon
      <4>. QED
        BY <4>2 DEF PrevIs
    <3>11. /\ C4 \in Seq(NodeType) /\ Len(C4) = N
           /\ \A m \in 1 .. N : /\ C4[m].key = C3[m].key /\ C4[m].block = C3[m].block
                                /\ C4[m].prev = C3[m].prev
                                /\ C4[m].next = (IF m = q THEN h ELSE C3[m].next)
      <4>1. C3 \in Seq(NodeType) /\ Len(C3) = N /\ q \in 0 .. N /\ h \in Nat
        BY <3>7, <3>10
      <4>2. NextIs(C4, C3, N, q, h)
        BY <3>3, <4>1, PointerSet, Zenon
      <4>. QED
        BY <4>2 DEF NextIs
    <3>12. /\ C5 \in Seq(NodeType) /\ Len(C5) = N
           /\ \A m \in 1 .. N : /\ C5[m].key = C4[m].key /\ C5[m].block = C4[m].block
                                /\ C5[m].prev = (IF m = h THEN q ELSE C4[m].prev)
                                /\ C5[m].next = C4[m].next
      <4>1. C4 \in Seq(NodeType) /\ Len(C4) = N /\ h \in 0 .. N /\ q \in Nat
        BY <3>7, <3>11
      <4>2. PrevIs(C5, C4, N, h, q)
        BY <3>4, <4>1, PointerSet, Zenon
      <4>. QED
        BY <4>2 DEF PrevIs
    <3>13. \A m \in 1 .. N :
            /\ C5[m].key = A[m].key /\ C5[m].block = A[m].block
            /\ C5[m].prev = (IF m = h THEN q ELSE IF m = q THEN Nil
                             ELSE IF m = nx THEN pv ELSE M[m].prev)
            /\ C5[m].next = (IF m = q THEN h ELSE IF m = pv THEN nx ELSE M[m].next)
      <4>1. \A m \in 1 .. N : C5[m].key = A[m].key /\ C5[m].block = A[m].block
        BY <3>8, <3>9, <3>10, <3>11, <3>12
      <4>2. \A m \in 1 .. N : C5[m].prev = (IF m = h THEN q ELSE IF m = q THEN Nil
                                            ELSE IF m = nx THEN pv ELSE M[m].prev)
        BY <1>15, <3>8, <3>9, <3>10, <3>11, <3>12
      <4>3. \A m \in 1 .. N : C5[m].next = (IF m = q THEN h ELSE IF m = pv THEN nx ELSE M[m].next)
        BY <1>15, <3>8, <3>9, <3>10, <3>11, <3>12
      <4>. QED
        BY <4>1, <4>2, <4>3
    <3>14. PICK tl : tl = IF t = q THEN pv ELSE t
      OBVIOUS
    <3>15. tl \in Nat /\ tl = (IF p = L /\ p # 1 THEN pv ELSE t)
      BY <1>21, <2>2, <3>7, <3>14
    <3>16. d = [e EXCEPT !.nodes = C5, !.head = q, !.tail = tl]
      BY <1>16, <3>6, <3>14 DEF CacheType
    <3>17. /\ d \in CacheType /\ d.nodes = C5 /\ d.map = K /\ d.free = G /\ d.size = z - old + b
           /\ d.head = q /\ d.tail = tl
      BY <1>16, <3>7, <3>12, <3>15, <3>16 DEF CacheType
    <3>. QED
      BY <2>2, <3>12, <3>13, <3>15, <3>17
  <2>. QED
    BY <2>1, <2>2

<1>23. PICK W : W = d.nodes
  OBVIOUS
<1>24. PICK r : r = [i \in 1 .. L |-> IF i = 1 THEN q ELSE IF i <= p THEN s[i - 1] ELSE s[i]]
  OBVIOUS
<1>25. PICK from : from = [i \in 1 .. L |-> IF i = 1 THEN p ELSE IF i <= p THEN i - 1 ELSE i]
  OBVIOUS
<1>26. PICK to : to = [i \in 1 .. L |-> IF i = p THEN 1 ELSE IF i < p THEN i + 1 ELSE i]
  OBVIOUS
<1>27. /\ \A i \in 1 .. L : from[i] = (IF i = 1 THEN p ELSE IF i <= p THEN i - 1 ELSE i)
       /\ \A i \in 1 .. L : to[i] = (IF i = p THEN 1 ELSE IF i < p THEN i + 1 ELSE i)
  BY <1>25, <1>26
<1>28. /\ \A i \in 1 .. L : from[i] \in 1 .. L /\ to[i] \in 1 .. L
       /\ \A i \in 1 .. L : to[from[i]] = i /\ from[to[i]] = i
  <2>1. ASSUME NEW i \in 1 .. L
        PROVE  from[i] \in 1 .. L /\ to[i] \in 1 .. L /\ to[from[i]] = i /\ from[to[i]] = i
    <3>1. from[i] \in 1 .. L
      BY <1>13, <1>27
    <3>2. to[i] \in 1 .. L
      BY <1>13, <1>27
    <3>3. to[from[i]] = i
      BY <1>13, <1>27, <3>1
    <3>4. from[to[i]] = i
      BY <1>13, <1>27, <3>2
    <3>. QED
      BY <3>1, <3>2, <3>3, <3>4
  <2>. QED
    BY <2>1
<1>29. \A i \in 1 .. L : r[i] = s[from[i]] /\ r[i] \in 1 .. N
  <2>1. \A i \in 1 .. L : r[i] = (IF i = 1 THEN q ELSE IF i <= p THEN s[i - 1] ELSE s[i])
    BY <1>24
  <2>2. \A i \in 1 .. L : r[i] = s[from[i]]
    BY <1>12, <1>27, <2>1
  <2>. QED
    BY <1>5, <1>28, <2>2
<1>30. r \in Seq(1 .. N) /\ Len(r) = L
  BY <1>5, <1>24, <1>29
<1>31. \A i \in 1 .. L : s[i] = r[to[i]]
  BY <1>28, <1>29
<1>32. PICK total : total = [i \in 0 .. L |-> IF i = 0 THEN 0 ELSE IF i <= p THEN b + sum[i - 1]
                                              ELSE sum[i] - old + b]
  OBVIOUS
<1>33. /\ total[0] = 0
       /\ \A i \in 1 .. L : total[i] = IF i <= p THEN b + sum[i - 1] ELSE sum[i] - old + b
       /\ \A i \in 1 .. L : i - 1 \in 0 .. L /\ sum[i] \in Int /\ sum[i - 1] \in Int
       /\ \A i \in 0 .. L : total[i] \in Int
  <2>1. /\ total[0] = 0
        /\ \A i \in 1 .. L : total[i] = IF i <= p THEN b + sum[i - 1] ELSE sum[i] - old + b
    BY <1>5, <1>32
  <2>2. \A i \in 1 .. L : i - 1 \in 0 .. L /\ sum[i] \in Int /\ sum[i - 1] \in Int
    BY <1>5
  <2>3. ASSUME NEW i \in 1 .. L PROVE total[i] \in Int
    <3>1. total[i] = IF i <= p THEN b + sum[i - 1] ELSE sum[i] - old + b
      BY <2>1
    <3>2. sum[i] \in Int /\ sum[i - 1] \in Int
      BY <2>2
    <3>3. b + sum[i - 1] \in Int /\ sum[i] - old + b \in Int
      BY <1>13, <3>2
    <3>. QED
      BY <3>1, <3>3
  <2>4. \A i \in 0 .. L : i = 0 \/ i \in 1 .. L
    BY <1>5
  <2>. QED
    BY <2>1, <2>2, <2>3, <2>4
<1>34. /\ W \in Seq(NodeType) /\ Len(W) = N
       /\ \A m \in 1 .. N : /\ W[m].key = M[m].key
                            /\ W[m].block = (IF m = q THEN b ELSE M[m].block)
  BY <1>15, <1>22, <1>23 DEF CacheType
<1>35. Typed(W, K, G, r, total)
  BY <1>5, <1>30, <1>33, <1>34 DEF Typed
<1>36. Pointers(W, q, d.tail, G, r)
  <2>1. ASSUME NEW i \in 1 .. L
        PROVE  /\ W[r[i]].prev = (IF i = 1 THEN Nil ELSE r[i - 1])
               /\ W[r[i]].next = (IF i = L THEN Nil ELSE r[i + 1])
    <3>1. PICK j \in 1 .. L : j = from[i]
      BY <1>28
    <3>2. PICK m \in 1 .. N : m = r[i] /\ m = s[j]
      BY <1>29, <3>1
    <3>3. /\ M[m].prev = (IF j = 1 THEN Nil ELSE s[j - 1])
          /\ M[m].next = (IF j = L THEN Nil ELSE s[j + 1])
      BY <1>7, <3>2
    <3>4. /\ m = q <=> j = p
          /\ m = h <=> j = 1
          /\ m = pv <=> j = p - 1
          /\ m = nx <=> j = p + 1
      BY <1>20, <3>2
    <3>5. j = (IF i = 1 THEN p ELSE IF i <= p THEN i - 1 ELSE i)
      BY <1>27, <3>1
    <3>6. /\ i # 1 => i - 1 \in 1 .. L
          /\ i # L => i + 1 \in 1 .. L
      BY <1>5
    <3>7. /\ i # 1 => r[i - 1] = (IF i - 1 = 1 THEN q ELSE IF i - 1 <= p THEN s[(i - 1) - 1] ELSE s[i - 1])
          /\ i # L => r[i + 1] = (IF i + 1 <= p THEN s[i] ELSE s[i + 1])
      <4>1. (i + 1) - 1 = i /\ i + 1 # 1
        OBVIOUS
      <4>. QED
        BY <1>24, <3>6, <4>1
    <3>8. /\ W[m].prev = (IF p = 1 THEN M[m].prev
                          ELSE IF m = h THEN q ELSE IF m = q THEN Nil
                          ELSE IF m = nx THEN pv ELSE M[m].prev)
          /\ W[m].next = (IF p = 1 THEN M[m].next
                          ELSE IF m = q THEN h
                          ELSE IF m = pv THEN nx ELSE M[m].next)
      BY <1>22, <1>23
    <3>9. W[m].prev = (IF i = 1 THEN Nil ELSE r[i - 1])
      <4>1. CASE p = 1
        BY <1>12, <3>3, <3>5, <3>6, <3>7, <3>8, <4>1
      <4>2. CASE p # 1 /\ i = 1
        BY <1>13, <3>4, <3>5, <3>8, <4>2
      <4>3. CASE p # 1 /\ i # 1 /\ i <= p
        BY <1>13, <3>3, <3>4, <3>5, <3>6, <3>7, <3>8, <4>3
      <4>4. CASE p # 1 /\ i > p
        <5>1. i # 1 /\ j = i /\ i - 1 # 1 /\ ~ (i <= p) /\ i \in Int
          BY <1>13, <3>5, <4>4
        <5>2. m # h /\ m # q
          BY <3>4, <5>1, <4>4, <1>13
        <5>3. CASE i = p + 1
          <6>1. m = nx /\ r[i - 1] = s[p - 1] /\ pv = s[p - 1]
            BY <1>13, <1>19, <3>4, <3>7, <4>4, <5>1, <5>3
          <6>. QED
            BY <3>8, <4>4, <5>1, <5>2, <6>1
        <5>4. CASE i # p + 1
          <6>1. m # nx /\ r[i - 1] = s[i - 1]
            BY <1>13, <3>4, <3>7, <4>4, <5>1, <5>4
          <6>. QED
            BY <3>3, <3>8, <4>4, <5>1, <5>2, <6>1
        <5>. QED
          BY <5>3, <5>4
      <4>. QED
        BY <1>13, <4>1, <4>2, <4>3, <4>4
    <3>10. W[m].next = (IF i = L THEN Nil ELSE r[i + 1])
      <4>1. CASE p = 1
        BY <1>12, <3>3, <3>5, <3>6, <3>7, <3>8, <4>1
      <4>2. CASE p # 1 /\ i = 1
        BY <1>13, <1>19, <3>4, <3>5, <3>7, <3>8, <4>2
      <4>3. CASE p # 1 /\ i # 1 /\ i <= p
        <5>1. j = i - 1 /\ m # q /\ i \in Int
          BY <1>13, <3>4, <3>5, <4>3
        <5>2. CASE i = p
          <6>1. m = pv
            BY <3>4, <5>1, <5>2
          <6>2. (IF i = L THEN Nil ELSE r[i + 1]) = nx
            BY <1>13, <1>19, <3>7, <5>2
          <6>. QED
            BY <3>8, <4>3, <5>1, <6>1, <6>2
        <5>3. CASE i # p
          <6>1. m # pv /\ i # L /\ i + 1 <= p /\ j # L /\ j + 1 = i
            BY <1>13, <3>4, <4>3, <5>1, <5>3
          <6>. QED
            BY <3>3, <3>7, <3>8, <4>3, <5>1, <6>1
        <5>. QED
          BY <5>2, <5>3
      <4>4. CASE p # 1 /\ i > p
        BY <1>13, <3>3, <3>4, <3>5, <3>6, <3>7, <3>8, <4>4
      <4>. QED
        BY <1>13, <4>1, <4>2, <4>3, <4>4
    <3>. QED
      BY <3>2, <3>9, <3>10
  <2>2. q = r[1]
    BY <1>13, <1>24
  <2>3. d.tail = r[L]
    <3>1. L \in 1 .. L
      BY <1>13
    <3>2. r[L] = (IF L = 1 THEN q ELSE IF L <= p THEN s[L - 1] ELSE s[L])
      BY <1>24, <3>1
    <3>. QED
      BY <1>12, <1>13, <1>19, <1>22, <3>2
  <2>4. \A j \in 1 .. F : W[G[j]].next = Nil
    <3>1. \A j \in 1 .. F : G[j] \in 1 .. N /\ G[j] # q /\ G[j] # pv
      <4>1. p # 1 => p - 1 \in 1 .. L
        BY <1>13
      <4>2. \A j \in 1 .. F : G[j] \in 1 .. N /\ G[j] # q /\ G[j] # Nil
        BY <1>8, <1>12, <1>13 DEF Nil
      <4>3. p # 1 => \A j \in 1 .. F : G[j] # s[p - 1]
        BY <1>8, <4>1
      <4>. QED
        BY <1>19, <4>2, <4>3
    <3>2. \A m \in 1 .. N : m # q /\ m # pv => W[m].next = M[m].next
      BY <1>22, <1>23
    <3>. QED
      BY <1>7, <3>1, <3>2
  <2>. QED
    <3>1. L # 0 /\ Len(G) = F
      BY <1>4, <1>13
    <3>2. \A i \in 1 .. L : /\ W[r[i]].prev = (IF i = 1 THEN Nil ELSE r[i - 1])
                            /\ W[r[i]].next = (IF i = L THEN Nil ELSE r[i + 1])
      BY <2>1
    <3>. QED
      BY <1>30, <2>2, <2>3, <2>4, <3>1, <3>2, Zenon DEF Pointers
<1>37. Apart(W, G, r)
  <2>1. \A i, j \in 1 .. L : r[i] = r[j] => i = j
    <3>1. ASSUME NEW i \in 1 .. L, NEW j \in 1 .. L, r[i] = r[j] PROVE i = j
      <4>1. from[i] = from[j]
        BY <1>8, <1>28, <1>29, <3>1
      <4>. QED
        BY <1>28, <4>1
    <3>. QED
      BY <3>1
  <2>2. \A i \in 1 .. L, j \in 1 .. F : r[i] # G[j]
    BY <1>8, <1>28, <1>29
  <2>3. \A n \in 1 .. N : (\E i \in 1 .. L : r[i] = n) \/ (\E j \in 1 .. F : G[j] = n)
    BY <1>8, <1>28, <1>31
  <2>. QED
    BY <1>4, <1>8, <1>30, <1>34, <2>1, <2>2, <2>3, Zenon DEF Apart
<1>38. Mapped(W, K, r)
  <2>1. ASSUME NEW i \in 1 .. L PROVE K[W[r[i]].key] = r[i]
    <3>1. from[i] \in 1 .. L /\ r[i] = s[from[i]] /\ r[i] \in 1 .. N
      BY <1>28, <1>29
    <3>2. W[r[i]].key = M[r[i]].key
      BY <1>34, <3>1
    <3>3. K[M[s[from[i]]].key] = s[from[i]]
      BY <1>9, <3>1
    <3>. QED
      BY <3>1, <3>2, <3>3
  <2>2. ASSUME NEW x \in CacheKey, K[x] # Nil
        PROVE  \E i \in 1 .. L : r[i] = K[x] /\ W[r[i]].key = x
    <3>1. PICK i \in 1 .. L : s[i] = K[x] /\ M[s[i]].key = x
      BY <1>9, <2>2
    <3>2. to[i] \in 1 .. L /\ r[to[i]] = s[i] /\ s[i] \in 1 .. N
      BY <1>5, <1>28, <1>31
    <3>. QED
      BY <1>34, <3>1, <3>2
  <2>. QED
    BY <1>30, <2>1, <2>2 DEF Mapped
<1>39. Summed(W, z - old + b, r, total)
  <2>1. ASSUME NEW i \in 1 .. L PROVE total[i] = total[i - 1] + W[r[i]].block
    <3>1. PICK j \in 1 .. L : j = from[i]
      BY <1>28
    <3>2. j = (IF i = 1 THEN p ELSE IF i <= p THEN i - 1 ELSE i)
      BY <1>27, <3>1
    <3>3. r[i] = s[j] /\ s[j] \in 1 .. N /\ (s[j] = q <=> j = p)
      BY <1>5, <1>20, <1>29, <3>1
    <3>4. W[r[i]].block = (IF j = p THEN b ELSE M[s[j]].block)
      BY <1>34, <3>3
    <3>5. sum[j] = sum[j - 1] + M[s[j]].block /\ M[s[j]].block \in Nat
      BY <1>6, <1>10, <3>3
    <3>6. sum[p] = sum[p - 1] + old /\ sum[p] \in Int /\ sum[p - 1] \in Int
      BY <1>10, <1>12, <1>13, <1>33
    <3>7. CASE i = 1
      <4>1. total[i] = b + sum[0] /\ total[i - 1] = 0 /\ j = p
        BY <1>13, <1>33, <3>2, <3>7
      <4>. QED
        BY <1>10, <1>13, <3>4, <4>1
    <3>8. CASE i # 1 /\ i <= p
      <4>1. /\ j = i - 1 /\ j # p /\ j - 1 = i - 2 /\ i - 1 \in 1 .. L /\ i - 1 <= p
            /\ (i - 1) - 1 = i - 2 /\ i \in Int
        BY <1>13, <3>2, <3>8
      <4>2. total[i] = b + sum[i - 1] /\ total[i - 1] = b + sum[i - 2]
        BY <1>33, <3>8, <4>1
      <4>3. sum[i - 1] = sum[i - 2] + M[s[j]].block /\ sum[i - 1] \in Int /\ sum[i - 2] \in Int
        BY <1>33, <3>5, <4>1
      <4>. QED
        BY <1>13, <3>4, <3>5, <4>1, <4>2, <4>3, SMTT(60)
    <3>9. CASE i > p
      <4>1. j = i /\ j # p /\ i - 1 \in 1 .. L /\ i \in Int /\ i # 1 /\ ~ (i <= p)
        BY <1>13, <3>2, <3>9
      <4>2. total[i] = sum[i] - old + b
        BY <1>33, <4>1
      <4>3. sum[i] = sum[i - 1] + M[s[j]].block /\ sum[i] \in Int /\ sum[i - 1] \in Int
        BY <1>33, <3>5, <4>1
      <4>4. total[i - 1] = sum[i - 1] - old + b
        <5>1. CASE i - 1 = p
          <6>1. total[i - 1] = b + sum[p - 1]
            BY <1>13, <1>33, <5>1
          <6>. QED
            BY <1>13, <3>6, <5>1, <6>1
        <5>2. CASE i - 1 # p
          <6>1. ~ (i - 1 <= p)
            BY <1>13, <3>9, <5>2
          <6>. QED
            BY <1>33, <4>1, <6>1
        <5>. QED
          BY <5>1, <5>2
      <4>5. PICK x \in Nat, y \in Int : x = M[s[j]].block /\ y = sum[i - 1]
        BY <3>5, <4>3
      <4>6. W[r[i]].block = x /\ total[i] = (y + x) - old + b /\ total[i - 1] = y - old + b
        BY <3>4, <4>1, <4>2, <4>3, <4>4, <4>5
      <4>7. (y + x) - old + b = (y - old + b) + x
        BY <1>13
      <4>. QED
        BY <4>6, <4>7
    <3>. QED
      BY <1>13, <3>7, <3>8, <3>9
  <2>2. z - old + b = total[L]
    <3>1. L \in 1 .. L
      BY <1>13
    <3>2. total[L] = IF L <= p THEN b + sum[L - 1] ELSE sum[L] - old + b
      BY <1>33, <3>1
    <3>3. sum[p] = sum[p - 1] + old /\ sum[p] \in Int /\ sum[p - 1] \in Int
      BY <1>10, <1>12, <1>13, <1>33
    <3>4. CASE L <= p
      <4>1. L = p
        BY <1>13, <3>4
      <4>. QED
        BY <1>10, <1>13, <3>2, <3>3, <3>4, <4>1
    <3>5. CASE ~ (L <= p)
      BY <1>10, <3>2, <3>5
    <3>. QED
      BY <3>4, <3>5
  <2>. QED
    BY <1>30, <1>33, <2>1, <2>2 DEF Summed
<1>40. Linked(d, r, total)
  BY <1>22, <1>23, <1>35, <1>36, <1>37, <1>38, <1>39 DEF Linked
<1>41. /\ Len(r) = Len(s) /\ Len(d.nodes) = Len(c.nodes)
       /\ \A i \in 1 .. Len(s) :
            r[i] = (IF i = 1 THEN s[p] ELSE IF i <= p THEN s[i - 1] ELSE s[i])
       /\ \A n \in 1 .. Len(c.nodes) :
            /\ d.nodes[n].key = c.nodes[n].key
            /\ d.nodes[n].block = IF n = s[p] THEN b ELSE c.nodes[n].block
  BY <1>1, <1>4, <1>12, <1>22, <1>23, <1>24, <1>30, <1>34
<1>43. Moved(c, s, p, b, d, r)
  BY <1>41 DEF Moved
<1>. QED
  BY <1>40, <1>42, <1>43

\* The cache after any number of evictions is defined.
LEMMA AfterDefined ==
    ASSUME NEW c, NEW N \in Nat
    PROVE  \E f : f = [n \in 0 .. N |-> IF n = 0 THEN c ELSE remove_tail(f[n - 1])]
<1>. DEFINE S == { m \in Nat : \E f : f = [n \in 0 .. m |-> IF n = 0 THEN c ELSE remove_tail(f[n - 1])] }
<1>1. 0 \in S
  <2>1. PICK f : f = [n \in 0 .. 0 |-> c]
    OBVIOUS
  <2>2. \A n \in 0 .. 0 : n = 0
    OBVIOUS
  <2>3. f = [n \in 0 .. 0 |-> IF n = 0 THEN c ELSE remove_tail(f[n - 1])]
    BY <2>1, <2>2
  <2>. QED
    BY <2>3
<1>2. ASSUME NEW m \in Nat, m \in S
      PROVE  m + 1 \in S
  <2>1. PICK f : f = [n \in 0 .. m |-> IF n = 0 THEN c ELSE remove_tail(f[n - 1])]
    BY <1>2
  <2>2. PICK g : g = [n \in 0 .. m + 1 |-> IF n = m + 1 THEN remove_tail(f[m]) ELSE f[n]]
    OBVIOUS
  <2>3. ASSUME NEW n \in 0 .. m + 1
        PROVE  g[n] = IF n = 0 THEN c ELSE remove_tail(g[n - 1])
    <3>1. CASE n = m + 1
      <4>1. n # 0 /\ n - 1 \in 0 .. m + 1 /\ n - 1 # m + 1 /\ n - 1 = m
        BY <1>2, <3>1
      <4>2. g[n] = remove_tail(f[m]) /\ g[n - 1] = f[m]
        BY <2>2, <3>1, <4>1
      <4>. QED
        BY <4>1, <4>2
    <3>2. CASE n # m + 1
      <4>1. n \in 0 .. m /\ (n # 0 => n - 1 \in 0 .. m + 1 /\ n - 1 # m + 1)
        BY <1>2, <3>2
      <4>2. f[n] = IF n = 0 THEN c ELSE remove_tail(f[n - 1])
        BY <2>1, <4>1
      <4>3. g[n] = f[n] /\ (n # 0 => g[n - 1] = f[n - 1])
        BY <2>2, <3>2, <4>1
      <4>. QED
        BY <4>2, <4>3
    <3>. QED
      BY <3>1, <3>2
  <2>4. g = [n \in 0 .. m + 1 |-> g[n]]
    BY <2>2
  <2>5. g = [n \in 0 .. m + 1 |-> IF n = 0 THEN c ELSE remove_tail(g[n - 1])]
    BY <2>3, <2>4
  <2>. QED
    BY <1>2, <2>5
<1>3. N \in S
  <2>. HIDE DEF S
  <2>. QED
    BY <1>1, <1>2, SetInduction
<1>. QED
  BY <1>3

\* Cache d has the longest part from the head of c that fits, in the nodes of r.
Left(c, s, sum, d, r) ==
    /\ Len(r) <= Len(s) /\ \A i \in 1 .. Len(r) : r[i] = s[i]
    /\ sum[Len(r)] <= Capacity
    /\ \A j \in Len(r) + 1 .. Len(s) : ~ (sum[j] <= Capacity)
    /\ Len(d.nodes) = Len(c.nodes)
    /\ \A n \in 1 .. Len(c.nodes) : /\ d.nodes[n].key = c.nodes[n].key
                                    /\ d.nodes[n].block = c.nodes[n].block

\* evict_if_needed keeps the longest part from the head that fits.
LEMMA Evicted ==
    ASSUME NEW c, NEW s, NEW sum, Linked(c, s, sum)
    PROVE  \E d, r : d = evict_if_needed(c) /\ Linked(d, r, sum) /\ Left(c, s, sum, d, r)
<1>1. PICK N, L : N = Len(c.nodes) /\ L = Len(s)
  OBVIOUS
<1>2. /\ N \in Nat /\ L \in Nat
      /\ s \in Seq(1 .. N) /\ \A i \in 1 .. L : s[i] \in 1 .. N
      /\ \A i, j \in 1 .. L : s[i] = s[j] => i = j
      /\ sum[0] = 0 /\ \A i \in 0 .. L : sum[i] \in Int
  <2>1. c.nodes \in Seq(NodeType) /\ s \in Seq(1 .. N) /\ \A i \in 0 .. L : sum[i] \in Int
    BY <1>1 DEF Linked, Typed
  <2>2. \A i, j \in 1 .. L : s[i] = s[j] => i = j
    BY <1>1 DEF Linked, Apart
  <2>3. sum[0] = 0
    BY DEF Linked, Summed
  <2>. QED
    BY <1>1, <2>1, <2>2, <2>3
<1>3. L <= N
  <2>1. IsFiniteSet(1 .. N) /\ Cardinality(1 .. N) = N /\ IsFiniteSet(1 .. L) /\ Cardinality(1 .. L) = L
    BY <1>2, CountTo
  <2>2. SUFFICES ASSUME N < L PROVE FALSE
    BY <1>2
  <2>3. PICK f : f = [i \in 1 .. L |-> s[i]]
    OBVIOUS
  <2>4. f \in [1 .. L -> 1 .. N] /\ \A i, j \in 1 .. L : f[i] = f[j] => i = j
    BY <1>2, <2>3
  <2>5. Cardinality(1 .. N) < Cardinality(1 .. L)
    BY <2>1, <2>2
  <2>6. \E x, y \in 1 .. L : x # y /\ f[x] = f[y]
    BY <2>1, <2>4, <2>5, FS_PigeonHole
  <2>. QED
    BY <2>4, <2>6
<1>4. PICK after : after = [n \in 0 .. N |-> IF n = 0 THEN c ELSE remove_tail(after[n - 1])]
  <2>1. N \in Nat
    BY <1>2
  <2>. QED
    BY <2>1, AfterDefined, Zenon
<1>5. after[0] = c /\ \A n \in 1 .. N : after[n] = remove_tail(after[n - 1])
  BY <1>2, <1>4
<1>. DEFINE At(n, r) == /\ Linked(after[n], r, sum)
                        /\ Len(r) = L - n /\ \A i \in 1 .. L - n : r[i] = s[i]
                        /\ Len(after[n].nodes) = N
                        /\ \A m \in 1 .. N : /\ after[n].nodes[m].key = c.nodes[m].key
                                             /\ after[n].nodes[m].block = c.nodes[m].block
            S == { n \in Nat : n <= L => \E r : At(n, r) }
<1>6. 0 \in S
  <2>1. At(0, s)
    BY <1>1, <1>2, <1>5
  <2>. QED
    BY <2>1
<1>7. ASSUME NEW n \in Nat, n \in S
      PROVE  n + 1 \in S
  <2>1. SUFFICES ASSUME n + 1 <= L PROVE \E r : At(n + 1, r)
    BY <1>7
  <2>2. PICK r : At(n, r)
    BY <1>2, <1>7, <2>1
  <2>3. after[n + 1] = remove_tail(after[n])
    BY <1>2, <1>3, <1>5, <1>7, <2>1
  <2>4. Len(r) # 0 /\ Len(r) - 1 = L - (n + 1) /\ Len(r) = L - n
    BY <1>2, <1>7, <2>1, <2>2
  <2>5. PICK q : q = SubSeq(r, 1, Len(r) - 1)
    OBVIOUS
  <2>6. /\ Linked(after[n + 1], q, sum)
        /\ Len(after[n + 1].nodes) = Len(after[n].nodes)
        /\ \A m \in 1 .. Len(after[n].nodes) :
             /\ after[n + 1].nodes[m].key = after[n].nodes[m].key
             /\ after[n + 1].nodes[m].block = after[n].nodes[m].block
    <3>1. Linked(after[n], r, sum)
      BY <2>2
    <3>. QED
      BY <2>3, <2>4, <2>5, <3>1, TailRemoved
  <2>7. r \in Seq(1 .. N) /\ \A i \in 1 .. L - n : r[i] = s[i]
    BY <2>2 DEF Linked, Typed
  <2>8. Len(q) = L - (n + 1) /\ \A i \in 1 .. L - (n + 1) : q[i] = s[i]
    <3>1. PICK e \in Nat : e = L - (n + 1)
      BY <1>2, <1>7, <2>1
    <3>2. Len(r) - 1 = e /\ Len(r) = e + 1 /\ L - n = e + 1
      BY <1>2, <2>4, <3>1
    <3>3. q = SubSeq(r, 1, e)
      BY <2>5, <3>2
    <3>4. Len(q) = e /\ \A i \in 1 .. e : q[i] = r[i]
      BY <2>7, <3>1, <3>2, <3>3
    <3>5. \A i \in 1 .. e : i \in 1 .. e + 1
      BY <3>1
    <3>. QED
      BY <2>7, <3>1, <3>2, <3>4, <3>5
  <2>9. At(n + 1, q)
    BY <2>2, <2>6, <2>8
  <2>. QED
    BY <2>9
<1>8. \A n \in 0 .. L : \E r : At(n, r)
  <2>. HIDE DEF S
  <2>1. \A n \in Nat : n \in S
    BY <1>6, <1>7, SetInduction
  <2>2. \A n \in 0 .. L : n \in Nat /\ n <= L
    BY <1>2
  <2>. QED
    BY <2>1, <2>2 DEF S
<1>9. \A n \in 0 .. L : after[n].size = sum[L - n]
  <2>1. ASSUME NEW n \in 0 .. L PROVE after[n].size = sum[L - n]
    <3>1. PICK r : At(n, r)
      BY <1>8
    <3>. QED
      BY <3>1 DEF Linked, Summed
  <2>. QED
    BY <2>1
<1>. DEFINE F == { n \in 0 .. N : after[n].size <= Capacity }
<1>10. L \in F
  <2>1. L - L = 0 /\ L \in 0 .. L /\ L \in 0 .. N
    BY <1>2, <1>3
  <2>2. after[L].size = 0
    BY <1>2, <1>9, <2>1
  <2>. QED
    BY <2>1, <2>2, CacheAssumption
<1>11. PICK k \in F : \A n \in F : k <= n
  <2>1. F \in SUBSET Nat /\ F # {}
    BY <1>10
  <2>. HIDE DEF F
  <2>. QED
    BY <2>1, LeastNatural
<1>12. k \in 0 .. L /\ after[k].size <= Capacity /\ \A m \in 0 .. k - 1 : ~ (after[m].size <= Capacity)
  <2>1. k \in 0 .. L /\ after[k].size <= Capacity
    BY <1>2, <1>10, <1>11
  <2>2. ASSUME NEW m \in 0 .. k - 1, after[m].size <= Capacity PROVE FALSE
    <3>1. m \in 0 .. N /\ m < k
      BY <1>2, <1>3, <2>1
    <3>2. m \in F
      BY <2>2, <3>1
    <3>. QED
      BY <1>11, <2>1, <3>1, <3>2
  <2>. QED
    BY <2>1, <2>2
<1>13. \A n \in 0 .. N : (/\ after[n].size <= Capacity
                          /\ \A m \in 0 .. n - 1 : ~ (after[m].size <= Capacity)) => n = k
  <2>1. ASSUME NEW n \in 0 .. N, after[n].size <= Capacity,
               \A m \in 0 .. n - 1 : ~ (after[m].size <= Capacity), n # k
        PROVE  FALSE
    <3>1. n \in F
      BY <2>1
    <3>2. k <= n /\ k \in Int /\ n \in Int
      BY <1>2, <1>11, <1>12, <3>1
    <3>3. k \in 0 .. n - 1
      BY <1>12, <2>1, <3>2
    <3>. QED
      BY <1>12, <2>1, <3>3
  <2>. QED
    BY <2>1
<1>14. evict_if_needed(c) = after[k]
  <2>1. PICK g : g = CHOOSE f : f = [n \in 0 .. N |-> IF n = 0 THEN c ELSE remove_tail(f[n - 1])]
    OBVIOUS
  <2>2. g = [n \in 0 .. N |-> IF n = 0 THEN c ELSE remove_tail(g[n - 1])]
    BY <1>4, <2>1
  <2>3. \A n \in 0 .. N : g[n] = after[n]
    <3>. DEFINE T == { n \in Nat : n <= N => g[n] = after[n] }
    <3>1. 0 \in T
      BY <1>2, <1>5, <2>2
    <3>2. ASSUME NEW n \in Nat, n \in T PROVE n + 1 \in T
      <4>1. SUFFICES ASSUME n + 1 <= N PROVE g[n + 1] = after[n + 1]
        BY <3>2
      <4>2. g[n] = after[n]
        BY <1>2, <3>2, <4>1
      <4>3. n + 1 \in 0 .. N /\ n + 1 \in 1 .. N /\ n + 1 # 0 /\ (n + 1) - 1 = n
        BY <1>2, <3>2, <4>1
      <4>4. g[n + 1] = remove_tail(g[n])
        BY <2>2, <4>3
      <4>. QED
        BY <1>5, <4>2, <4>3, <4>4
    <3>3. \A n \in Nat : n \in T
      <4>. HIDE DEF T
      <4>. QED
        BY <3>1, <3>2, SetInduction
    <3>. QED
      BY <1>2, <3>3
  <2>4. g = after
    BY <1>4, <2>2, <2>3
  <2>5. k \in 0 .. N
    BY <1>11
  <2>6. k = CHOOSE n \in 0 .. N : /\ after[n].size <= Capacity
                                  /\ \A m \in 0 .. n - 1 : ~ (after[m].size <= Capacity)
    BY <1>12, <1>13, <2>5
  <2>. QED
    BY <1>1, <2>1, <2>4, <2>6 DEF evict_if_needed
<1>15. PICK r : At(k, r)
  BY <1>8, <1>12
<1>16. \A j \in L - k + 1 .. L : ~ (sum[j] <= Capacity)
  <2>1. ASSUME NEW j \in L - k + 1 .. L PROVE ~ (sum[j] <= Capacity)
    <3>1. L - j \in 0 .. k - 1 /\ L - j \in 0 .. L /\ L - (L - j) = j
      BY <1>2, <1>12
    <3>. QED
      BY <1>9, <1>12, <3>1
  <2>. QED
    BY <2>1
<1>17. /\ Linked(after[k], r, sum)
       /\ Len(r) <= Len(s) /\ \A i \in 1 .. Len(r) : r[i] = s[i]
       /\ sum[Len(r)] <= Capacity
       /\ \A j \in Len(r) + 1 .. Len(s) : ~ (sum[j] <= Capacity)
       /\ Len(after[k].nodes) = Len(c.nodes)
       /\ \A n \in 1 .. Len(c.nodes) : /\ after[k].nodes[n].key = c.nodes[n].key
                                       /\ after[k].nodes[n].block = c.nodes[n].block
  <2>1. Len(r) = L - k /\ L - k <= L
    BY <1>2, <1>12, <1>15
  <2>2. sum[L - k] <= Capacity
    BY <1>9, <1>12
  <2>. QED
    BY <1>1, <1>15, <1>16, <2>1, <2>2
<1>18. Left(c, s, sum, after[k], r)
  BY <1>17 DEF Left
<1>. QED
  BY <1>14, <1>17, <1>18, Zenon

\* LinkedList follows the pointers from node to node.
LEMMA ListFollowed ==
    ASSUME NEW s, NEW sum, Linked(cache, s, sum)
    PROVE  LinkedList = s
<1>1. PICK M, G, h : M = cache.nodes /\ G = cache.free /\ h = cache.head
  OBVIOUS
<1>2. PICK N, L, F : N = Len(M) /\ L = Len(s) /\ F = Len(G)
  OBVIOUS
<1>3. /\ N \in Nat /\ L \in Nat /\ s \in Seq(1 .. N)
      /\ \A i \in 1 .. L : s[i] \in 1 .. N
  <2>1. M \in Seq(NodeType) /\ s \in Seq(1 .. N)
    BY <1>1, <1>2 DEF Linked, Typed
  <2>. QED
    BY <1>2, <2>1
<1>4. /\ \A i, j \in 1 .. L : s[i] = s[j] => i = j
      /\ \A i \in 1 .. L, j \in 1 .. F : s[i] # G[j]
      /\ \A n \in 1 .. N : (\E i \in 1 .. L : s[i] = n) \/ (\E j \in 1 .. F : G[j] = n)
  BY <1>1, <1>2 DEF Linked, Apart
<1>5. /\ \A i \in 1 .. L : M[s[i]].next = (IF i = L THEN Nil ELSE s[i + 1])
      /\ h = (IF L = 0 THEN Nil ELSE s[1])
      /\ \A j \in 1 .. F : M[G[j]].next = Nil
  BY <1>1, <1>2 DEF Linked, Pointers
<1>6. PICK next : next = [n \in 1 .. N |-> M[n].next]
  OBVIOUS
<1>7. Following(1 .. N, Nil, next, s)
  <2>1. \A i \in 1 .. L : next[s[i]] = (IF i = L THEN Nil ELSE s[i + 1])
    BY <1>3, <1>5, <1>6
  <2>2. \A n \in 1 .. N : (\E i \in 1 .. L : s[i] = n) \/ next[n] = Nil
    BY <1>4, <1>5, <1>6
  <2>3. Nil \notin 1 .. N
    BY <1>3 DEF Nil
  <2>. QED
    BY <1>2, <1>3, <1>4, <2>1, <2>2, <2>3 DEF Following
<1>8. (1 .. N) \cup {Nil} = 0 .. N /\ \A n \in 0 .. N : n # Nil => n \in 1 .. N
  BY <1>3 DEF Nil
<1>. DEFINE From(f) == f = [n \in 0 .. N |-> IF n = Nil THEN << >> ELSE << n >> \o f[M[n].next]]
<1>9. \E f : From(f)
  <2>1. PICK f : RestsOf(1 .. N, Nil, next, f)
    BY <1>7, RestDefined
  <2>2. f = [n \in 0 .. N |-> IF n = Nil THEN << >> ELSE << n >> \o f[next[n]]]
    BY <1>8, <2>1 DEF RestsOf
  <2>3. From(f)
    BY <1>6, <1>8, <2>2
  <2>. HIDE DEF From
  <2>. QED
    BY <2>3
<1>10. PICK g : g = (CHOOSE f : From(f)) /\ From(g)
  <2>. HIDE DEF From
  <2>. QED
    BY <1>9
<1>11. Walks(1 .. N, Nil, next, g)
  <2>1. \A n \in 1 .. N : n \in 0 .. N /\ n # Nil /\ next[n] = M[n].next
    BY <1>3, <1>6 DEF Nil
  <2>2. \A n \in 0 .. N : g[n] = IF n = Nil THEN << >> ELSE << n >> \o g[M[n].next]
    BY <1>10
  <2>3. Nil \in 0 .. N
    BY <1>8
  <2>. QED
    BY <2>1, <2>2, <2>3 DEF Walks
<1>12. IF Len(s) = 0 THEN g[Nil] = s ELSE g[s[1]] = s
  <2>. HIDE DEF From
  <2>. QED
    BY <1>7, <1>11, RestFollowed
<1>13. g[h] = s
  BY <1>2, <1>5, <1>12
<1>14. LinkedList = g[h]
  BY <1>1, <1>2, <1>10 DEF LinkedList
<1>. QED
  BY <1>13, <1>14

\* In a cache whose blocks are linked, list, map and free list agree.
LEMMA LinkedWoven ==
    ASSUME NEW s, NEW sum, Linked(cache, s, sum)
    PROVE  Woven
<1>1. PICK M, K, G, t : M = cache.nodes /\ K = cache.map /\ G = cache.free /\ t = cache.tail
  OBVIOUS
<1>2. PICK N, L, F : N = Len(M) /\ L = Len(s) /\ F = Len(G)
  OBVIOUS
<1>3. /\ N \in Nat /\ L \in Nat /\ F \in Nat
      /\ DOMAIN s = 1 .. L /\ DOMAIN G = 1 .. F
      /\ \A i \in 1 .. L : s[i] \in 1 .. N
      /\ s = << >> <=> L = 0
  <2>1. M \in Seq(NodeType) /\ G \in Seq(Nat) /\ s \in Seq(1 .. N)
    BY <1>1, <1>2 DEF Linked, Typed
  <2>. QED
    BY <1>2, <2>1
<1>4. /\ \A i, j \in 1 .. L : s[i] = s[j] => i = j
      /\ \A i, j \in 1 .. F : G[i] = G[j] => i = j
      /\ \A i \in 1 .. L, j \in 1 .. F : s[i] # G[j]
      /\ \A n \in 1 .. N : (\E i \in 1 .. L : s[i] = n) \/ (\E j \in 1 .. F : G[j] = n)
      /\ \A j \in 1 .. F : G[j] \in 1 .. N
  BY <1>1, <1>2 DEF Linked, Apart
<1>5. /\ \A i \in 1 .. L : M[s[i]].prev = (IF i = 1 THEN Nil ELSE s[i - 1])
      /\ t = (IF L = 0 THEN Nil ELSE s[L])
  BY <1>1, <1>2 DEF Linked, Pointers
<1>6. /\ \A i \in 1 .. L : K[M[s[i]].key] = s[i]
      /\ \A x \in CacheKey : K[x] # Nil => \E i \in 1 .. L : s[i] = K[x]
  BY <1>1, <1>2 DEF Linked, Mapped
<1>7. LinkedList = s
  BY ListFollowed
<1>8. PICK S, H : S = { s[i] : i \in 1 .. L } /\ H = { G[j] : j \in 1 .. F }
  OBVIOUS
<1>9. ListedNodes = S /\ FreeNodes = H
  BY <1>1, <1>3, <1>7, <1>8 DEF ListedNodes, FreeNodes
<1>10. Cardinality(S) = L /\ Cardinality(H) = F
  <2>1. \A x : x \in S <=> \E i \in 1 .. L : s[i] = x
    BY <1>8
  <2>2. \A x : x \in H <=> \E i \in 1 .. F : G[i] = x
    BY <1>8
  <2>3. L \in Nat /\ \A i, j \in 1 .. L : s[i] = s[j] => i = j
    BY <1>3, <1>4
  <2>4. F \in Nat /\ \A i, j \in 1 .. F : G[i] = G[j] => i = j
    BY <1>3, <1>4
  <2>5. Cardinality(S) = L
    BY <2>1, <2>3, MembersCounted
  <2>6. Cardinality(H) = F
    BY <2>2, <2>4, MembersCounted
  <2>. QED
    BY <2>5, <2>6
<1>11. S \cap H = {} /\ S \cup H = 1 .. N
  BY <1>3, <1>4, <1>8
<1>12. \A k \in CacheKey : K[k] \in S \cup {Nil}
  BY <1>6, <1>8
<1>13. /\ \A i \in DOMAIN LinkedList :
            /\ cache.nodes[LinkedList[i]].prev = (IF i = 1 THEN Nil ELSE LinkedList[i - 1])
            /\ cache.map[cache.nodes[LinkedList[i]].key] = LinkedList[i]
       /\ cache.tail = (IF LinkedList = << >> THEN Nil ELSE LinkedList[Len(LinkedList)])
  BY <1>1, <1>2, <1>3, <1>5, <1>6, <1>7
<1>14. Cardinality(ListedNodes) = Len(LinkedList) /\ Cardinality(FreeNodes) = Len(cache.free)
  BY <1>1, <1>2, <1>7, <1>9, <1>10
<1>15. /\ ListedNodes \cap FreeNodes = {} /\ ListedNodes \cup FreeNodes = 1 .. Len(cache.nodes)
       /\ \A k \in CacheKey : cache.map[k] \in ListedNodes \cup {Nil}
  BY <1>1, <1>2, <1>9, <1>11, <1>12
<1>. QED
  BY <1>13, <1>14, <1>15 DEF Woven

\* In e, block b is the first under key k, and the blocks that c has in the nodes of
\* s follow in their order, but for the one at p if it was under k.
InFront(c, s, k, b, e, t, p) ==
    /\ p \in 1 .. Len(s) + 1
    /\ Len(t) = (IF p = Len(s) + 1 THEN Len(s) + 1 ELSE Len(s))
    /\ p # Len(s) + 1 => c.nodes[s[p]].key = k
    /\ \A i \in 1 .. Len(s) : i # p => c.nodes[s[i]].key # k
    /\ e.nodes[t[1]].key = k /\ e.nodes[t[1]].block = b
    /\ \A i \in 2 .. Len(t) :
         /\ e.nodes[t[i]].key = c.nodes[s[IF i <= p THEN i - 1 ELSE i]].key
         /\ e.nodes[t[i]].block = c.nodes[s[IF i <= p THEN i - 1 ELSE i]].block

\* insert puts the block at the head, in front of the other blocks, which keep
\* their order, and lets go of the ones that do not fit.
LEMMA Fronted ==
    ASSUME NEW c, NEW s, NEW sum, Linked(c, s, sum), NEW k \in CacheKey, NEW b \in Block
    PROVE  \E t, e, total, p :
            /\ Inserted(c, k, b) = evict_if_needed(e)
            /\ Linked(e, t, total)
            /\ InFront(c, s, k, b, e, t, p)
<1>1. PICK M, K, N, L : M = c.nodes /\ K = c.map /\ N = Len(M) /\ L = Len(s)
  OBVIOUS
<1>2. /\ N \in Nat /\ L \in Nat
      /\ \A i \in 1 .. L : s[i] \in 1 .. N
      /\ \A i, j \in 1 .. L : s[i] = s[j] => i = j
  <2>1. M \in Seq(NodeType) /\ s \in Seq(1 .. N)
    BY <1>1 DEF Linked, Typed
  <2>2. \A i, j \in 1 .. L : s[i] = s[j] => i = j
    BY <1>1 DEF Linked, Apart
  <2>. QED
    BY <1>1, <2>1, <2>2
<1>3. /\ \A i \in 1 .. L : K[M[s[i]].key] = s[i]
      /\ \A x \in CacheKey : K[x] # Nil => \E i \in 1 .. L : s[i] = K[x] /\ M[s[i]].key = x
  BY <1>1 DEF Linked, Mapped
<1>4. CASE K[k] = Nil
  <2>0. PICK r, d, total : NewHead(c, s, k, b, r, d, total)
    <3>1. c.map[k] = Nil
      BY <1>1, <1>4
    <3>. QED
      BY <3>1, HeadAdded
  <2>1. /\ Linked(d, r, total)
        /\ Len(r) = L + 1
        /\ \A i \in 1 .. L : r[i + 1] = s[i]
        /\ \A n \in 1 .. N :
             n # r[1] => d.nodes[n].key = M[n].key /\ d.nodes[n].block = M[n].block
        /\ d.nodes[r[1]].key = k /\ d.nodes[r[1]].block = b
    BY <1>1, <2>0 DEF NewHead
  <2>2. Inserted(c, k, b) = evict_if_needed(d)
    BY <1>1, <1>4, <2>0 DEF Inserted, NewHead
  <2>3. \A i, j \in 1 .. L + 1 : r[i] = r[j] => i = j
    <3>1. \A i, j \in 1 .. Len(r) : r[i] = r[j] => i = j
      BY <2>0 DEF NewHead, Linked, Apart
    <3>. QED
      BY <2>1, <3>1
  <2>4. \A i \in 1 .. L : M[s[i]].key # k
    BY <1>2, <1>3, <1>4 DEF Nil
  <2>5. \A i \in 2 .. L + 1 : d.nodes[r[i]].key = M[s[i - 1]].key /\ d.nodes[r[i]].block = M[s[i - 1]].block
    <3>1. ASSUME NEW i \in 2 .. L + 1
          PROVE  d.nodes[r[i]].key = M[s[i - 1]].key /\ d.nodes[r[i]].block = M[s[i - 1]].block
      <4>1. i \in 1 .. L + 1 /\ 1 \in 1 .. L + 1 /\ i # 1 /\ i - 1 \in 1 .. L /\ (i - 1) + 1 = i
        BY <1>2
      <4>2. r[i] = s[i - 1] /\ r[i] # r[1]
        BY <2>1, <2>3, <4>1
      <4>3. r[i] \in 1 .. N
        BY <1>2, <4>1, <4>2
      <4>. QED
        BY <2>1, <4>2, <4>3
    <3>. QED
      BY <3>1
  <2>6. PICK p : p = L + 1
    OBVIOUS
  <2>7. \A i \in 2 .. L + 1 : i <= p
    BY <1>2, <2>6
  <2>8. /\ p \in 1 .. L + 1
        /\ Len(r) = (IF p = L + 1 THEN L + 1 ELSE L)
        /\ p # L + 1 => M[s[p]].key = k
        /\ \A i \in 1 .. L : i # p => M[s[i]].key # k
        /\ \A i \in 2 .. Len(r) :
             /\ d.nodes[r[i]].key = M[s[IF i <= p THEN i - 1 ELSE i]].key
             /\ d.nodes[r[i]].block = M[s[IF i <= p THEN i - 1 ELSE i]].block
    BY <1>2, <2>1, <2>4, <2>5, <2>6, <2>7
  <2>9. /\ p \in 1 .. Len(s) + 1
        /\ Len(r) = (IF p = Len(s) + 1 THEN Len(s) + 1 ELSE Len(s))
        /\ p # Len(s) + 1 => c.nodes[s[p]].key = k
        /\ \A i \in 1 .. Len(s) : i # p => c.nodes[s[i]].key # k
        /\ \A i \in 2 .. Len(r) :
             /\ d.nodes[r[i]].key = c.nodes[s[IF i <= p THEN i - 1 ELSE i]].key
             /\ d.nodes[r[i]].block = c.nodes[s[IF i <= p THEN i - 1 ELSE i]].block
    BY <1>1, <2>8
  <2>10. InFront(c, s, k, b, d, r, p)
    BY <2>1, <2>9 DEF InFront
  <2>. QED
    BY <2>1, <2>2, <2>10, Zenon
<1>5. CASE K[k] # Nil
  <2>1. PICK p \in 1 .. L : s[p] = K[k] /\ M[s[p]].key = k
    BY <1>3, <1>5
  <2>0. PICK r, d, total :
            d = Touched(c, s[p], b) /\ Linked(d, r, total) /\ Moved(c, s, p, b, d, r)
    <3>1. p \in 1 .. Len(s)
      BY <1>1
    <3>. QED
      BY <3>1, HeadMoved
  <2>2.     /\ d = Touched(c, s[p], b)
            /\ Linked(d, r, total)
            /\ Len(r) = L
            /\ \A i \in 1 .. L :
                 r[i] = (IF i = 1 THEN s[p] ELSE IF i <= p THEN s[i - 1] ELSE s[i])
            /\ \A n \in 1 .. N :
                 /\ d.nodes[n].key = M[n].key
                 /\ d.nodes[n].block = IF n = s[p] THEN b ELSE M[n].block
    BY <1>1, <2>0 DEF Moved
  <2>3. Inserted(c, k, b) = evict_if_needed(d)
    BY <1>1, <1>5, <2>1, <2>2 DEF Inserted, Touched
  <2>4. \A i \in 1 .. L : i # p => M[s[i]].key # k
    BY <1>2, <1>3, <2>1
  <2>5. 1 \in 1 .. L /\ r[1] = s[p] /\ d.nodes[r[1]].key = k /\ d.nodes[r[1]].block = b
    BY <1>2, <2>1, <2>2
  <2>6. \A i \in 2 .. L :
             /\ d.nodes[r[i]].key = M[s[IF i <= p THEN i - 1 ELSE i]].key
             /\ d.nodes[r[i]].block = M[s[IF i <= p THEN i - 1 ELSE i]].block
    <3>1. ASSUME NEW i \in 2 .. L
          PROVE  /\ d.nodes[r[i]].key = M[s[IF i <= p THEN i - 1 ELSE i]].key
                 /\ d.nodes[r[i]].block = M[s[IF i <= p THEN i - 1 ELSE i]].block
      <4>1. PICK q : q = IF i <= p THEN i - 1 ELSE i
        OBVIOUS
      <4>2. i \in 1 .. L /\ i # 1 /\ q \in 1 .. L /\ q # p
        BY <1>2, <4>1
      <4>3. r[i] = s[q] /\ s[q] # s[p] /\ s[q] \in 1 .. N
        BY <1>2, <2>2, <4>1, <4>2
      <4>. QED
        BY <2>2, <4>1, <4>3
    <3>. QED
      BY <3>1
  <2>7. p \in 1 .. L + 1 /\ p # L + 1
    BY <1>2
  <2>8. /\ p \in 1 .. Len(s) + 1
        /\ Len(r) = (IF p = Len(s) + 1 THEN Len(s) + 1 ELSE Len(s))
        /\ p # Len(s) + 1 => c.nodes[s[p]].key = k
        /\ \A i \in 1 .. Len(s) : i # p => c.nodes[s[i]].key # k
        /\ \A i \in 2 .. Len(r) :
             /\ d.nodes[r[i]].key = c.nodes[s[IF i <= p THEN i - 1 ELSE i]].key
             /\ d.nodes[r[i]].block = c.nodes[s[IF i <= p THEN i - 1 ELSE i]].block
    <3>1. Len(s) = L /\ c.nodes = M /\ Len(r) = L
      BY <1>1, <2>2
    <3>2. p \in 1 .. Len(s) + 1 /\ p # Len(s) + 1
      BY <2>7, <3>1
    <3>3. c.nodes[s[p]].key = k
      BY <2>1, <3>1
    <3>4. \A i \in 1 .. Len(s) : i # p => c.nodes[s[i]].key # k
      BY <2>4, <3>1
    <3>5. \A i \in 2 .. Len(r) :
             /\ d.nodes[r[i]].key = c.nodes[s[IF i <= p THEN i - 1 ELSE i]].key
             /\ d.nodes[r[i]].block = c.nodes[s[IF i <= p THEN i - 1 ELSE i]].block
      BY <2>6, <3>1, Zenon
    <3>. QED
      BY <3>1, <3>2, <3>3, <3>4, <3>5, Zenon
  <2>9. InFront(c, s, k, b, d, r, p)
    BY <2>5, <2>8 DEF InFront
  <2>. QED
    BY <2>2, <2>3, <2>9, Zenon
<1>. QED
  BY <1>4, <1>5

\* The empty cache is linked.
LEMMA EmptyLinked ==
    (\E sum : Linked(EmptyCache, << >>, sum)) /\ EmptyCache.size <= Capacity
<1>1. PICK c, s, sum : c = EmptyCache /\ s = << >> /\ sum = [i \in {0} |-> 0]
  OBVIOUS
<1>2. /\ c.nodes = << >> /\ c.map = [k \in CacheKey |-> Nil] /\ c.head = Nil /\ c.tail = Nil
      /\ c.free = << >> /\ c.size = 0
  BY <1>1 DEF EmptyCache
<1>3. c \in CacheType
  BY <1>1 DEF EmptyCache, CacheType, Nil
<1>4. Len(s) = 0 /\ Len(c.nodes) = 0 /\ Len(c.free) = 0 /\ 0 .. 0 = {0} /\ sum[0] = 0
  BY <1>1, <1>2
<1>5. Typed(c.nodes, c.map, c.free, s, sum)
  BY <1>1, <1>2, <1>4 DEF Typed, Nil
<1>6. Pointers(c.nodes, c.head, c.tail, c.free, s)
  BY <1>2, <1>4 DEF Pointers
<1>7. Apart(c.nodes, c.free, s)
  BY <1>4 DEF Apart
<1>8. Mapped(c.nodes, c.map, s)
  BY <1>2, <1>4 DEF Mapped
<1>9. Summed(c.nodes, c.size, s, sum)
  BY <1>2, <1>4 DEF Summed
<1>10. Linked(c, s, sum)
  BY <1>3, <1>5, <1>6, <1>7, <1>8, <1>9 DEF Linked
<1>11. c.size <= Capacity
  BY <1>2, CacheAssumption
<1>. QED
  BY <1>1, <1>10, <1>11

\* Every call leaves the blocks linked, and the ones in the list fit.
LEMMA CacheInvPreserved == ASSUME CacheInv, [CacheNext]_bcVars PROVE CacheInv'
<1>1. PICK s, sum : Linked(cache, s, sum)
  BY DEF CacheInv
<1>2. cache.size <= Capacity
  BY DEF CacheInv
<1>3. CASE cache' = cache
  BY <1>3 DEF CacheInv
<1>4. CASE CacheClear
  <2>1. cache' = EmptyCache
    BY <1>4 DEF CacheClear
  <2>. QED
    BY <2>1, EmptyLinked DEF CacheInv
<1>5. ASSUME NEW k \in CacheKey, NEW b \in Block, CacheInsert(k, b), ~ (b > Capacity)
      PROVE  CacheInv'
  <2>1. PICK t, e, total : Inserted(cache, k, b) = evict_if_needed(e) /\ Linked(e, t, total)
    BY <1>1, Fronted
  <2>2. PICK d, r : d = evict_if_needed(e) /\ Linked(d, r, total) /\ total[Len(r)] <= Capacity
    BY <2>1, Evicted DEF Left
  <2>3. cache' = d
    BY <1>5, <2>1, <2>2 DEF CacheInsert
  <2>4. d.size = total[Len(r)]
    BY <2>2 DEF Linked, Summed
  <2>5. d.size <= Capacity
    BY <2>2, <2>4
  <2>. QED
    BY <2>2, <2>3, <2>5 DEF CacheInv
<1>. QED
  BY <1>3, <1>4, <1>5 DEF CacheNext, CacheGet, AfterGet, CacheInsert, bcVars

LEMMA CacheInvAlways == CacheSpec => []CacheInv
<1>1. CacheInit => CacheInv
  BY EmptyLinked DEF CacheInit, CacheInv
<1>. QED
  BY <1>1, CacheInvPreserved, PTL DEF CacheSpec

----------------------------------------------------------------------------

\* Without the entry at p, the ones behind it move up.
LEMMA WithoutIs ==
    ASSUME NEW T, NEW s \in Seq(T), NEW k, NEW p \in 1 .. Len(s) + 1,
           p # Len(s) + 1 => s[p].key = k, \A i \in 1 .. Len(s) : i # p => s[i].key # k
    PROVE  \E v, c :
             /\ v = Abstract!Without(s, k)
             /\ v \in Seq(T) /\ Len(v) = c
             /\ c = (IF p = Len(s) + 1 THEN Len(s) ELSE Len(s) - 1)
             /\ \A j \in 1 .. c : v[j] = s[IF j < p THEN j ELSE j + 1]
<1>1. PICK n \in Nat : n = Len(s)
  OBVIOUS
<1>2. DOMAIN s = 1 .. n /\ p \in 1 .. n + 1
  BY <1>1
<1>3. PICK under : under = { i \in DOMAIN s : s[i].key = k }
  OBVIOUS
<1>4. CASE p = n + 1
  <2>1. under = {}
    BY <1>1, <1>2, <1>3, <1>4
  <2>2. Abstract!Without(s, k) = s
    BY <1>3, <2>1 DEF Abstract!Without
  <2>3. \A j \in 1 .. n : j < p
    BY <1>4
  <2>. QED
    BY <1>1, <1>4, <2>2, <2>3
<1>5. CASE p # n + 1
  <2>1. p \in 1 .. n
    BY <1>2, <1>5
  <2>2. under = {p}
    BY <1>1, <1>2, <1>3, <1>5, <2>1
  <2>3. (CHOOSE i \in under : TRUE) = p
    BY <2>2
  <2>4. Abstract!Without(s, k) = SubSeq(s, 1, p - 1) \o SubSeq(s, p + 1, n)
    BY <1>1, <1>3, <2>2, <2>3 DEF Abstract!Without
  <2>5. PICK f, g, v : f = SubSeq(s, 1, p - 1) /\ g = SubSeq(s, p + 1, n) /\ v = f \o g
    OBVIOUS
  <2>6. f \in Seq(T) /\ Len(f) = p - 1 /\ \A j \in 1 .. p - 1 : f[j] = s[j]
    BY <1>1, <2>1, <2>5
  <2>7. g \in Seq(T) /\ Len(g) = n - p /\ \A j \in 1 .. n - p : g[j] = s[p + j]
    BY <1>1, <2>1, <2>5
  <2>8. /\ v \in Seq(T) /\ Len(v) = n - 1
        /\ \A j \in 1 .. n - 1 : v[j] = IF j <= p - 1 THEN f[j] ELSE g[j - (p - 1)]
    <3>1. PICK a, b : a = p - 1 /\ b = n - p
      OBVIOUS
    <3>2. a \in Nat /\ b \in Nat /\ a + b = n - 1
      BY <2>1, <3>1
    <3>3. f \in Seq(T) /\ g \in Seq(T) /\ Len(f) = a /\ Len(g) = b
      BY <2>6, <2>7, <3>1
    <3>4. v \in Seq(T) /\ Len(v) = a + b /\ \A j \in 1 .. a + b : v[j] = IF j <= a THEN f[j] ELSE g[j - a]
      BY <2>5, <3>2, <3>3
    <3>. QED
      BY <3>1, <3>2, <3>4
  <2>9. \A j \in 1 .. n - 1 : v[j] = s[IF j < p THEN j ELSE j + 1]
    <3>1. ASSUME NEW j \in 1 .. n - 1 PROVE v[j] = s[IF j < p THEN j ELSE j + 1]
      <4>1. CASE j < p
        BY <2>1, <2>6, <2>8, <4>1
      <4>2. CASE ~ (j < p)
        <5>1. j - (p - 1) \in 1 .. n - p /\ p + (j - (p - 1)) = j + 1 /\ ~ (j <= p - 1)
          BY <2>1, <4>2
        <5>. QED
          BY <2>7, <2>8, <4>2, <5>1
      <4>. QED
        BY <4>1, <4>2
    <3>. QED
      BY <3>1
  <2>. QED
    BY <1>1, <1>5, <2>4, <2>5, <2>8, <2>9
<1>. QED
  BY <1>4, <1>5

\* sum[i] counts the bytes of the first i entries of w.
Counts(sum, w, n) ==
    /\ sum[0] = 0
    /\ \A i \in 0 .. n : sum[i] \in Int
    /\ \A i \in 1 .. n : sum[i] = sum[i - 1] + w[i].block

\* Bytes adds up the sizes of the first entries.
LEMMA BytesAre ==
    ASSUME NEW n \in Nat, NEW w, NEW sum, Counts(sum, w, n)
    PROVE  Abstract!Bytes(w, n) = sum[n]
<1>. USE DEF Counts
<1>1. PICK f : f = [i \in 0 .. n |-> sum[i]]
  OBVIOUS
<1>2. \A i \in 0 .. n : f[i] = IF i = 0 THEN 0 ELSE f[i - 1] + w[i].block
  <2>1. ASSUME NEW i \in 0 .. n PROVE f[i] = IF i = 0 THEN 0 ELSE f[i - 1] + w[i].block
    <3>1. CASE i = 0
      BY <1>1, <3>1
    <3>2. CASE i # 0
      <4>1. i \in 1 .. n /\ i - 1 \in 0 .. n
        BY <3>2
      <4>. QED
        BY <1>1, <3>2, <4>1
    <3>. QED
      BY <3>1, <3>2
  <2>. QED
    BY <2>1
<1>3. f = [i \in 0 .. n |-> IF i = 0 THEN 0 ELSE f[i - 1] + w[i].block]
  <2>1. f = [i \in 0 .. n |-> f[i]]
    BY <1>1
  <2>. QED
    BY <1>2, <2>1
<1>4. PICK g : g = CHOOSE h : h = [i \in 0 .. n |-> IF i = 0 THEN 0 ELSE h[i - 1] + w[i].block]
  OBVIOUS
<1>5. g = [i \in 0 .. n |-> IF i = 0 THEN 0 ELSE g[i - 1] + w[i].block]
  BY <1>3, <1>4
<1>6. \A m \in Nat : m <= n => g[m] = sum[m]
  <2>. DEFINE S == { m \in Nat : m <= n => g[m] = sum[m] }
  <2>1. 0 \in S
    <3>1. 0 \in 0 .. n
      OBVIOUS
    <3>2. g[0] = 0
      BY <1>5, <3>1
    <3>. QED
      BY <3>2
  <2>2. ASSUME NEW m \in Nat, m \in S PROVE m + 1 \in S
    <3>1. SUFFICES ASSUME m + 1 <= n PROVE g[m + 1] = sum[m + 1]
      BY <2>2
    <3>2. m + 1 \in 0 .. n /\ m + 1 \in 1 .. n /\ m + 1 # 0 /\ (m + 1) - 1 = m /\ m <= n
      BY <2>2, <3>1
    <3>3. g[m + 1] = g[m] + w[m + 1].block
      BY <1>5, <3>2
    <3>4. sum[m + 1] = sum[m] + w[m + 1].block
      BY <3>2
    <3>5. g[m] = sum[m]
      BY <2>2, <3>2
    <3>. QED
      BY <3>3, <3>4, <3>5
  <2>3. \A m \in Nat : m \in S
    <3>. HIDE DEF S
    <3>. QED
      BY <2>1, <2>2, SetInduction
  <2>. QED
    BY <2>3
<1>7. g[n] = sum[n]
  BY <1>6
<1>. QED
  BY <1>4, <1>7 DEF Abstract!Bytes

\* What fits is as much from the front as evict_if_needed leaves.
LEMMA FittingIs ==
    ASSUME NEW w, NEW m \in Nat, Len(w) = m, NEW sum, Counts(sum, w, m),
           NEW r \in 0 .. m, sum[r] <= Capacity, \A j \in r + 1 .. m : ~ (sum[j] <= Capacity)
    PROVE  Abstract!Fitting(w) = SubSeq(w, 1, r)
<1>1. \A n \in 0 .. m : Abstract!Bytes(w, n) = sum[n]
  <2>1. ASSUME NEW n \in 0 .. m PROVE Abstract!Bytes(w, n) = sum[n]
    <3>1. n \in Nat /\ Counts(sum, w, n)
      BY DEF Counts
    <3>. QED
      BY <3>1, BytesAre
  <2>. QED
    BY <2>1
<1>2. PICK fits : fits = { n \in 0 .. Len(w) : Abstract!Bytes(w, n) <= Capacity }
  OBVIOUS
<1>3. r \in fits /\ \A n \in fits : n \in 0 .. m /\ n <= r
  <2>1. r \in fits
    BY <1>1, <1>2
  <2>2. \A n \in fits : n \in 0 .. m /\ sum[n] <= Capacity
    BY <1>1, <1>2 DEF Counts
  <2>3. \A n \in 0 .. m : n <= r \/ n \in r + 1 .. m
    OBVIOUS
  <2>. QED
    BY <2>1, <2>2, <2>3
<1>4. (CHOOSE n \in fits : \A q \in fits : q <= n) = r
  <2>1. PICK x : x = CHOOSE n \in fits : \A q \in fits : q <= n
    OBVIOUS
  <2>2. x \in fits /\ \A q \in fits : q <= x
    BY <1>3, <2>1
  <2>3. x = r
    BY <1>3, <2>2
  <2>. QED
    BY <2>1, <2>3
<1>. QED
  BY <1>2, <1>4 DEF Abstract!Fitting

EntryType == [key : CacheKey, block : Block]

\* The entries in the nodes of s.
EntriesAt(c, s) ==
    [i \in 1 .. Len(s) |-> [key |-> c.nodes[s[i]].key, block |-> c.nodes[s[i]].block]]

LEMMA EntriesAre == \A s, sum : Linked(cache, s, sum) => Entries = EntriesAt(cache, s)
<1>1. ASSUME NEW s, NEW sum, Linked(cache, s, sum) PROVE Entries = EntriesAt(cache, s)
  <2>1. LinkedList = s
    BY <1>1, ListFollowed
  <2>2. DOMAIN s = 1 .. Len(s)
    <3>1. s \in Seq(1 .. Len(cache.nodes))
      BY <1>1 DEF Linked, Typed
    <3>. QED
      BY <3>1
  <2>. QED
    BY <2>1, <2>2 DEF Entries, EntriesAt
<1>. QED
  BY <1>1

LEMMA EntriesAreNext == (\A s, sum : Linked(cache, s, sum) => Entries = EntriesAt(cache, s))'
  BY EntriesAre, PTL

LEMMA EntriesTyped ==
    ASSUME NEW c, NEW s, NEW sum, Linked(c, s, sum)
    PROVE  /\ EntriesAt(c, s) \in Seq(EntryType) /\ Len(EntriesAt(c, s)) = Len(s) /\ Len(s) \in Nat
           /\ \A i \in 1 .. Len(s) : /\ EntriesAt(c, s)[i].key = c.nodes[s[i]].key
                                     /\ EntriesAt(c, s)[i].block = c.nodes[s[i]].block
<1>1. PICK M, L, N : M = c.nodes /\ L = Len(s) /\ N = Len(M)
  OBVIOUS
<1>2. L \in Nat /\ N \in Nat /\ \A i \in 1 .. L : s[i] \in 1 .. N
  <2>1. M \in Seq(NodeType) /\ s \in Seq(1 .. N)
    BY <1>1 DEF Linked, Typed
  <2>. QED
    BY <1>1, <2>1
<1>3. \A n \in 1 .. N : M[n].key \in CacheKey /\ M[n].block \in Block
  <2>1. M \in Seq(NodeType)
    BY <1>1 DEF Linked, Typed
  <2>2. \A n \in 1 .. N : M[n] \in NodeType
    BY <1>1, <2>1
  <2>. QED
    BY <2>2 DEF NodeType
<1>4. PICK f : f = EntriesAt(c, s)
  OBVIOUS
<1>5. f = [i \in 1 .. L |-> [key |-> M[s[i]].key, block |-> M[s[i]].block]]
  BY <1>1, <1>4 DEF EntriesAt
<1>6. \A i \in 1 .. L : [key |-> M[s[i]].key, block |-> M[s[i]].block] \in EntryType
  BY <1>2, <1>3 DEF EntryType
<1>7. f \in Seq(EntryType) /\ Len(f) = L
  BY <1>2, <1>5, <1>6
<1>8. \A i \in 1 .. L : f[i].key = M[s[i]].key /\ f[i].block = M[s[i]].block
  BY <1>5
<1>. QED
  BY <1>1, <1>2, <1>4, <1>7, <1>8

\* The size is that of the blocks in the nodes of the list.
LEMMA LinkedAccounted ==
    ASSUME NEW s, NEW sum, Linked(cache, s, sum), cache.size <= Capacity
    PROVE  Accounted
<1>1. PICK w, n : w = EntriesAt(cache, s) /\ n = Len(s)
  OBVIOUS
<1>2. Entries = w
  BY <1>1, EntriesAre
<1>3. /\ n \in Nat /\ Len(w) = n
      /\ \A i \in 1 .. n : w[i].block = cache.nodes[s[i]].block
  BY <1>1, EntriesTyped
<1>4. Counts(sum, w, n) /\ cache.size = sum[n]
  BY <1>1, <1>3 DEF Linked, Typed, Summed, Counts
<1>5. Abstract!Bytes(w, n) = sum[n]
  BY <1>3, <1>4, BytesAre
<1>6. cache.size = Abstract!Bytes(Entries, Len(Entries))
  BY <1>2, <1>3, <1>4, <1>5
<1>. QED
  BY <1>6 DEF Accounted

\* After every call the list, the map and the free list of the cache agree: no
\* index that alloc_node, move_to_head or remove_tail follows leads to a node
\* that was given away.  And current_size is the bytes of the blocks in the
\* list, which are never more than the capacity.
THEOREM CacheListIntact == CacheSpec => []ListIntact
<1>1. CacheInv => ListIntact
  <2>1. SUFFICES ASSUME CacheInv PROVE ListIntact
    OBVIOUS
  <2>2. PICK s, sum : Linked(cache, s, sum) /\ cache.size <= Capacity
    BY <2>1 DEF CacheInv
  <2>3. Woven
    BY <2>2, LinkedWoven
  <2>4. Accounted
    BY <2>2, LinkedAccounted
  <2>. QED
    BY <2>3, <2>4 DEF ListIntact
<1>. QED
  BY <1>1, CacheInvAlways, PTL

\* A block that is put in front of the others, and the ones that fit after it.
LEMMA InsertRefines ==
    ASSUME NEW s, NEW sum, Linked(cache, s, sum), NEW k \in CacheKey, NEW b \in Block,
           CacheInsert(k, b), ~ (b > Capacity)
    PROVE  Abstract!Insert(k, b)
<1>1. PICK t, e, total, p :
        /\ Inserted(cache, k, b) = evict_if_needed(e)
        /\ Linked(e, t, total)
        /\ InFront(cache, s, k, b, e, t, p)
  BY Fronted
<1>2. PICK d, r :
        /\ d = evict_if_needed(e)
        /\ Linked(d, r, total)
        /\ Len(r) <= Len(t) /\ \A i \in 1 .. Len(r) : r[i] = t[i]
        /\ total[Len(r)] <= Capacity
        /\ \A j \in Len(r) + 1 .. Len(t) : ~ (total[j] <= Capacity)
        /\ Len(d.nodes) = Len(e.nodes)
        /\ \A n \in 1 .. Len(e.nodes) : /\ d.nodes[n].key = e.nodes[n].key
                                        /\ d.nodes[n].block = e.nodes[n].block
  <2>1. Linked(e, t, total)
    BY <1>1
  <2>2. PICK d, r : d = evict_if_needed(e) /\ Linked(d, r, total) /\ Left(e, t, total, d, r)
    BY <2>1, Evicted
  <2>. QED
    BY <2>2 DEF Left
<1>3. cache' = d /\ found' = Miss
  BY <1>1, <1>2 DEF CacheInsert
<1>4. Entries = EntriesAt(cache, s) /\ Entries' = EntriesAt(d, r)
  <2>1. Linked(cache', r, total) => Entries' = EntriesAt(cache', r)
    BY EntriesAreNext
  <2>2. Entries = EntriesAt(cache, s)
    BY EntriesAre
  <2>. QED
    BY <1>2, <1>3, <2>1, <2>2
<1>5. PICK M, E, D : M = cache.nodes /\ E = e.nodes /\ D = d.nodes
  OBVIOUS
<1>6. PICK L, m, R : L = Len(s) /\ m = Len(t) /\ R = Len(r)
  OBVIOUS
<1>7. PICK K, H : K = EntriesAt(cache, s) /\ H = EntriesAt(d, r)
  OBVIOUS
<1>8. /\ L \in Nat /\ K \in Seq(EntryType) /\ Len(K) = L /\ DOMAIN K = 1 .. L
      /\ \A i \in 1 .. L : K[i] \in EntryType /\ K[i].key = M[s[i]].key /\ K[i].block = M[s[i]].block
  <2>1. /\ L \in Nat /\ K \in Seq(EntryType) /\ Len(K) = L
        /\ \A i \in 1 .. L : K[i].key = M[s[i]].key /\ K[i].block = M[s[i]].block
    BY <1>5, <1>6, <1>7, EntriesTyped
  <2>. QED
    BY <2>1
<1>9. /\ R \in Nat /\ H \in Seq(EntryType) /\ Len(H) = R
      /\ \A i \in 1 .. R : H[i].key = D[r[i]].key /\ H[i].block = D[r[i]].block
  BY <1>2, <1>5, <1>6, <1>7, EntriesTyped
<1>10. /\ m \in Nat /\ \A i \in 1 .. m : t[i] \in 1 .. Len(E)
       /\ \A i \in 0 .. m : total[i] \in Int
  <2>1. E \in Seq(NodeType) /\ t \in Seq(1 .. Len(E)) /\ \A i \in 0 .. m : total[i] \in Int
    BY <1>1, <1>5, <1>6 DEF Linked, Typed
  <2>. QED
    BY <1>6, <2>1
<1>11. /\ p \in 1 .. L + 1
       /\ m = (IF p = L + 1 THEN L + 1 ELSE L)
       /\ p # L + 1 => M[s[p]].key = k
       /\ \A i \in 1 .. L : i # p => M[s[i]].key # k
       /\ E[t[1]].key = k /\ E[t[1]].block = b
       /\ \A i \in 2 .. m :
            /\ E[t[i]].key = M[s[IF i <= p THEN i - 1 ELSE i]].key
            /\ E[t[i]].block = M[s[IF i <= p THEN i - 1 ELSE i]].block
  BY <1>1, <1>5, <1>6 DEF InFront
<1>12. R <= m /\ \A i \in 1 .. R : H[i].key = E[t[i]].key /\ H[i].block = E[t[i]].block
  <2>1. R <= m /\ \A i \in 1 .. R : r[i] = t[i]
    BY <1>2, <1>6
  <2>2. \A n \in 1 .. Len(E) : D[n].key = E[n].key /\ D[n].block = E[n].block
    BY <1>2, <1>5
  <2>3. \A i \in 1 .. R : i \in 1 .. m
    BY <1>9, <1>10, <2>1
  <2>. QED
    BY <1>9, <1>10, <2>1, <2>2, <2>3
<1>13. PICK v, c :
         /\ v = Abstract!Without(K, k)
         /\ v \in Seq(EntryType) /\ Len(v) = c
         /\ c = (IF p = Len(K) + 1 THEN Len(K) ELSE Len(K) - 1)
         /\ \A j \in 1 .. c : v[j] = K[IF j < p THEN j ELSE j + 1]
  <2>1. /\ K \in Seq(EntryType) /\ p \in 1 .. Len(K) + 1
        /\ p # Len(K) + 1 => K[p].key = k
        /\ \A i \in 1 .. Len(K) : i # p => K[i].key # k
    <3>1. Len(K) = L /\ K \in Seq(EntryType) /\ p \in 1 .. L + 1
      BY <1>8, <1>11
    <3>2. p # L + 1 => p \in 1 .. L /\ K[p].key = k
      BY <1>8, <1>11
    <3>3. \A i \in 1 .. L : i # p => K[i].key # k
      BY <1>8, <1>11
    <3>. QED
      BY <3>1, <3>2, <3>3
  <2>. QED
    BY <2>1, WithoutIs
<1>14. v \in Seq(EntryType) /\ Len(v) = c
  BY <1>13
<1>15. /\ c \in Nat /\ c = (IF p = L + 1 THEN L ELSE L - 1)
       /\ \A j \in 1 .. c : v[j] = K[IF j < p THEN j ELSE j + 1]
  BY <1>8, <1>11, <1>13
<1>17. PICK x : x = [key |-> k, block |-> b]
  OBVIOUS
<1>18. x \in EntryType /\ x.key = k /\ x.block = b
  BY <1>17 DEF EntryType
<1>19. PICK w : w = << x >> \o v
  OBVIOUS
<1>20. /\ w \in Seq(EntryType) /\ Len(w) = m /\ w[1] = x
       /\ \A i \in 2 .. m : w[i] = K[IF i <= p THEN i - 1 ELSE i]
  <2>1. m = c + 1
    BY <1>8, <1>11, <1>15
  <2>2. w \in Seq(EntryType) /\ Len(w) = c + 1 /\ w[1] = x /\ \A i \in 2 .. c + 1 : w[i] = v[i - 1]
    BY <1>14, <1>15, <1>18, <1>19
  <2>3. \A i \in 2 .. c + 1 : i - 1 \in 1 .. c /\ (i - 1 < p <=> i <= p) /\ (i - 1) + 1 = i
    BY <1>8, <1>11, <1>15
  <2>. QED
    BY <1>15, <2>1, <2>2, <2>3, SMTT(60)
<1>21. \A i \in 1 .. m : w[i].key = E[t[i]].key /\ w[i].block = E[t[i]].block
  <2>1. ASSUME NEW i \in 1 .. m PROVE w[i].key = E[t[i]].key /\ w[i].block = E[t[i]].block
    <3>1. CASE i = 1
      BY <1>11, <1>18, <1>20, <3>1
    <3>2. CASE i # 1
      <4>1. PICK q : q = IF i <= p THEN i - 1 ELSE i
        OBVIOUS
      <4>2. i \in 2 .. m /\ q \in 1 .. L
        BY <1>8, <1>10, <1>11, <3>2, <4>1
      <4>3. w[i] = K[q]
        BY <1>20, <4>1, <4>2
      <4>4. E[t[i]].key = M[s[q]].key /\ E[t[i]].block = M[s[q]].block
        BY <1>11, <4>1, <4>2
      <4>. QED
        BY <1>8, <4>2, <4>3, <4>4
    <3>. QED
      BY <3>1, <3>2
  <2>. QED
    BY <2>1
<1>22. Counts(total, w, m)
  <2>1. total[0] = 0 /\ \A i \in 1 .. m : total[i] = total[i - 1] + E[t[i]].block
    BY <1>1, <1>5, <1>6 DEF Linked, Summed
  <2>. QED
    BY <1>10, <1>21, <2>1 DEF Counts
<1>23. Abstract!Fitting(w) = SubSeq(w, 1, R)
  <2>1. R \in 0 .. m /\ total[R] <= Capacity /\ \A j \in R + 1 .. m : ~ (total[j] <= Capacity)
    BY <1>2, <1>6, <1>9, <1>10, <1>12
  <2>. QED
    BY <1>10, <1>20, <1>22, <2>1, FittingIs
<1>24. SubSeq(w, 1, R) = H
  <2>1. PICK u : u = SubSeq(w, 1, R)
    OBVIOUS
  <2>2. u \in Seq(EntryType) /\ Len(u) = R /\ \A i \in 1 .. R : u[i] = w[i]
    BY <1>9, <1>10, <1>12, <1>20, <2>1
  <2>3. \A i \in 1 .. R : u[i] \in EntryType /\ H[i] \in EntryType
    BY <1>9, <2>2
  <2>4. \A i \in 1 .. R : u[i].key = H[i].key /\ u[i].block = H[i].block
    BY <1>9, <1>10, <1>12, <1>21, <2>2
  <2>5. \A i \in 1 .. R : u[i] = H[i]
    BY <2>3, <2>4 DEF EntryType
  <2>. QED
    BY <1>9, <2>1, <2>2, <2>5
<1>25. Entries' = Abstract!Fitting(<< [key |-> k, block |-> b] >> \o Abstract!Without(Entries, k))
  BY <1>4, <1>7, <1>13, <1>17, <1>19, <1>23, <1>24
<1>. QED
  BY <1>3, <1>25 DEF Abstract!Insert

\* The node that the map has for a key is the one with that key in the list.
LEMMA GetRefines ==
    ASSUME NEW s, NEW sum, Linked(cache, s, sum), NEW k \in CacheKey, CacheGet(k)
    PROVE  Abstract!Get(k)
<1>1. PICK M, K, E, L : M = cache.nodes /\ K = cache.map /\ E = Entries /\ L = Len(s)
  OBVIOUS
<1>2. E = EntriesAt(cache, s)
  BY <1>1, EntriesAre
<1>3. /\ DOMAIN E = 1 .. L
      /\ \A i \in 1 .. L : E[i].key = M[s[i]].key /\ E[i].block = M[s[i]].block
  <2>1. E \in Seq(EntryType) /\ Len(E) = L
    BY <1>1, <1>2, EntriesTyped
  <2>2. \A i \in 1 .. L : E[i].key = M[s[i]].key /\ E[i].block = M[s[i]].block
    BY <1>1, <1>2, EntriesTyped
  <2>. QED
    BY <2>1, <2>2
<1>4. /\ \A i \in 1 .. L : s[i] \in 1 .. Len(M)
      /\ \A i, j \in 1 .. L : s[i] = s[j] => i = j
  <2>1. s \in Seq(1 .. Len(M))
    BY <1>1 DEF Linked, Typed
  <2>2. \A i, j \in 1 .. L : s[i] = s[j] => i = j
    BY <1>1 DEF Linked, Apart
  <2>. QED
    BY <1>1, <2>1, <2>2
<1>5. /\ \A i \in 1 .. L : K[M[s[i]].key] = s[i]
      /\ \A x \in CacheKey : K[x] # Nil => \E i \in 1 .. L : s[i] = K[x] /\ M[s[i]].key = x
  BY <1>1 DEF Linked, Mapped
<1>6. found' = (IF K[k] = Nil THEN Miss ELSE M[K[k]].block) /\ cache' = cache
  BY <1>1 DEF CacheGet, AfterGet
<1>7. Entries' = Entries
  BY <1>6 DEF Entries, LinkedList
<1>8. CASE K[k] = Nil
  <2>1. \A i \in 1 .. L : E[i].key # k
    BY <1>3, <1>4, <1>5, <1>8 DEF Nil
  <2>. QED
    BY <1>1, <1>3, <1>6, <1>7, <1>8, <2>1 DEF Abstract!Get
<1>9. CASE K[k] # Nil
  <2>1. PICK i \in 1 .. L : s[i] = K[k] /\ E[i].key = k
    BY <1>3, <1>5, <1>9
  <2>2. \A j \in 1 .. L : E[j].key = k => j = i
    BY <1>3, <1>4, <1>5, <2>1
  <2>3. (CHOOSE j \in DOMAIN E : E[j].key = k) = i
    BY <1>3, <2>1, <2>2
  <2>4. found' = E[i].block
    BY <1>3, <1>6, <1>9, <2>1
  <2>. QED
    BY <1>1, <1>3, <1>7, <2>1, <2>3, <2>4 DEF Abstract!Get
<1>. QED
  BY <1>8, <1>9

\* The linked list of nodes is for the callers of the cache a list of entries: an
\* insert puts the block in front and drops from the back what does not fit, a
\* get returns the block that was put under the key last, while it is kept.
THEOREM CacheRefines == CacheSpec => RefinesCache
<1>1. CacheInit => Abstract!Init
  <2>1. SUFFICES ASSUME CacheInit PROVE Abstract!Init
    OBVIOUS
  <2>2. PICK sum : Linked(cache, << >>, sum)
    BY <2>1, EmptyLinked DEF CacheInit
  <2>3. Entries = << >>
    BY <2>2, EntriesAre DEF EntriesAt
  <2>. QED
    BY <2>1, <2>3 DEF CacheInit, Abstract!Init
<1>2. CacheInv /\ [CacheNext]_bcVars => [Abstract!Next]_(Abstract!cacheVars)
  <2>1. SUFFICES ASSUME CacheInv, [CacheNext]_bcVars PROVE Abstract!Next \/ UNCHANGED Abstract!cacheVars
    OBVIOUS
  <2>2. PICK s, sum : Linked(cache, s, sum)
    BY <2>1 DEF CacheInv
  <2>3. CASE UNCHANGED bcVars
    BY <2>3 DEF bcVars, Abstract!cacheVars, Entries, LinkedList
  <2>4. ASSUME NEW k \in CacheKey, CacheGet(k) PROVE Abstract!Next
    BY <2>2, <2>4, GetRefines DEF Abstract!Next
  <2>5. ASSUME NEW k \in CacheKey, NEW b \in Block, CacheInsert(k, b) PROVE Abstract!Next
    <3>1. Abstract!Insert(k, b)
      <4>1. CASE b > Capacity
        <5>1. cache' = cache /\ found' = Miss
          BY <2>5, <4>1 DEF CacheInsert
        <5>2. Entries' = Entries
          BY <5>1 DEF Entries, LinkedList
        <5>. QED
          BY <4>1, <5>1, <5>2 DEF Abstract!Insert
      <4>2. CASE ~ (b > Capacity)
        BY <2>2, <2>5, <4>2, InsertRefines
      <4>. QED
        BY <4>1, <4>2
    <3>. QED
      BY <3>1 DEF Abstract!Next
  <2>6. CASE CacheClear
    <3>1. cache' = EmptyCache /\ found' = Miss
      BY <2>6 DEF CacheClear
    <3>2. PICK total : Linked(cache', << >>, total)
      BY <3>1, EmptyLinked
    <3>3. Entries' = EntriesAt(cache', << >>)
      BY <3>2, EntriesAreNext
    <3>4. Entries' = << >>
      BY <3>3 DEF EntriesAt
    <3>. QED
      BY <3>1, <3>4 DEF Abstract!Next, Abstract!Clear
  <2>. QED
    BY <2>1, <2>3, <2>4, <2>5, <2>6 DEF CacheNext
<1>. QED
  BY <1>1, <1>2, CacheInvAlways, PTL DEF CacheSpec, RefinesCache, Abstract!Spec

----------------------------------------------------------------------------

(***************************************************************************)
(* The skip list.                                                          *)
(***************************************************************************)

\* The nodes of S hang together in the order of their keys, from the head on: K is
\* the key of a node, F the pointer of a node on the level; n nodes are allocated.
Threaded(n, S, K, F) ==
    /\ n \in Nat /\ S \in SUBSET (1 .. n)
    /\ \A x \in 0 .. n : K[x] \in Int
    /\ \A x, y \in 1 .. n : K[x] = K[y] => x = y
    /\ \A x \in 0 .. n : x \notin S /\ x # HeadNode => F[x] = Null
    /\ \A x \in 0 .. n : x \in S \/ x = HeadNode =>
        \/ F[x] = Null /\ \A z \in S : x # HeadNode /\ K[z] <= K[x]
        \/ /\ F[x] \in S /\ (x = HeadNode \/ K[x] < K[F[x]])
           /\ \A z \in S : x = HeadNode \/ K[x] < K[z] => K[F[x]] <= K[z]

\* Node p is the last one of the level with a key below key.
LastBelow(S, K, F, key, p) ==
    /\ p \in S \/ p = HeadNode
    /\ p = HeadNode \/ K[p] < key
    /\ F[p] = Null \/ key <= K[F[p]]

LEMMA LastExists ==
    ASSUME NEW n, NEW S, NEW K, NEW F, Threaded(n, S, K, F), NEW key \in Int
    PROVE  \E p : LastBelow(S, K, F, key, p)
<1>1. /\ n \in Nat /\ S \in SUBSET (1 .. n) /\ \A x \in S : K[x] \in Int /\ x \in 0 .. n
      /\ \A x \in S \cup {HeadNode} :
          F[x] = Null \/ (F[x] \in S /\ (x = HeadNode \/ K[x] < K[F[x]]))
  <2>1. n \in Nat /\ S \in SUBSET (1 .. n) /\ \A x \in 0 .. n : K[x] \in Int
    BY DEF Threaded
  <2>2. \A x \in S \cup {HeadNode} : x \in 0 .. n
    BY <2>1 DEF HeadNode
  <2>. QED
    BY <2>1, <2>2 DEF Threaded
<1>2. PICK T : T = { x \in S : K[x] < key }
  OBVIOUS
<1>3. CASE T = {}
  <2>1. F[HeadNode] = Null \/ (F[HeadNode] \in S /\ F[HeadNode] \notin T)
    BY <1>1, <1>3
  <2>2. ASSUME NEW y \in S, y \notin T PROVE key <= K[y]
    BY <1>1, <1>2, <2>2
  <2>3. F[HeadNode] = Null \/ key <= K[F[HeadNode]]
    BY <2>1, <2>2
  <2>. QED
    BY <2>3 DEF LastBelow
<1>4. CASE T # {}
  <2>1. IsFiniteSet(T)
    <3>1. T \in SUBSET (1 .. n)
      BY <1>1, <1>2
    <3>2. IsFiniteSet(1 .. n)
      BY <1>1, CountTo
    <3>. QED
      BY <3>1, <3>2, FS_Subset
  <2>2. PICK p \in T : \A y \in T : K[y] <= K[p]
    <3>1. \A x \in T : K[x] \in Int
      BY <1>1, <1>2
    <3>. QED
      BY <1>4, <2>1, <3>1, Highest
  <2>3. p \in S /\ K[p] < key /\ p # HeadNode
    BY <1>1, <1>2 DEF HeadNode
  <2>4. F[p] = Null \/ (F[p] \in S /\ K[p] < K[F[p]])
    BY <1>1, <2>3
  <2>5. ASSUME NEW y \in S, K[p] < K[y] PROVE key <= K[y]
    <3>1. K[y] \in Int /\ K[p] \in Int
      BY <1>1, <2>3
    <3>2. y \in T => K[y] <= K[p]
      BY <2>2
    <3>3. y \notin T
      BY <2>5, <3>1, <3>2
    <3>. QED
      BY <1>2, <3>1, <3>3
  <2>6. F[p] = Null \/ key <= K[F[p]]
    BY <2>4, <2>5
  <2>. QED
    BY <2>3, <2>6 DEF LastBelow
<1>. QED
  BY <1>3, <1>4

LEMMA LastUnique ==
    ASSUME NEW n, NEW S, NEW K, NEW F, Threaded(n, S, K, F), NEW key \in Int,
           NEW p, NEW q, LastBelow(S, K, F, key, p), LastBelow(S, K, F, key, q)
    PROVE  p = q
<1>1. /\ n \in Nat /\ S \in SUBSET (1 .. n) /\ \A x \in S : K[x] \in Int /\ x \in 1 .. n /\ x # HeadNode
      /\ \A x, y \in S : K[x] = K[y] => x = y
      /\ \A x \in S \cup {HeadNode} :
        \/ F[x] = Null /\ \A z \in S : x # HeadNode /\ K[z] <= K[x]
        \/ /\ F[x] \in S
           /\ \A z \in S : x = HeadNode \/ K[x] < K[z] => K[F[x]] <= K[z]
  <2>1. n \in Nat /\ S \in SUBSET (1 .. n) /\ \A x \in 0 .. n : K[x] \in Int
    BY DEF Threaded
  <2>2. \A x \in S : x \in 1 .. n /\ x \in 0 .. n /\ x # HeadNode
    BY <2>1 DEF HeadNode
  <2>3. HeadNode \in 0 .. n
    BY <2>1 DEF HeadNode
  <2>. QED
    BY <2>1, <2>2, <2>3 DEF Threaded
<1>2. ASSUME NEW a, NEW b, LastBelow(S, K, F, key, a), LastBelow(S, K, F, key, b), b # HeadNode,
             a = HeadNode \/ K[a] < K[b]
      PROVE  FALSE
  <2>1. a \in S \cup {HeadNode} /\ b \in S /\ K[b] < key /\ (F[a] = Null \/ key <= K[F[a]])
    BY <1>2 DEF LastBelow
  <2>2. a # HeadNode => K[a] \in Int /\ K[b] \in Int /\ K[a] < K[b]
    BY <1>1, <1>2, <2>1
  <2>3. F[a] # Null
    <3>0. Null \notin S
      BY <1>1 DEF Null
    <3>1. CASE a = HeadNode
      BY <1>1, <2>1, <3>0, <3>1
    <3>2. CASE a # HeadNode
      <4>1. ~ (K[b] <= K[a])
        BY <2>2, <3>2
      <4>. QED
        BY <1>1, <2>1, <3>0, <4>1
    <3>. QED
      BY <3>1, <3>2
  <2>4. F[a] \in S /\ K[F[a]] <= K[b]
    BY <1>1, <2>1, <2>2, <2>3
  <2>5. K[F[a]] \in Int /\ K[b] \in Int /\ key <= K[F[a]]
    BY <1>1, <2>1, <2>3, <2>4
  <2>. QED
    BY <2>1, <2>4, <2>5
<1>3. (p \in S \/ p = HeadNode) /\ (q \in S \/ q = HeadNode)
  BY DEF LastBelow
<1>4. CASE p = HeadNode
  BY <1>2, <1>3, <1>4
<1>5. CASE q = HeadNode
  BY <1>2, <1>3, <1>5
<1>6. CASE p \in S /\ q \in S
  <2>1. ~ (K[p] < K[q]) /\ ~ (K[q] < K[p])
    BY <1>1, <1>2, <1>6
  <2>. QED
    BY <1>1, <1>6, <2>1
<1>. QED
  BY <1>3, <1>4, <1>5, <1>6

\* The search along a level is a function of the node it starts from.
Searches(n, K, F, key, f) ==
    f = [x \in 0 .. n |-> IF F[x] = Null \/ (F[x] # Null /\ K[F[x]] >= key) THEN x ELSE f[F[x]]]

LEMMA SearchDefined ==
    ASSUME NEW n, NEW S, NEW K, NEW F, Threaded(n, S, K, F), NEW key \in Int
    PROVE  \E f : Searches(n, K, F, key, f)
<1>1. PICK p : LastBelow(S, K, F, key, p)
  BY LastExists
<1>2. /\ n \in Nat /\ \A x \in S : K[x] \in Int /\ x \in 1 .. n /\ x # HeadNode /\ x # Null
      /\ \A x \in 0 .. n : x \notin S /\ x # HeadNode => F[x] = Null
      /\ \A x \in S \cup {HeadNode} : F[x] = Null \/ (F[x] \in S /\ (x = HeadNode \/ K[x] < K[F[x]]))
  <2>1. n \in Nat /\ S \in SUBSET (1 .. n) /\ \A x \in 0 .. n : K[x] \in Int
    BY DEF Threaded
  <2>2. \A x \in S \cup {HeadNode} : x \in 0 .. n /\ x # Null
    BY <2>1 DEF HeadNode, Null
  <2>3. \A x \in S : x \in 1 .. n /\ x # HeadNode
    BY <2>1 DEF HeadNode
  <2>4. \A x \in 0 .. n : x \notin S /\ x # HeadNode => F[x] = Null
    BY DEF Threaded
  <2>5. \A x \in S \cup {HeadNode} : F[x] = Null \/ (F[x] \in S /\ (x = HeadNode \/ K[x] < K[F[x]]))
    BY <2>2 DEF Threaded
  <2>. QED
    BY <2>1, <2>2, <2>3, <2>4, <2>5
<1>3. PICK B : B = { x \in S : K[x] < key } \cup {HeadNode}
  OBVIOUS
<1>4. PICK f : f = [x \in 0 .. n |-> IF x \in B THEN p ELSE x]
  OBVIOUS
<1>5. ASSUME NEW x \in 0 .. n
      PROVE  f[x] = IF F[x] = Null \/ (F[x] # Null /\ K[F[x]] >= key) THEN x ELSE f[F[x]]
  <2>1. CASE x \in B
    <3>1. x \in S \cup {HeadNode} /\ (x = HeadNode \/ K[x] < key) /\ f[x] = p
      BY <1>3, <1>4, <2>1
    <3>2. CASE F[x] = Null
      <4>1. LastBelow(S, K, F, key, x)
        BY <3>1, <3>2 DEF LastBelow
      <4>2. x = p
        BY <1>1, <4>1, LastUnique
      <4>. QED
        BY <3>1, <3>2, <4>2
    <3>3. CASE F[x] # Null /\ K[F[x]] >= key
      <4>1. F[x] \in S /\ K[F[x]] \in Int
        BY <1>2, <3>1, <3>3
      <4>2. key <= K[F[x]]
        BY <3>3, <4>1
      <4>3. LastBelow(S, K, F, key, x)
        BY <3>1, <4>2 DEF LastBelow
      <4>4. x = p
        BY <1>1, <4>3, LastUnique
      <4>. QED
        BY <3>1, <3>3, <4>4
    <3>4. CASE F[x] # Null /\ ~ (K[F[x]] >= key)
      <4>1. F[x] \in S /\ K[F[x]] \in Int
        BY <1>2, <3>1, <3>4
      <4>2. K[F[x]] < key
        BY <3>4, <4>1
      <4>3. F[x] \in B /\ F[x] \in 0 .. n
        BY <1>2, <1>3, <4>1, <4>2
      <4>. QED
        BY <1>4, <3>1, <3>4, <4>3
    <3>. QED
      BY <3>2, <3>3, <3>4
  <2>2. CASE x \notin B
    <3>1. f[x] = x
      BY <1>4, <2>2
    <3>2. x \notin S => F[x] = Null
      BY <1>2, <1>3, <2>2
    <3>3. ASSUME x \in S, F[x] # Null PROVE K[F[x]] >= key
      <4>1. K[x] \in Int /\ ~ (K[x] < key)
        BY <1>2, <1>3, <2>2, <3>3
      <4>2. F[x] \in S /\ K[x] < K[F[x]]
        BY <1>2, <3>3
      <4>3. K[F[x]] \in Int
        BY <1>2, <4>2
      <4>. QED
        BY <4>1, <4>2, <4>3
    <3>. QED
      BY <3>1, <3>2, <3>3
  <2>. QED
    BY <2>1, <2>2
<1>6. f = [x \in 0 .. n |-> f[x]]
  BY <1>4
<1>7. Searches(n, K, F, key, f)
  BY <1>5, <1>6 DEF Searches
<1>. QED
  BY <1>7

\* It ends at the last node with a lower key.
LEMMA SearchEnds ==
    ASSUME NEW n, NEW S, NEW K, NEW F, Threaded(n, S, K, F), NEW key \in Int,
           NEW g, \A x \in 0 .. n :
                    g[x] = IF F[x] = Null \/ (F[x] # Null /\ K[F[x]] >= key) THEN x ELSE g[F[x]],
           NEW from, from \in S \/ from = HeadNode, from = HeadNode \/ K[from] < key
    PROVE  LastBelow(S, K, F, key, g[from])
<1>1. PICK p : LastBelow(S, K, F, key, p)
  BY LastExists
<1>2. /\ n \in Nat /\ S \in SUBSET (1 .. n)
      /\ \A x \in S : K[x] \in Int
      /\ \A x \in S \cup {HeadNode} :
            /\ g[x] = IF F[x] = Null \/ (F[x] # Null /\ K[F[x]] >= key) THEN x ELSE g[F[x]]
            /\ F[x] = Null \/ (F[x] \in S /\ K[F[x]] \in Int /\ (x = HeadNode \/ K[x] < K[F[x]]))
  <2>1. n \in Nat /\ S \in SUBSET (1 .. n) /\ \A x \in 0 .. n : K[x] \in Int
    BY DEF Threaded
  <2>2. \A x \in S \cup {HeadNode} : x \in 0 .. n
    BY <2>1 DEF HeadNode
  <2>3. \A x \in S \cup {HeadNode} : F[x] = Null \/ (F[x] \in S /\ (x = HeadNode \/ K[x] < K[F[x]]))
    BY <2>2 DEF Threaded
  <2>4. \A x \in S : K[x] \in Int
    BY <2>1, <2>2
  <2>5. \A x \in S \cup {HeadNode} :
            /\ g[x] = IF F[x] = Null \/ (F[x] # Null /\ K[F[x]] >= key) THEN x ELSE g[F[x]]
            /\ F[x] = Null \/ (F[x] \in S /\ K[F[x]] \in Int /\ (x = HeadNode \/ K[x] < K[F[x]]))
    BY <2>2, <2>3, <2>4
  <2>. QED
    BY <2>1, <2>4, <2>5
\* A node below key leads to p if the one it points to does.
<1>3. ASSUME NEW x \in S \cup {HeadNode}, x = HeadNode \/ K[x] < key,
             F[x] \in S /\ K[F[x]] < key => g[F[x]] = p
      PROVE  g[x] = p
  <2>1. CASE F[x] = Null \/ (F[x] # Null /\ K[F[x]] >= key)
    <3>1. F[x] = Null \/ key <= K[F[x]]
      BY <1>2, <2>1
    <3>2. x = p
      <4>1. LastBelow(S, K, F, key, x)
        BY <1>3, <3>1 DEF LastBelow
      <4>. QED
        BY <1>1, <4>1, LastUnique
    <3>. QED
      BY <1>2, <2>1, <3>2
  <2>2. CASE ~ (F[x] = Null \/ (F[x] # Null /\ K[F[x]] >= key))
    <3>1. F[x] \in S /\ K[F[x]] < key
      BY <1>2, <2>2
    <3>. QED
      BY <1>2, <1>3, <2>2, <3>1
  <2>. QED
    BY <2>1, <2>2
<1>4. PICK T : T = { x \in S : K[x] < key /\ g[x] # p }
  OBVIOUS
<1>5. T = {}
  <2>1. SUFFICES ASSUME T # {} PROVE FALSE
    OBVIOUS
  <2>2. IsFiniteSet(T)
    <3>1. T \in SUBSET (1 .. n)
      BY <1>2, <1>4
    <3>2. IsFiniteSet(1 .. n)
      BY <1>2, CountTo
    <3>. QED
      BY <3>1, <3>2, FS_Subset
  <2>3. PICK x \in T : \A y \in T : K[y] <= K[x]
    <3>1. \A y \in T : K[y] \in Int
      BY <1>2, <1>4
    <3>. QED
      BY <2>1, <2>2, <3>1, Highest
  <2>4. x \in S /\ K[x] < key /\ g[x] # p /\ K[x] \in Int /\ x # HeadNode
    BY <1>2, <1>4 DEF HeadNode
  <2>5. PICK y : y = F[x]
    OBVIOUS
  <2>6. y \in S /\ K[y] < key /\ g[y] # p
    BY <1>3, <2>4, <2>5
  <2>7. y \in T
    BY <1>4, <2>6
  <2>8. K[x] < K[y] /\ K[y] \in Int
    <3>1. y # Null
      BY <1>2, <2>6 DEF Null
    <3>. QED
      BY <1>2, <2>4, <2>5, <3>1
  <2>. QED
    BY <2>3, <2>4, <2>7, <2>8
<1>6. \A x \in S : K[x] < key => g[x] = p
  BY <1>4, <1>5
<1>7. g[from] = p
  BY <1>3, <1>6
<1>. QED
  BY <1>1, <1>7

\* s lists the nodes of S, whose keys are V, in the order of their keys.
Lists(S, K, V, s) ==
    /\ \A x : x \in S <=> \E j \in 1 .. Len(s) : s[j] = x
    /\ Len(s) = Cardinality(V) /\ Cardinality(V) \in Nat
    /\ \A j \in 1 .. Len(s) : K[s[j]] \in V /\ Rank(V, K[s[j]]) = j

\* The nodes of a level, in the order of their keys, are a list.
LEMMA Chained ==
    ASSUME NEW n, NEW S, NEW K, NEW F, Threaded(n, S, K, F),
           NEW V, \A k : k \in V <=> \E x \in S : K[x] = k
    PROVE  \E s : /\ Following(1 .. n, Null, F, s)
                  /\ F[HeadNode] = (IF Len(s) = 0 THEN Null ELSE s[1])
                  /\ Lists(S, K, V, s)
<1>1. /\ n \in Nat /\ S \in SUBSET (1 .. n)
      /\ \A x \in S : K[x] \in Int /\ x # HeadNode
      /\ \A x, y \in S : K[x] = K[y] => x = y
      /\ \A x \in 1 .. n : x \notin S => F[x] = Null
      /\ \A x \in S \cup {HeadNode} :
          \/ F[x] = Null /\ \A z \in S : x # HeadNode /\ K[z] <= K[x]
          \/ /\ F[x] \in S /\ (x = HeadNode \/ K[x] < K[F[x]])
             /\ \A z \in S : x = HeadNode \/ K[x] < K[z] => K[F[x]] <= K[z]
  <2>1. n \in Nat /\ S \in SUBSET (1 .. n) /\ \A x \in 0 .. n : K[x] \in Int
    BY DEF Threaded
  <2>2. \A x \in S : x \in 0 .. n /\ x \in 1 .. n /\ x # HeadNode
    BY <2>1 DEF HeadNode
  <2>3. \A x \in S \cup {HeadNode} : x \in 0 .. n
    BY <2>1, <2>2 DEF HeadNode
  <2>4. \A x \in 1 .. n : x \in 0 .. n /\ x # HeadNode
    BY <2>1 DEF HeadNode
  <2>. QED
    BY <2>1, <2>2, <2>3, <2>4 DEF Threaded
<1>2. V \in SUBSET Int /\ IsFiniteSet(V)
  <2>1. V \in SUBSET Int
    BY <1>1
  <2>2. PICK f : f = [x \in S |-> K[x]]
    OBVIOUS
  <2>3. f \in Surjection(S, V)
    BY <2>2 DEF Surjection
  <2>4. IsFiniteSet(S)
    <3>1. IsFiniteSet(1 .. n)
      BY <1>1, CountTo
    <3>. QED
      BY <1>1, <3>1, FS_Subset
  <2>5. IsFiniteSet(V)
    BY <2>3, <2>4, FS_Surjection, Zenon
  <2>. QED
    BY <2>1, <2>5
<1>3. PICK c : c = Cardinality(V)
  OBVIOUS
<1>4. /\ c \in Nat
      /\ \A k \in V : Rank(V, k) \in 1 .. c
      /\ \A i, k \in V : i < k => Rank(V, i) < Rank(V, k)
      /\ \A i, k \in V : Rank(V, i) = Rank(V, k) => i = k
      /\ \A j \in 1 .. c : \E k \in V : Rank(V, k) = j
  BY <1>2, <1>3, Ranks
<1>5. \A j \in 1 .. c : \E x \in S : Rank(V, K[x]) = j
  BY <1>4
<1>6. PICK s : s = [j \in 1 .. c |-> CHOOSE x \in S : Rank(V, K[x]) = j]
  OBVIOUS
<1>7. \A j \in 1 .. c : s[j] \in S /\ Rank(V, K[s[j]]) = j /\ K[s[j]] \in V
  BY <1>5, <1>6
<1>8. /\ s \in Seq(1 .. n) /\ Len(s) = c
      /\ \A i, j \in 1 .. c : s[i] = s[j] => i = j
  <2>1. \A j \in 1 .. c : s[j] \in 1 .. n
    BY <1>1, <1>7
  <2>2. s \in [1 .. c -> 1 .. n]
    BY <1>6, <2>1
  <2>3. s \in Seq(1 .. n) /\ Len(s) = c
    BY <1>4, <2>2, NumberedSeq
  <2>4. ASSUME NEW i \in 1 .. c, NEW j \in 1 .. c, s[i] = s[j] PROVE i = j
    <3>1. Rank(V, K[s[i]]) = i /\ Rank(V, K[s[j]]) = j
      BY <1>7
    <3>. QED
      BY <2>4, <3>1
  <2>. QED
    BY <2>3, <2>4
<1>9. \A x \in S : K[x] \in V /\ Rank(V, K[x]) \in 1 .. c /\ s[Rank(V, K[x])] = x
  <2>1. ASSUME NEW x \in S PROVE K[x] \in V /\ Rank(V, K[x]) \in 1 .. c /\ s[Rank(V, K[x])] = x
    <3>1. K[x] \in V /\ Rank(V, K[x]) \in 1 .. c
      BY <1>4
    <3>2. PICK j : j = Rank(V, K[x])
      OBVIOUS
    <3>3. s[j] \in S /\ Rank(V, K[s[j]]) = Rank(V, K[x]) /\ K[s[j]] \in V
      BY <1>7, <3>1, <3>2
    <3>4. K[s[j]] = K[x]
      BY <1>4, <3>1, <3>3
    <3>. QED
      BY <1>1, <3>1, <3>2, <3>3, <3>4
  <2>. QED
    BY <2>1
<1>10. \A x : x \in S <=> \E j \in 1 .. c : s[j] = x
  BY <1>7, <1>9
\* A node with a lower rank has a lower key.
<1>11. \A x, y \in S : Rank(V, K[x]) < Rank(V, K[y]) => K[x] < K[y]
  <2>1. ASSUME NEW x \in S, NEW y \in S, Rank(V, K[x]) < Rank(V, K[y]) PROVE K[x] < K[y]
    <3>1. K[x] \in Int /\ K[y] \in Int /\ Rank(V, K[x]) \in Int /\ Rank(V, K[y]) \in Int
      BY <1>1, <1>4, <1>9
    <3>2. ~ (K[y] < K[x]) /\ K[x] # K[y]
      BY <1>4, <1>9, <2>1, <3>1
    <3>. QED
      BY <3>1, <3>2
  <2>. QED
    BY <2>1
<1>12. ASSUME NEW j \in 1 .. c PROVE F[s[j]] = (IF j = c THEN Null ELSE s[j + 1])
  <2>1. PICK x \in S : x = s[j] /\ Rank(V, K[x]) = j /\ x # HeadNode
    BY <1>1, <1>7
  <2>2. CASE j = c
    <3>1. ASSUME NEW y \in S, K[x] < K[y] PROVE FALSE
      <4>1. Rank(V, K[x]) < Rank(V, K[y]) /\ Rank(V, K[y]) \in 1 .. c
        BY <1>4, <1>9, <3>1
      <4>. QED
        BY <1>4, <2>1, <2>2, <4>1
    <3>2. F[x] = Null
      BY <1>1, <2>1, <3>1
    <3>. QED
      BY <2>1, <2>2, <3>2
  <2>3. CASE j # c
    <3>1. j + 1 \in 1 .. c
      BY <1>4, <2>3
    <3>2. PICK z \in S : z = s[j + 1] /\ Rank(V, K[z]) = j + 1
      BY <1>7, <3>1
    <3>3. K[x] < K[z] /\ K[x] \in Int /\ K[z] \in Int
      BY <1>1, <1>11, <2>1, <3>2
    <3>4. F[x] \in S /\ K[x] < K[F[x]] /\ K[F[x]] <= K[z]
      <4>1. ~ (K[z] <= K[x])
        BY <3>3
      <4>. QED
        BY <1>1, <2>1, <3>3, <4>1
    <3>5. PICK y \in S : y = F[x] /\ K[x] < K[y] /\ K[y] <= K[z]
      BY <3>4
    <3>6. Rank(V, K[x]) < Rank(V, K[y]) /\ ~ (Rank(V, K[z]) < Rank(V, K[y]))
      <4>1. K[y] \in Int
        BY <1>1
      <4>2. ~ (K[z] < K[y])
        BY <3>3, <3>5, <4>1
      <4>3. ~ (Rank(V, K[z]) < Rank(V, K[y]))
        BY <1>11, <4>2
      <4>. QED
        BY <1>4, <1>9, <3>5, <4>3
    <3>7. Rank(V, K[y]) = j + 1
      <4>1. Rank(V, K[y]) \in 1 .. c
        BY <1>9
      <4>. QED
        BY <2>1, <3>2, <3>6, <4>1
    <3>8. y = z
      BY <1>9, <3>2, <3>7
    <3>. QED
      BY <2>1, <2>3, <3>2, <3>5, <3>8
  <2>. QED
    BY <2>2, <2>3
<1>13. F[HeadNode] = (IF c = 0 THEN Null ELSE s[1])
  <2>1. CASE c = 0
    <3>1. S = {}
      BY <1>9, <2>1
    <3>. QED
      BY <1>1, <2>1, <3>1
  <2>2. CASE c # 0
    <3>1. 1 \in 1 .. c
      BY <1>4, <2>2
    <3>2. PICK z \in S : z = s[1] /\ Rank(V, K[z]) = 1
      BY <1>7, <3>1
    <3>3. F[HeadNode] \in S /\ K[F[HeadNode]] <= K[z]
      BY <1>1
    <3>4. PICK y \in S : y = F[HeadNode] /\ K[y] <= K[z]
      BY <3>3
    <3>5. ~ (K[z] < K[y])
      BY <1>1, <3>4
    <3>6. Rank(V, K[y]) \in 1 .. c /\ ~ (Rank(V, K[z]) < Rank(V, K[y]))
      BY <1>9, <1>11, <3>5
    <3>7. Rank(V, K[y]) = 1
      BY <3>2, <3>6
    <3>8. y = z
      BY <1>9, <3>2, <3>7
    <3>. QED
      BY <2>2, <3>2, <3>4, <3>8
  <2>. QED
    BY <2>1, <2>2
<1>14. Following(1 .. n, Null, F, s)
  <2>1. Null \notin 1 .. n
    BY DEF Null
  <2>2. \A x \in 1 .. n : (\E i \in 1 .. c : s[i] = x) \/ F[x] = Null
    BY <1>1, <1>10
  <2>. QED
    BY <1>8, <1>12, <2>1, <2>2 DEF Following
<1>15. Lists(S, K, V, s)
  BY <1>3, <1>4, <1>7, <1>8, <1>10 DEF Lists
<1>. QED
  BY <1>8, <1>13, <1>14, <1>15

----------------------------------------------------------------------------

\* A new node goes into the level after the last one with a lower key.
\* Node n + 1 of key key is put after node p: keys and pointers become L and G.
PutAfter(n, K, F, key, p, L, G) ==
    /\ \A x \in 1 .. n : K[x] # key
    /\ \A x \in 0 .. n : L[x] = K[x]
    /\ L[n + 1] = key /\ G[n + 1] = F[p] /\ G[p] = n + 1
    /\ \A x \in 0 .. n : x # p => G[x] = F[x]

LEMMA NodeInserted ==
    ASSUME NEW n, NEW S, NEW K, NEW F, Threaded(n, S, K, F), NEW key \in Int,
           NEW p, LastBelow(S, K, F, key, p), NEW L, NEW G, PutAfter(n, K, F, key, p, L, G)
    PROVE  Threaded(n + 1, S \cup {n + 1}, L, G)
<1>0. /\ \A x \in 1 .. n : K[x] # key
      /\ \A x \in 0 .. n : L[x] = K[x]
      /\ L[n + 1] = key /\ G[n + 1] = F[p] /\ G[p] = n + 1
      /\ \A x \in 0 .. n : x # p => G[x] = F[x]
  BY DEF PutAfter
<1>1. /\ n \in Nat /\ S \in SUBSET (1 .. n)
      /\ \A x \in 0 .. n : K[x] \in Int
      /\ \A x, y \in 1 .. n : K[x] = K[y] => x = y
  BY DEF Threaded
<1>2. PICK m : m = n + 1
  OBVIOUS
<1>3. /\ m \in 1 .. m /\ m \in 0 .. m /\ m # HeadNode /\ HeadNode \in 0 .. n
      /\ \A x \in 0 .. m : x \in 0 .. n \/ x = m
      /\ \A x \in 0 .. n : x \in 0 .. m /\ x # m
      /\ \A x \in 1 .. m : x \in 1 .. n \/ x = m
      /\ \A x \in 1 .. n : x \in 1 .. m /\ x # m /\ x \in 0 .. n /\ x # HeadNode
      /\ m \in Nat
  BY <1>1, <1>2 DEF HeadNode
<1>4. /\ \A x \in 0 .. n : x \notin S /\ x # HeadNode => F[x] = Null
      /\ \A x \in S \cup {HeadNode} : /\ x \in 0 .. n /\ K[x] \in Int
          /\ \/ F[x] = Null /\ \A z \in S : x # HeadNode /\ K[z] <= K[x]
             \/ /\ F[x] \in S /\ (x = HeadNode \/ K[x] < K[F[x]])
                /\ \A z \in S : x = HeadNode \/ K[x] < K[z] => K[F[x]] <= K[z]
  <2>1. \A x \in S \cup {HeadNode} : x \in 0 .. n /\ K[x] \in Int
    BY <1>1, <1>3
  <2>. QED
    BY <2>1 DEF Threaded
<1>5. p \in S \cup {HeadNode} /\ (p = HeadNode \/ K[p] < key) /\ (F[p] = Null \/ key <= K[F[p]])
  BY DEF LastBelow
<1>6. /\ \A x \in 0 .. n : L[x] = K[x]
      /\ L[m] = key
      /\ \A x \in 0 .. n : x # p => G[x] = F[x]
      /\ G[p] = m /\ G[m] = F[p]
  <2>1. p \in 0 .. n
    BY <1>4, <1>5
  <2>. QED
    BY <1>0, <1>2, <2>1
<1>7. \A x \in 0 .. m : L[x] \in Int
  BY <1>1, <1>3, <1>6
<1>8. \A x, y \in 1 .. m : L[x] = L[y] => x = y
  <2>1. ASSUME NEW x \in 1 .. m, NEW y \in 1 .. m, L[x] = L[y] PROVE x = y
    <3>1. CASE x \in 1 .. n /\ y \in 1 .. n
      BY <1>1, <1>3, <1>6, <2>1, <3>1
    <3>2. CASE x = m \/ y = m
      BY <1>0, <1>3, <1>6, <2>1, <3>2
    <3>. QED
      BY <1>3, <3>1, <3>2
  <2>. QED
    BY <2>1
<1>9. \A x \in 0 .. m : x \notin S \cup {m} /\ x # HeadNode => G[x] = Null
  BY <1>3, <1>4, <1>5, <1>6
\* The node after p on the level, if any, has a higher key.
<1>10. \A z \in S : /\ z \in 1 .. n /\ z \in 0 .. n /\ K[z] \in Int /\ L[z] = K[z]
                    /\ z # m /\ z # HeadNode /\ z # Null
  BY <1>1, <1>3, <1>6 DEF Null
<1>11. ASSUME NEW x \in 0 .. m, x \in S \cup {m} \/ x = HeadNode
       PROVE  \/ G[x] = Null /\ \A z \in S \cup {m} : x # HeadNode /\ L[z] <= L[x]
              \/ /\ G[x] \in S \cup {m} /\ (x = HeadNode \/ L[x] < L[G[x]])
                 /\ \A z \in S \cup {m} : x = HeadNode \/ L[x] < L[z] => L[G[x]] <= L[z]
  <2>1. CASE x = m
    <3>1. CASE F[p] = Null
      <4>1. \A z \in S : p # HeadNode /\ K[z] <= K[p]
        BY <1>3, <1>4, <1>5, <1>10, <3>1 DEF Null
      <4>2. \A z \in S : K[z] <= key
        BY <1>4, <1>5, <1>10, <4>1
      <4>. QED
        BY <1>3, <1>6, <1>10, <2>1, <3>1, <4>2
    <3>2. CASE F[p] # Null
      <4>1. PICK q : q = F[p]
        OBVIOUS
      <4>2. q \in S /\ key <= K[q] /\ K[q] # key /\ K[q] \in Int
        BY <1>0, <1>4, <1>5, <1>10, <3>2, <4>1
      <4>3. \A z \in S : key < K[z] => K[q] <= K[z]
        BY <1>4, <1>5, <1>10, <3>2, <4>1
      <4>. QED
        BY <1>3, <1>6, <1>10, <2>1, <3>2, <4>1, <4>2, <4>3
    <3>. QED
      BY <3>1, <3>2
  <2>2. CASE x = p
    <3>1. G[x] = m /\ L[x] = K[x] /\ K[x] \in Int /\ (x = HeadNode \/ K[x] < key)
      BY <1>4, <1>5, <1>6, <2>2
    <3>2. \A z \in S : x = HeadNode \/ K[x] < K[z] => key <= K[z]
      <4>1. ASSUME NEW z \in S, x = HeadNode \/ K[x] < K[z] PROVE key <= K[z]
        <5>1. F[x] # Null
          <6>1. K[z] \in Int /\ ~ (x # HeadNode /\ K[z] <= K[x])
            BY <1>10, <3>1, <4>1
          <6>2. Null \notin S
            BY <1>10
          <6>. QED
            BY <1>4, <1>5, <2>2, <6>1, <6>2, Zenon
        <5>2. key <= K[F[x]] /\ F[x] \in S /\ K[F[x]] <= K[z]
          BY <1>4, <1>5, <2>2, <4>1, <5>1
        <5>3. K[F[x]] \in Int /\ K[z] \in Int
          BY <1>10, <5>2
        <5>. QED
          BY <5>2, <5>3
      <4>. QED
        BY <4>1
    <3>. QED
      BY <1>3, <1>6, <1>10, <3>1, <3>2
  <2>3. CASE x # p /\ x # m
    <3>1. /\ x \in S \cup {HeadNode} /\ x \in 0 .. n /\ G[x] = F[x] /\ L[x] = K[x] /\ K[x] \in Int
      BY <1>3, <1>4, <1>6, <2>3, <1>11
    \* x is not the last below key: what it points to is below key, or x is above it.
    <3>2. CASE x = HeadNode \/ K[x] < key
      <4>1. ~ (F[x] = Null \/ key <= K[F[x]])
        <5>1. SUFFICES ASSUME F[x] = Null \/ key <= K[F[x]] PROVE FALSE
          OBVIOUS
        <5>2. LastBelow(S, K, F, key, x)
          BY <3>1, <3>2, <5>1 DEF LastBelow
        <5>. QED
          BY <2>3, <5>2, LastUnique
      <4>2. F[x] \in S /\ K[F[x]] \in Int /\ K[F[x]] < key /\ (x = HeadNode \/ K[x] < K[F[x]])
        <5>1. F[x] \in S /\ (x = HeadNode \/ K[x] < K[F[x]])
          BY <1>4, <3>1, <4>1, Zenon
        <5>2. K[F[x]] \in Int
          BY <1>10, <5>1, Zenon
        <5>. QED
          BY <4>1, <5>1, <5>2
      <4>3. \A z \in S : x = HeadNode \/ K[x] < K[z] => K[F[x]] <= K[z]
        BY <1>4, <3>1, <4>1
      <4>4. PICK q \in S : q = F[x]
        BY <4>2
      <4>5. L[q] = K[q] /\ K[q] <= key
        BY <1>10, <4>2, <4>4
      <4>. QED
        BY <1>6, <1>10, <3>1, <4>2, <4>3, <4>4, <4>5
    <3>3. CASE x # HeadNode /\ ~ (K[x] < key)
      <4>1. key < K[x] /\ ~ (L[x] < L[m]) /\ L[m] <= L[x]
        BY <1>0, <1>3, <1>6, <3>1, <3>3, <1>10
      <4>2. CASE F[x] = Null
        BY <1>4, <1>10, <3>1, <3>3, <4>1, <4>2 DEF Null
      <4>3. CASE F[x] # Null
        <5>1. PICK q \in S : q = F[x] /\ K[x] < K[q] /\ \A z \in S : K[x] < K[z] => K[q] <= K[z]
          BY <1>4, <3>1, <3>3, <4>3
        <5>. QED
          BY <1>10, <3>1, <3>3, <4>1, <5>1
      <4>. QED
        BY <4>2, <4>3
    <3>. QED
      BY <3>2, <3>3
  <2>. QED
    BY <2>1, <2>2, <2>3
<1>12. S \cup {m} \in SUBSET (1 .. m)
  BY <1>3, <1>10
<1>13. Threaded(m, S \cup {m}, L, G)
  BY <1>3, <1>7, <1>8, <1>9, <1>11, <1>12 DEF Threaded
<1>. QED
  BY <1>2, <1>13

\* A level the new node is not on stays as it is.
LEMMA NodeLeftOut ==
    ASSUME NEW n, NEW S, NEW K, NEW F, Threaded(n, S, K, F), NEW key \in Int,
           \A x \in 1 .. n : K[x] # key,
           NEW L, \A x \in 0 .. n : L[x] = K[x], L[n + 1] = key,
           NEW G, G[n + 1] = Null, \A x \in 0 .. n : G[x] = F[x]
    PROVE  Threaded(n + 1, S, L, G)
<1>1. /\ n \in Nat /\ S \in SUBSET (1 .. n)
      /\ \A x \in 0 .. n : K[x] \in Int
      /\ \A x, y \in 1 .. n : K[x] = K[y] => x = y
  BY DEF Threaded
<1>2. PICK m : m = n + 1
  OBVIOUS
<1>3. /\ m \notin S /\ m # HeadNode /\ m \in Nat /\ S \in SUBSET (1 .. m)
      /\ \A x \in 0 .. m : x \in 0 .. n \/ x = m
      /\ \A x \in 1 .. m : x \in 1 .. n \/ x = m
      /\ \A x \in 1 .. n : x # m /\ x \in 0 .. n
  BY <1>1, <1>2 DEF HeadNode
<1>4. L[m] = key /\ G[m] = Null /\ (\A x \in 0 .. n : L[x] = K[x] /\ G[x] = F[x])
  BY <1>2
<1>5. \A x \in 0 .. m : L[x] \in Int
  BY <1>1, <1>3, <1>4
<1>6. \A x, y \in 1 .. m : L[x] = L[y] => x = y
  <2>1. ASSUME NEW x \in 1 .. m, NEW y \in 1 .. m, L[x] = L[y] PROVE x = y
    <3>1. CASE x \in 1 .. n /\ y \in 1 .. n
      BY <1>1, <1>3, <1>4, <2>1, <3>1
    <3>2. CASE x = m \/ y = m
      BY <1>3, <1>4, <2>1, <3>2
    <3>. QED
      BY <1>3, <3>1, <3>2
  <2>. QED
    BY <2>1
<1>7. \A x \in 0 .. m : x \notin S /\ x # HeadNode => G[x] = Null
  <2>1. \A x \in 0 .. n : x \notin S /\ x # HeadNode => F[x] = Null
    BY DEF Threaded
  <2>. QED
    BY <1>3, <1>4, <2>1
<1>8. ASSUME NEW x \in 0 .. m, x \in S \/ x = HeadNode
      PROVE  \/ G[x] = Null /\ \A z \in S : x # HeadNode /\ L[z] <= L[x]
             \/ /\ G[x] \in S /\ (x = HeadNode \/ L[x] < L[G[x]])
                /\ \A z \in S : x = HeadNode \/ L[x] < L[z] => L[G[x]] <= L[z]
  <2>1. x \in 0 .. n /\ L[x] = K[x] /\ G[x] = F[x] /\ \A z \in S : L[z] = K[z]
    BY <1>1, <1>3, <1>4, <1>8
  <2>2. \/ F[x] = Null /\ \A z \in S : x # HeadNode /\ K[z] <= K[x]
        \/ /\ F[x] \in S /\ (x = HeadNode \/ K[x] < K[F[x]])
           /\ \A z \in S : x = HeadNode \/ K[x] < K[z] => K[F[x]] <= K[z]
    BY <1>8, <2>1 DEF Threaded
  <2>. QED
    BY <2>1, <2>2
<1>9. Threaded(m, S, L, G)
  BY <1>3, <1>5, <1>6, <1>7, <1>8 DEF Threaded
<1>. QED
  BY <1>2, <1>9

----------------------------------------------------------------------------

\* The keys of the nodes, and their pointers on a level.
KeysTo(n) == [x \in 0 .. n |-> node[x].key]
ForwardOn(n, i) == [x \in 0 .. n |-> node[x].forward[i]]

\* n nodes are allocated besides the head, and on[i] are those on level i.
Towers(n, on) ==
    /\ n \in Nat
    /\ node \in [0 .. n -> [key : Int, val : Value \cup {Absent}, forward : [Level -> Int]]]
    /\ \A x \in 1 .. n : node[x].key \in MapKey /\ node[x].val \in Value
    /\ level \in Level
    /\ len = n
    /\ on \in [Level -> SUBSET (1 .. n)]
    /\ on[0] = 1 .. n
    /\ \A i \in Level : i # 0 => on[i] \in SUBSET on[i - 1]
    /\ \A i \in Level : level < i => on[i] = {}
    /\ \A i \in Level : Threaded(n, on[i], KeysTo(n), ForwardOn(n, i))

SkipInv == \E n, on : Towers(n, on)

LEMMA NodesAre ==
    ASSUME NEW n, NEW on, Towers(n, on)
    PROVE  /\ n \in Nat /\ DOMAIN node = 0 .. n /\ Cardinality(DOMAIN node) = n + 1
           /\ 0 \in Level /\ HeadNode \in 0 .. n
           /\ \A x \in 0 .. n : KeysTo(n)[x] = node[x].key
           /\ \A x \in 0 .. n, i \in Level : ForwardOn(n, i)[x] = node[x].forward[i]
           /\ \A i \in Level, x \in 0 .. n : x \in on[i] \/ x = HeadNode =>
                node[x].forward[i] = Null \/ node[x].forward[i] \in on[i]
           /\ \A i \in Level, x \in 0 .. n : x \notin on[i] /\ x # HeadNode => node[x].forward[i] = Null
           /\ \A i \in Level : \A x \in on[i] : x \in 1 .. n /\ x \in 0 .. n /\ x # HeadNode /\ x # Null
<1>1. n \in Nat /\ DOMAIN node = 0 .. n
  BY DEF Towers
<1>2. Cardinality(0 .. n) = n + 1
  <2>1. Cardinality(0 .. n) = IF 0 > n THEN 0 ELSE n - 0 + 1
    BY <1>1, FS_Interval
  <2>. QED
    BY <1>1, <2>1
<1>3. 0 \in Level /\ HeadNode \in 0 .. n
  BY <1>1, SkipListAssumption DEF Level, HeadNode
<1>4. /\ \A x \in 0 .. n : KeysTo(n)[x] = node[x].key
      /\ \A x \in 0 .. n, i \in Level : ForwardOn(n, i)[x] = node[x].forward[i]
  BY DEF KeysTo, ForwardOn
<1>5. ASSUME NEW i \in Level
      PROVE  /\ \A x \in 0 .. n : x \in on[i] \/ x = HeadNode =>
                    node[x].forward[i] = Null \/ node[x].forward[i] \in on[i]
             /\ \A x \in 0 .. n : x \notin on[i] /\ x # HeadNode => node[x].forward[i] = Null
             /\ \A x \in on[i] : x \in 1 .. n /\ x \in 0 .. n /\ x # HeadNode /\ x # Null
  <2>1. Threaded(n, on[i], KeysTo(n), ForwardOn(n, i))
    BY DEF Towers
  <2>2. \A x \in on[i] : x \in 1 .. n /\ x \in 0 .. n /\ x # HeadNode /\ x # Null
    BY <1>1, <2>1 DEF Threaded, HeadNode, Null
  <2>3. /\ \A x \in 0 .. n : x \notin on[i] /\ x # HeadNode => ForwardOn(n, i)[x] = Null
        /\ \A x \in 0 .. n : x \in on[i] \/ x = HeadNode =>
                ForwardOn(n, i)[x] = Null \/ ForwardOn(n, i)[x] \in on[i]
    BY <2>1 DEF Threaded
  <2>. QED
    BY <1>4, <2>2, <2>3
<1>. QED
  BY <1>1, <1>2, <1>3, <1>4, <1>5

(* The search along a level finds the last node with a lower key.          *)
LEMMA AlongIs ==
    ASSUME NEW n, NEW on, Towers(n, on), NEW i \in Level, NEW key \in Int,
           NEW from, from \in on[i] \/ from = HeadNode, from = HeadNode \/ KeysTo(n)[from] < key
    PROVE  LastBelow(on[i], KeysTo(n), ForwardOn(n, i), key, Along(from, i, key))
<1>1. Threaded(n, on[i], KeysTo(n), ForwardOn(n, i))
  BY DEF Towers
<1>2. PICK K, F : K = KeysTo(n) /\ F = ForwardOn(n, i)
  OBVIOUS
<1>3. \A x \in 0 .. n : /\ F[x] = node[x].forward[i]
                        /\ F[x] # Null => F[x] \in 0 .. n /\ K[F[x]] = node[F[x]].key
  <2>1. ASSUME NEW x \in 0 .. n, F[x] # Null PROVE F[x] \in 0 .. n
    <3>1. F[x] = node[x].forward[i]
      BY <1>2, NodesAre
    <3>2. F[x] \in on[i]
      BY <2>1, <3>1, NodesAre
    <3>. QED
      BY <3>2, NodesAre
  <2>. QED
    BY <1>2, <2>1, NodesAre
<1>4. PICK f : f = [x \in 0 .. n |-> IF F[x] = Null \/ (F[x] # Null /\ K[F[x]] >= key) THEN x ELSE f[F[x]]]
  <2>1. Threaded(n, on[i], K, F)
    BY <1>1, <1>2
  <2>2. \E f : Searches(n, K, F, key, f)
    BY <2>1, SearchDefined, Zenon
  <2>. QED
    BY <2>2, Zenon DEF Searches
<1>. DEFINE Goes(g) == g = [x \in DOMAIN node |->
                LET next == node[x].forward[i]
                IN  IF next = Null \/ (next # Null /\ node[next].key >= key) THEN x ELSE g[next]]
<1>5. \E g : Goes(g)
  <2>1. \A x \in 0 .. n : f[x] = IF node[x].forward[i] = Null
                                   \/ (node[x].forward[i] # Null /\ node[node[x].forward[i]].key >= key)
                                 THEN x ELSE f[node[x].forward[i]]
    BY <1>3, <1>4
  <2>2. f = [x \in 0 .. n |-> f[x]]
    BY <1>4
  <2>3. DOMAIN node = 0 .. n
    BY NodesAre
  <2>4. Goes(f)
    BY <2>1, <2>2, <2>3
  <2>. QED
    BY <2>4
<1>6. PICK g : g = (CHOOSE h : Goes(h)) /\ Goes(g)
  <2>. HIDE DEF Goes
  <2>. QED
    BY <1>5
<1>7. Along(from, i, key) = g[from]
  BY <1>6 DEF Along
<1>8. \A x \in 0 .. n : g[x] = IF F[x] = Null \/ (F[x] # Null /\ K[F[x]] >= key) THEN x ELSE g[F[x]]
  <2>1. DOMAIN node = 0 .. n
    BY NodesAre
  <2>2. \A x \in 0 .. n : g[x] = IF node[x].forward[i] = Null
                                   \/ (node[x].forward[i] # Null /\ node[node[x].forward[i]].key >= key)
                                 THEN x ELSE g[node[x].forward[i]]
    BY <1>6, <2>1
  <2>. QED
    BY <1>3, <2>2
<1>. HIDE DEF Goes
<1>. QED
  BY <1>1, <1>2, <1>7, <1>8, SearchEnds

(* The nodes the search from the top level down passes.                    *)
LEMMA BeforeIs ==
    ASSUME NEW n, NEW on, Towers(n, on), NEW key \in Int
    PROVE  \A i \in 0 .. level : LastBelow(on[i], KeysTo(n), ForwardOn(n, i), key, Before(key)[i])
<1>1. /\ level \in Nat /\ \A i \in 0 .. level + 1 : i # level + 1 => i \in Level /\ i + 1 \in 0 .. level + 1
      /\ \A i \in Level : i \in Nat
      /\ \A i \in 0 .. level : i \in Level
  BY SkipListAssumption DEF Towers, Level
<1>2. \A i \in Level : Threaded(n, on[i], KeysTo(n), ForwardOn(n, i))
  BY DEF Towers
<1>. DEFINE Ends(i, p) == LastBelow(on[i], KeysTo(n), ForwardOn(n, i), key, p)
            Found1(i) == CHOOSE p : Ends(i, p)
            Descends(u) == u = [i \in 0 .. level + 1 |->
                                IF i = level + 1 THEN HeadNode ELSE Along(u[i + 1], i, key)]
<1>3. \A i \in Level : Ends(i, Found1(i))
  <2>1. \A i \in Level : \E p : Ends(i, p)
    BY <1>2, LastExists
  <2>. QED
    BY <2>1
\* Where the search of one level ends, that of the level below may start.
<1>4. ASSUME NEW i \in Level, NEW p, (i = level /\ p = HeadNode) \/ (i + 1 \in Level /\ Ends(i + 1, p))
      PROVE  Ends(i, Along(p, i, key))
  <2>0. (i = level /\ p = HeadNode) \/ (i + 1 \in Level /\ Ends(i + 1, p))
    BY <1>4
  <2>1. i + 1 \in Level => on[i + 1] \in SUBSET on[i]
    <3>1. i + 1 # 0 /\ (i + 1) - 1 = i
      BY <1>1
    <3>. QED
      BY <3>1 DEF Towers
  <2>2. (p \in on[i] \/ p = HeadNode) /\ (p = HeadNode \/ KeysTo(n)[p] < key)
    BY <2>0, <2>1 DEF LastBelow
  <2>. QED
    BY <2>2, AlongIs
<1>5. \E u : Descends(u)
  <2>. DEFINE u == [i \in 0 .. level + 1 |-> IF i = level + 1 THEN HeadNode ELSE Found1(i)]
  <2>1. ASSUME NEW i \in 0 .. level + 1, i # level + 1
        PROVE  u[i] = Along(u[i + 1], i, key)
    <3>1. i \in Level /\ i + 1 \in 0 .. level + 1 /\ u[i] = Found1(i)
      BY <1>1, <2>1
    <3>2. (i = level /\ u[i + 1] = HeadNode) \/ (i + 1 \in Level /\ u[i + 1] = Found1(i + 1))
      <4>1. (i = level /\ i + 1 = level + 1) \/ (i + 1 \in Level /\ i + 1 # level + 1)
        <5>1. level \in Level /\ i \in Nat /\ level \in Nat
          BY <1>1, <3>1 DEF Towers
        <5>. QED
          BY <1>1, <2>1, <3>1, <5>1
      <4>. HIDE DEF Found1
      <4>. QED
        BY <3>1, <4>1
    <3>3. Ends(i, Along(u[i + 1], i, key))
      <4>. HIDE DEF Ends, Found1, u
      <4>. QED
        BY <1>3, <1>4, <3>1, <3>2
    <3>4. Ends(i, u[i])
      BY <1>3, <3>1
    <3>5. Threaded(n, on[i], KeysTo(n), ForwardOn(n, i))
      BY <1>2, <3>1
    <3>. HIDE DEF u, Found1
    <3>. QED
      BY <3>3, <3>4, <3>5, LastUnique
  <2>2. u[level + 1] = HeadNode
    BY <1>1
  <2>3. Descends(u)
    <3>1. u = [i \in 0 .. level + 1 |-> u[i]]
      OBVIOUS
    <3>. HIDE DEF u
    <3>2. \A i \in 0 .. level + 1 : u[i] = IF i = level + 1 THEN HeadNode ELSE Along(u[i + 1], i, key)
      <4>1. ASSUME NEW i \in 0 .. level + 1
            PROVE  u[i] = IF i = level + 1 THEN HeadNode ELSE Along(u[i + 1], i, key)
        <5>1. CASE i = level + 1
          BY <2>2, <5>1
        <5>2. CASE i # level + 1
          BY <2>1, <5>2
        <5>. QED
          BY <5>1, <5>2
      <4>. QED
        BY <4>1
    <3>. QED
      BY <3>1, <3>2
  <2>. HIDE DEF Descends, u
  <2>. QED
    BY <2>3
<1>6. PICK u : u = (CHOOSE w : Descends(w)) /\ Descends(u)
  <2>. HIDE DEF Descends
  <2>. QED
    BY <1>5
<1>7. Before(key) = u
  BY <1>6 DEF Before
<1>8. /\ u[level + 1] = HeadNode
      /\ \A i \in 0 .. level : u[i] = Along(u[i + 1], i, key)
  BY <1>1, <1>6, SMTT(60)
<1>9. PICK T : T = { i \in 0 .. level : ~ Ends(i, u[i]) }
  OBVIOUS
<1>. HIDE DEF Ends, Descends
<1>10. T = {}
  <2>1. SUFFICES ASSUME T # {} PROVE FALSE
    OBVIOUS
  <2>2. PICK t \in T : \A k \in T : k <= t
    <3>1. IsFiniteSet(T)
      <4>1. T \in SUBSET (0 .. level)
        BY <1>9
      <4>2. IsFiniteSet(0 .. level)
        BY <1>1, FS_Interval
      <4>. QED
        BY <4>1, <4>2, FS_Subset
    <3>2. PICK id : id = [x \in T |-> x]
      OBVIOUS
    <3>3. \A x \in T : id[x] \in Int /\ id[x] = x
      BY <1>1, <1>9, <3>2
    <3>. QED
      BY <2>1, <3>1, <3>3, Highest
  <2>3. t \in 0 .. level /\ t \in Level /\ ~ Ends(t, u[t])
    BY <1>1, <1>9
  <2>4. (t = level /\ u[t + 1] = HeadNode) \/ (t + 1 \in 0 .. level /\ t + 1 \notin T)
    <3>1. t \in Int /\ t + 1 \notin T
      BY <1>1, <2>2, <2>3
    <3>2. t = level \/ t + 1 \in 0 .. level
      BY <1>1, <2>3
    <3>. QED
      BY <1>8, <3>1, <3>2
  <2>5. (t = level /\ u[t + 1] = HeadNode) \/ (t + 1 \in Level /\ Ends(t + 1, u[t + 1]))
    BY <1>1, <1>9, <2>4
  <2>6. Ends(t, u[t])
    BY <1>4, <1>8, <2>3, <2>5
  <2>. QED
    BY <2>3, <2>6
<1>. QED
  BY <1>7, <1>9, <1>10 DEF Ends

(* The candidate is the node of the key, if there is one.                  *)
LEMMA FoundIs ==
    ASSUME NEW n, NEW on, Towers(n, on), NEW key \in Int
    PROVE  /\ \A x \in 1 .. n : node[x].key = key => Found(key) /\ Candidate(key) = x
           /\ Found(key) => Candidate(key) \in 1 .. n /\ node[Candidate(key)].key = key
<1>1. PICK p : p = Before(key)[0]
  OBVIOUS
<1>2. LastBelow(on[0], KeysTo(n), ForwardOn(n, 0), key, p) /\ on[0] = 1 .. n
  <2>1. 0 \in 0 .. level /\ on[0] = 1 .. n
    BY SkipListAssumption DEF Towers, Level
  <2>. QED
    BY <1>1, <2>1, BeforeIs
<1>3. p \in 0 .. n /\ (p \in 1 .. n \/ p = HeadNode)
  BY <1>2, NodesAre DEF LastBelow
<1>4. PICK c : c = Candidate(key)
  OBVIOUS
<1>5. /\ c = node[p].forward[0]
      /\ (p = HeadNode \/ node[p].key < key)
      /\ c = Null \/ (c \in 1 .. n /\ key <= node[c].key)
  <2>1. c = node[p].forward[0] /\ ForwardOn(n, 0)[p] = c /\ KeysTo(n)[p] = node[p].key
    BY <1>1, <1>3, <1>4, NodesAre DEF Candidate
  <2>2. c = Null \/ c \in 1 .. n
    BY <1>2, <1>3, <2>1, NodesAre
  <2>3. c \in 1 .. n => KeysTo(n)[c] = node[c].key
    BY <1>2, NodesAre
  <2>. QED
    BY <1>2, <2>1, <2>2, <2>3 DEF LastBelow
<1>6. Found(key) <=> c # Null /\ node[c].key = key
  BY <1>4 DEF Found
<1>7. ASSUME NEW x \in 1 .. n, node[x].key = key PROVE c = x /\ c # Null
  <2>1. /\ Threaded(n, on[0], KeysTo(n), ForwardOn(n, 0))
        /\ \A y \in 0 .. n : KeysTo(n)[y] = node[y].key
        /\ ForwardOn(n, 0)[p] = c
    <3>1. 0 \in Level
      BY NodesAre
    <3>2. \A y \in 0 .. n : KeysTo(n)[y] = node[y].key
      BY NodesAre
    <3>3. ForwardOn(n, 0)[p] = node[p].forward[0]
      BY <1>3, <3>1, NodesAre
    <3>4. Threaded(n, on[0], KeysTo(n), ForwardOn(n, 0))
      BY <3>1 DEF Towers
    <3>. QED
      BY <1>5, <3>2, <3>3, <3>4
  <2>2. /\ \A y, z \in 1 .. n : KeysTo(n)[y] = KeysTo(n)[z] => y = z
        /\ \/ c = Null /\ \A z \in 1 .. n : p # HeadNode /\ KeysTo(n)[z] <= KeysTo(n)[p]
           \/ c \in 1 .. n /\ \A z \in 1 .. n : p = HeadNode \/ KeysTo(n)[p] < KeysTo(n)[z]
                                                    => KeysTo(n)[c] <= KeysTo(n)[z]
    BY <1>2, <1>3, <2>1 DEF Threaded
  <2>3. \A y \in 1 .. n : y \in 0 .. n /\ KeysTo(n)[y] = node[y].key /\ node[y].key \in Int /\ y # Null
    <3>1. \A y \in 1 .. n : y \in 0 .. n /\ y # Null
      BY NodesAre DEF Null
    <3>2. \A y \in 0 .. n : node[y].key \in Int
      BY DEF Towers
    <3>. QED
      BY <2>1, <3>1, <3>2
  <2>4. KeysTo(n)[p] = node[p].key /\ node[p].key \in Int
    <3>1. node[p] \in [key : Int, val : Value \cup {Absent}, forward : [Level -> Int]]
      BY <1>3 DEF Towers
    <3>. QED
      BY <1>3, <2>1, <3>1
  <2>5. c # Null
    BY <1>5, <1>7, <2>2, <2>3, <2>4
  <2>6. c \in 1 .. n /\ node[c].key <= node[x].key
    BY <1>5, <1>7, <2>2, <2>3, <2>4, <2>5
  <2>7. node[c].key = node[x].key
    BY <1>5, <1>7, <2>3, <2>5, <2>6
  <2>. QED
    BY <2>2, <2>3, <2>5, <2>6, <2>7
<1>. QED
  BY <1>4, <1>5, <1>6, <1>7

----------------------------------------------------------------------------

LEMMA EmptyTowers ==
    ASSUME node \in [0 .. 0 -> [key : Int, val : Value \cup {Absent}, forward : [Level -> Int]]],
           \A i \in Level : node[HeadNode].forward[i] = Null, level = 0, len = 0
    PROVE  SkipInv
<1>1. PICK on : on = [i \in Level |-> {}]
  OBVIOUS
<1>2. 0 \in Level /\ 0 .. 0 = {HeadNode} /\ 1 .. 0 = {}
  BY SkipListAssumption DEF Level, HeadNode
<1>3. ASSUME NEW i \in Level PROVE Threaded(0, on[i], KeysTo(0), ForwardOn(0, i))
  <2>1. KeysTo(0)[HeadNode] \in Int /\ ForwardOn(0, i)[HeadNode] = Null
    BY <1>2 DEF KeysTo, ForwardOn
  <2>2. on[i] = {}
    BY <1>1
  <2>. QED
    BY <1>2, <2>1, <2>2 DEF Threaded
<1>4. \A i \in Level : i # 0 => on[i] \in SUBSET on[i - 1]
  BY <1>1
<1>5. on \in [Level -> SUBSET (1 .. 0)] /\ on[0] = 1 .. 0 /\ \A i \in Level : on[i] = {}
  BY <1>1, <1>2
<1>6. Towers(0, on)
  BY <1>2, <1>3, <1>4, <1>5 DEF Towers
<1>. QED
  BY <1>6 DEF SkipInv

LEMMA EmptyTowersNext ==
    (   /\ node \in [0 .. 0 -> [key : Int, val : Value \cup {Absent}, forward : [Level -> Int]]]
        /\ \A i \in Level : node[HeadNode].forward[i] = Null
        /\ level = 0 /\ len = 0
     => SkipInv)'
<1>1.   /\ node \in [0 .. 0 -> [key : Int, val : Value \cup {Absent}, forward : [Level -> Int]]]
        /\ \A i \in Level : node[HeadNode].forward[i] = Null
        /\ level = 0 /\ len = 0
     => SkipInv
  BY EmptyTowers
<1>. QED
  BY <1>1, PTL

LEMMA OverwriteKeeps ==
    ASSUME NEW n, NEW on, Towers(n, on), NEW key \in MapKey, NEW val \in Value, Overwrite(key, val)
    PROVE  /\ Towers(n, on)'
           /\ \E c \in 1 .. n :
                /\ node[c].key = key
                /\ \A x \in 0 .. n : /\ node'[x].key = node[x].key
                                     /\ node'[x].val = (IF x = c THEN val ELSE node[x].val)
<1>1. key \in Int
  BY SkipListAssumption
<1>2. PICK c \in 1 .. n : c = Candidate(key) /\ node[c].key = key
  BY <1>1, FoundIs DEF Overwrite
<1>3. node' = [node EXCEPT ![c] = [@ EXCEPT !.val = val]] /\ level' = level /\ len' = len
  BY <1>2 DEF Overwrite
<1>. DEFINE Rec == [key : Int, val : Value \cup {Absent}, forward : [Level -> Int]]
<1>4. node \in [0 .. n -> Rec] /\ c \in 0 .. n /\ n \in Nat
  BY NodesAre DEF Towers
<1>5. \A x \in 0 .. n : /\ node'[x] \in Rec /\ node'[x].key = node[x].key /\ node'[x].forward = node[x].forward
                        /\ node'[x].val = (IF x = c THEN val ELSE node[x].val)
  <2>1. ASSUME NEW x \in 0 .. n
        PROVE  /\ node'[x] \in Rec /\ node'[x].key = node[x].key /\ node'[x].forward = node[x].forward
               /\ node'[x].val = (IF x = c THEN val ELSE node[x].val)
    <3>1. node[x] \in Rec
      BY <1>4
    <3>2. CASE x = c
      <4>1. node'[x] = [node[x] EXCEPT !.val = val]
        BY <1>3, <1>4, <3>2
      <4>. QED
        BY <3>1, <3>2, <4>1
    <3>3. CASE x # c
      <4>1. node'[x] = node[x]
        BY <1>3, <1>4, <3>3
      <4>. QED
        BY <3>1, <3>3, <4>1
    <3>. QED
      BY <3>2, <3>3
  <2>. QED
    BY <2>1
<1>6. node' \in [0 .. n -> Rec]
  <2>1. DOMAIN node' = 0 .. n /\ node' = [x \in 0 .. n |-> node'[x]]
    BY <1>3, <1>4
  <2>. HIDE DEF Rec
  <2>. QED
    BY <1>5, <2>1
<1>7. KeysTo(n)' = KeysTo(n) /\ \A i \in Level : ForwardOn(n, i)' = ForwardOn(n, i)
  BY <1>5 DEF KeysTo, ForwardOn
<1>8. \A x \in 1 .. n : node'[x].key \in MapKey /\ node'[x].val \in Value
  <2>1. \A x \in 1 .. n : x \in 0 .. n /\ node[x].key \in MapKey /\ node[x].val \in Value
    BY NodesAre DEF Towers
  <2>. QED
    BY <1>5, <2>1
<1>9. /\ level' \in Level /\ len' = n
      /\ on \in [Level -> SUBSET (1 .. n)] /\ on[0] = 1 .. n
      /\ \A i \in Level : i # 0 => on[i] \in SUBSET on[i - 1]
      /\ \A i \in Level : level' < i => on[i] = {}
      /\ \A i \in Level : Threaded(n, on[i], KeysTo(n)', ForwardOn(n, i)')
  BY <1>3, <1>7 DEF Towers
<1>10. Towers(n, on)'
  BY <1>4, <1>6, <1>8, <1>9 DEF Towers
<1>. QED
  BY <1>2, <1>5, <1>10

LEMMA LinkKeeps ==
    ASSUME NEW n, NEW on, Towers(n, on), NEW key \in MapKey, NEW val \in Value, NEW newLevel \in Level,
           Link(key, val, newLevel)
    PROVE  /\ SkipInv'
           /\ DOMAIN node' = 0 .. (n + 1)
           /\ node'[n + 1].key = key /\ node'[n + 1].val = val
           /\ \A x \in 0 .. n : node'[x].key = node[x].key /\ node'[x].val = node[x].val
<1>. DEFINE Rec == [key : Int, val : Value \cup {Absent}, forward : [Level -> Int]]
<1>1. key \in Int /\ n \in Nat /\ node \in [0 .. n -> Rec] /\ level \in Level /\ len = n
  BY SkipListAssumption DEF Towers
<1>2. PICK m : m = n + 1 /\ m = Cardinality(DOMAIN node) /\ DOMAIN node = 0 .. n
  BY NodesAre
<1>3. /\ 0 .. m = (0 .. n) \cup {m} /\ m \notin 0 .. n /\ m \in Nat /\ m \in 1 .. m
      /\ 1 .. m = (1 .. n) \cup {m} /\ 1 .. n \in SUBSET (0 .. n)
  BY <1>1, <1>2
<1>4. PICK u : u = [i \in Level |-> IF i <= level THEN Before(key)[i] ELSE HeadNode]
  OBVIOUS
<1>5. PICK a : a = [i \in Level |-> IF i <= newLevel THEN node[u[i]].forward[i] ELSE Null]
  OBVIOUS
<1>6. /\ node' = [x \in (0 .. n) \cup {m} |->
                    IF x = m THEN [key |-> key, val |-> val, forward |-> a]
                    ELSE [node[x] EXCEPT !.forward =
                            [i \in Level |-> IF i <= newLevel /\ u[i] = x THEN m ELSE @[i]]]]
      /\ level' = (IF newLevel > level THEN newLevel ELSE level)
      /\ len' = len + 1
  BY <1>2, <1>4, <1>5 DEF Link
<1>7. \A x \in 1 .. n : node[x].key # key
  BY <1>1, FoundIs DEF Link
\* On every level the node before the new one is the last below key.
<1>8. ASSUME NEW i \in Level
      PROVE  LastBelow(on[i], KeysTo(n), ForwardOn(n, i), key, u[i]) /\ u[i] \in 0 .. n
  <2>1. CASE i <= level
    <3>1. i \in 0 .. level /\ u[i] = Before(key)[i]
      BY <1>1, <1>4, <2>1 DEF Level
    <3>2. LastBelow(on[i], KeysTo(n), ForwardOn(n, i), key, u[i])
      BY <1>1, <3>1, BeforeIs
    <3>3. u[i] \in on[i] \/ u[i] = HeadNode
      BY <3>2 DEF LastBelow
    <3>. QED
      BY <3>2, <3>3, NodesAre
  <2>2. CASE ~ (i <= level)
    <3>1. on[i] = {} /\ u[i] = HeadNode
      BY <1>1, <1>4, <2>2 DEF Towers, Level
    <3>2. ForwardOn(n, i)[HeadNode] = Null
      <4>1. node[HeadNode].forward[i] = Null
        BY <3>1, NodesAre
      <4>. QED
        BY <4>1, NodesAre
    <3>. QED
      BY <3>1, <3>2, NodesAre DEF LastBelow
  <2>. QED
    BY <2>1, <2>2
<1>9. /\ node'[m] = [key |-> key, val |-> val, forward |-> a]
      /\ \A x \in 0 .. n : node'[x] = [node[x] EXCEPT !.forward =
                                        [i \in Level |-> IF i <= newLevel /\ u[i] = x THEN m ELSE @[i]]]
      /\ DOMAIN node' = 0 .. m /\ node' = [x \in 0 .. m |-> node'[x]]
  BY <1>3, <1>6
<1>10. a \in [Level -> Int]
  <2>1. ASSUME NEW i \in Level PROVE a[i] \in Int
    <3>1. u[i] \in 0 .. n
      BY <1>8
    <3>2. node[u[i]].forward[i] \in Int
      BY <1>1, <3>1
    <3>. QED
      BY <1>5, <3>2 DEF Null
  <2>. QED
    BY <1>5, <2>1
<1>11. node'[m].key = key /\ node'[m].val = val /\ node'[m].forward = a /\ node'[m] \in Rec
  BY <1>1, <1>9, <1>10
<1>12. \A x \in 0 .. n : /\ node'[x].key = node[x].key /\ node'[x].val = node[x].val
                         /\ node'[x].forward = [i \in Level |-> IF i <= newLevel /\ u[i] = x THEN m
                                                                ELSE node[x].forward[i]]
                         /\ node'[x] \in Rec
  <2>1. ASSUME NEW x \in 0 .. n
        PROVE  /\ node'[x].key = node[x].key /\ node'[x].val = node[x].val
               /\ node'[x].forward = [i \in Level |-> IF i <= newLevel /\ u[i] = x THEN m
                                                      ELSE node[x].forward[i]]
               /\ node'[x] \in Rec
    <3>1. node[x] \in Rec
      BY <1>1
    <3>2. PICK f : f = [i \in Level |-> IF i <= newLevel /\ u[i] = x THEN m ELSE node[x].forward[i]]
      OBVIOUS
    <3>3. f \in [Level -> Int]
      BY <1>3, <3>1, <3>2
    <3>4. node'[x] = [node[x] EXCEPT !.forward = f]
      BY <1>9, <3>2
    <3>. QED
      BY <3>1, <3>2, <3>3, <3>4
  <2>. QED
    BY <2>1
<1>13. node' \in [0 .. m -> Rec]
  <2>1. \A x \in 0 .. m : node'[x] \in Rec
    BY <1>3, <1>11, <1>12
  <2>. HIDE DEF Rec
  <2>. QED
    BY <1>9, <2>1
<1>14. PICK o : o = [i \in Level |-> IF i <= newLevel THEN on[i] \cup {m} ELSE on[i]]
  OBVIOUS
<1>15. ASSUME NEW i \in Level PROVE Threaded(m, o[i], KeysTo(m)', ForwardOn(m, i)')
  <2>1. Threaded(n, on[i], KeysTo(n), ForwardOn(n, i)) /\ LastBelow(on[i], KeysTo(n), ForwardOn(n, i), key, u[i])
    BY <1>8 DEF Towers
  <2>2. PICK S, K, F, L, G, p : /\ S = on[i] /\ K = KeysTo(n) /\ F = ForwardOn(n, i) /\ p = u[i]
                                /\ L = KeysTo(m)' /\ G = ForwardOn(m, i)'
    OBVIOUS
  <2>3. /\ \A x \in 0 .. n : K[x] = node[x].key /\ F[x] = node[x].forward[i]
        /\ \A x \in 1 .. n : K[x] # key
    BY <1>3, <1>7, <2>2 DEF KeysTo, ForwardOn
  <2>4. \A x \in 0 .. m : L[x] = node'[x].key /\ G[x] = node'[x].forward[i]
    BY <2>2 DEF KeysTo, ForwardOn
  <2>5. /\ \A x \in 0 .. n : L[x] = K[x]
        /\ L[m] = key
        /\ G[m] = a[i]
        /\ \A x \in 0 .. n : G[x] = (IF i <= newLevel /\ p = x THEN m ELSE F[x])
    <3>1. \A x \in 0 .. n : x \in 0 .. m
      BY <1>3
    <3>2. m \in 0 .. m
      BY <1>3
    <3>3. \A x \in 0 .. n : L[x] = K[x]
      BY <1>12, <2>3, <2>4, <3>1
    <3>4. L[m] = key /\ G[m] = a[i]
      BY <1>11, <2>4, <3>2
    <3>5. \A x \in 0 .. n : G[x] = (IF i <= newLevel /\ p = x THEN m ELSE F[x])
      <4>1. ASSUME NEW x \in 0 .. n PROVE G[x] = (IF i <= newLevel /\ p = x THEN m ELSE F[x])
        <5>1. G[x] = node'[x].forward[i] /\ F[x] = node[x].forward[i] /\ p = u[i]
          BY <2>2, <2>3, <2>4, <3>1
        <5>2. PICK f : f = node'[x].forward
          OBVIOUS
        <5>3. f = [j \in Level |-> IF j <= newLevel /\ u[j] = x THEN m ELSE node[x].forward[j]]
          BY <1>12, <5>2
        <5>4. f[i] = IF i <= newLevel /\ u[i] = x THEN m ELSE node[x].forward[i]
          BY <5>3
        <5>. QED
          BY <5>1, <5>2, <5>4
      <4>. QED
        BY <4>1
    <3>. QED
      BY <3>3, <3>4, <3>5
  <2>6. CASE i <= newLevel
    <3>1. o[i] = S \cup {m} /\ G[m] = F[p]
      <4>1. p \in 0 .. n
        BY <1>8, <2>2
      <4>. QED
        BY <1>5, <1>14, <2>2, <2>3, <2>5, <2>6, <4>1
    <3>2. \A x \in 0 .. n : G[x] = (IF x = p THEN m ELSE F[x])
      BY <2>5, <2>6
    <3>3. Threaded(n, S, K, F) /\ LastBelow(S, K, F, key, p)
      BY <2>1, <2>2
    <3>4. Threaded(n + 1, S \cup {n + 1}, L, G)
      <4>1. L[n + 1] = key
        BY <1>2, <2>5
      <4>2. G[n + 1] = F[p]
        BY <1>2, <3>1
      <4>3. G[p] = n + 1 /\ \A x \in 0 .. n : x # p => G[x] = F[x]
        BY <1>2, <1>8, <2>2, <3>2
      <4>4. (\A x \in 1 .. n : K[x] # key) /\ (\A x \in 0 .. n : L[x] = K[x]) /\ key \in Int
        BY <1>1, <2>3, <2>5
      <4>. QED
        <5>1. PutAfter(n, K, F, key, p, L, G)
          BY <4>1, <4>2, <4>3, <4>4 DEF PutAfter
        <5>. QED
          BY <3>3, <4>4, <5>1, NodeInserted
    <3>. QED
      BY <1>2, <2>2, <3>1, <3>4
  <2>7. CASE ~ (i <= newLevel)
    <3>1. o[i] = S /\ G[m] = Null /\ \A x \in 0 .. n : G[x] = F[x]
      BY <1>5, <1>14, <2>2, <2>5, <2>7
    <3>2. Threaded(n, S, K, F)
      BY <2>1, <2>2
    <3>3. Threaded(n + 1, S, L, G)
      <4>1. L[n + 1] = key /\ G[n + 1] = Null
        BY <1>2, <2>5, <3>1
      <4>2. (\A x \in 1 .. n : K[x] # key) /\ (\A x \in 0 .. n : L[x] = K[x]) /\ key \in Int
        BY <1>1, <2>3, <2>5
      <4>3. \A x \in 0 .. n : G[x] = F[x]
        BY <3>1
      <4>. QED
        BY ONLY <3>2, <4>1, <4>2, <4>3, NodeLeftOut, ZenonT(90)
    <3>. QED
      BY <1>2, <2>2, <3>1, <3>3
  <2>. QED
    BY <2>6, <2>7
<1>16. /\ o \in [Level -> SUBSET (1 .. m)] /\ o[0] = 1 .. m
       /\ \A i \in Level : i # 0 => o[i] \in SUBSET o[i - 1]
       /\ \A i \in Level : level' < i => o[i] = {}
       /\ level' \in Level
  <2>1. /\ on \in [Level -> SUBSET (1 .. n)] /\ on[0] = 1 .. n
        /\ \A i \in Level : i # 0 => on[i] \in SUBSET on[i - 1]
        /\ \A i \in Level : level < i => on[i] = {}
    BY DEF Towers
  <2>2. o \in [Level -> SUBSET (1 .. m)]
    BY <1>3, <1>14, <2>1
  <2>3. \A i \in Level : i \in Nat /\ (i # 0 => i - 1 \in Level)
    BY SkipListAssumption DEF Level
  <2>4. 0 \in Level /\ 0 <= newLevel /\ newLevel \in Nat
    BY <2>3, SkipListAssumption DEF Level
  <2>5. o[0] = 1 .. m
    BY <1>3, <1>14, <2>1, <2>4
  <2>6. ASSUME NEW i \in Level, i # 0 PROVE o[i] \in SUBSET o[i - 1]
    <3>1. i - 1 \in Level /\ (i <= newLevel => i - 1 <= newLevel) /\ on[i] \in SUBSET on[i - 1]
      BY <2>1, <2>3, <2>4, <2>6
    <3>2. on[i - 1] \in SUBSET o[i - 1] /\ (i <= newLevel => m \in o[i - 1])
      BY <1>14, <3>1
    <3>. QED
      BY <1>14, <3>1, <3>2
  <2>7. ASSUME NEW i \in Level, level' < i PROVE o[i] = {}
    <3>1. level < i /\ ~ (i <= newLevel)
      <4>1. level \in Nat /\ newLevel \in Nat /\ i \in Nat
        BY <1>1, <2>3
      <4>2. level' = (IF newLevel > level THEN newLevel ELSE level)
        BY <1>6
      <4>. QED
        BY <2>7, <4>1, <4>2
    <3>. QED
      BY <1>14, <2>1, <3>1
  <2>8. level' \in Level
    BY <1>1, <1>6
  <2>. QED
    BY <2>2, <2>5, <2>6, <2>7, <2>8
<1>17. \A x \in 1 .. m : node'[x].key \in MapKey /\ node'[x].val \in Value
  <2>1. \A x \in 1 .. n : node[x].key \in MapKey /\ node[x].val \in Value
    BY DEF Towers
  <2>. QED
    BY <1>3, <1>11, <1>12, <2>1
<1>18. Towers(m, o)'
  <2>1. len' = m
    BY <1>1, <1>2, <1>6
  <2>. QED
    BY <1>3, <1>13, <1>15, <1>16, <1>17, <2>1 DEF Towers
<1>. QED
  BY <1>2, <1>9, <1>11, <1>12, <1>18 DEF SkipInv

LEMMA ClearKeeps == ASSUME SkipInv, SkipListClear PROVE SkipInv'
<1>1. PICK n, on : Towers(n, on)
  BY DEF SkipInv
<1>2. HeadNode \in 0 .. n /\ 0 .. 0 = {HeadNode}
  BY <1>1, NodesAre DEF HeadNode
<1>3. PICK h : h = node[HeadNode] /\ h \in [key : Int, val : Value \cup {Absent}, forward : [Level -> Int]]
  BY <1>1, <1>2 DEF Towers
<1>4. PICK f : f = [i \in Level |-> IF i <= level THEN Null ELSE h.forward[i]]
  OBVIOUS
<1>5. \A i \in Level : f[i] = Null
  <2>1. ASSUME NEW i \in Level, ~ (i <= level) PROVE h.forward[i] = Null
    <3>1. on[i] = {}
      BY <1>1, <2>1 DEF Towers, Level
    <3>. QED
      BY <1>1, <1>2, <1>3, <3>1, NodesAre
  <2>. QED
    BY <1>4, <2>1
<1>6. f \in [Level -> Int]
  BY <1>4, <1>5 DEF Null
<1>7. node' = [x \in {HeadNode} |-> [h EXCEPT !.forward = f]] /\ level' = 0 /\ len' = 0
  BY <1>3, <1>4 DEF SkipListClear
<1>8. /\ node' \in [0 .. 0 -> [key : Int, val : Value \cup {Absent}, forward : [Level -> Int]]]
      /\ \A i \in Level : node'[HeadNode].forward[i] = Null
  BY <1>2, <1>3, <1>5, <1>6, <1>7
<1>. QED
  BY <1>7, <1>8, EmptyTowersNext

LEMMA SkipInvPreserved == ASSUME SkipInv, [SkipListNext]_slVars PROVE SkipInv'
<1>1. PICK n, on : Towers(n, on)
  BY DEF SkipInv
<1>2. ASSUME NEW key \in MapKey, NEW val \in Value, Overwrite(key, val) PROVE SkipInv'
  <2>1. Towers(n, on)'
    BY <1>1, <1>2, OverwriteKeeps
  <2>. QED
    BY <2>1 DEF SkipInv
<1>3. ASSUME NEW key \in MapKey, NEW val \in Value, NEW newLevel \in Level, Link(key, val, newLevel)
      PROVE  SkipInv'
  BY <1>1, <1>3, LinkKeeps
<1>4. CASE SkipListDrain
  BY <1>4, ClearKeeps DEF SkipListDrain
<1>5. CASE UNCHANGED slVars
  <2>1. Towers(n, on)'
    <3>1. KeysTo(n)' = KeysTo(n) /\ \A i \in Level : ForwardOn(n, i)' = ForwardOn(n, i)
      BY <1>5 DEF slVars, KeysTo, ForwardOn
    <3>2. node' = node /\ level' = level /\ len' = len
      BY <1>5 DEF slVars
    <3>3. /\ n \in Nat
          /\ node' \in [0 .. n -> [key : Int, val : Value \cup {Absent}, forward : [Level -> Int]]]
          /\ \A x \in 1 .. n : node'[x].key \in MapKey /\ node'[x].val \in Value
          /\ level' \in Level /\ len' = n
          /\ on \in [Level -> SUBSET (1 .. n)] /\ on[0] = 1 .. n
          /\ \A i \in Level : i # 0 => on[i] \in SUBSET on[i - 1]
          /\ \A i \in Level : level' < i => on[i] = {}
          /\ \A i \in Level : Threaded(n, on[i], KeysTo(n)', ForwardOn(n, i)')
      <4>1. \A i \in Level : Threaded(n, on[i], KeysTo(n)', ForwardOn(n, i)')
        <5>1. \A i \in Level : Threaded(n, on[i], KeysTo(n), ForwardOn(n, i))
          BY <1>1 DEF Towers
        <5>. QED
          BY <3>1, <5>1, Zenon
      <4>. QED
        BY <1>1, <3>2, <4>1 DEF Towers
    <3>. QED
      BY <3>3 DEF Towers
  <2>. QED
    BY <2>1 DEF SkipInv
<1>. QED
  BY <1>2, <1>3, <1>4, <1>5 DEF SkipListNext, SkipListInsert

LEMMA SkipInvFirst == ASSUME SkipListInit PROVE SkipInv
<1>1. node = [n \in {HeadNode} |-> [key |-> 0, val |-> Absent, forward |-> NoForward]] /\ level = 0 /\ len = 0
  BY DEF SkipListInit
<1>2. 0 .. 0 = {HeadNode} /\ NoForward \in [Level -> Int] /\ \A i \in Level : NoForward[i] = Null
  BY DEF HeadNode, NoForward, Null
<1>3. /\ node \in [0 .. 0 -> [key : Int, val : Value \cup {Absent}, forward : [Level -> Int]]]
      /\ \A i \in Level : node[HeadNode].forward[i] = Null
  BY <1>1, <1>2
<1>. QED
  BY <1>1, <1>3, EmptyTowers

LEMMA SkipInvAlways == SkipListSpec => []SkipInv
  BY SkipInvFirst, SkipInvPreserved, PTL DEF SkipListSpec

(* Following the pointers of a level lists its nodes.                      *)
LEMMA ChainIs ==
    ASSUME NEW n, NEW on, Towers(n, on), NEW i \in Level,
           NEW V, \A k : k \in V <=> \E x \in on[i] : KeysTo(n)[x] = k
    PROVE  Lists(on[i], KeysTo(n), V, Chain(i))
<1>1. PICK S, K, F : S = on[i] /\ K = KeysTo(n) /\ F = ForwardOn(n, i)
  OBVIOUS
<1>2. Threaded(n, S, K, F)
  BY <1>1 DEF Towers
<1>3. PICK s : /\ Following(1 .. n, Null, F, s)
               /\ F[HeadNode] = (IF Len(s) = 0 THEN Null ELSE s[1])
               /\ Lists(S, K, V, s)
  <2>1. \A k : k \in V <=> \E x \in S : K[x] = k
    BY <1>1
  <2>. QED
    BY <1>2, <2>1, Chained
<1>4. PICK f : f = [x \in (1 .. n) \cup {Null} |-> IF x = Null THEN << >> ELSE << x >> \o f[F[x]]]
  <2>1. \E f : RestsOf(1 .. n, Null, F, f)
    BY <1>3, RestDefined
  <2>. QED
    BY <2>1 DEF RestsOf
<1>5. /\ DOMAIN node = 0 .. n /\ HeadNode \in 0 .. n /\ Null \notin 0 .. n /\ 1 .. n \in SUBSET (0 .. n)
      /\ \A x \in 0 .. n : x # HeadNode => x \in 1 .. n
      /\ \A x \in 1 .. n : x # HeadNode
      /\ \A x \in 0 .. n : F[x] = node[x].forward[i]
      /\ \A x \in 0 .. n : F[x] \in (1 .. n) \cup {Null}
  <2>1. DOMAIN node = 0 .. n /\ HeadNode \in 0 .. n /\ n \in Nat
    BY NodesAre
  <2>2. /\ \A x \in 0 .. n : x # HeadNode => x \in 1 .. n
        /\ \A x \in 1 .. n : x # HeadNode
        /\ Null \notin 0 .. n /\ 1 .. n \in SUBSET (0 .. n)
    BY <2>1 DEF HeadNode, Null
  <2>3. \A x \in 0 .. n : F[x] = node[x].forward[i]
    BY <1>1, NodesAre
  <2>4. \A x \in 0 .. n : F[x] \in (1 .. n) \cup {Null}
    BY <1>1, <2>3, NodesAre
  <2>. QED
    BY <2>1, <2>2, <2>3, <2>4
<1>. DEFINE From(g) == g = [x \in DOMAIN node \cup {Null} |->
                IF x = Null THEN << >> ELSE << x >> \o g[node[x].forward[i]]]
<1>6. \E g : From(g)
  <2>. DEFINE g == [x \in (0 .. n) \cup {Null} |-> IF x = HeadNode THEN << x >> \o f[F[x]] ELSE f[x]]
  <2>1. \A x \in (1 .. n) \cup {Null} : g[x] = f[x] /\ x # HeadNode
    BY <1>5 DEF HeadNode, Null
  <2>2. ASSUME NEW x \in (0 .. n) \cup {Null}
        PROVE  g[x] = IF x = Null THEN << >> ELSE << x >> \o g[node[x].forward[i]]
    <3>1. CASE x = Null
      BY <1>4, <2>1, <3>1
    <3>2. CASE x = HeadNode
      <4>1. g[x] = << x >> \o f[F[x]] /\ x # Null
        BY <3>2, <1>5
      <4>2. g[F[x]] = f[F[x]] /\ F[x] = node[x].forward[i]
        BY <1>5, <2>1, <3>2
      <4>. HIDE DEF g
      <4>. QED
        BY <4>1, <4>2
    <3>3. CASE x # Null /\ x # HeadNode
      <4>1. x \in 1 .. n
        BY <1>5, <3>3
      <4>2. f[x] = << x >> \o f[F[x]] /\ g[x] = f[x]
        BY <1>4, <2>1, <3>3, <4>1
      <4>3. g[F[x]] = f[F[x]] /\ F[x] = node[x].forward[i]
        BY <1>5, <2>1, <4>1
      <4>. HIDE DEF g
      <4>. QED
        BY <3>3, <4>2, <4>3
    <3>. QED
      BY <3>1, <3>2, <3>3
  <2>3. g = [x \in DOMAIN node \cup {Null} |-> g[x]]
    BY <1>5
  <2>4. From(g)
    <3>. HIDE DEF g
    <3>. QED
      BY <1>5, <2>2, <2>3
  <2>. HIDE DEF From, g
  <2>. QED
    BY <2>4
<1>7. PICK g : g = (CHOOSE h : From(h)) /\ From(g)
  <2>. HIDE DEF From
  <2>. QED
    BY <1>6
<1>8. Chain(i) = g[node[HeadNode].forward[i]]
  BY <1>7 DEF Chain
<1>9. Walks(1 .. n, Null, F, g)
  <2>1. \A x \in 1 .. n : x \in DOMAIN node \cup {Null} /\ x # Null /\ F[x] = node[x].forward[i]
    BY <1>5
  <2>2. g = [x \in DOMAIN node \cup {Null} |-> IF x = Null THEN << >> ELSE << x >> \o g[node[x].forward[i]]]
    BY <1>7
  <2>3. \A x \in DOMAIN node \cup {Null} : g[x] = IF x = Null THEN << >> ELSE << x >> \o g[node[x].forward[i]]
    BY ONLY <2>2, Zenon
  <2>. QED
    BY <2>1, <2>3 DEF Walks
<1>10. IF Len(s) = 0 THEN g[Null] = s ELSE g[s[1]] = s
  <2>. HIDE DEF From
  <2>. QED
    BY <1>3, <1>9, RestFollowed
<1>11. Chain(i) = s
  BY <1>3, <1>5, <1>8, <1>10
<1>. QED
  BY <1>1, <1>3, <1>11

(* No pointer dangles, the levels are nested, and level 0 has every node,  *)
(* whatever levels the nodes are given.                                    *)
THEOREM SkipListPointersLive == SkipListSpec => []PointersLive
<1>1. SkipInv => PointersLive
  <2>1. SUFFICES ASSUME NEW n, NEW on, Towers(n, on) PROVE PointersLive
    BY DEF SkipInv
  <2>2. \A i \in Level : { Chain(i)[j] : j \in DOMAIN Chain(i) } = on[i]
    <3>1. ASSUME NEW i \in Level PROVE { Chain(i)[j] : j \in DOMAIN Chain(i) } = on[i]
      <4>1. PICK V : V = { KeysTo(n)[x] : x \in on[i] }
        OBVIOUS
      <4>2. Lists(on[i], KeysTo(n), V, Chain(i))
        BY <2>1, <4>1, ChainIs
      <4>3. DOMAIN Chain(i) = 1 .. Len(Chain(i))
        OBVIOUS
      <4>. QED
        BY <4>2, <4>3 DEF Lists
    <3>. QED
      BY <3>1
  <2>3. \A x \in DOMAIN node, i \in Level : node[x].forward[i] \in (DOMAIN node \ {HeadNode}) \cup {Null}
    BY <2>1, NodesAre
  <2>4. \A i \in level + 1 .. MAX_LEVEL : node[HeadNode].forward[i] = Null
    <3>1. ASSUME NEW i \in level + 1 .. MAX_LEVEL PROVE node[HeadNode].forward[i] = Null
      <4>1. i \in Level /\ level < i
        BY <2>1, SkipListAssumption DEF Towers, Level
      <4>2. on[i] = {}
        BY <2>1, <4>1 DEF Towers
      <4>. QED
        BY <2>1, <4>1, <4>2, NodesAre
    <3>. QED
      BY <3>1
  <2>5. \A i \in 1 .. MAX_LEVEL : i \in Level /\ i - 1 \in Level /\ on[i] \subseteq on[i - 1]
    <3>1. \A i \in 1 .. MAX_LEVEL : i \in Level /\ i - 1 \in Level /\ i # 0
      BY SkipListAssumption DEF Level
    <3>. QED
      BY <2>1, <3>1 DEF Towers
  <2>6. 0 \in Level /\ on[0] = DOMAIN node \ {HeadNode} /\ len = Cardinality(DOMAIN node) - 1
    <3>1. 0 \in Level /\ DOMAIN node = 0 .. n /\ n \in Nat /\ Cardinality(DOMAIN node) = n + 1
      BY <2>1, NodesAre
    <3>2. on[0] = 1 .. n /\ len = n
      BY <2>1 DEF Towers
    <3>. QED
      BY <3>1, <3>2 DEF HeadNode
  <2>. QED
    BY <2>2, <2>3, <2>4, <2>5, <2>6 DEF PointersLive
<1>. QED
  BY <1>1, SkipInvAlways, PTL

----------------------------------------------------------------------------

Contents == [k \in MapKey |-> SkipListGet(k)]

\* What a list of n nodes holds for a key.
Answers(n) ==
    \A k \in MapKey :
        /\ \A x \in 1 .. n : node[x].key = k => SkipListGet(k) = node[x].val
        /\ (\A x \in 1 .. n : node[x].key # k) => SkipListGet(k) = Absent

LEMMA GetIs == \A n, on : Towers(n, on) => Answers(n)
<1>1. SUFFICES ASSUME NEW n, NEW on, Towers(n, on), NEW k \in MapKey
               PROVE  /\ \A x \in 1 .. n : node[x].key = k => SkipListGet(k) = node[x].val
                      /\ (\A x \in 1 .. n : node[x].key # k) => SkipListGet(k) = Absent
  BY DEF Answers
<1>2. /\ \A x \in 1 .. n : node[x].key = k => Found(k) /\ Candidate(k) = x
      /\ Found(k) => Candidate(k) \in 1 .. n /\ node[Candidate(k)].key = k
  <2>1. k \in Int
    BY SkipListAssumption
  <2>. QED
    BY <1>1, <2>1, FoundIs
<1>. QED
  BY <1>2 DEF SkipListGet

LEMMA GetIsNext == (\A n, on : Towers(n, on) => Answers(n))'
  BY GetIs, PTL

LEMMA PutRefines ==
    ASSUME SkipInv, NEW key \in MapKey, NEW val \in Value, SkipListInsert(key, val)
    PROVE  Map!Put(key, val)
<1>1. PICK n, on : Towers(n, on)
  BY DEF SkipInv
<1>2. n \in Nat /\ len = n /\ Answers(n)
  BY <1>1, GetIs DEF Towers
<1>3. ASSUME NEW c, node'[c].key = key, node'[c].val = val,
             NEW m \in Nat, c \in 1 .. m, 1 .. n \in SUBSET (1 .. m), \A x \in 1 .. m : x \in 1 .. n \/ x = c,
             Answers(m)',
             \A x \in 1 .. n : /\ node'[x].key = node[x].key
                               /\ x # c => node'[x].val = node[x].val /\ node[x].key # key
      PROVE  Contents' = [Contents EXCEPT ![key] = val]
  <2>1. ASSUME NEW k \in MapKey PROVE SkipListGet(k)' = IF k = key THEN val ELSE SkipListGet(k)
    <3>1. /\ \A x \in 1 .. m : node'[x].key = k => SkipListGet(k)' = node'[x].val
          /\ (\A x \in 1 .. m : node'[x].key # k) => SkipListGet(k)' = Absent
      BY <1>3 DEF Answers
    <3>2. /\ \A x \in 1 .. n : node[x].key = k => SkipListGet(k) = node[x].val
          /\ (\A x \in 1 .. n : node[x].key # k) => SkipListGet(k) = Absent
      BY <1>2 DEF Answers
    <3>3. CASE k = key
      BY <1>3, <3>1, <3>3
    <3>4. CASE k # key
      <4>1. CASE \E x \in 1 .. n : node[x].key = k
        <5>1. PICK x \in 1 .. n : node[x].key = k
          BY <4>1
        <5>2. x \in 1 .. m /\ node'[x].key = k /\ x # c
          BY <1>3, <3>4, <5>1
        <5>. QED
          BY <1>3, <3>1, <3>2, <3>4, <5>1, <5>2
      <4>2. CASE \A x \in 1 .. n : node[x].key # k
        <5>1. \A x \in 1 .. m : node'[x].key # k
          BY <1>3, <3>4, <4>2
        <5>. QED
          BY <3>1, <3>2, <3>4, <4>2, <5>1
      <4>. QED
        BY <4>1, <4>2
    <3>. QED
      BY <3>3, <3>4
  <2>. QED
    BY <2>1 DEF Contents
<1>4. ASSUME Overwrite(key, val) PROVE Contents' = [Contents EXCEPT ![key] = val]
  <2>1. /\ Towers(n, on)'
        /\ \E c \in 1 .. n :
            /\ node[c].key = key
            /\ \A x \in 0 .. n : /\ node'[x].key = node[x].key
                                 /\ node'[x].val = (IF x = c THEN val ELSE node[x].val)
    BY <1>1, <1>4, OverwriteKeeps
  <2>2. PICK c \in 1 .. n : /\ node[c].key = key
                            /\ \A x \in 0 .. n : /\ node'[x].key = node[x].key
                                                 /\ node'[x].val = (IF x = c THEN val ELSE node[x].val)
    BY <2>1
  <2>3. Answers(n)'
    BY <2>1, GetIsNext
  <2>4. \A x \in 1 .. n : x \in 0 .. n
    BY <1>2
  <2>5. \A x \in 1 .. n : x # c => node[x].key # key
    <3>1. \A x, y \in 1 .. n : KeysTo(n)[x] = KeysTo(n)[y] => x = y
      <4>1. 0 \in Level
        BY <1>1, NodesAre
      <4>. QED
        BY <1>1, <4>1 DEF Towers, Threaded
    <3>2. \A x \in 1 .. n : KeysTo(n)[x] = node[x].key
      BY <2>4 DEF KeysTo
    <3>. QED
      BY <2>2, <3>1, <3>2
  <2>6. /\ node'[c].key = key /\ node'[c].val = val
        /\ \A x \in 1 .. n : node'[x].key = node[x].key /\ (x # c => node'[x].val = node[x].val)
    BY <2>2, <2>4
  <2>. QED
    BY <1>2, <1>3, <2>3, <2>5, <2>6
<1>5. ASSUME NEW newLevel \in Level, Link(key, val, newLevel)
      PROVE  Contents' = [Contents EXCEPT ![key] = val]
  <2>1. /\ SkipInv' /\ node'[n + 1].key = key /\ node'[n + 1].val = val
        /\ \A x \in 0 .. n : node'[x].key = node[x].key /\ node'[x].val = node[x].val
    BY <1>1, <1>5, LinkKeeps
  <2>2. PICK m, o : Towers(m, o)'
    BY <2>1 DEF SkipInv
  <2>3. m = n + 1
    <3>1. len' = m
      BY <2>2 DEF Towers
    <3>2. len' = len + 1
      BY <1>5 DEF Link
    <3>. QED
      BY <1>2, <3>1, <3>2
  <2>4. Answers(m)'
    BY <2>2, GetIsNext
  <2>5. /\ m \in Nat /\ m \in 1 .. m /\ 1 .. n \in SUBSET (1 .. m)
        /\ \A x \in 1 .. m : x \in 1 .. n \/ x = m
        /\ \A x \in 1 .. n : x \in 0 .. n
    BY <1>2, <2>3
  <2>6. \A x \in 1 .. n : node[x].key # key
    <3>1. key \in Int /\ ~Found(key)
      BY <1>5, SkipListAssumption DEF Link
    <3>. QED
      BY <1>1, <3>1, FoundIs
  <2>7. \A x \in 1 .. n : /\ node'[x].key = node[x].key
                          /\ x # m => node'[x].val = node[x].val /\ node[x].key # key
    BY <2>1, <2>5, <2>6
  <2>8. node'[m].key = key /\ node'[m].val = val
    BY <2>1, <2>3
  <2>. QED
    BY <1>3, <2>4, <2>5, <2>7, <2>8
<1>6. Contents' = [Contents EXCEPT ![key] = val] /\ drained' = << >>
  BY <1>4, <1>5 DEF SkipListInsert, Overwrite, Link
<1>. QED
  BY <1>6 DEF Map!Put, Contents

LEMMA DrainRefines == ASSUME SkipInv, SkipListDrain PROVE Map!Drain
<1>1. PICK n, on : Towers(n, on)
  BY DEF SkipInv
<1>2. n \in Nat /\ on[0] = 1 .. n /\ 0 \in Level /\ Answers(n)
  BY <1>1, GetIs, NodesAre DEF Towers
<1>3. PICK V : V = Map!Present(Contents)
  OBVIOUS
<1>4. \A x \in 1 .. n : /\ KeysTo(n)[x] = node[x].key /\ node[x].key \in MapKey
                        /\ SkipListGet(node[x].key) = node[x].val /\ node[x].val # Absent
  <2>1. \A x \in 1 .. n : x \in 0 .. n /\ node[x].key \in MapKey /\ node[x].val \in Value
    BY <1>1, <1>2 DEF Towers
  <2>. QED
    BY <1>2, <2>1, SkipListAssumption DEF KeysTo, Answers
<1>5. \A k : k \in V <=> \E x \in on[0] : KeysTo(n)[x] = k
  <2>1. \A k : k \in V <=> k \in MapKey /\ SkipListGet(k) # Absent
    BY <1>3 DEF Map!Present, Contents
  <2>2. \A k \in MapKey : SkipListGet(k) # Absent => \E x \in 1 .. n : node[x].key = k
    BY <1>2 DEF Answers
  <2>. QED
    BY <1>2, <1>4, <2>1, <2>2
<1>6. V \in SUBSET Int /\ IsFiniteSet(V)
  <2>1. V \in SUBSET MapKey
    BY <1>3 DEF Map!Present
  <2>. QED
    BY <2>1, SkipListAssumption, FS_Subset
<1>7. PICK s : s = Chain(0) /\ Lists(on[0], KeysTo(n), V, s)
  BY <1>1, <1>2, <1>5, ChainIs
<1>8. PICK c : c = Len(s) /\ c = Cardinality(V) /\ c \in Nat
  BY <1>7 DEF Lists
<1>9. \A j \in 1 .. c : s[j] \in 1 .. n /\ node[s[j]].key \in V /\ Rank(V, node[s[j]].key) = j
  <2>1. \A j \in 1 .. c : s[j] \in 1 .. n /\ KeysTo(n)[s[j]] \in V /\ Rank(V, KeysTo(n)[s[j]]) = j
    BY <1>2, <1>7, <1>8 DEF Lists
  <2>. QED
    BY <1>4, <2>1
<1>10. \A i, k \in V : Rank(V, i) = Rank(V, k) => i = k
  BY <1>6, Ranks
<1>11. \A S : Map!Cardinality(S) = Cardinality(S)
  BY DEF Map!Cardinality, Cardinality
<1>12. SkipListIter = [j \in 1 .. c |-> [key |-> node[s[j]].key, val |-> node[s[j]].val]]
  BY <1>7, <1>8 DEF SkipListIter
<1>. DEFINE At(j) == CHOOSE x \in V : Map!Cardinality({ y \in V : y <= x }) = j
<1>13. Map!InOrder(Contents) = [j \in 1 .. c |-> [key |-> At(j), val |-> Contents[At(j)]]]
  BY <1>3, <1>8, <1>11 DEF Map!InOrder
<1>14. ASSUME NEW j \in 1 .. c
       PROVE  At(j) = node[s[j]].key /\ Contents[node[s[j]].key] = node[s[j]].val
  <2>1. PICK k : k = node[s[j]].key
    OBVIOUS
  <2>2. k \in V /\ Rank(V, k) = j
    BY <1>9, <2>1
  <2>3. \A x \in V : Map!Cardinality({ y \in V : y <= x }) = Rank(V, x)
    BY <1>11 DEF Rank
  <2>4. At(j) = k
    BY <1>10, <2>2, <2>3
  <2>5. Contents[k] = node[s[j]].val
    BY <1>4, <1>9, <2>1 DEF Contents
  <2>. QED
    BY <2>1, <2>4, <2>5
<1>15. drained' = Map!InOrder(Contents)
  <2>1. drained' = SkipListIter
    BY DEF SkipListDrain
  <2>. HIDE DEF At
  <2>. QED
    BY <1>12, <1>13, <1>14, <2>1
<1>16. Contents' = Map!Empty
  <2>1. SkipInv' /\ len' = 0
    BY ClearKeeps DEF SkipListDrain, SkipListClear
  <2>2. PICK m, o : Towers(m, o)'
    BY <2>1 DEF SkipInv
  <2>3. m = 0 /\ Answers(m)'
    BY <2>1, <2>2, GetIsNext DEF Towers
  <2>4. \A k \in MapKey : SkipListGet(k)' = Absent
    BY <2>3 DEF Answers
  <2>. QED
    BY <2>4 DEF Map!Empty, Contents
<1>. QED
  BY <1>15, <1>16 DEF Map!Drain, Contents

(* The skip list implements the ordered map: get returns the last value    *)
(* inserted for a key, and drain lists every tick once in key order.       *)
THEOREM SkipListRefines == SkipListSpec => RefinesMap
<1>1. SkipListInit => Map!Init
  <2>1. SUFFICES ASSUME SkipListInit PROVE Map!Init
    OBVIOUS
  <2>2. PICK n, on : Towers(n, on)
    <3>1. SkipInv
      BY <2>1, SkipInvFirst
    <3>. QED
      BY <3>1 DEF SkipInv
  <2>3. n = 0 /\ Answers(n)
    BY <2>1, <2>2, GetIs DEF Towers, SkipListInit
  <2>4. \A k \in MapKey : SkipListGet(k) = Absent
    BY <2>3 DEF Answers
  <2>. QED
    BY <2>1, <2>4 DEF Map!Init, Map!Empty, SkipListInit
<1>2. SkipInv /\ [SkipListNext]_slVars => [Map!Next]_(Map!mapVars)
  <2>1. ASSUME SkipInv, NEW key \in MapKey, NEW val \in Value, SkipListInsert(key, val) PROVE Map!Next
    BY <2>1, PutRefines DEF Map!Next
  <2>2. ASSUME SkipInv, SkipListDrain PROVE Map!Next
    BY <2>2, DrainRefines DEF Map!Next
  <2>3. ASSUME SkipInv, UNCHANGED slVars PROVE UNCHANGED Map!mapVars
    <3>1. PICK n, on : Towers(n, on)
      BY <2>3 DEF SkipInv
    <3>2. node' = node /\ level' = level /\ drained' = drained
      BY <2>3 DEF slVars
    <3>3. Contents' = Contents
      BY <3>2 DEF Contents, SkipListGet, Found, Candidate, Before, Along
    <3>. QED
      BY <3>2, <3>3 DEF Map!mapVars, Contents
  <2>. QED
    BY <2>1, <2>2, <2>3 DEF SkipListNext
<1>. QED
  BY <1>1, <1>2, SkipInvAlways, PTL DEF RefinesMap, Map!Spec, SkipListSpec
=============================================================================
