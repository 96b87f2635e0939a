----------------------------- MODULE BlockCache -----------------------------
(***************************************************************************)
(* The cache of graphite-core/src/block_cache.rs: a doubly linked list in  *)
(* a vector of nodes, a map from keys to nodes, and a list of free nodes.  *)
(* A block counts by the number of its bytes.  A call holds the mutex of   *)
(* SharedBlockCache from its beginning to its end and is one step.         *)
(***************************************************************************)
EXTENDS Integers, Sequences, FiniteSets

CONSTANTS
    CacheKey,  \* keys of blocks: (sstable_id, block_offset)
    Block,     \* blocks: the number of their bytes
    Capacity,  \* the bytes the cache may hold
    Miss       \* "no block"

ASSUME CacheAssumption ==
    /\ Block \subseteq Nat
    /\ Capacity \in Nat
    /\ Miss \notin Block

Nil == 0

VARIABLES
    cache,  \* the BlockCache
    found   \* what the last call returned

bcVars == << cache, found >>

\* nodes is the vector, a node being numbered from 1; map[k] is a node or Nil.
EmptyCache ==
    [nodes |-> << >>, map |-> [k \in CacheKey |-> Nil], head |-> Nil, tail |-> Nil,
     free |-> << >>, size |-> 0]

CacheInit == cache = EmptyCache /\ found = Miss

(***************************************************************************)
(* The steps of insert, each a function of the cache.                      *)
(***************************************************************************)

\* alloc_node, then map.insert: the last free node, or a new one.
alloc_node(c, k, b) ==
    LET new == [key |-> k, block |-> b, prev |-> Nil, next |-> Nil]
        reuse == c.free # << >>
        idx == IF reuse THEN c.free[Len(c.free)] ELSE Len(c.nodes) + 1
    IN  [c EXCEPT !.nodes = IF reuse THEN [@ EXCEPT ![idx] = new] ELSE Append(@, new),
                  !.free = IF reuse THEN SubSeq(@, 1, Len(@) - 1) ELSE @,
                  !.map[k] = idx,
                  !.size = @ + b]

SetPrev(nodes, n, p) == IF n = Nil THEN nodes ELSE [nodes EXCEPT ![n].prev = p]
SetNext(nodes, n, x) == IF n = Nil THEN nodes ELSE [nodes EXCEPT ![n].next = x]

add_to_head(c, idx) ==
    LET linked == [c.nodes EXCEPT ![idx].prev = Nil, ![idx].next = c.head]
    IN  [c EXCEPT !.nodes = SetPrev(linked, c.head, idx),
                  !.head = idx,
                  !.tail = IF @ = Nil THEN idx ELSE @]

\* The tail stays where it was (mutant).
move_to_head_keeping_tail(c, idx) ==
    IF c.head = idx
    THEN c
    ELSE LET node == c.nodes[idx]
             out == SetPrev(SetNext(c.nodes, node.prev, node.next), node.next, node.prev)
             linked == [out EXCEPT ![idx].prev = Nil, ![idx].next = c.head]
         IN  [c EXCEPT !.nodes = SetPrev(linked, c.head, idx), !.head = idx]

move_to_head(c, idx) ==
    IF c.head = idx
    THEN c
    ELSE LET node == c.nodes[idx]
             out == SetPrev(SetNext(c.nodes, node.prev, node.next), node.next, node.prev)
             linked == [out EXCEPT ![idx].prev = Nil, ![idx].next = c.head]
         IN  [c EXCEPT !.nodes = SetPrev(linked, c.head, idx),
                       !.head = idx,
                       !.tail = IF @ = idx THEN node.prev ELSE @]

remove_tail(c) ==
    LET idx == c.tail
        prev == c.nodes[idx].prev
    IN  [c EXCEPT !.nodes = SetNext(@, prev, Nil),
                  !.tail = prev,
                  !.head = IF prev = Nil THEN Nil ELSE @,
                  !.size = @ - c.nodes[idx].block,
                  !.map[c.nodes[idx].key] = Nil,
                  !.free = Append(@, idx)]

\* A cache that is just full is too full (mutant).
evict_when_full(c) ==
    LET after[n \in 0 .. Len(c.nodes)] == IF n = 0 THEN c ELSE remove_tail(after[n - 1])
        Fits(n) == after[n].size < Capacity
    IN  after[CHOOSE n \in 0 .. Len(c.nodes) : Fits(n) /\ \A m \in 0 .. n - 1 : ~Fits(m)]

\* remove_tail until the rest fits.
evict_if_needed(c) ==
    LET after[n \in 0 .. Len(c.nodes)] == IF n = 0 THEN c ELSE remove_tail(after[n - 1])
        Fits(n) == after[n].size <= Capacity
    IN  after[CHOOSE n \in 0 .. Len(c.nodes) : Fits(n) /\ \A m \in 0 .. n - 1 : ~Fits(m)]

\* What insert makes of the cache when the block is not larger than all of it.
Inserted(c, k, b) ==
    IF c.map[k] = Nil
    THEN LET new == alloc_node(c, k, b) IN evict_if_needed(add_to_head(new, new.map[k]))
    ELSE LET idx == c.map[k]
             set == [c EXCEPT !.nodes[idx].block = b, !.size = @ - c.nodes[idx].block + b]
         IN  evict_if_needed(move_to_head(set, idx))

(***************************************************************************)
(* The calls.                                                              *)
(***************************************************************************)

\* A hit moves nothing: the list keeps the order of the inserts.
AfterGet(c, k) == c

CacheGet(k) ==
    /\ found' = IF cache.map[k] = Nil THEN Miss ELSE cache.nodes[cache.map[k]].block
    /\ cache' = AfterGet(cache, k)

CacheInsert(k, b) ==
    /\ cache' = IF b > Capacity THEN cache ELSE Inserted(cache, k, b)
    /\ found' = Miss

CacheClear == cache' = EmptyCache /\ found' = Miss

CacheNext ==
    \/ \E k \in CacheKey : CacheGet(k) \/ \E b \in Block : CacheInsert(k, b)
    \/ CacheClear

CacheSpec == CacheInit /\ [][CacheNext]_bcVars

(***************************************************************************)
(* Properties.                                                             *)
(***************************************************************************)

\* The nodes from the head on.
LinkedList ==
    LET from[n \in 0 .. Len(cache.nodes)] ==
            IF n = Nil THEN << >> ELSE << n >> \o from[cache.nodes[n].next]
    IN  from[cache.head]

ListedNodes == { LinkedList[i] : i \in DOMAIN LinkedList }
FreeNodes == { cache.free[i] : i \in DOMAIN cache.free }

Entries ==
    [i \in DOMAIN LinkedList |->
        [key |-> cache.nodes[LinkedList[i]].key, block |-> cache.nodes[LinkedList[i]].block]]

Abstract == INSTANCE BoundedCache WITH kept <- Entries, answer <- found

Woven ==
    /\ \A i \in DOMAIN LinkedList :
        /\ cache.nodes[LinkedList[i]].prev = (IF i = 1 THEN Nil ELSE LinkedList[i - 1])
        /\ cache.map[cache.nodes[LinkedList[i]].key] = LinkedList[i]
    /\ cache.tail = (IF LinkedList = << >> THEN Nil ELSE LinkedList[Len(LinkedList)])
    /\ Cardinality(ListedNodes) = Len(LinkedList) /\ Cardinality(FreeNodes) = Len(cache.free)
    /\ ListedNodes \cap FreeNodes = {} /\ ListedNodes \cup FreeNodes = 1 .. Len(cache.nodes)
    /\ \A k \in CacheKey : cache.map[k] \in ListedNodes \cup {Nil}

Accounted ==
    /\ cache.size = Abstract!Bytes(Entries, Len(Entries))
    /\ cache.size <= Capacity

\* The list read from the tail is the list read from the head, every node is
\* either in it or free, once, and the map knows exactly the nodes of the list:
\* the indices that alloc_node, move_to_head and remove_tail pass around never
\* reach a node that has been given away.  current_size, which is kept up by
\* additions and subtractions alone, is the bytes of the blocks in the list, so
\* it never falls below zero, and these are at most the capacity.
ListIntact == Woven /\ Accounted

\* The linked list implements BoundedCache: get returns the block put last under
\* its key or nothing, the blocks kept are the ones inserted last, and together
\* they never exceed the capacity.  The age of a block is that of its insert and
\* not of its last use; AsDocumented has what the code calls an LRU cache.
RefinesCache == Abstract!Spec
=============================================================================
