------------------------------ MODULE SkipList ------------------------------
(***************************************************************************)
(* The memtable of graphite-core/src/skip_list.rs: nodes on the heap with  *)
(* a forward pointer per level, written with unsafe code.  A tick is its   *)
(* key, an integer that stands for (symbol id, timestamp) in the order of  *)
(* Key::cmp, and a value.  node[HeadNode] is the head; the other nodes are     *)
(* numbered as they are allocated, and freed all together by clear.        *)
(***************************************************************************)
EXTENDS Integers, Sequences, FiniteSets

CONSTANTS
    MapKey,    \* keys: a finite set of integers
    Value,     \* values
    Absent,    \* "no value"
    MAX_LEVEL  \* the highest level a node may have (16 in the code)

ASSUME SkipListAssumption ==
    /\ MapKey \subseteq Int /\ IsFiniteSet(MapKey)
    /\ Absent \notin Value
    /\ MAX_LEVEL \in Nat

HeadNode == 0
Null == -1
Level == 0 .. MAX_LEVEL

VARIABLES
    node,    \* the heap: node[n] has a key, a value and forward pointers
    level,   \* the highest level in use
    len,     \* the number of ticks
    drained  \* what the last call returned: the ticks, if it was a drain

slVars == << node, level, len, drained >>

NoForward == [i \in Level |-> Null]

SkipListInit ==
    /\ node = [n \in {HeadNode} |-> [key |-> 0, val |-> Absent, forward |-> NoForward]]
    /\ level = 0
    /\ len = 0
    /\ drained = << >>

(***************************************************************************)
(* The search.                                                             *)
(***************************************************************************)

\* The search steps over a node with the key it looks for (mutant).
AlongPastEqual(from, i, key) ==
    LET go[n \in DOMAIN node] ==
            LET next == node[n].forward[i]
            IN  IF next = Null \/ (next # Null /\ node[next].key > key) THEN n ELSE go[next]
    IN  go[from]

\* From a node along level i up to the last one with a key below key.
Along(from, i, key) ==
    LET go[n \in DOMAIN node] ==
            LET next == node[n].forward[i]
            IN  IF next = Null \/ (next # Null /\ node[next].key >= key) THEN n ELSE go[next]
    IN  go[from]

\* update[i]: the node before key on level i, found from the top level down.
Before(key) ==
    LET update[i \in 0 .. level + 1] ==
            IF i = level + 1 THEN HeadNode ELSE Along(update[i + 1], i, key)
    IN  update

\* The node after the last one below key, on the lowest level.
Candidate(key) == node[Before(key)[0]].forward[0]

\* SkipList::get.
Found(key) == Candidate(key) # Null /\ node[Candidate(key)].key = key
SkipListGet(key) == IF Found(key) THEN node[Candidate(key)].val ELSE Absent

\* The nodes of level i in the order of the list: SkipListIter, for level 0.
Chain(i) ==
    LET from[n \in DOMAIN node \cup {Null}] ==
            IF n = Null THEN << >> ELSE << n >> \o from[node[n].forward[i]]
    IN  from[node[HeadNode].forward[i]]

SkipListIter == [j \in 1 .. Len(Chain(0)) |->
            [key |-> node[Chain(0)[j]].key, val |-> node[Chain(0)[j]].val]]

(***************************************************************************)
(* The operations.  The level of a new node is random.                     *)
(***************************************************************************)

Overwrite(key, val) ==
    /\ Found(key)
    /\ node' = [node EXCEPT ![Candidate(key)].val = val]
    /\ drained' = << >>
    /\ UNCHANGED << level, len >>

\* The levels above the highest one so far are left out (mutant).
LinkKeepingLevel(key, val, newLevel) ==
    LET new == Cardinality(DOMAIN node)
        update == [i \in Level |-> IF i <= level THEN Before(key)[i] ELSE HeadNode]
        After(i) == IF i <= newLevel THEN node[update[i]].forward[i] ELSE Null
    IN  /\ ~Found(key)
        /\ node' = [n \in DOMAIN node \cup {new} |->
                        IF n = new
                        THEN [key |-> key, val |-> val, forward |-> [i \in Level |-> After(i)]]
                        ELSE [node[n] EXCEPT !.forward =
                                [i \in Level |->
                                    IF i <= newLevel /\ update[i] = n THEN new ELSE @[i]]]]
        /\ len' = len + 1
        /\ drained' = << >>
        /\ UNCHANGED level

Link(key, val, newLevel) ==
    LET new == Cardinality(DOMAIN node)
        update == [i \in Level |-> IF i <= level THEN Before(key)[i] ELSE HeadNode]
        After(i) == IF i <= newLevel THEN node[update[i]].forward[i] ELSE Null
    IN  /\ ~Found(key)
        /\ node' = [n \in DOMAIN node \cup {new} |->
                        IF n = new
                        THEN [key |-> key, val |-> val, forward |-> [i \in Level |-> After(i)]]
                        ELSE [node[n] EXCEPT !.forward =
                                [i \in Level |->
                                    IF i <= newLevel /\ update[i] = n THEN new ELSE @[i]]]]
        /\ level' = IF newLevel > level THEN newLevel ELSE level
        /\ len' = len + 1
        /\ drained' = << >>

SkipListInsert(key, val) == Overwrite(key, val) \/ \E newLevel \in Level : Link(key, val, newLevel)

\* SkipList::clear: every node but the head is freed.
SkipListClear ==
    /\ node' = [n \in {HeadNode} |->
                    [node[HeadNode] EXCEPT !.forward = [i \in Level |-> IF i <= level THEN Null ELSE @[i]]]]
    /\ level' = 0
    /\ len' = 0

SkipListDrain ==
    /\ drained' = SkipListIter
    /\ SkipListClear

SkipListNext == (\E key \in MapKey, val \in Value : SkipListInsert(key, val)) \/ SkipListDrain

SkipListSpec == SkipListInit /\ [][SkipListNext]_slVars

(***************************************************************************)
(* Properties.                                                             *)
(***************************************************************************)

\* No pointer of a live node dangles (clear frees the nodes that only a pointer
\* of the head above the level in use could still reach), every level is a part
\* of the level below it, level 0 reaches every node, and len counts them: what
\* the unsafe blocks of insert, drain and clear rely on.
PointersLive ==
    /\ \A n \in DOMAIN node, i \in Level : node[n].forward[i] \in (DOMAIN node \ {HeadNode}) \cup {Null}
    /\ \A i \in level + 1 .. MAX_LEVEL : node[HeadNode].forward[i] = Null
    /\ \A i \in 1 .. MAX_LEVEL :
        { Chain(i)[j] : j \in DOMAIN Chain(i) } \subseteq { Chain(i - 1)[j] : j \in DOMAIN Chain(i - 1) }
    /\ { Chain(0)[j] : j \in DOMAIN Chain(0) } = DOMAIN node \ {HeadNode}
    /\ len = Cardinality(DOMAIN node) - 1

Map == INSTANCE OrderedMap WITH contents <- [k \in MapKey |-> SkipListGet(k)], listed <- drained

\* The skip list implements OrderedMap: whatever the levels of its nodes, get
\* returns the last value inserted for a key and drain lists all the ticks in
\* the order of their keys, once each, and empties the list.
RefinesMap == Map!Spec
=============================================================================
