---------------------------- MODULE BoundedCache ----------------------------
(***************************************************************************)
(* What the block cache does for its callers: it keeps the blocks put into *)
(* it last, as many as fit, the oldest leaving first.  A get does not make *)
(* a block younger.  Module BlockCache implements it.                      *)
(***************************************************************************)
EXTENDS Naturals, Sequences, FiniteSets

CONSTANTS
    CacheKey,  \* keys of blocks
    Block,     \* blocks: the number of their bytes
    Capacity,  \* the bytes the cache may hold
    Miss       \* "no block"

VARIABLES
    kept,   \* the entries, the youngest first: records of a key and a block
    answer  \* what the last call returned

cacheVars == << kept, answer >>

\* The bytes of the first n entries of a sequence.
Bytes(s, n) ==
    LET sum[i \in 0 .. n] == IF i = 0 THEN 0 ELSE sum[i - 1] + s[i].block
    IN  sum[n]

\* The longest part from the front that fits.
Fitting(s) ==
    LET fits == { n \in 0 .. Len(s) : Bytes(s, n) <= Capacity }
    IN  SubSeq(s, 1, CHOOSE n \in fits : \A m \in fits : m <= n)

\* The entries without the one that has key k.
Without(s, k) ==
    LET under == { i \in DOMAIN s : s[i].key = k }
        p == CHOOSE i \in under : TRUE
    IN  IF under = {} THEN s ELSE SubSeq(s, 1, p - 1) \o SubSeq(s, p + 1, Len(s))

Init == kept = << >> /\ answer = Miss

Get(k) ==
    /\ answer' = IF \E i \in DOMAIN kept : kept[i].key = k
                 THEN kept[CHOOSE i \in DOMAIN kept : kept[i].key = k].block
                 ELSE Miss
    /\ UNCHANGED kept

\* A block that is larger than the cache is not kept, and the one that was
\* there under its key stays.
Insert(k, b) ==
    /\ kept' = IF b > Capacity
               THEN kept
               ELSE Fitting(<< [key |-> k, block |-> b] >> \o Without(kept, k))
    /\ answer' = Miss

Clear == kept' = << >> /\ answer' = Miss

Next ==
    \/ \E k \in CacheKey : Get(k) \/ \E b \in Block : Insert(k, b)
    \/ Clear

Spec == Init /\ [][Next]_cacheVars
=============================================================================
