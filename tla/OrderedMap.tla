----------------------------- MODULE OrderedMap -----------------------------
(***************************************************************************)
(* What the memtable promises to the engine: a map from keys to values     *)
(* that is listed in the order of its keys, and emptied as it is listed.   *)
(* Module SkipList implements it.                                          *)
(***************************************************************************)
EXTENDS Integers, Sequences, FiniteSets

CONSTANTS
    MapKey,  \* keys: a finite set of integers
    Value,   \* values
    Absent   \* "no value"

VARIABLES
    contents,  \* contents[k]: the value of key k, or Absent
    listed     \* what the last call returned

mapVars == << contents, listed >>

Empty == [k \in MapKey |-> Absent]
Present(m) == { k \in MapKey : m[k] # Absent }

\* The entries of m in the order of their keys.
InOrder(m) ==
    [i \in 1 .. Cardinality(Present(m)) |->
        LET k == CHOOSE x \in Present(m) : Cardinality({ y \in Present(m) : y <= x }) = i
        IN  [key |-> k, val |-> m[k]]]

Init == contents = Empty /\ listed = << >>

Put(k, v) ==
    /\ contents' = [contents EXCEPT ![k] = v]
    /\ listed' = << >>

Drain ==
    /\ listed' = InOrder(contents)
    /\ contents' = Empty

Next == (\E k \in MapKey, v \in Value : Put(k, v)) \/ Drain

Spec == Init /\ [][Next]_mapVars
=============================================================================
