----------------------------- MODULE Selection ------------------------------
(***************************************************************************)
(* The members of a sequence that a filter keeps, given by their positions *)
(* instead of by a test as in SelectSeq, whose meaning no prover knows.    *)
(***************************************************************************)
EXTENDS Naturals, Sequences, FiniteSets

\* The j-th of a finite set of positions.
Nth(places, j) == CHOOSE p \in places : Cardinality({ q \in places : q <= p }) = j

\* The members of s at the positions, in their order.
SelectAt(s, places) == [j \in 1 .. Cardinality(places) |-> s[Nth(places, j)]]
=============================================================================
