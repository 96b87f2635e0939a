----------------------------- MODULE DataLemmas -----------------------------
(***************************************************************************)
(* Facts about numbers and finite sets that the proofs of several          *)
(* components need.  Induction is stated for a set of numbers instead of a *)
(* predicate: the members of the set are the numbers that have it.         *)
(***************************************************************************)
EXTENDS Integers, Sequences, FiniteSets, Selection, FiniteSetTheorems, WellFoundedInduction, TLAPS

(* A set of naturals has a least member.                                   *)
LEMMA LeastNatural ==
    ASSUME NEW S \in SUBSET Nat, S # {}
    PROVE  \E n \in S : \A m \in S : n <= m
<1>1. PICK n \in S : \A m \in S : ~ (<< m, n >> \in OpToRel(<, Nat))
  BY NatLessThanWellFounded, WFMin
<1>2. \A m \in S : m < n => << m, n >> \in OpToRel(<, Nat)
  BY DEF OpToRel
<1>3. \A m \in S : ~(m < n)
  BY <1>1, <1>2, Zenon
<1>4. \A m \in S : n <= m
  BY <1>3
<1>. QED
  BY <1>4

(* Induction over the naturals.                                            *)
LEMMA SetInduction ==
    ASSUME NEW S, 0 \in S, \A n \in Nat : n \in S => n + 1 \in S
    PROVE  \A n \in Nat : n \in S
<1>1. SUFFICES ASSUME Nat \ S # {} PROVE FALSE
  OBVIOUS
<1>2. PICK n \in Nat \ S : \A m \in Nat \ S : n <= m
  BY <1>1, LeastNatural
<1>3. n # 0 /\ n - 1 \in Nat
  BY <1>2
<1>. QED
  BY <1>2, <1>3

(* A nonempty set of positions has a last one.                             *)
LEMMA LastPosition ==
    ASSUME NEW n \in Nat, NEW S \in SUBSET (1 .. n), S # {}
    PROVE  \E i \in S : \A k \in S : k <= i
<1>. DEFINE T == { m \in 0 .. n : n - m \in S }
<1>1. T \in SUBSET Nat /\ T # {}
  <2>1. PICK i \in S : TRUE
    OBVIOUS
  <2>2. n - i \in T
    BY <2>1
  <2>3. T # {}
    BY <2>2
  <2>. HIDE DEF T
  <2>. QED
    BY <2>3 DEF T
<1>2. PICK m \in T : \A k \in T : m <= k
  BY <1>1, LeastNatural
<1>3. n - m \in S
  OBVIOUS
<1>4. ASSUME NEW k \in S
      PROVE  k <= n - m
  <2>1. n - k \in T
    OBVIOUS
  <2>2. m <= n - k
    BY <1>2, <2>1
  <2>. QED
    BY <2>2
<1>. QED
  BY <1>3, <1>4

(* The number of positions from 1 to n.                                    *)
LEMMA CountTo ==
    ASSUME NEW n \in Nat
    PROVE  IsFiniteSet(1 .. n) /\ Cardinality(1 .. n) = n
<1>1. IsFiniteSet(1 .. n) /\ Cardinality(1 .. n) = IF 1 > n THEN 0 ELSE n - 1 + 1
  BY FS_Interval
<1>. QED
  BY <1>1

\* The place of i among the members of S in their order.
Rank(S, i) == Cardinality({ k \in S : k <= i })

(* Every place from 1 to the number of members is taken by one member.     *)
LEMMA Ranks ==
    ASSUME NEW S \in SUBSET Int, IsFiniteSet(S)
    PROVE  /\ Cardinality(S) \in Nat
           /\ \A i \in S : Rank(S, i) \in 1 .. Cardinality(S)
           /\ \A i, k \in S : i < k => Rank(S, i) < Rank(S, k)
           /\ \A i, k \in S : Rank(S, i) = Rank(S, k) => i = k
           /\ \A n \in 1 .. Cardinality(S) : \E i \in S : Rank(S, i) = n
<1>1. Cardinality(S) \in Nat
  BY FS_CardinalityType
<1>2. ASSUME NEW i \in S
      PROVE  /\ IsFiniteSet({ k \in S : k <= i })
             /\ i \in Int /\ Rank(S, i) \in Int
             /\ Rank(S, i) \in 1 .. Cardinality(S)
  <2>. DEFINE T == { k \in S : k <= i }
  <2>1. T \in SUBSET S /\ i \in T
    OBVIOUS
  <2>2. IsFiniteSet(T) /\ Cardinality(T) <= Cardinality(S)
    BY <2>1, FS_Subset
  <2>3. Cardinality(T) \in Nat /\ Cardinality(T) # 0
    BY <2>1, <2>2, FS_CardinalityType, FS_EmptySet
  <2>. HIDE DEF T
  <2>. QED
    BY <1>1, <2>2, <2>3 DEF Rank, T
<1>3. ASSUME NEW i \in S, NEW k \in S, i < k
      PROVE  Rank(S, i) < Rank(S, k)
  <2>. DEFINE T == { m \in S : m <= i }
              U == { m \in S : m <= k }
  <2>1. T \in SUBSET U /\ k \in U /\ k \notin T
    <3>1. i \in Int /\ k \in Int /\ \A m \in S : m \in Int
      OBVIOUS
    <3>2. k <= k /\ ~(k <= i) /\ \A m \in S : m <= i => m <= k
      BY <1>3, <3>1
    <3>. QED
      BY <3>2
  <2>2. IsFiniteSet(U) /\ Rank(S, i) \in Int /\ Rank(S, k) \in Int
    BY <1>2
  <2>3. Cardinality(T) <= Cardinality(U) /\ Cardinality(T) # Cardinality(U)
    <3>. HIDE DEF T, U
    <3>. QED
      BY <2>1, <2>2, FS_Subset
  <2>. QED
    BY <2>2, <2>3 DEF Rank
<1>4. \A i, k \in S : Rank(S, i) = Rank(S, k) => i = k
  <2>1. \A i \in S : Rank(S, i) \in Int /\ i \in Int
    BY <1>2
  <2>. QED
    BY <1>3, <2>1
<1>5. ASSUME NEW n \in 1 .. Cardinality(S)
      PROVE  \E i \in S : Rank(S, i) = n
  <2>. DEFINE C == 1 .. Cardinality(S)
              f == [i \in S |-> Rank(S, i)]
  <2>1. f \in Injection(S, C)
    <3>1. f \in [S -> C]
      BY <1>2
    <3>. QED
      BY <1>4, <3>1 DEF Injection, IsInjective
  <2>2. IsFiniteSet(C) /\ Cardinality(C) = Cardinality(S)
    BY <1>1, CountTo
  <2>3. f \in Surjection(S, C)
    <3>. HIDE DEF f, C
    <3>. QED
      BY <2>1, <2>2, FS_Injection
  <2>4. \E i \in S : f[i] = n
    BY <2>3 DEF Surjection
  <2>. QED
    BY <2>4
<1>. QED
  BY <1>1, <1>2, <1>3, <1>4, <1>5

(* What a selection takes from a sequence, and in which order.             *)
LEMMA Selected ==
    ASSUME NEW s, NEW n \in Nat, NEW P \in SUBSET (1 .. n)
    PROVE  /\ Cardinality(P) \in Nat
           /\ DOMAIN SelectAt(s, P) = 1 .. Cardinality(P)
           /\ \A j \in 1 .. Cardinality(P) :
                /\ Nth(P, j) \in P /\ Rank(P, Nth(P, j)) = j
                /\ SelectAt(s, P)[j] = s[Nth(P, j)]
           /\ \A p \in P : Rank(P, p) \in 1 .. Cardinality(P) /\ Nth(P, Rank(P, p)) = p
<1>1. P \in SUBSET Int /\ IsFiniteSet(P)
  <2>1. IsFiniteSet(1 .. n)
    BY CountTo
  <2>2. IsFiniteSet(P)
    BY <2>1, FS_Subset, Zenon
  <2>3. P \in SUBSET Int
    OBVIOUS
  <2>. QED
    BY <2>2, <2>3
<1>2. PICK c : c = Cardinality(P)
  OBVIOUS
<1>3. /\ c \in Nat
      /\ \A p \in P : Rank(P, p) \in 1 .. c
      /\ \A p, q \in P : Rank(P, p) = Rank(P, q) => p = q
      /\ \A j \in 1 .. c : \E p \in P : Rank(P, p) = j
  BY <1>1, <1>2, Ranks
<1>4. \A j : Nth(P, j) = CHOOSE p \in P : Rank(P, p) = j
  BY DEF Nth, Rank
<1>5. \A j \in 1 .. c : Nth(P, j) \in P /\ Rank(P, Nth(P, j)) = j
  BY <1>3, <1>4
<1>6. \A p \in P : Nth(P, Rank(P, p)) = p
  <2>1. ASSUME NEW p \in P PROVE Nth(P, Rank(P, p)) = p
    <3>1. PICK j \in 1 .. c : j = Rank(P, p)
      BY <1>3
    <3>2. Nth(P, j) \in P /\ Rank(P, Nth(P, j)) = Rank(P, p)
      BY <1>5, <3>1, Zenon
    <3>3. Nth(P, j) = p
      BY <1>3, <3>2, Zenon
    <3>. QED
      BY <3>1, <3>3
  <2>. QED
    BY <2>1
<1>7. SelectAt(s, P) = [j \in 1 .. c |-> s[Nth(P, j)]]
  BY <1>2 DEF SelectAt
<1>. QED
  BY <1>2, <1>3, <1>5, <1>6, <1>7

(* The selection of all positions from i on is the rest of a sequence.     *)
LEMMA SelectedRest ==
    ASSUME NEW E, NEW s \in Seq(E), NEW i \in 1 .. Len(s) + 1
    PROVE  SelectAt(s, i .. Len(s)) = SubSeq(s, i, Len(s))
<1>1. PICK n, P : n = Len(s) /\ P = i .. n
  OBVIOUS
<1>2. n \in Nat /\ i \in Nat /\ i >= 1 /\ i <= n + 1
  BY <1>1
<1>3. P \in SUBSET (1 .. n) /\ Cardinality(P) = n - i + 1
  <2>1. P \in SUBSET (1 .. n)
    BY <1>1, <1>2
  <2>2. Cardinality(i .. n) = IF i > n THEN 0 ELSE n - i + 1
    BY <1>2, FS_Interval
  <2>. QED
    BY <1>1, <1>2, <2>1, <2>2
<1>4. \A p \in P : Rank(P, p) = p - i + 1
  <2>1. ASSUME NEW p \in P PROVE Rank(P, p) = p - i + 1
    <3>1. p \in Int /\ i <= p /\ p <= n
      BY <1>1, <1>2
    <3>2. { k \in P : k <= p } = i .. p
      BY <1>1, <1>2, <3>1
    <3>3. Cardinality(i .. p) = IF i > p THEN 0 ELSE p - i + 1
      BY <1>2, <3>1, FS_Interval
    <3>4. Rank(P, p) = Cardinality(i .. p)
      BY <3>2, Zenon DEF Rank
    <3>. QED
      BY <1>2, <3>1, <3>3, <3>4
  <2>. QED
    BY <2>1
<1>5. /\ DOMAIN SelectAt(s, P) = 1 .. n - i + 1
      /\ \A j \in 1 .. n - i + 1 : /\ Nth(P, j) \in P /\ Rank(P, Nth(P, j)) = j
                                   /\ SelectAt(s, P)[j] = s[Nth(P, j)]
  <2>1. /\ DOMAIN SelectAt(s, P) = 1 .. Cardinality(P)
        /\ \A j \in 1 .. Cardinality(P) : /\ Nth(P, j) \in P /\ Rank(P, Nth(P, j)) = j
                                          /\ SelectAt(s, P)[j] = s[Nth(P, j)]
    BY <1>2, <1>3, Selected, Zenon
  <2>. QED
    BY <1>3, <2>1
<1>6. \A j \in 1 .. n - i + 1 : SelectAt(s, P)[j] = s[i + j - 1]
  <2>1. ASSUME NEW j \in 1 .. n - i + 1 PROVE Nth(P, j) = i + j - 1
    <3>1. PICK p \in P : p = Nth(P, j)
      BY <1>5
    <3>2. p - i + 1 = j /\ p \in Int
      BY <1>1, <1>4, <1>5, <3>1
    <3>. QED
      BY <1>2, <3>1, <3>2
  <2>. QED
    BY <1>5, <2>1
<1>7. /\ DOMAIN SubSeq(s, i, n) = 1 .. n - i + 1
      /\ \A j \in 1 .. n - i + 1 : SubSeq(s, i, n)[j] = s[i + j - 1]
      /\ SubSeq(s, i, n) = [j \in DOMAIN SubSeq(s, i, n) |-> SubSeq(s, i, n)[j]]
  BY <1>1, <1>2
<1>8. SelectAt(s, P) = [j \in DOMAIN SelectAt(s, P) |-> SelectAt(s, P)[j]]
  BY DEF SelectAt
<1>9. PICK f, g : f = SelectAt(s, P) /\ g = SubSeq(s, i, n)
  OBVIOUS
<1>10. /\ DOMAIN f = 1 .. n - i + 1 /\ f = [j \in DOMAIN f |-> f[j]]
       /\ DOMAIN g = 1 .. n - i + 1 /\ g = [j \in DOMAIN g |-> g[j]]
       /\ \A j \in 1 .. n - i + 1 : f[j] = g[j]
  BY <1>5, <1>6, <1>7, <1>8, <1>9, Zenon
<1>11. f = g
  BY <1>10
<1>. QED
  BY <1>1, <1>9, <1>11, Zenon

(* The rest of a sequence from i on begins with its i-th member.           *)
LEMMA RestBegins ==
    ASSUME NEW E, NEW s \in Seq(E), NEW i \in 1 .. Len(s)
    PROVE  << s[i] >> \o SubSeq(s, i + 1, Len(s)) = SubSeq(s, i, Len(s))
<1>1. PICK n, m : n = Len(s) /\ m = n - i
  OBVIOUS
<1>2. n \in Nat /\ i \in Nat /\ 1 <= i /\ i <= n /\ m \in Nat /\ n - (i + 1) + 1 = m /\ n - i + 1 = m + 1
  BY <1>1
<1>3. PICK f, g, h : f = SubSeq(s, i + 1, n) /\ g = SubSeq(s, i, n) /\ h = << s[i] >> \o f
  OBVIOUS
<1>4. f \in Seq(E) /\ Len(f) = m /\ \A j \in 1 .. m : f[j] = s[i + j]
  BY <1>1, <1>2, <1>3
<1>5. g \in Seq(E) /\ Len(g) = m + 1 /\ \A j \in 1 .. m + 1 : g[j] = s[i + j - 1]
  BY <1>1, <1>2, <1>3
<1>6. s[i] \in E
  OBVIOUS
<1>7. h \in Seq(E) /\ Len(h) = m + 1 /\ h[1] = s[i] /\ \A j \in 2 .. m + 1 : h[j] = f[j - 1]
  BY <1>2, <1>3, <1>4, <1>6
<1>8. \A j \in 1 .. m + 1 : h[j] = g[j]
  <2>1. ASSUME NEW j \in 1 .. m + 1 PROVE h[j] = g[j]
    <3>1. CASE j = 1
      BY <1>2, <1>5, <1>7, <3>1
    <3>2. CASE j # 1
      <4>1. j \in 2 .. m + 1 /\ j - 1 \in 1 .. m /\ i + (j - 1) = i + j - 1
        BY <1>2, <3>2
      <4>. QED
        BY <1>4, <1>5, <1>7, <4>1
    <3>. QED
      BY <3>1, <3>2
  <2>. QED
    BY <2>1
<1>9. h = g
  BY <1>2, <1>5, <1>7, <1>8
<1>. QED
  BY <1>1, <1>3, <1>9

(* Different members of a sequence are counted by their positions.         *)
LEMMA MembersCounted ==
    ASSUME NEW n \in Nat, NEW s, \A i, j \in 1 .. n : s[i] = s[j] => i = j,
           NEW T, \A x : x \in T <=> \E i \in 1 .. n : s[i] = x
    PROVE  Cardinality(T) = n
<1>1. PICK S : S = 1 .. n
  OBVIOUS
<1>2. PICK f : f = [i \in S |-> s[i]]
  OBVIOUS
<1>3. f \in Surjection(S, T)
  BY <1>1, <1>2 DEF Surjection
<1>4. f \in Injection(S, T)
  BY <1>1, <1>2 DEF Injection, IsInjective
<1>5. IsFiniteSet(S) /\ Cardinality(S) = n
  BY <1>1, CountTo
<1>6. Cardinality(T) = Cardinality(S)
  BY <1>3, <1>4, <1>5, FS_Surjection, Zenon
<1>. QED
  BY <1>1, <1>5, <1>6

\* A list: the successors of the members of s follow it, everything else leads nowhere.
Following(D, none, next, s) ==
    /\ none \notin D
    /\ s \in Seq(D)
    /\ \A i, j \in 1 .. Len(s) : s[i] = s[j] => i = j
    /\ \A i \in 1 .. Len(s) : next[s[i]] = (IF i = Len(s) THEN none ELSE s[i + 1])
    /\ \A x \in D : (\E i \in 1 .. Len(s) : s[i] = x) \/ next[x] = none

(* The rest of a list from any place on is a recursive function.           *)
RestsOf(D, none, next, f) ==
    f = [x \in D \cup {none} |-> IF x = none THEN << >> ELSE << x >> \o f[next[x]]]

LEMMA RestDefined ==
    ASSUME NEW D, NEW none, NEW next, NEW s, Following(D, none, next, s)
    PROVE  \E f : RestsOf(D, none, next, f)
<1>1. PICK L : L = Len(s)
  OBVIOUS
<1>2. /\ none \notin D /\ s \in Seq(D) /\ L \in Nat
      /\ \A i \in 1 .. L : s[i] \in D
  BY <1>1 DEF Following
<1>3. /\ \A i, j \in 1 .. L : s[i] = s[j] => i = j
      /\ \A i \in 1 .. L : next[s[i]] = (IF i = L THEN none ELSE s[i + 1])
      /\ \A x \in D : (\E i \in 1 .. L : s[i] = x) \/ next[x] = none
  BY <1>1 DEF Following
<1>4. /\ \A i \in 1 .. L : << s[i] >> \o SubSeq(s, i + 1, L) = SubSeq(s, i, L)
      /\ SubSeq(s, L + 1, L) = << >>
  <2>1. \A i \in 1 .. L : << s[i] >> \o SubSeq(s, i + 1, L) = SubSeq(s, i, L)
    BY <1>1, <1>2, RestBegins
  <2>. QED
    BY <1>1, <1>2, <2>1
<1>. DEFINE Place(x) == CHOOSE i \in 1 .. L : s[i] = x
<1>5. \A i \in 1 .. L : Place(s[i]) = i
  BY <1>3
<1>6. PICK f : f = [x \in D \cup {none} |-> IF x = none THEN << >>
                                            ELSE IF \E i \in 1 .. L : s[i] = x THEN SubSeq(s, Place(x), L)
                                            ELSE << x >>]
  OBVIOUS
<1>7. /\ f[none] = << >>
      /\ \A i \in 1 .. L : f[s[i]] = SubSeq(s, i, L)
      /\ \A x \in D : (\A i \in 1 .. L : s[i] # x) => f[x] = << x >>
  <2>1. f[none] = << >>
    BY <1>6
  <2>2. ASSUME NEW i \in 1 .. L PROVE f[s[i]] = SubSeq(s, i, L)
    <3>1. s[i] \in D \cup {none} /\ s[i] # none
      BY <1>2
    <3>2. f[s[i]] = SubSeq(s, Place(s[i]), L)
      BY <1>6, <3>1
    <3>. QED
      BY <1>5, <3>2
  <2>3. \A x \in D : (\A i \in 1 .. L : s[i] # x) => f[x] = << x >>
    BY <1>2, <1>6
  <2>. QED
    BY <2>1, <2>2, <2>3
<1>. HIDE DEF Place
<1>8. ASSUME NEW x \in D PROVE f[x] = << x >> \o f[next[x]]
  <2>1. CASE \E i \in 1 .. L : s[i] = x
    <3>1. PICK i \in 1 .. L : s[i] = x
      BY <2>1
    <3>2. f[next[x]] = SubSeq(s, i + 1, L)
      <4>1. CASE i = L
        BY <1>3, <1>4, <1>7, <3>1, <4>1
      <4>2. CASE i # L
        <5>1. i + 1 \in 1 .. L
          BY <1>2, <4>2
        <5>. QED
          BY <1>3, <1>7, <3>1, <4>2, <5>1
      <4>. QED
        BY <4>1, <4>2
    <3>. QED
      BY <1>4, <1>7, <3>1, <3>2
  <2>2. CASE ~ \E i \in 1 .. L : s[i] = x
    <3>1. f[x] = << x >> /\ f[next[x]] = << >>
      BY <1>3, <1>7, <2>2
    <3>2. << x >> \o << >> = << x >>
      <4>1. << x >> \in Seq(D) /\ << >> \in Seq(D)
        OBVIOUS
      <4>. QED
        BY <4>1
    <3>. QED
      BY <3>1, <3>2
  <2>. QED
    BY <2>1, <2>2
<1>9. RestsOf(D, none, next, f)
  <2>1. f = [x \in D \cup {none} |-> f[x]]
    BY <1>6
  <2>2. \A x \in D \cup {none} : f[x] = IF x = none THEN << >> ELSE << x >> \o f[next[x]]
    BY <1>2, <1>7, <1>8
  <2>. QED
    BY <2>1, <2>2 DEF RestsOf
<1>. QED
  BY <1>9

(* It gives the list from its first member, and nothing from nowhere.      *)
Walks(D, none, next, g) == g[none] = << >> /\ \A x \in D : g[x] = << x >> \o g[next[x]]
LEMMA RestFollowed ==
    ASSUME NEW D, NEW none, NEW next, NEW s, Following(D, none, next, s), NEW g, Walks(D, none, next, g)
    PROVE  IF Len(s) = 0 THEN g[none] = s ELSE g[s[1]] = s
<1>0. g[none] = << >> /\ \A x \in D : g[x] = << x >> \o g[next[x]]
  BY DEF Walks
<1>1. PICK L : L = Len(s)
  OBVIOUS
<1>2. /\ s \in Seq(D) /\ L \in Nat
      /\ \A i \in 1 .. L : s[i] \in D
  BY <1>1 DEF Following
<1>3. \A i \in 1 .. L : next[s[i]] = (IF i = L THEN none ELSE s[i + 1])
  BY <1>1 DEF Following
<1>4. /\ \A i \in 1 .. L : << s[i] >> \o SubSeq(s, i + 1, L) = SubSeq(s, i, L)
      /\ SubSeq(s, L + 1, L) = << >> /\ SubSeq(s, 1, L) = s
  <2>1. \A i \in 1 .. L : << s[i] >> \o SubSeq(s, i + 1, L) = SubSeq(s, i, L)
    BY <1>1, <1>2, RestBegins
  <2>. QED
    BY <1>1, <1>2, <2>1
<1>5. \A i \in 1 .. L : g[s[i]] = SubSeq(s, i, L)
  <2>. DEFINE S == { m \in Nat : m < L => g[s[L - m]] = SubSeq(s, L - m, L) }
  <2>1. \A i \in 1 .. L : g[s[i]] = << s[i] >> \o g[next[s[i]]]
    BY <1>0, <1>2
  <2>2. 0 \in S
    <3>1. SUFFICES ASSUME 0 < L PROVE g[s[L - 0]] = SubSeq(s, L - 0, L)
      OBVIOUS
    <3>2. L \in 1 .. L /\ L - 0 = L
      BY <1>2, <3>1
    <3>3. g[s[L]] = << s[L] >> \o << >>
      BY <1>0, <1>3, <2>1, <3>2
    <3>. QED
      BY <1>4, <3>2, <3>3
  <2>3. ASSUME NEW m \in Nat, m \in S PROVE m + 1 \in S
    <3>1. SUFFICES ASSUME m + 1 < L PROVE g[s[L - (m + 1)]] = SubSeq(s, L - (m + 1), L)
      BY <2>3
    <3>2. PICK i \in 1 .. L : i = L - (m + 1)
      BY <1>2, <2>3, <3>1
    <3>3. i # L /\ i + 1 = L - m /\ m < L
      BY <1>2, <2>3, <3>1, <3>2
    <3>4. g[s[i + 1]] = SubSeq(s, i + 1, L)
      BY <2>3, <3>3
    <3>. QED
      BY <1>3, <1>4, <2>1, <3>2, <3>3, <3>4
  <2>4. \A m \in Nat : m \in S
    <3>. HIDE DEF S
    <3>. QED
      BY <2>2, <2>3, SetInduction
  <2>5. ASSUME NEW i \in 1 .. L PROVE g[s[i]] = SubSeq(s, i, L)
    <3>1. L - i \in Nat /\ L - i < L /\ L - (L - i) = i
      BY <1>2
    <3>. QED
      BY <2>4, <3>1
  <2>. QED
    BY <2>5
<1>6. CASE L = 0
  <2>1. Len(s) = 0 /\ s \in Seq(D)
    BY <1>1, <1>2, <1>6
  <2>2. s = << >>
    BY <2>1
  <2>. QED
    BY <1>0, <2>1, <2>2
<1>7. CASE L # 0
  <2>1. 1 \in 1 .. L
    BY <1>2, <1>7
  <2>. QED
    BY <1>1, <1>4, <1>5, <1>7, <2>1
<1>. QED
  BY <1>6, <1>7

(* A function on the first numbers is a sequence.                          *)
LEMMA NumberedSeq ==
    ASSUME NEW D, NEW c \in Nat, NEW s \in [1 .. c -> D]
    PROVE  s \in Seq(D) /\ Len(s) = c
OBVIOUS

(* A finite nonempty set has a member whose value is the highest.          *)
LEMMA Highest ==
    ASSUME NEW S, IsFiniteSet(S), S # {}, NEW K, \A x \in S : K[x] \in Int
    PROVE  \E x \in S : \A y \in S : K[y] <= K[x]
<1>. DEFINE Above(x) == { y \in S : K[x] <= K[y] }
            Counts1 == { m \in Nat : \E x \in S : Cardinality(Above(x)) = m }
<1>1. \A x \in S : IsFiniteSet(Above(x)) /\ Cardinality(Above(x)) \in Nat
  <2>1. ASSUME NEW x \in S PROVE IsFiniteSet(Above(x)) /\ Cardinality(Above(x)) \in Nat
    <3>1. Above(x) \in SUBSET S
      OBVIOUS
    <3>2. IsFiniteSet(Above(x))
      BY <3>1, FS_Subset
    <3>. QED
      BY <3>2, FS_CardinalityType
  <2>. QED
    BY <2>1
<1>2. Counts1 \in SUBSET Nat /\ Counts1 # {}
  <2>1. PICK x \in S : TRUE
    OBVIOUS
  <2>2. Cardinality(Above(x)) \in Counts1
    BY <1>1
  <2>. QED
    BY <2>2
<1>3. PICK m \in Counts1 : \A n \in Counts1 : m <= n
  <2>. HIDE DEF Counts1
  <2>. QED
    BY <1>2, LeastNatural
<1>4. PICK x \in S : Cardinality(Above(x)) = m
  OBVIOUS
<1>5. ASSUME NEW y \in S, ~ (K[y] <= K[x]) PROVE FALSE
  <2>1. Above(y) \in SUBSET Above(x) /\ x \in Above(x) /\ x \notin Above(y)
    BY <1>5
  <2>2. Cardinality(Above(y)) <= Cardinality(Above(x)) /\ Cardinality(Above(y)) # Cardinality(Above(x))
    <3>1. IsFiniteSet(Above(x))
      BY <1>1
    <3>. HIDE DEF Above
    <3>. QED
      BY <2>1, <3>1, FS_Subset
  <2>3. Cardinality(Above(y)) \in Counts1
    BY <1>1
  <2>4. m <= Cardinality(Above(y))
    BY <1>3, <2>3
  <2>. HIDE DEF Above, Counts1
  <2>. QED
    BY <1>1, <1>4, <2>2, <2>4
<1>. QED
  BY <1>5
=============================================================================
