--------------------------- MODULE LsmLocksProofs ---------------------------
(***************************************************************************)
(* Proofs about LsmLocks for any number of threads and any set of calls    *)
(* that respects the lock order.                                           *)
(***************************************************************************)
EXTENDS LsmLocks, TLAPS

(***************************************************************************)
(* Every call the threads make respects the lock order.                    *)
(***************************************************************************)
CallsOrdered == \A p \in Calls : Ordered(p)

(***************************************************************************)
(* The path of a thread, when it is not the empty one it starts with.      *)
(***************************************************************************)
OnCalls == \A t \in Thread : prog[t] = << >> \/ prog[t] \in Calls

(***************************************************************************)
(* The lock words say what the threads' positions say: a thread owns the   *)
(* writer bits it has claimed and not dropped, is counted as a reader of   *)
(* what it has read-locked and not dropped, and a lock that has been       *)
(* entered for writing has no readers.                                     *)
(***************************************************************************)
WordsMatch ==
    \A t \in Thread, l \in Lock :
        /\ writer[l] = t <=> l \in Claimed(prog[t], at[t])
        /\ t \in readers[l] <=> l \in ReadHeld(prog[t], at[t])
        /\ l \in Entered(prog[t], at[t]) => readers[l] = {}

Inv == TypeOK /\ OnCalls /\ WordsMatch

----------------------------------------------------------------------------

(* What one step does to what a path holds.                                *)
LEMMA SinceStep ==
    ASSUME NEW p \in Seq(StepOf), NEW n \in 1 .. Len(p), NEW op, NEW l \in Lock,
           op # "unlock"
    PROVE  Since(p, n + 1, op, l) <=>
              \/ p[n] = [op |-> op, lock |-> l]
              \/ p[n] # [op |-> "unlock", lock |-> l] /\ Since(p, n, op, l)
<1>0. p[n] \in StepOf
  OBVIOUS
<1>1. ASSUME Since(p, n + 1, op, l), p[n] # [op |-> op, lock |-> l]
      PROVE  p[n] # [op |-> "unlock", lock |-> l] /\ Since(p, n, op, l)
  <2>1. PICK i \in 1 .. n : /\ p[i] = [op |-> op, lock |-> l]
                            /\ \A j \in i + 1 .. n : p[j] # [op |-> "unlock", lock |-> l]
    BY <1>1 DEF Since
  <2>2. i \in 1 .. n - 1
    BY <1>1, <2>1
  <2>3. n \in i + 1 .. n
    BY <2>2
  <2>. QED
    BY <2>1, <2>2, <2>3 DEF Since
<1>2. ASSUME p[n] = [op |-> op, lock |-> l]
      PROVE  Since(p, n + 1, op, l)
  BY <1>2 DEF Since
<1>3. ASSUME p[n] # [op |-> "unlock", lock |-> l], Since(p, n, op, l)
      PROVE  Since(p, n + 1, op, l)
  <2>1. PICK i \in 1 .. n - 1 : /\ p[i] = [op |-> op, lock |-> l]
                                /\ \A j \in i + 1 .. n - 1 : p[j] # [op |-> "unlock", lock |-> l]
    BY <1>3 DEF Since
  <2>2. \A j \in i + 1 .. n : p[j] # [op |-> "unlock", lock |-> l]
    BY <1>3, <2>1
  <2>. QED
    BY <2>1, <2>2 DEF Since
<1>. QED
  BY <1>1, <1>2, <1>3

(* Nothing is held before the first step.                                  *)
LEMMA HeldAtStart ==
    ASSUME NEW p
    PROVE  Claimed(p, 1) = {} /\ ReadHeld(p, 1) = {} /\ Entered(p, 1) = {}
BY DEF Claimed, ReadHeld, Entered, Since

(* On an ordered path the locks entered have been claimed.                 *)
LEMMA EnteredIsClaimed ==
    ASSUME NEW p \in Seq(StepOf), Ordered(p), NEW n \in 1 .. Len(p) + 1
    PROVE  Entered(p, n) \subseteq Claimed(p, n)
<1>1. SUFFICES ASSUME NEW l \in Lock, Since(p, n, "enter", l)
               PROVE  Since(p, n, "claim", l)
  BY DEF Entered, Claimed
<1>2. PICK i \in 1 .. n - 1 : /\ p[i] = [op |-> "enter", lock |-> l]
                              /\ \A j \in i + 1 .. n - 1 : p[j] # [op |-> "unlock", lock |-> l]
  BY <1>1 DEF Since
<1>3. i > 1 /\ p[i - 1] = [op |-> "claim", lock |-> l]
  BY <1>2 DEF Ordered
<1>4. \A j \in i .. n - 1 : p[j] # [op |-> "unlock", lock |-> l]
  BY <1>2
<1>5. i - 1 \in 1 .. n - 1 /\ (i - 1) + 1 = i
  BY <1>3
<1>. QED
  BY <1>3, <1>4, <1>5 DEF Since

----------------------------------------------------------------------------

(* The initial states satisfy the invariant.                               *)
LEMMA InitInv == Init => Inv
<1>. SUFFICES ASSUME Init PROVE Inv
  OBVIOUS
<1>1. TypeOK
  BY DEF Init, TypeOK
<1>2. OnCalls
  BY DEF Init, OnCalls
<1>3. WordsMatch
  BY HeldAtStart, LockAssumption DEF Init, WordsMatch
<1>. QED
  BY <1>1, <1>2, <1>3 DEF Inv

(* The held locks of the thread that moves, before and after its step, and *)
(* those of the others, which keep their positions.                        *)
LEMMA MoveHeld ==
    ASSUME Inv, NEW t \in Thread, Busy(t), Advance(t), NEW l \in Lock
    PROVE  /\ Step(t) \in StepOf
           /\ l \in Claimed(prog'[t], at'[t]) <=>
                 \/ Step(t) = [op |-> "claim", lock |-> l]
                 \/ /\ Step(t) # [op |-> "unlock", lock |-> l]
                    /\ l \in Claimed(prog[t], at[t])
           /\ l \in ReadHeld(prog'[t], at'[t]) <=>
                 \/ Step(t) = [op |-> "read", lock |-> l]
                 \/ /\ Step(t) # [op |-> "unlock", lock |-> l]
                    /\ l \in ReadHeld(prog[t], at[t])
           /\ l \in Entered(prog'[t], at'[t]) <=>
                 \/ Step(t) = [op |-> "enter", lock |-> l]
                 \/ /\ Step(t) # [op |-> "unlock", lock |-> l]
                    /\ l \in Entered(prog[t], at[t])
           /\ \A u \in Thread \ {t} : prog'[u] = prog[u] /\ at'[u] = at[u]
<1>1. /\ prog[t] \in Seq(StepOf)
      /\ at[t] \in 1 .. Len(prog[t])
      /\ prog'[t] = prog[t]
      /\ at'[t] = at[t] + 1
      /\ \A u \in Thread \ {t} : prog'[u] = prog[u] /\ at'[u] = at[u]
  BY DEF Inv, TypeOK, Busy, Advance
<1>2. \A op : op # "unlock" =>
         (Since(prog[t], at[t] + 1, op, l) <=>
              \/ Step(t) = [op |-> op, lock |-> l]
              \/ /\ Step(t) # [op |-> "unlock", lock |-> l]
                 /\ Since(prog[t], at[t], op, l))
  BY <1>1, SinceStep DEF Step
<1>. QED
  BY <1>1, <1>2 DEF Claimed, ReadHeld, Entered, Step

(* A move keeps the types and the paths.                                   *)
LEMMA MoveTypes ==
    ASSUME Inv, NEW t \in Thread, Move(t)
    PROVE  TypeOK' /\ OnCalls'
<1>1. Busy(t) /\ Advance(t)
  BY DEF Move, ReadLock, ClaimWrite, EnterWrite, Unlock, AtOp
<1>2. Step(t) \in StepOf
  BY <1>1, MoveHeld DEF Lock
<1>3. OnCalls'
  BY <1>1 DEF Advance, OnCalls, Inv
<1>4. /\ prog' \in [Thread -> Seq(StepOf)]
      /\ at' \in [Thread -> Nat]
      /\ \A u \in Thread : at'[u] \in 1 .. Len(prog'[u]) + 1
  BY <1>1 DEF Advance, Busy, Inv, TypeOK
<1>5. /\ writer' \in [Lock -> Thread \cup {None}]
      /\ readers' \in [Lock -> SUBSET Thread]
  <2>1. Step(t).lock \in Lock
    BY <1>2 DEF StepOf
  <2>2. CASE ReadLock(t)
    BY <2>1, <2>2 DEF ReadLock, Inv, TypeOK
  <2>3. CASE ClaimWrite(t)
    BY <2>1, <2>3 DEF ClaimWrite, Inv, TypeOK
  <2>4. CASE EnterWrite(t)
    BY <2>4 DEF EnterWrite, Inv, TypeOK
  <2>5. CASE Unlock(t)
    <3>1. writer' \in [Lock -> Thread \cup {None}]
      BY <2>1, <2>5 DEF Unlock, Inv, TypeOK
    <3>2. readers' \in [Lock -> SUBSET Thread]
      BY <2>1, <2>5 DEF Unlock, Inv, TypeOK
    <3>. QED
      BY <3>1, <3>2
  <2>. QED
    BY <2>2, <2>3, <2>4, <2>5 DEF Move
<1>. QED
  BY <1>3, <1>4, <1>5 DEF TypeOK

(* A move keeps the lock words in step with the positions.                 *)
LEMMA MoveWords ==
    ASSUME CallsOrdered, Inv, NEW t \in Thread, Move(t)
    PROVE  WordsMatch'
<1>1. Busy(t) /\ Advance(t)
  BY DEF Move, ReadLock, ClaimWrite, EnterWrite, Unlock, AtOp
<1>. SUFFICES ASSUME NEW u \in Thread, NEW l \in Lock
              PROVE  /\ writer'[l] = u <=> l \in Claimed(prog'[u], at'[u])
                     /\ u \in readers'[l] <=> l \in ReadHeld(prog'[u], at'[u])
                     /\ l \in Entered(prog'[u], at'[u]) => readers'[l] = {}
  BY DEF WordsMatch
<1>2. /\ writer[l] = u <=> l \in Claimed(prog[u], at[u])
      /\ u \in readers[l] <=> l \in ReadHeld(prog[u], at[u])
      /\ l \in Entered(prog[u], at[u]) => readers[l] = {} /\ writer[l] = u
  <2>1. at[u] \in 1 .. Len(prog[u]) + 1 /\ prog[u] \in Seq(StepOf)
    BY DEF Inv, TypeOK
  <2>2. CASE prog[u] = << >>
    <3>1. at[u] = 1
      BY <2>1, <2>2
    <3>. QED
      BY <3>1, HeldAtStart DEF Inv, WordsMatch
  <2>3. CASE prog[u] \in Calls
    BY <2>1, <2>3, EnteredIsClaimed DEF Inv, WordsMatch, CallsOrdered
  <2>. QED
    BY <2>2, <2>3 DEF Inv, OnCalls
<1>3. /\ Step(t).op = "read" /\ Step(t).lock = l <=> Step(t) = [op |-> "read", lock |-> l]
      /\ Step(t).op = "claim" /\ Step(t).lock = l <=> Step(t) = [op |-> "claim", lock |-> l]
      /\ Step(t).op = "enter" /\ Step(t).lock = l <=> Step(t) = [op |-> "enter", lock |-> l]
      /\ Step(t).op = "unlock" /\ Step(t).lock = l <=> Step(t) = [op |-> "unlock", lock |-> l]
      /\ Step(t).lock \in Lock
  <2>1. Step(t) \in StepOf
    BY <1>1, MoveHeld
  <2>. QED
    BY <2>1 DEF StepOf
<1>4. u # t => /\ prog'[u] = prog[u]
               /\ at'[u] = at[u]
  BY <1>1, MoveHeld
<1>5. u = t =>
         /\ l \in Claimed(prog'[u], at'[u]) <=>
               \/ Step(t) = [op |-> "claim", lock |-> l]
               \/ /\ Step(t) # [op |-> "unlock", lock |-> l]
                  /\ l \in Claimed(prog[u], at[u])
         /\ l \in ReadHeld(prog'[u], at'[u]) <=>
               \/ Step(t) = [op |-> "read", lock |-> l]
               \/ /\ Step(t) # [op |-> "unlock", lock |-> l]
                  /\ l \in ReadHeld(prog[u], at[u])
         /\ l \in Entered(prog'[u], at'[u]) <=>
               \/ Step(t) = [op |-> "enter", lock |-> l]
               \/ /\ Step(t) # [op |-> "unlock", lock |-> l]
                  /\ l \in Entered(prog[u], at[u])
  BY <1>1, MoveHeld
<1>6. writer \in [Lock -> Thread \cup {None}] /\ readers \in [Lock -> SUBSET Thread]
  BY DEF Inv, TypeOK
<1>7. CASE ReadLock(t)
  <2>1. /\ Step(t).op = "read" /\ writer[Step(t).lock] = None /\ writer' = writer
        /\ readers'[l] = IF l = Step(t).lock THEN readers[l] \cup {t} ELSE readers[l]
    BY <1>3, <1>6, <1>7 DEF ReadLock, AtOp
  <2>. QED
    BY <1>2, <1>3, <1>4, <1>5, <2>1, LockAssumption
<1>8. CASE ClaimWrite(t)
  <2>1. /\ Step(t).op = "claim" /\ writer[Step(t).lock] = None /\ readers' = readers
        /\ writer'[l] = IF l = Step(t).lock THEN t ELSE writer[l]
    BY <1>3, <1>6, <1>8 DEF ClaimWrite, AtOp
  <2>. QED
    BY <1>2, <1>3, <1>4, <1>5, <2>1, LockAssumption
<1>9. CASE EnterWrite(t)
  <2>1. /\ Step(t).op = "enter" /\ readers[Step(t).lock] = {}
        /\ writer' = writer /\ readers' = readers
    BY <1>9 DEF EnterWrite, AtOp
  <2>. QED
    BY <1>2, <1>3, <1>4, <1>5, <2>1
<1>10. CASE Unlock(t)
  <2>1. /\ Step(t).op = "unlock"
        /\ writer'[l] = IF l = Step(t).lock /\ writer[l] = t THEN None ELSE writer[l]
        /\ readers'[l] = IF l = Step(t).lock THEN readers[l] \ {t} ELSE readers[l]
    BY <1>3, <1>6, <1>10 DEF Unlock, AtOp
  <2>. QED
    BY <1>2, <1>3, <1>4, <1>5, <2>1, LockAssumption
<1>. QED
  BY <1>7, <1>8, <1>9, <1>10 DEF Move

(* A call starts on a path that holds nothing and leaves one whose guards  *)
(* have all been dropped.                                                  *)
LEMMA CallInv ==
    ASSUME CallsOrdered, Inv, NEW t \in Thread, Call(t)
    PROVE  Inv'
<1>1. PICK p \in Calls : prog' = [prog EXCEPT ![t] = p]
  BY DEF Call
<1>2. /\ at' = [at EXCEPT ![t] = 1]
      /\ writer' = writer
      /\ readers' = readers
      /\ at[t] = Len(prog[t]) + 1
  BY DEF Call, Busy, Inv, TypeOK
<1>3. TypeOK'
  BY <1>1, <1>2, LockAssumption DEF Inv, TypeOK
<1>4. OnCalls'
  BY <1>1 DEF Inv, TypeOK, OnCalls
<1>5. /\ Claimed(prog[t], at[t]) = {}
      /\ ReadHeld(prog[t], at[t]) = {}
      /\ Entered(prog[t], at[t]) = {}
  <2>1. prog[t] \in Seq(StepOf) /\ at[t] \in 1 .. Len(prog[t]) + 1
    BY DEF Inv, TypeOK
  <2>2. CASE prog[t] = << >>
    BY <1>2, <2>2, HeldAtStart
  <2>3. CASE prog[t] \in Calls
    <3>1. Ordered(prog[t])
      BY <2>3 DEF CallsOrdered
    <3>2. Held(prog[t], at[t]) = {}
      BY <1>2, <3>1 DEF Ordered
    <3>. QED
      BY <2>1, <3>1, <3>2, EnteredIsClaimed DEF Held
  <2>. QED
    BY <2>2, <2>3 DEF Inv, OnCalls
<1>6. WordsMatch'
  <2>. SUFFICES ASSUME NEW u \in Thread, NEW l \in Lock
                PROVE  /\ writer[l] = u <=> l \in Claimed(prog'[u], at'[u])
                       /\ u \in readers[l] <=> l \in ReadHeld(prog'[u], at'[u])
                       /\ l \in Entered(prog'[u], at'[u]) => readers[l] = {}
    BY <1>2 DEF WordsMatch
  <2>1. CASE u = t
    <3>1. at'[t] = 1
      BY <1>2 DEF Inv, TypeOK
    <3>. QED
      BY <1>5, <2>1, <3>1, HeldAtStart DEF Inv, WordsMatch
  <2>2. CASE u # t
    <3>1. prog'[u] = prog[u] /\ at'[u] = at[u]
      BY <1>1, <1>2, <2>2 DEF Inv, TypeOK
    <3>. QED
      BY <3>1 DEF Inv, WordsMatch
  <2>. QED
    BY <2>1, <2>2
<1>. QED
  BY <1>3, <1>4, <1>6 DEF Inv

(* The invariant is inductive.                                             *)
LEMMA NextInv ==
    ASSUME CallsOrdered, Inv, [Next]_vars
    PROVE  Inv'
<1>1. ASSUME NEW t \in Thread, Call(t) PROVE Inv'
  BY <1>1, CallInv
<1>2. ASSUME NEW t \in Thread, Move(t) PROVE Inv'
  BY <1>2, MoveTypes, MoveWords DEF Inv
<1>3. CASE UNCHANGED vars
  BY <1>3 DEF vars, Inv, TypeOK, OnCalls, WordsMatch
<1>. QED
  BY <1>1, <1>2, <1>3 DEF Next

(* For any threads and any set of calls that respects the lock order, the  *)
(* state of the five locks stays well formed and agrees with the positions *)
(* of the threads in lsm.rs.                                               *)
THEOREM LocksTyped ==
    ASSUME CallsOrdered
    PROVE  Spec => []TypeOK
<1>1. Inv => TypeOK
  BY DEF Inv
<1>2. Inv /\ [Next]_vars => Inv'
  BY NextInv
<1>. QED
  BY InitInv, <1>1, <1>2, PTL DEF Spec

(* In every state a thread inside a write guard of the memtable, the WAL,  *)
(* the dictionary, the levels or the tracker is the only thread inside a   *)
(* guard of that lock.                                                     *)
THEOREM LocksExclude ==
    ASSUME CallsOrdered
    PROVE  Spec => []MutualExclusion
<1>1. Inv => MutualExclusion
  <2>. SUFFICES ASSUME Inv, NEW t \in Thread, NEW u \in Thread, t # u,
                       NEW l \in Entered(prog[t], at[t]),
                       l \in Entered(prog[u], at[u]) \/ l \in ReadHeld(prog[u], at[u])
                PROVE  FALSE
    BY DEF MutualExclusion
  <2>0. l \in Lock
    BY DEF Entered
  <2>1. \A v \in Thread : Entered(prog[v], at[v]) \subseteq Claimed(prog[v], at[v])
    <3>. TAKE v \in Thread
    <3>1. prog[v] \in Seq(StepOf) /\ at[v] \in 1 .. Len(prog[v]) + 1
      BY DEF Inv, TypeOK
    <3>2. CASE prog[v] = << >>
      <4>1. at[v] = 1
        BY <3>1, <3>2
      <4>. QED
        BY <4>1, HeldAtStart
    <3>3. CASE prog[v] \in Calls
      BY <3>1, <3>3, EnteredIsClaimed DEF CallsOrdered
    <3>. QED
      BY <3>2, <3>3 DEF Inv, OnCalls
  <2>2. writer[l] = t /\ readers[l] = {}
    BY <2>0, <2>1 DEF Inv, WordsMatch
  <2>3. CASE l \in Entered(prog[u], at[u])
    BY <2>0, <2>1, <2>2, <2>3 DEF Inv, WordsMatch
  <2>4. CASE l \in ReadHeld(prog[u], at[u])
    BY <2>0, <2>2, <2>4 DEF Inv, WordsMatch
  <2>. QED
    BY <2>3, <2>4
<1>2. Inv /\ [Next]_vars => Inv'
  BY NextInv
<1>. QED
  BY InitInv, <1>1, <1>2, PTL DEF Spec

----------------------------------------------------------------------------

(***************************************************************************)
(* How far along the lock order a waiting thread stands: twice the rank of *)
(* the lock it waits for, and one more once it owns the writer bit.        *)
(***************************************************************************)
Height(t) == 2 * Rank(Step(t).lock) + (IF Step(t).op = "enter" THEN 1 ELSE 0)

(* Ranks are small numbers.                                                *)
LEMMA RankRange == \A l \in Lock : Rank(l) \in 1 .. 5
BY DEF Lock, Rank

(* A waiting thread is inside a call, at an acquisition.                   *)
LEMMA WaiterShape ==
    ASSUME Inv, NEW t \in Thread, WaitsFor(t) # {}
    PROVE  /\ Busy(t)
           /\ prog[t] \in Calls
           /\ prog[t] \in Seq(StepOf)
           /\ at[t] \in 1 .. Len(prog[t])
           /\ Step(t) = prog[t][at[t]]
           /\ Step(t) \in StepOf
           /\ Step(t).lock \in Lock
           /\ Step(t).op \in {"read", "claim", "enter"}
<1>1. AtOp(t, "read") \/ AtOp(t, "claim") \/ AtOp(t, "enter")
  BY DEF WaitsFor
<1>2. Busy(t) /\ Step(t).op \in {"read", "claim", "enter"}
  BY <1>1 DEF AtOp
<1>3. prog[t] \in Seq(StepOf) /\ at[t] \in 1 .. Len(prog[t])
  BY <1>2 DEF Busy, Inv, TypeOK
<1>4. prog[t] \in Calls
  <2>1. prog[t] # << >>
    BY <1>3
  <2>. QED
    BY <2>1 DEF Inv, OnCalls
<1>5. Step(t) = prog[t][at[t]] /\ Step(t) \in StepOf
  BY <1>3 DEF Step
<1>6. Step(t).lock \in Lock
  BY <1>5 DEF StepOf
<1>. QED
  BY <1>2, <1>3, <1>4, <1>5, <1>6

(* Whoever a thread waits for, and is itself waiting, stands higher.       *)
LEMMA BlockerHigher ==
    ASSUME CallsOrdered, Inv, NEW t \in Thread, NEW u \in Thread,
           u \in WaitsFor(t), WaitsFor(u) # {}
    PROVE  Height(t) < Height(u)
<1>. DEFINE l == Step(t).lock
            m == Step(u).lock
            p == prog[u]
            n == at[u]
<1>1. /\ l \in Lock
      /\ Step(t).op \in {"read", "claim", "enter"}
      /\ Busy(t)
  BY WaiterShape
<1>2. /\ m \in Lock
      /\ Step(u).op \in {"read", "claim", "enter"}
      /\ p \in Seq(StepOf)
      /\ n \in 1 .. Len(p)
      /\ Step(u) = p[n]
      /\ Ordered(p)
  BY WaiterShape DEF CallsOrdered
<1>3. Rank(l) \in 1 .. 5 /\ Rank(m) \in 1 .. 5
  BY <1>1, <1>2, RankRange
<1>4. \/ Step(t).op # "enter" /\ l \in Claimed(p, n)
      \/ Step(t).op = "enter" /\ l \in ReadHeld(p, n)
  <2>1. CASE Step(t).op = "enter"
    <3>1. u \in readers[l]
      BY <1>1, <2>1 DEF WaitsFor, AtOp
    <3>. QED
      BY <1>1, <2>1, <3>1 DEF Inv, WordsMatch
  <2>2. CASE Step(t).op # "enter"
    <3>1. u = writer[l]
      BY <1>1, <2>2 DEF WaitsFor, AtOp
    <3>. QED
      BY <1>1, <2>2, <3>1 DEF Inv, WordsMatch
  <2>. QED
    BY <2>1, <2>2
<1>5. CASE Step(u).op # "enter"
  <2>1. l \in Held(p, n)
    BY <1>4 DEF Held
  <2>2. Rank(l) < Rank(m)
    BY <1>2, <1>5, <2>1 DEF Ordered
  <2>. QED
    BY <1>3, <1>5, <2>2 DEF Height
<1>6. CASE Step(u).op = "enter"
  <2>1. n > 1 /\ p[n - 1] = [op |-> "claim", lock |-> m]
    BY <1>2, <1>6 DEF Ordered
  <2>2. n - 1 \in 1 .. Len(p) /\ (n - 1) + 1 = n
    BY <1>2, <2>1
  <2>3. \A k \in Held(p, n - 1) : Rank(k) < Rank(m)
    <3>1. p[n - 1].op \in {"read", "claim"} /\ p[n - 1].lock = m
      BY <2>1
    <3>. QED
      BY <1>2, <2>2, <3>1 DEF Ordered
  <2>4. CASE Step(t).op = "enter"
    <3>1. Since(p, n, "read", l)
      BY <1>4, <2>4 DEF ReadHeld
    <3>2. Since(p, n - 1, "read", l)
      <4>1. \/ p[n - 1] = [op |-> "read", lock |-> l]
            \/ Since(p, n - 1, "read", l)
        <5>1. Since(p, (n - 1) + 1, "read", l)
          BY <2>2, <3>1
        <5>. HIDE DEF l, m, p, n
        <5>. QED
          BY <1>1, <1>2, <2>2, <5>1, SinceStep
      <4>. QED
        BY <2>1, <4>1
    <3>3. l \in Held(p, n - 1)
      BY <1>1, <3>2 DEF Held, ReadHeld
    <3>. QED
      BY <1>3, <1>6, <2>3, <2>4, <3>3 DEF Height
  <2>5. CASE Step(t).op # "enter"
    <3>1. Since(p, n, "claim", l)
      BY <1>4, <2>5 DEF Claimed
    <3>2. l = m \/ Since(p, n - 1, "claim", l)
      <4>1. \/ p[n - 1] = [op |-> "claim", lock |-> l]
            \/ Since(p, n - 1, "claim", l)
        <5>1. Since(p, (n - 1) + 1, "claim", l)
          BY <2>2, <3>1
        <5>. HIDE DEF l, m, p, n
        <5>. QED
          BY <1>1, <1>2, <2>2, <5>1, SinceStep
      <4>. QED
        BY <2>1, <4>1
    <3>3. l = m \/ l \in Held(p, n - 1)
      BY <1>1, <3>2 DEF Held, Claimed
    <3>. QED
      BY <1>3, <1>6, <2>3, <2>5, <3>3 DEF Height
  <2>. QED
    BY <2>4, <2>5
<1>. QED
  BY <1>5, <1>6

(* Deadlock freedom by lock order: whatever the number of threads, calls   *)
(* that acquire dict, mem, wal, comp and repl in this order never form a   *)
(* circle of waiting threads, although a waiting writer of parking_lot     *)
(* also holds up readers.                                                  *)
THEOREM OrderedCallsNeverDeadlock ==
    ASSUME CallsOrdered
    PROVE  Spec => []NoCircularWait
<1>1. Inv => NoCircularWait
  <2>. SUFFICES ASSUME Inv, NEW S \in SUBSET Thread, S # {},
                       \A t \in S : WaitsFor(t) \cap S # {}
                PROVE  FALSE
    BY DEF NoCircularWait
  <2>1. \A t \in S : Height(t) \in 2 .. 11
    <3>. TAKE t \in S
    <3>1. Rank(Step(t).lock) \in 1 .. 5
      BY WaiterShape, RankRange
    <3>. QED
      BY <3>1 DEF Height
  <2>2. \A t \in S : \E u \in S : Height(t) < Height(u)
    BY BlockerHigher
  <2>3. ASSUME NEW k \in Nat, \A t \in S : Height(t) \in 2 .. k + 1
        PROVE  \A t \in S : Height(t) \in 2 .. k
    <3>. TAKE t \in S
    <3>1. PICK u \in S : Height(t) < Height(u)
      BY <2>2
    <3>2. Height(t) \in 2 .. k + 1 /\ Height(u) \in 2 .. k + 1
      BY <2>3
    <3>. QED
      BY <3>1, <3>2
  <2>4. \A t \in S : Height(t) \in 2 .. 10
    BY <2>1, <2>3
  <2>5. \A t \in S : Height(t) \in 2 .. 9
    BY <2>4, <2>3
  <2>6. \A t \in S : Height(t) \in 2 .. 8
    BY <2>5, <2>3
  <2>7. \A t \in S : Height(t) \in 2 .. 7
    BY <2>6, <2>3
  <2>8. \A t \in S : Height(t) \in 2 .. 6
    BY <2>7, <2>3
  <2>9. \A t \in S : Height(t) \in 2 .. 5
    BY <2>8, <2>3
  <2>10. \A t \in S : Height(t) \in 2 .. 4
    BY <2>9, <2>3
  <2>11. \A t \in S : Height(t) \in 2 .. 3
    BY <2>10, <2>3
  <2>12. \A t \in S : Height(t) \in 2 .. 2
    BY <2>11, <2>3
  <2>13. \A t \in S : Height(t) \in 2 .. 1
    BY <2>12, <2>3
  <2>. QED
    BY <2>13
<1>2. Inv /\ [Next]_vars => Inv'
  BY NextInv
<1>. QED
  BY InitInv, <1>1, <1>2, PTL DEF Spec

=============================================================================
