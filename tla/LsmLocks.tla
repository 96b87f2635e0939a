------------------------------ MODULE LsmLocks ------------------------------
(***************************************************************************)
(* The locking of graphite-core/src/lsm.rs.  An LsmTree is shared by the   *)
(* client threads, the server's tasks and the background compactor; its    *)
(* state is split over five parking_lot::RwLocks.  Every operation is the  *)
(* sequence of lock steps it executes, guards being released where Rust    *)
(* drops them: a temporary at the end of its statement, a `let` guard at   *)
(* the end of its scope or at drop().  What the operation does with the    *)
(* data in between is the subject of module LsmTree.                       *)
(*                                                                         *)
(* The Mutexes of the block cache and of the cold-tier manifest are leaves:*)
(* nothing is acquired while one is held, so they are left out.            *)
(***************************************************************************)
EXTENDS Naturals, Sequences, FiniteSets

CONSTANTS
    Thread,     \* the threads that call into the LsmTree
    None,       \* "no thread"
    Calls       \* the lock scripts the threads may run (a set of paths, below)

(***************************************************************************)
(* Locks and lock steps.                                                   *)
(***************************************************************************)

\* symbol_dict, memtable, wal, compaction and replication of struct LsmTree.
Lock == {"dict", "mem", "wal", "comp", "repl"}

(***************************************************************************)
(* write() of a parking_lot RwLock sets the writer bit and then waits for  *)
(* the readers to leave; read() waits while the writer bit is set, so a    *)
(* waiting writer holds up every later reader.                             *)
(***************************************************************************)
StepOf == [op : {"read", "claim", "enter", "unlock"}, lock : Lock]

R(l) == << [op |-> "read", lock |-> l] >>
W(l) == << [op |-> "claim", lock |-> l], [op |-> "enter", lock |-> l] >>
U(l) == << [op |-> "unlock", lock |-> l] >>

\* A guard that is a temporary: dropped at the end of its statement.
TempR(l) == R(l) \o U(l)
TempW(l) == W(l) \o U(l)

ASSUME LockAssumption ==
    /\ None \notin Thread
    /\ Calls \subseteq Seq(StepOf)

(***************************************************************************)
(* The operations.  An operator ending in "Paths" is the set of paths      *)
(* through a call: early returns and errors end a call early, with the     *)
(* guards it holds dropped.                                                *)
(***************************************************************************)

\* flush_memtable: nothing drained; SsTable::write failed; done.
flush_memtable == TempW("mem") \o TempR("dict") \o TempW("comp") \o TempW("wal")
flush_paths ==
    { TempW("mem"), TempW("mem") \o TempR("dict"), flush_memtable }

\* The dict guard is a `let` and lives to the end of insert, over the flush.
insert_body == TempW("wal") \o TempW("mem") \o TempR("mem")
insert == W("dict") \o insert_body \o U("dict")
insert_error == W("dict") \o TempW("wal") \o U("dict")
insert_flush(f) == W("dict") \o insert_body \o f \o U("dict")

\* insert_batch and insert_multi: dict to the end, memtable to drop(memtable).
insert_batch == W("dict") \o W("mem") \o TempW("wal") \o U("mem") \o U("dict")
insert_batch_flush(f) ==
    W("dict") \o W("mem") \o TempW("wal") \o U("mem") \o f \o U("dict")

\* get: unknown symbol; found in the memtable; went on to the tables.
get_paths ==
    { TempR("dict"),
      R("dict") \o TempR("mem") \o U("dict"),
      R("dict") \o TempR("mem") \o R("comp") \o U("comp") \o U("dict") }

\* scan over all symbols, or with no table in the time range.
scan_all == TempR("mem") \o TempR("comp")
\* scan of one symbol over one table: the name is looked up under compaction.
scan_symbol == TempR("dict") \o TempR("mem") \o R("comp") \o TempR("dict") \o U("comp")

\* scan_params looks the symbol up; the guards in the tail expression outlive
\* the `compaction` guard.
scan_params == TempR("dict")
scan_stream ==
    scan_params \o R("comp") \o R("mem") \o R("dict")
        \o U("comp") \o U("dict") \o U("mem")

compact == TempW("comp")
\* One tick of the background thread that finds something to do.
background_compaction == TempR("comp") \o compact
\* needs_compaction, stats and sync_cold_tier hold compaction for reading.
stats == TempR("comp")
\* get_symbol and symbol_dict.
get_symbol == TempR("dict")

read_wal_for_replication == TempR("wal") \o TempR("dict")
replication_status == TempR("wal") \o TempR("repl")
replication_last_applied == TempR("repl")

\* apply_replication_batch up to the memtable; the flush follows if it is due.
apply_body == TempW("dict") \o TempW("wal") \o TempW("mem")
apply_replication_batch == apply_body \o TempW("repl")
apply_flush(f) == apply_body \o f \o TempW("repl")
apply_paths ==
    { TempW("dict") \o TempW("wal"), apply_replication_batch }
        \cup { apply_flush(f) : f \in {TempW("mem"), flush_memtable} }
        \cup { apply_body \o TempW("mem") \o TempR("dict") }

(***************************************************************************)
(* State.                                                                  *)
(***************************************************************************)

VARIABLES
    prog,       \* prog[t]: the path thread t is on
    at,         \* at[t]: the index of its next step, past the end when idle
    writer,     \* writer[l]: the thread that set the writer bit of l, or None
    readers     \* readers[l]: the threads with a read guard on l

vars == << prog, at, writer, readers >>

Busy(t) == at[t] \in 1 .. Len(prog[t])
Step(t) == prog[t][at[t]]
AtOp(t, op) == Busy(t) /\ Step(t).op = op

TypeOK ==
    /\ prog \in [Thread -> Seq(StepOf)]
    /\ at \in [Thread -> Nat]
    /\ \A t \in Thread : at[t] \in 1 .. Len(prog[t]) + 1
    /\ writer \in [Lock -> Thread \cup {None}]
    /\ readers \in [Lock -> SUBSET Thread]

Init ==
    /\ prog = [t \in Thread |-> << >>]
    /\ at = [t \in Thread |-> 1]
    /\ writer = [l \in Lock |-> None]
    /\ readers = [l \in Lock |-> {}]

(***************************************************************************)
(* Steps.                                                                  *)
(***************************************************************************)

Advance(t) ==
    /\ at' = [at EXCEPT ![t] = @ + 1]
    /\ UNCHANGED prog

\* A call that starts before its first step.
CallFromZero(t) ==
    /\ ~Busy(t)
    /\ \E p \in Calls : prog' = [prog EXCEPT ![t] = p]
    /\ at' = [at EXCEPT ![t] = 0]
    /\ UNCHANGED << writer, readers >>

\* An idle thread calls an operation.
Call(t) ==
    /\ ~Busy(t)
    /\ \E p \in Calls : prog' = [prog EXCEPT ![t] = p]
    /\ at' = [at EXCEPT ![t] = 1]
    /\ UNCHANGED << writer, readers >>

\* A read that does not look at the writer bit.
ReadLockIgnoringWriter(t) ==
    /\ AtOp(t, "read")
    /\ readers' = [readers EXCEPT ![Step(t).lock] = @ \cup {t}]
    /\ UNCHANGED writer
    /\ Advance(t)

ReadLock(t) ==
    /\ AtOp(t, "read")
    /\ writer[Step(t).lock] = None
    /\ readers' = [readers EXCEPT ![Step(t).lock] = @ \cup {t}]
    /\ UNCHANGED writer
    /\ Advance(t)

ClaimWrite(t) ==
    /\ AtOp(t, "claim")
    /\ writer[Step(t).lock] = None
    /\ writer' = [writer EXCEPT ![Step(t).lock] = t]
    /\ UNCHANGED readers
    /\ Advance(t)

\* The writer that owns the bit gets in when the readers it found have left.
EnterWrite(t) ==
    /\ AtOp(t, "enter")
    /\ readers[Step(t).lock] = {}
    /\ UNCHANGED << writer, readers >>
    /\ Advance(t)

\* A guard whose drop forgets to clear the writer bit.
UnlockReaderOnly(t) ==
    /\ AtOp(t, "unlock")
    /\ readers' = [readers EXCEPT ![Step(t).lock] = @ \ {t}]
    /\ UNCHANGED writer
    /\ Advance(t)

Unlock(t) ==
    /\ AtOp(t, "unlock")
    /\ writer' = [writer EXCEPT ![Step(t).lock] = IF @ = t THEN None ELSE @]
    /\ readers' = [readers EXCEPT ![Step(t).lock] = @ \ {t}]
    /\ Advance(t)

Move(t) == ReadLock(t) \/ ClaimWrite(t) \/ EnterWrite(t) \/ Unlock(t)

Next == \E t \in Thread : Call(t) \/ Move(t)

(***************************************************************************)
(* parking_lot locks are task-fair (a waiter is handed the lock at least   *)
(* every half millisecond of contention), and a running thread runs on: a  *)
(* step that is possible again and again is taken.  No call is obliged to  *)
(* happen.                                                                 *)
(***************************************************************************)
Spec == Init /\ [][Next]_vars /\ \A t \in Thread : SF_vars(Move(t))

(***************************************************************************)
(* What a path holds before its n-th step.                                 *)
(***************************************************************************)
Since(p, n, op, l) ==
    \E i \in 1 .. n - 1 :
        /\ p[i] = [op |-> op, lock |-> l]
        /\ \A j \in i + 1 .. n - 1 : p[j] # [op |-> "unlock", lock |-> l]

ReadHeld(p, n) == { l \in Lock : Since(p, n, "read", l) }
Claimed(p, n)  == { l \in Lock : Since(p, n, "claim", l) }
Entered(p, n)  == { l \in Lock : Since(p, n, "enter", l) }
Held(p, n)     == ReadHeld(p, n) \cup Claimed(p, n)

(***************************************************************************)
(* Properties.                                                             *)
(***************************************************************************)

(* A thread whose code position is inside a write guard is alone: no other *)
(* thread's code is inside a read or a write guard of the same lock        *)
(* (parking_lot as lsm.rs relies on it for every memtable and WAL update). *)
MutualExclusion ==
    \A t, u \in Thread : t # u =>
        Entered(prog[t], at[t])
            \cap (Entered(prog[u], at[u]) \cup ReadHeld(prog[u], at[u])) = {}

\* The threads that must move before t can take its next step.
WaitsFor(t) ==
    CASE AtOp(t, "read") \/ AtOp(t, "claim") -> {writer[Step(t).lock]} \ {None}
      [] AtOp(t, "enter") -> readers[Step(t).lock]
      [] OTHER -> {}

(* No set of threads can all be waiting for members of the set: the calls  *)
(* of lsm.rs never lock each other (or themselves) out for good.           *)
NoCircularWait ==
    \A S \in SUBSET Thread :
        S # {} => \E t \in S : WaitsFor(t) \cap S = {}

(* Every call into the LsmTree returns, however the other threads' calls   *)
(* interleave with it.                                                     *)
EveryCallReturns == \A t \in Thread : Busy(t) ~> ~Busy(t)

(***************************************************************************)
(* The order in which the calls that cannot deadlock acquire the locks.    *)
(***************************************************************************)
Rank(l) ==
    CASE l = "dict" -> 1 [] l = "mem" -> 2 [] l = "wal" -> 3
      [] l = "comp" -> 4 [] l = "repl" -> 5

\* A path acquires a lock only while all it holds is of lower rank, enters
\* what it has just claimed, and holds nothing at its end.
Ordered(p) ==
    /\ \A n \in 1 .. Len(p) :
        /\ p[n].op \in {"read", "claim"} =>
                \A l \in Held(p, n) : Rank(l) < Rank(p[n].lock)
        /\ p[n].op = "enter" =>
                n > 1 /\ p[n - 1] = [op |-> "claim", lock |-> p[n].lock]
    /\ Held(p, Len(p) + 1) = {}

=============================================================================
