------------------------------ MODULE MCLsmTree ------------------------------
(***************************************************************************)
(* Instances of LsmTree for TLC: two threads, two symbols, two           *)
(* timestamps.                                                             *)
(***************************************************************************)
EXTENDS LsmTree

CONSTANTS t1, t2, A, B

TwoThreads == {t1, t2}
TwoSymbols == {A, B}
TwoTimestamps == {1, 2}
TwoTicks == {<< A, 2 >>, << B, 1 >>}
\* Writes with errors, beside the flushes and the compactions of the other
\* thread; reads beside the writes, flushes and compactions of the other one;
\* two threads that flush, with a batch that fails to be logged.
WritersAndReaders ==
    { [ops |-> t1 :> {"insert", "insert_batch", "apply"} @@ t2 :> {"apply", "flush", "compact"},
       maxIoErrors |-> 1],
      [ops |-> t1 :> {"insert", "insert_batch", "get"} @@ t2 :> {"apply", "flush", "scan", "compact"},
       maxIoErrors |-> 0],
      [ops |-> t1 :> {"flush"} @@ t2 :> {"insert_batch", "flush"}, maxIoErrors |-> 1] }
InsertAndFlush == { [ops |-> t1 :> {"insert"} @@ t2 :> {"flush"}, maxIoErrors |-> 0] }
InsertAndGet == { [ops |-> t1 :> {"insert"} @@ t2 :> {"get"}, maxIoErrors |-> 0] }
PrimaryOnly == {"Primary"}
PanicOnly == {"panic"}
BothRoles == {"Primary", "Replica"}
BothOpens == {"rows", "panic"}

=============================================================================
