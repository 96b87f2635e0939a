----------------------------- MODULE MCLsmLocks -----------------------------
(***************************************************************************)
(* Instances of LsmLocks: the calls that respect the lock order, and the   *)
(* combinations of calls that do not.                                      *)
(***************************************************************************)
EXTENDS LsmLocks

CONSTANTS t1, t2, t3

TwoThreads == {t1, t2}
ThreeThreads == {t1, t2, t3}

\* Every path of lsm.rs whose acquisitions follow Rank.
OrderedCalls ==
    flush_paths \cup get_paths \cup apply_paths
        \cup { insert, insert_error, insert_batch, scan_all, background_compaction,
               compact, stats, get_symbol, read_wal_for_replication,
               replication_status, replication_last_applied }

ASSUME OrderedCallsAreOrdered == \A p \in OrderedCalls : Ordered(p)

\* The calls that hold several locks, and those that take them in turn.  (The
\* other ordered paths are shorter or, as apply_replication_batch, made of
\* single-lock steps that flush_memtable has as well.)
MixedCalls ==
    { insert, insert_batch, R("dict") \o TempR("mem") \o R("comp") \o U("comp") \o U("dict"),
      flush_memtable, background_compaction, read_wal_for_replication }

ASSUME MixedCallsAreOrdered == MixedCalls \subseteq OrderedCalls

\* An insert, a batch insert: the call that reaches the flush threshold.
ThresholdCalls == { insert_flush(flush_memtable), insert_batch_flush(flush_memtable) }

\* A streaming scan beside a batch insert.
StreamCalls == { scan_stream, insert_batch }

=============================================================================
