---------------------------- MODULE MCScanStream ----------------------------
EXTENDS ScanStream

\* Two batches of the first kind overlap; one of each follow each other in the
\* range [1, 2], and the first has no tick in the range [2, 2] that it covers.
TwoBatches == { {1, 3}, {2} }
TwoScans == { [t1 |-> 1, t2 |-> 2, symbol |-> TRUE], [t1 |-> 2, t2 |-> 2, symbol |-> FALSE] }

\* Everything is archived, or only what a compaction has written.
TwoSetups == { [min_level |-> 0, opens |-> "rows"], [min_level |-> 1, opens |-> "panic"] }
=============================================================================
