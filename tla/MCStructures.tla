---------------------------- MODULE MCStructures ----------------------------
(***************************************************************************)
(* The parts of graphite that share no state with each other, checked side *)
(* by side: a behaviour exercises one of them, the subject, and leaves the *)
(* others as they begin.                                                   *)
(***************************************************************************)
EXTENDS SkipList, BlockCache, Columns, Dictionary, GqlExecutor

VARIABLE subject

vars == << subject, slVars, bcVars, column, dictVars, gqlVars, scanned >>

(***************************************************************************)
(* Constants of the instance.                                              *)
(***************************************************************************)

Plain(columns, price, limit, group) ==
    [explain |-> FALSE, columns |-> columns, symbol |-> << word("aapl") >>, t1 |-> 0, t2 |-> 5,
     price |-> price, limit |-> limit, group |-> group]

Shortest == Plain(<< "*" >>, None, NoLimit, None)
Longest == Plain(<< "close", "volume" >>, [op |-> ">", threshold |-> 3], 2, [interval |-> "m", fn |-> "OHLCV"])

\* Every way to leave out or put in a clause, keywords as names, wide numbers.
SomeQueries ==
    [explain : BOOLEAN,
     columns : { << "*" >>, << "close" >>, << "close", "volume" >>, << "timestamp" >> },
     symbol : { << word("aapl") >>, << word("SUM") >>, << word("brk"), sign("."), word("b") >> },
     t1 : {-3, 200}, t2 : {5, 200},
     price : { None, [op |-> ">", threshold |-> 3], [op |-> "<=", threshold |-> 400] },
     limit : {NoLimit, 0, 200},
     group : { None, [interval |-> "s", fn |-> "COUNT"], [interval |-> "h", fn |-> "VWAP"] }]
        \cup {Shortest, Longest}

EditedQueries == {Shortest, Longest}

SomeLexemes ==
    { word(w) : w \in Keywords \cup {"GROUP", "BY", "aapl", "close", "s", "x"} }
        \cup { sign(c) : c \in Signs \cup {","} }
        \cup { whole(-1), whole(1), whole(200), decimal(1) }

ShortNanos == [s |-> 2, m |-> 3, h |-> 100]

TwoQuotes ==
    { [open |-> 2, high |-> 4, low |-> 1, close |-> 3, volume |-> 1],
      [open |-> 3, high |-> 6, low |-> 2, close |-> 2, volume |-> 2] }

StampsAroundZero == {-3, -1, 0, 2, 3, 5}

(***************************************************************************)
(* One subject per behaviour.                                              *)
(***************************************************************************)

Init ==
    /\ subject \in {"memtable", "cache", "columns", "dictionary", "query", "answer"}
    /\ SkipListInit /\ CacheInit /\ ColumnsInit /\ DictionaryInit /\ ExecutorInit
    /\ GqlInit
    /\ subject # "query" => meant = [query |-> Shortest, commas |-> FALSE, limitLast |-> FALSE]

Memtable ==
    /\ subject = "memtable" /\ SkipListNext
    /\ UNCHANGED << subject, bcVars, column, dictVars, gqlVars, scanned >>

Cache ==
    /\ subject = "cache" /\ CacheNext
    /\ UNCHANGED << subject, slVars, column, dictVars, gqlVars, scanned >>

Columnar ==
    /\ subject = "columns" /\ ColumnsNext
    /\ UNCHANGED << subject, slVars, bcVars, dictVars, gqlVars, scanned >>

Naming ==
    /\ subject = "dictionary" /\ DictionaryNext
    /\ UNCHANGED << subject, slVars, bcVars, column, gqlVars, scanned >>

Asking ==
    /\ subject = "query" /\ GqlNext
    /\ UNCHANGED << subject, slVars, bcVars, column, dictVars, scanned >>

Answering ==
    /\ subject = "answer" /\ ExecutorNext
    /\ UNCHANGED << subject, slVars, bcVars, column, dictVars, gqlVars >>

Next == Memtable \/ Cache \/ Columnar \/ Naming \/ Asking \/ Answering

Spec == Init /\ [][Next]_vars
=============================================================================
