--------------------------- MODULE MCAsDocumented ---------------------------
EXTENDS AsDocumented

\* Tables of one and of two symbols, with one and with three entries in the index.
SmallTables ==
    { [i \in 1 .. n |-> [symbol_id |-> IF two /\ 2 * i > n THEN 1 ELSE 0, timestamp |-> 1000 * i]] :
        n \in {1, 2, 40}, two \in BOOLEAN }

\* One or two columns, with and without LIMIT and GROUP BY.
FewQueries ==
    [explain : {FALSE}, columns : { << "close" >>, << "close", "volume" >> }, symbol : { << word("aapl") >> },
     t1 : {0}, t2 : {5}, price : {None}, limit : {NoLimit, 2},
     group : { None, [interval |-> "m", fn |-> "OHLCV"] }]

SomeLexemes == { word("LIMIT"), sign(",") }
=============================================================================
