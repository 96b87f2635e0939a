---------------------------- MODULE GqlExecutor ----------------------------
(***************************************************************************)
(* The executor of graphite/src/gql/executor.rs, which answers what parse  *)
(* returns.  scanned is the result of LsmTree::scan for the symbol and the *)
(* time range of the query: ticks in the order of their timestamps, one    *)
(* for each.  Prices are in halves, and the result of VWAP is a fraction.  *)
(***************************************************************************)
EXTENDS GqlParser

CONSTANTS
    Stamps,     \* timestamps of ticks
    Quotes,     \* prices and volume of a tick: records
    Lanes,      \* prices that one AVX2 comparison takes (4 in the code)
    Nanos,      \* Nanos[s]: the length of the interval 1s, 1m or 1h
    MaxTicks    \* bound: ticks of a scan

VARIABLE scanned

ExecutorInit == scanned = << >>

\* One more tick of the answer of LsmTree::scan.
ScanRow(ts, quote) ==
    /\ Len(scanned) < MaxTicks
    /\ \A i \in DOMAIN scanned : scanned[i].timestamp < ts
    /\ scanned' = Append(scanned, [timestamp |-> ts] @@ quote)

ExecutorNext == \E ts \in Stamps, quote \in Quotes : ScanRow(ts, quote)

(***************************************************************************)
(* The price predicate.                                                    *)
(***************************************************************************)

Passes(t, pred) ==
    CASE pred.op = ">" -> t.close > pred.threshold
      [] pred.op = "<" -> t.close < pred.threshold
      [] pred.op = ">=" -> t.close >= pred.threshold
      [] pred.op = "<=" -> t.close <= pred.threshold
      [] pred.op = "=" -> t.close = pred.threshold

\* What is left over after the last full comparison is dropped (mutant).
simd_filter_no_tail(ticks, pred) ==
    LET Lane(i) == SelectSeq(SubSeq(ticks, i * Lanes + 1, (i + 1) * Lanes), LAMBDA t : Passes(t, pred))
    IN  FlattenSeq([i \in 1 .. Len(ticks) \div Lanes |-> Lane(i - 1)])

\* simd_filter_avx2: Lanes ticks at a time by a mask, then the rest one by one.
simd_filter(ticks, pred) ==
    LET full == Len(ticks) \div Lanes
        Mask(i) == { j \in 1 .. Lanes : Passes(ticks[i * Lanes + j], pred) }
        Pick(i) == [k \in 1 .. Cardinality(Mask(i)) |->
                       ticks[i * Lanes + SetToSortSeq(Mask(i), LAMBDA x, y : x < y)[k]]]
    IN  FlattenSeq([i \in 1 .. full |-> Pick(i - 1)])
            \o SelectSeq(SubSeq(ticks, full * Lanes + 1, Len(ticks)), LAMBDA t : Passes(t, pred))

apply_price_filter(ticks, pred) ==
    CASE pred = None -> ticks
      [] pred # None /\ pred.op \in {">", "<"} -> simd_filter(ticks, pred)
      [] OTHER -> SelectSeq(ticks, LAMBDA t : Passes(t, pred))

(***************************************************************************)
(* GROUP BY.                                                               *)
(***************************************************************************)

\* Integer division of the code: towards zero.
Truncated(x, y) == IF x >= 0 THEN x \div y ELSE -((-x) \div y)
Bucket(ts, interval) == Truncated(ts, interval) * interval

Higher(x, y) == IF x >= y THEN x ELSE y
Lower(x, y) == IF x <= y THEN x ELSE y

\* The close of a bar stays that of its first tick (mutant).
Bars_first_close(ticks, interval) ==
    LET Add(bars, t) ==
            LET b == Bucket(t.timestamp, interval)
                n == Len(bars)
            IN  IF n > 0 /\ bars[n].timestamp = b
                THEN [bars EXCEPT ![n] =
                        [@ EXCEPT !.high = Higher(@, t.high), !.low = Lower(@, t.low),
                                  !.volume = @ + t.volume]]
                ELSE Append(bars, [t EXCEPT !.timestamp = b])
    IN  FoldLeft(Add, << >>, ticks)

\* A tick opens a bar or is added to the last one.
Bars(ticks, interval) ==
    LET Add(bars, t) ==
            LET b == Bucket(t.timestamp, interval)
                n == Len(bars)
            IN  IF n > 0 /\ bars[n].timestamp = b
                THEN [bars EXCEPT ![n] =
                        [@ EXCEPT !.high = Higher(@, t.high), !.low = Lower(@, t.low),
                                  !.close = t.close, !.volume = @ + t.volume]]
                ELSE Append(bars, [t EXCEPT !.timestamp = b])
    IN  FoldLeft(Add, << >>, ticks)

Total(s) == FoldLeft(LAMBDA x, y : x + y, 0, s)

Row(ts, o, h, l, c, v) ==
    [timestamp |-> ts, open |-> o, high |-> h, low |-> l, close |-> c, volume |-> v]

\* The sum of price times volume, over the sum of the volumes.
Vwap(ticks) ==
    [pv |-> Total([i \in DOMAIN ticks |-> ticks[i].close * ticks[i].volume]),
     vol |-> Total([i \in DOMAIN ticks |-> ticks[i].volume])]

aggregate(ticks, group) ==
    LET bars == Bars(ticks, Nanos[group.interval])
        w == Vwap(ticks)
    IN  CASE group.fn = "OHLCV" -> bars
          [] group.fn = "SUM" ->
                [i \in DOMAIN bars |-> Row(bars[i].timestamp, 0, 0, 0, bars[i].volume, bars[i].volume)]
          [] group.fn = "COUNT" -> [i \in DOMAIN bars |-> Row(bars[i].timestamp, 0, 0, 0, 1, 1)]
          [] group.fn = "VWAP" ->
                << Row(IF ticks = << >> THEN 0 ELSE ticks[1].timestamp, w, w, w, w, w.vol) >>

\* The limit is taken before the bars are made (mutant).
execute_limit_first(q) ==
    LET filtered == apply_price_filter(scanned, q.price)
        taken == IF q.limit = NoLimit THEN filtered ELSE SubSeq(filtered, 1, Lower(q.limit, Len(filtered)))
    IN  IF q.explain THEN << >> ELSE IF q.group = None THEN taken ELSE aggregate(taken, q.group)

\* The rows of the answer; EXPLAIN has a plan instead.
execute(q) ==
    LET filtered == apply_price_filter(scanned, q.price)
        rows == IF q.group = None THEN filtered ELSE aggregate(filtered, q.group)
    IN  IF q.explain
        THEN << >>
        ELSE IF q.limit = NoLimit THEN rows ELSE SubSeq(rows, 1, Lower(q.limit, Len(rows)))

\* The operators of the plan from the scan up.
build_explain_plan(q) ==
    << "SSTableScan" >>
        \o (IF q.price = None THEN << >> ELSE << "SimdPriceFilter" >>)
        \o (IF q.group = None THEN << >> ELSE << "StreamAggregate" >>)
        \o (IF q.limit = NoLimit THEN << >> ELSE << "Limit" >>)

(***************************************************************************)
(* Properties.                                                             *)
(***************************************************************************)

Predicates == {None} \cup [op : Comparators, threshold : { scanned[i].close : i \in DOMAIN scanned }]

\* The vectorised filter, whatever the number of ticks is, keeps the ticks that
\* pass one by one, in their order.
FilterExact ==
    \A pred \in Predicates \ {None} :
        apply_price_filter(scanned, pred) = SelectSeq(scanned, LAMBDA t : Passes(t, pred))

\* The time that the bar at b covers: division towards zero gives the bar at 0
\* both of its sides.
Window(b, interval) ==
    CASE b > 0 -> b .. b + interval - 1
      [] b = 0 -> -interval + 1 .. interval - 1
      [] b < 0 -> b - interval + 1 .. b

\* Every tick is in one bar, the bars are in the order of time, and a bar has the
\* first open, the last close, the extremes and the whole volume of the ticks in
\* its window.
BarsAreWindows ==
    \A s \in IntervalSuffixes :
        LET bars == Bars(scanned, Nanos[s])
            In(k) == SelectSeq(scanned, LAMBDA t : t.timestamp \in Window(bars[k].timestamp, Nanos[s]))
        IN  /\ \A k \in DOMAIN bars :
                /\ k > 1 => bars[k - 1].timestamp < bars[k].timestamp
                /\ In(k) # << >>
                /\ bars[k].open = In(k)[1].open /\ bars[k].close = In(k)[Len(In(k))].close
                /\ \A i \in DOMAIN In(k) : bars[k].low <= In(k)[i].low /\ In(k)[i].high <= bars[k].high
                /\ \E i, j \in DOMAIN In(k) : bars[k].low = In(k)[i].low /\ bars[k].high = In(k)[j].high
                /\ bars[k].volume = Total([i \in DOMAIN In(k) |-> In(k)[i].volume])
            /\ \A i \in DOMAIN scanned :
                Cardinality({ k \in DOMAIN bars : scanned[i].timestamp \in Window(bars[k].timestamp, Nanos[s]) }) = 1

\* What an operator of the plan makes of rows.
Applied(operator, q, rows) ==
    CASE operator = "SSTableScan" -> scanned
      [] operator = "SimdPriceFilter" -> SelectSeq(rows, LAMBDA t : Passes(t, q.price))
      [] operator = "StreamAggregate" -> aggregate(rows, q.group)
      [] operator = "Limit" -> SubSeq(rows, 1, Lower(q.limit, Len(rows)))

\* EXPLAIN tells what the query does: its operators, applied from the scan up,
\* give the rows of the query.  Of the same ticks the aggregates tell the same:
\* SUM has the times and the volumes of OHLCV, COUNT its times, and VWAP, one row
\* whatever the interval is, has their whole volume.
AnswersAgree ==
    \A pred \in Predicates, n \in {NoLimit, 0, 1},
       group \in {None} \cup [interval : {"s", "m"}, fn : AggregateFns] :
        LET q == [explain |-> FALSE, price |-> pred, limit |-> n, group |-> group]
            rows == execute(q)
            Other(fn) == execute([q EXCEPT !.group.fn = fn])
            plan == build_explain_plan([q EXCEPT !.explain = TRUE])
            Step(r, operator) == Applied(operator, q, r)
        IN  /\ rows = FoldLeft(Step, << >>, plan)
            /\ n = NoLimit /\ group # None =>
                /\ Other("SUM") = [i \in DOMAIN Other("OHLCV") |->
                        LET bar == Other("OHLCV")[i] IN Row(bar.timestamp, 0, 0, 0, bar.volume, bar.volume)]
                /\ [i \in DOMAIN Other("COUNT") |-> Other("COUNT")[i].timestamp]
                        = [i \in DOMAIN Other("OHLCV") |-> Other("OHLCV")[i].timestamp]
                /\ Len(Other("VWAP")) = 1
                /\ Other("VWAP")[1].volume = Total([i \in DOMAIN Other("SUM") |-> Other("SUM")[i].volume])
=============================================================================
