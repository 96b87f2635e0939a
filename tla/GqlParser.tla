----------------------------- MODULE GqlParser -----------------------------
(***************************************************************************)
(* The query language of graphite/src/gql/parser.rs.  text is a query as a *)
(* client writes it, cut into lexemes: words (in any case), numbers and    *)
(* signs.  The clients of the model write the queries of the grammar, the  *)
(* clauses in the order of the grammar or with LIMIT last, and queries     *)
(* with one lexeme changed.                                                *)
(***************************************************************************)
EXTENDS Integers, Sequences, FiniteSets, SequencesExt

CONSTANTS
    Queries,       \* queries that are written down
    Edited,        \* those in which a lexeme may be changed
    Vocabulary,    \* lexemes
    IntegerLimit,  \* whole numbers from here on are not Integer tokens (1e15)
    U64            \* the number of limits (2^64)

None == [none |-> TRUE]
NoLimit == -U64

word(w) == [kind |-> "word", text |-> w]
sign(c) == [kind |-> "sign", text |-> c]
whole(n) == [kind |-> "whole", value |-> n]
decimal(n) == [kind |-> "decimal", value |-> n]  \* n and a half

VARIABLES
    text,    \* the lexemes
    meant,   \* the query they were written for
    edited   \* a lexeme was changed

gqlVars == << text, meant, edited >>

(***************************************************************************)
(* The lexer.                                                              *)
(***************************************************************************)

Keywords == {"EXPLAIN", "SELECT", "FROM", "WHERE", "TIMESTAMP", "BETWEEN", "AND", "PRICE", "LIMIT",
             "AGGREGATE", "OHLCV", "SUM", "COUNT", "VWAP"}
Signs == {"*", ">", "<", ">=", "<=", "=", ":"}

Token(kind, arg) == [kind |-> kind, arg |-> arg]

\* The token of a lexeme by itself; "error" for a character the lexer refuses.
TokenOf(lx) ==
    CASE lx.kind = "word" -> IF lx.text \in Keywords THEN Token(lx.text, "") ELSE Token("Identifier", lx.text)
      [] lx.kind = "sign" -> IF lx.text \in Signs THEN Token(lx.text, "") ELSE Token("error", lx.text)
      [] lx.kind = "whole" /\ lx.value \in -IntegerLimit + 1 .. IntegerLimit - 1 -> Token("Integer", lx.value)
      [] OTHER -> Token("Number", IF lx.kind = "whole" THEN 2 * lx.value ELSE 2 * lx.value + 1)

\* GROUP takes the BY behind it, and nothing else.
tokenize(lexemes) ==
    LET After(i) == i > 1 /\ lexemes[i - 1] = word("GROUP")
        Of(i) == IF lexemes[i] = word("GROUP") /\ ~After(i)
                 THEN << Token(IF i < Len(lexemes) /\ lexemes[i + 1] = word("BY") THEN "GROUP BY" ELSE "error", "") >>
                 ELSE IF After(i) THEN << >> ELSE << TokenOf(lexemes[i]) >>
    IN  FlattenSeq([i \in DOMAIN lexemes |-> Of(i)])

(***************************************************************************)
(* The parser.                                                             *)
(***************************************************************************)

ColumnNames == {"timestamp", "symbol", "open", "high", "low", "close", "volume"}
Comparators == {">", "<", ">=", "<=", "="}
IntervalSuffixes == {"s", "m", "h"}
AggregateFns == {"OHLCV", "SUM", "COUNT", "VWAP"}

\* The tokens from i on are of these kinds, one after the other.
Follows(toks, i, kinds) ==
    \A k \in DOMAIN kinds : i + k - 1 \in DOMAIN toks /\ toks[i + k - 1].kind \in kinds[k]

\* A whole number is not converted (mutant).
parse_number_raw(tok) == tok.arg

\* parse_number: in halves.
parse_number(tok) == IF tok.kind = "Integer" THEN 2 * tok.arg ELSE tok.arg

\* The FROM behind the columns: the first that is not where a column must be.
FromPosition(toks, select) ==
    LET froms == { i \in select + 2 .. Len(toks) : toks[i].kind = "FROM" }
    IN  IF froms = {} THEN Len(toks) + 1 ELSE CHOOSE i \in froms : \A j \in froms : i <= j

Failed == [ok |-> FALSE]

\* A clause that is not complete is left out (mutant).
Clause_lenient(toks, i, kinds) == [there |-> Follows(toks, i, kinds), ok |-> TRUE]

\* An optional clause: its first token decides whether it is there.
Clause(toks, i, kinds) ==
    [there |-> Follows(toks, i, << kinds[1] >>),
     ok |-> Follows(toks, i, << kinds[1] >>) => Follows(toks, i, kinds)]

\* Lexer and parser.  The parser stops at the end of the last clause it finds and
\* does not look at the tokens behind it.
parse(lexemes) ==
    LET toks == tokenize(lexemes)
        explain == Follows(toks, 1, << {"EXPLAIN"} >>)
        select == IF explain THEN 2 ELSE 1
        from == FromPosition(toks, select)
        star == Follows(toks, select + 1, << {"*"} >>)
        columns == [k \in 1 .. from - select - 1 |-> toks[select + k]]
        head == /\ Follows(toks, select, << {"SELECT"} >>)
                /\ IF star
                   THEN from = select + 2
                   ELSE \A k \in DOMAIN columns : columns[k].kind = "Identifier" /\ columns[k].arg \in ColumnNames
                /\ Follows(toks, from, << {"FROM"}, {"Identifier"}, {"WHERE"}, {"TIMESTAMP"}, {"BETWEEN"},
                                          {"Integer"}, {"AND"}, {"Integer"} >>)
        p == from + 8
        price == Clause(toks, p, << {"AND"}, {"PRICE"}, Comparators, {"Integer", "Number"} >>)
        l == IF price.there THEN p + 4 ELSE p
        limit == Clause(toks, l, << {"LIMIT"}, {"Integer"} >>)
        g == IF limit.there THEN l + 2 ELSE l
        group == Clause(toks, g, << {"GROUP BY"}, {":"}, {"Integer"}, {"Identifier"}, {"AGGREGATE"}, AggregateFns >>)
        interval == group.there => toks[g + 2].arg = 1 /\ toks[g + 3].arg \in IntervalSuffixes
    IN  IF /\ \A i \in DOMAIN toks : toks[i].kind # "error"
           /\ head /\ price.ok /\ limit.ok /\ group.ok /\ interval
        THEN [ok |-> TRUE,
              query |->
                [explain |-> explain,
                 columns |-> IF star THEN << "*" >> ELSE [k \in DOMAIN columns |-> columns[k].arg],
                 symbol |-> << word(toks[from + 1].arg) >>,
                 t1 |-> toks[from + 5].arg, t2 |-> toks[from + 7].arg,
                 price |-> IF price.there
                           THEN [op |-> toks[p + 2].kind, threshold |-> parse_number(toks[p + 3])]
                           ELSE None,
                 limit |-> IF limit.there THEN toks[l + 1].arg % U64 ELSE NoLimit,
                 group |-> IF group.there
                           THEN [interval |-> toks[g + 3].arg, fn |-> toks[g + 5].kind]
                           ELSE None]]
        ELSE Failed

(***************************************************************************)
(* The clients.                                                            *)
(***************************************************************************)

Words(ws) == [i \in DOMAIN ws |-> word(ws[i])]
Half(h) == IF h % 2 = 0 THEN whole(h \div 2) ELSE decimal(h \div 2)

\* Columns separated by blanks or, as in README.md:135, by commas.
ColumnList(columns, commas) ==
    LET Lexeme(c) == CASE c = "*" -> sign("*") [] c = "timestamp" -> word("TIMESTAMP") [] OTHER -> word(c)
    IN  FlattenSeq([i \in DOMAIN columns |->
            IF commas /\ i > 1 THEN << sign(","), Lexeme(columns[i]) >> ELSE << Lexeme(columns[i]) >>])

\* What DB::query_range asks for.
RangeQuery(symbol, t1, t2) ==
    [explain |-> FALSE, columns |-> << "*" >>, symbol |-> symbol, t1 |-> t1, t2 |-> t2,
     price |-> None, limit |-> NoLimit, group |-> None]

\* A query as text, with LIMIT in front of GROUP BY or, as in README.md:269-272,
\* behind it.
Written(q, commas, limitLast) ==
    LET explain == IF q.explain THEN << word("EXPLAIN") >> ELSE << >>
        price == IF q.price = None
                 THEN << >>
                 ELSE << word("AND"), word("PRICE"), sign(q.price.op), Half(q.price.threshold) >>
        limit == IF q.limit = NoLimit THEN << >> ELSE << word("LIMIT"), whole(q.limit) >>
        group == IF q.group = None
                 THEN << >>
                 ELSE << word("GROUP"), word("BY"), sign(":"), whole(1), word(q.group.interval),
                         word("AGGREGATE"), word(q.group.fn) >>
    IN  explain \o << word("SELECT") >> \o ColumnList(q.columns, commas) \o << word("FROM") >> \o q.symbol
            \o Words(<< "WHERE", "TIMESTAMP", "BETWEEN" >>) \o << whole(q.t1), word("AND"), whole(q.t2) >>
            \o price \o (IF limitLast THEN group \o limit ELSE limit \o group)

GqlInit ==
    \E q \in Queries, commas, limitLast \in BOOLEAN :
        /\ text = Written(q, commas, limitLast)
        /\ meant = [query |-> q, commas |-> commas, limitLast |-> limitLast]
        /\ edited = FALSE

\* A lexeme is replaced, left out or put in.
Edit(i, lx) ==
    /\ ~edited /\ meant.query \in Edited
    /\ text' \in { ReplaceAt(text, i, lx), RemoveAt(text, i), InsertAt(text, i, lx) }
    /\ edited' = TRUE
    /\ UNCHANGED meant

GqlNext == \E i \in DOMAIN text, lx \in Vocabulary : Edit(i, lx)

(***************************************************************************)
(* Properties.                                                             *)
(***************************************************************************)

\* Whole numbers of 1e15 and more are not Integer tokens, among them every time
\* in nanoseconds since 1970-01-12.
Wide(n) == n \notin -IntegerLimit + 1 .. IntegerLimit - 1

\* A LIMIT behind GROUP BY.
LimitBehind(m) == m.limitLast /\ m.query.group # None /\ m.query.limit # NoLimit

\* Names that the lexer takes for something else: the column timestamp and a
\* symbol that is a keyword, or that holds a sign.
OddNames(m) ==
    \/ "timestamp" \in Range(m.query.columns)
    \/ Len(m.query.symbol) # 1 \/ m.query.symbol[1].text \in Keywords

\* What the parser does not read as it was meant.
Unreadable(m) ==
    \/ OddNames(m)
    \/ m.commas /\ Len(m.query.columns) > 1
    \/ Wide(m.query.t1) \/ Wide(m.query.t2)
    \/ m.query.limit # NoLimit /\ Wide(m.query.limit)
    \/ LimitBehind(m)

\* A query of the grammar is parsed to what was meant, whichever clauses it has,
\* unless it is Unreadable; and what parses at all is what was meant, but for a
\* LIMIT behind GROUP BY.  (AsDocumented has what README.md says of some of these.)
ParsesGrammar ==
    LET result == parse(text)
    IN  ~edited =>
            /\ ~Unreadable(meant) => result = [ok |-> TRUE, query |-> meant.query]
            /\ result.ok /\ ~LimitBehind(meant) => result.query = meant.query

\* No text is taken for another query than the one it begins with: written down
\* again, the parsed query gives the first tokens of the text.  (A limit is
\* written as the signed number that the cast to u64 makes of it.)
ParseSound ==
    LET result == parse(text)
        Signed(n) == IF n >= IntegerLimit THEN n - U64 ELSE n
    IN  result.ok =>
            IsPrefix(tokenize(Written([result.query EXCEPT !.limit = Signed(@)], FALSE, FALSE)), tokenize(text))
=============================================================================
