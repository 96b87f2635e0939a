----------------------------- MODULE Dictionary -----------------------------
(***************************************************************************)
(* The SymbolDictionary of graphite-core/src/compression/dictionary.rs:    *)
(* ids of IdSpace values (65536 in the code) given out in the order of     *)
(* insertion.  A dictionary is written into every SSTable and read back    *)
(* when the table is opened.                                               *)
(***************************************************************************)
EXTENDS Integers, Sequences, FiniteSets, SequencesExt

CONSTANTS
    Names,   \* symbols
    IdSpace  \* the number of ids

ASSUME DictionaryAssumption == IdSpace \in Nat \ {0}

NoId == -1

VARIABLES
    symbol_to_id,  \* symbol_to_id[s]: its id or NoId
    id_to_symbol   \* the symbols in the order of their first use

dictVars == << symbol_to_id, id_to_symbol >>

EmptyIds == [s \in Names |-> NoId]

DictionaryInit == symbol_to_id = EmptyIds /\ id_to_symbol = << >>

\* The cast of the number of symbols to u16.
IdAt(n) == n % IdSpace

\* A symbol that is there already gets another id (mutant).
get_or_insert_again(s) ==
    /\ symbol_to_id' = [symbol_to_id EXCEPT ![s] = IdAt(Len(id_to_symbol))]
    /\ id_to_symbol' = Append(id_to_symbol, s)

get_or_insert(s) ==
    IF symbol_to_id[s] # NoId
    THEN UNCHANGED dictVars
    ELSE /\ symbol_to_id' = [symbol_to_id EXCEPT ![s] = IdAt(Len(id_to_symbol))]
         /\ id_to_symbol' = Append(id_to_symbol, s)

DictionaryNext == \E s \in Names : get_or_insert(s)

DictionarySpec == DictionaryInit /\ [][DictionaryNext]_dictVars

get_id(s) == symbol_to_id[s]
get_symbol(id) == IF id \in 0 .. Len(id_to_symbol) - 1 THEN id_to_symbol[id + 1] ELSE "UNKNOWN"

\* to_metadata writes the symbols, from_metadata inserts them one by one into a
\* new dictionary and stops at the first that is cut short.
from_metadata(symbols) == [s \in Names |->
    IF s \in Range(symbols) THEN IdAt((CHOOSE i \in DOMAIN symbols : symbols[i] = s) - 1) ELSE NoId]

\* The symbols that share their id with an earlier one: those from the
\* (IdSpace + 1)-th on.
Wrapped == { id_to_symbol[i] : i \in IdSpace + 1 .. Len(id_to_symbol) }

\* A symbol is found again under its id, and no other symbol has that id, as long
\* as no more than IdSpace symbols were inserted; a symbol inserted later has the
\* id of an earlier one and reads that one's ticks, while the earlier one keeps
\* its id and its name.  The dictionary of a table, whole or cut short, gives
\* every symbol the id it had when the table was written.
IdsResolve ==
    /\ \A s \in Range(id_to_symbol) \ Wrapped : get_symbol(get_id(s)) = s
    /\ \A s \in Wrapped : get_symbol(get_id(s)) # s /\ get_id(s) \in 0 .. IdSpace - 1
    /\ \A s, t \in Range(id_to_symbol) \ Wrapped : get_id(s) = get_id(t) => s = t
    /\ \A n \in 0 .. Len(id_to_symbol), s \in Names :
        from_metadata(SubSeq(id_to_symbol, 1, n))[s]
            = (IF s \in Range(SubSeq(id_to_symbol, 1, n)) THEN get_id(s) ELSE NoId)
=============================================================================
