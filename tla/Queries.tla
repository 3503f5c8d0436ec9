------------------------------- MODULE Queries -------------------------------
(***************************************************************************)
(* How the wrapper of asyncpg turns the named parameters of a statement    *)
(* into numbered ones, by substitutions over its text, and how a search    *)
(* term becomes a pattern of ILIKE.  Both grow character by character and  *)
(* are compared with what the server reads.                                *)
(***************************************************************************)
EXTENDS Integers, Sequences, FiniteSets, SequencesExt

CONSTANTS
    Letters,        \* \w
    Givens,         \* the names that values come with; a value is told by its name
    MaxText,        \* bound of a run: of the statement
    MaxTerm         \* bound of a run: of the term and of what is searched

ASSUME QueriesAssumption == {"'", ":", "$", "\\", "%", "_"} \cap Letters = {} /\ {MaxText, MaxTerm} \subseteq Nat

VARIABLES
    statement,      \* the text written so far
    term            \* of a search

queries == <<statement, term>>

Characters == Letters \cup {"'", ":"}
Wild == {"\\", "%", "_"}

QueriesTypeOK == statement \in Seq(Characters) /\ term \in Seq(Wild \cup Letters)

Char(c) == [is |-> c, of |-> <<>>]
Value(name) == [is |-> "$", of |-> name]

-----------------------------------------------------------------------------
\* _named_to_positional.

\* sql.replace("::", ...) takes pairs from the left.
Casts(t) ==
    LET opens[p \in 0..Len(t)] == p \in 1..(Len(t) - 1) /\ t[p] = ":" /\ t[p + 1] = ":" /\ ~opens[p - 1]
    IN  {p \in DOMAIN t : opens[p] \/ opens[p - 1]}

\* Within '...', where '' is two literals that touch; a last quote without another
\* opens none.
Quotes(t, here) == Cardinality({p \in here \cap DOMAIN t : t[p] = "'"})
Literal(t, p) == Quotes(t, 1..(p - 1)) % 2 = 1 /\ Quotes(t, p..Len(t)) > 0

\* A fault: literals are not kept from the substitution.
Exposed(t, p) == FALSE
Protected(t, p) == Literal(t, p)

WordEnd(t, p) == Max({r \in p..Len(t) : \A q \in p..r : t[q] \in Letters})

\* Where :(\w+) matches, and the name it finds.
Markers(t) ==
    {p \in 1..(Len(t) - 1) : t[p] = ":" /\ p \notin Casts(t) /\ ~Protected(t, p) /\ t[p + 1] \in Letters}
NameAt(t, p) == SubSeq(t, p + 1, WordEnd(t, p + 1))
\* replacer: a name has the number of its first marker.
param_order(t) ==
    LET marks == Markers(t)
        names[p \in 0..Len(t)] ==
            IF p = 0 THEN <<>>
            ELSE IF p \in marks /\ NameAt(t, p) \notin ToSet(names[p - 1]) THEN Append(names[p - 1], NameAt(t, p))
            ELSE names[p - 1]
    IN  names[Len(t)]

Index(names, name) == CHOOSE k \in DOMAIN names : names[k] = name

\* The text that is sent: its characters, and $k.
converted(t) ==
    LET marks == Markers(t)
        names == param_order(t)
        within == UNION {(p + 1)..WordEnd(t, p + 1) : p \in marks}
        sent[p \in 0..Len(t)] ==
            IF p = 0 THEN <<>>
            ELSE IF p \in within THEN sent[p - 1]
            ELSE Append(sent[p - 1],
                    IF p \in marks THEN [is |-> "$", dollar |-> Index(names, NameAt(t, p))]
                    ELSE [is |-> t[p], dollar |-> 0])
    IN  sent[Len(t)]

\* DB.fetch, fetchrow, fetchval and execute: without values the text goes as it is,
\* and a name without its value is a KeyError.
Raised == <<[is |-> "KeyError", of |-> <<>>]>>
DB_execute(t, names) ==
    LET args == param_order(t)
        sent == converted(t)
    IN  IF names = {} THEN [i \in DOMAIN t |-> Char(t[i])]
        ELSE IF ~(ToSet(args) \subseteq names) THEN Raised
        ELSE [i \in DOMAIN sent |-> IF sent[i].is = "$" THEN Value(args[sent[i].dollar]) ELSE Char(sent[i].is)]

-----------------------------------------------------------------------------
\* The same in one pass from left to right, as the server reads a text.
ReadFrom(t) ==
    LET Chars(p, r) == [i \in 1..(r + 1 - p) |-> Char(t[p + i - 1])]
        read[p \in 1..(Len(t) + 1)] ==
            IF p > Len(t) THEN <<>>
            ELSE IF t[p] = "'"
            THEN LET e == Min({r \in (p + 1)..Len(t) : t[r] = "'"} \cup {Len(t)})
                 IN  Chars(p, e) \o read[e + 1]
            ELSE IF p < Len(t) /\ t[p] = ":" /\ t[p + 1] = ":" THEN Chars(p, p + 1) \o read[p + 2]
            ELSE IF p < Len(t) /\ t[p] = ":" /\ t[p + 1] \in Letters
            THEN <<Value(NameAt(t, p))>> \o read[WordEnd(t, p + 1) + 1]
            ELSE Chars(p, p) \o read[p + 1]
    IN  read[1]

Named(tokens) == {tokens[i].of : i \in {j \in DOMAIN tokens : tokens[j].is = "$"}}

-----------------------------------------------------------------------------
\* escape_like: three replacements, one after the other.
Replace(t, c) == FlattenSeq([i \in DOMAIN t |-> IF t[i] = c THEN <<"\\", c>> ELSE <<t[i]>>])
escape_like(t) == Replace(Replace(Replace(t, "\\"), "%"), "_")

\* LIKE, from the last characters back: where in s the pattern may match from its
\* j-th character on.  An escaped character is itself.
Like(s, pattern) ==
    LET from[j \in 1..(Len(pattern) + 1)] ==
            IF j > Len(pattern) THEN {Len(s) + 1}
            ELSE CASE pattern[j] = "%" -> UNION {1..i : i \in from[j + 1]}
                   [] pattern[j] = "_" -> {i \in DOMAIN s : i + 1 \in from[j + 1]}
                   [] pattern[j] = "\\" ->
                        {i \in DOMAIN s : j < Len(pattern) /\ s[i] = pattern[j + 1] /\ i + 1 \in from[j + 2]}
                   [] OTHER -> {i \in DOMAIN s : s[i] = pattern[j] /\ i + 1 \in from[j + 1]}
    IN  1 \in from[1]

Has(s, t) == \E i \in 0..(Len(s) - Len(t)) : SubSeq(s, i + 1, i + Len(t)) = t

-----------------------------------------------------------------------------
QueriesInit == statement = <<>> /\ term = <<>>

\* A text is written, or a term; not both in one behaviour.
Write(c) ==
    /\ Len(statement) < MaxText /\ term = <<>>
    /\ statement' = Append(statement, c)
    /\ UNCHANGED term

Search(c) ==
    /\ Len(term) < MaxTerm /\ statement = <<>>
    /\ term' = Append(term, c)
    /\ UNCHANGED statement

QueriesNext ==
    \/ \E c \in Characters : Write(c)
    \/ \E c \in Wild \cup Letters : Search(c)

QueriesSpec == QueriesInit /\ [][QueriesNext]_queries

-----------------------------------------------------------------------------
\* Every value is put where the server reads its name, and nowhere else: not in a
\* literal, not after a cast, not for a name that begins alike; the values the
\* statement does not name do no harm, and one that is missing stops it.
ValuesPlaced ==
    Quotes(statement, DOMAIN statement) % 2 = 0 =>
        LET meant == ReadFrom(statement)
        IN  \A given \in Givens \ {{}} :
                DB_execute(statement, given) = IF Named(meant) \subseteq given THEN meant ELSE Raised

\* A search finds what contains the term, whatever characters the term has.
SearchedAsWritten ==
    \A s \in BoundedSeq(Wild \cup Letters, MaxTerm) :
        Like(s, <<"%">> \o escape_like(term) \o <<"%">>) <=> Has(s, term)

QueriesMeant == ValuesPlaced /\ (term # <<>> => SearchedAsWritten)
=============================================================================
