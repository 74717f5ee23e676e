----------------------------- MODULE LogPattern -----------------------------
(***************************************************************************)
(* LogFormatter::init (src/dwframe/log.cc): how a pattern, a sequence of   *)
(* characters, is taken apart into literals and directives.                *)
(***************************************************************************)
EXTENDS Integers, Sequences, FiniteSetsExt, SequencesExt

Letters == {"a", "m", "d"}          \* isalpha
Known   == {<<"m">>, <<"d">>}       \* keys of s_format_items

Literal(s)      == [type |-> 0, str |-> s, fmt |-> <<>>]
Directive(s, f) == [type |-> 1, str |-> s, fmt |-> f]
PatternError    == Literal(<<"error">>)

FirstFrom(p, i, S) == Min({n \in i .. Len(p) : p[n] \in S} \cup {Len(p) + 1})
\* Mutant: the literal before a directive is lost.
FlushNothing(q) == q.vec

Flush(q) == IF q.nstr = <<>> THEN q.vec ELSE Append(q.vec, Literal(q.nstr))

RECURSIVE Scan(_, _, _)
Scan(p, i, q) ==
    IF i > Len(p) THEN [q EXCEPT !.vec = Flush(q), !.nstr = <<>>]
    ELSE IF p[i] # "%" THEN Scan(p, i + 1, [q EXCEPT !.nstr = Append(@, p[i])])
    ELSE IF i < Len(p) /\ p[i + 1] = "%" THEN Scan(p, i + 2, [q EXCEPT !.nstr = Append(@, "%")])
    ELSE LET n     == FirstFrom(p, i + 1, {"%", "{", " "})
             close == FirstFrom(p, n + 1, {"}"})
             str   == SubSeq(p, i + 1, n - 1)
         IN  IF n > Len(p) \/ p[n] # "{"
             THEN Scan(p, n, [q EXCEPT !.vec = Append(Flush(q), Directive(str, <<>>)), !.nstr = <<>>])
             ELSE IF close <= Len(p)
             THEN Scan(p, close + 1,
                       [q EXCEPT !.vec = Append(Flush(q), Directive(str, SubSeq(p, n + 1, close - 1))),
                                 !.nstr = <<>>])
             ELSE Scan(p, i + 1, [q EXCEPT !.vec = Append(@, PatternError), !.error = TRUE])

LogFormatter(p) ==
    LET q == Scan(p, 1, [vec |-> <<>>, nstr |-> <<>>, error |-> FALSE]) IN
    [m_items |-> q.vec,
     error   |-> q.error \/ \E i \in DOMAIN q.vec : q.vec[i].type = 1 /\ q.vec[i].str \notin Known]

\* A reference: the characters that a list of items is written with, neighbouring literals
\* being one.
Unparse(item) ==
    IF item.type = 0 THEN IF item.str = <<"%">> THEN <<"%", "%">> ELSE item.str
    ELSE <<"%">> \o item.str \o (IF item.fmt = <<>> THEN <<>> ELSE <<"{">> \o item.fmt \o <<"}">>)
Pattern(items) == FoldLeft(LAMBDA acc, x : acc \o Unparse(x), <<>>, items)
Merge(items) ==
    FoldLeft(LAMBDA acc, x :
                IF acc # <<>> /\ Last(acc).type = 0 /\ x.type = 0
                THEN Append(Front(acc), Literal(Last(acc).str \o x.str)) ELSE Append(acc, x),
             <<>>, items)

--------------------------------------------------------------------------
\* A pattern is taken apart into the literals and directives of list that it was written
\* with, and is in error exactly when it names an unknown directive.
ParsedAsWritten(list) ==
    LET f == LogFormatter(Pattern(list)) IN
    /\ f.m_items = Merge(list)
    /\ f.error <=> \E i \in DOMAIN list : list[i].str = <<"a">>
=============================================================================
