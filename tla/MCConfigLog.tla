---------------------------- MODULE MCConfigLog ----------------------------
(* Two threads that load documents: a logger is defined, changed, kept and *)
(* dropped; a number changes; texts and names are wrong.  Besides, each    *)
(* pattern of up to four items is an initial state of its own.             *)
EXTENDS ConfigLog, LogPattern

VARIABLE input    \* <<"pattern", its items>>, or NoInput while documents are loaded
NoInput == <<"none", <<>>>>

App(type, level, f) == [type |-> type, level |-> level, formatter |-> f]
Def(name, level, f, apps) == [name |-> name, level |-> level, formatter |-> f, appenders |-> apps]

D1 == Def("system", 2, "long", <<App("file", 4, "own"), App("stdout", 2, Bad)>>)
D2 == Def("system", 3, NoFormat, <<App("stdout", 3, NoFormat)>>)
D3 == Def(Root, 4, Bad, <<>>)

\* Texts that FromStr converts to v, or throws for.
TextOf(v) == [ok |-> TRUE, value |-> v]
BadText   == [ok |-> FALSE, value |-> 0]

MCDocuments ==
    { <<<<Logs, TextOf({D1})>>, <<Size, TextOf(1)>>>>,
      <<<<Size, TextOf(2)>>, <<Logs, TextOf({D2, D3})>>>>,
      <<<<Logs, TextOf({D3})>>>>,
      <<<<Logs, TextOf({})>>, <<Size, BadText>>, <<"unknown", TextOf(1)>>>>,
      <<<<Size, TextOf(3)>>, <<"BAD-NAME", TextOf(1)>>>> }

Items == {Literal(<<" ">>), Literal(<<"%">>), Directive(<<"m">>, <<>>),
          Directive(<<"d">>, <<"a", " ">>), Directive(<<"a">>, <<>>)}

MCInit ==
    /\ Init
    /\ \/ input = NoInput
       \/ \E n \in 0 .. 4 : \E list \in [1 .. n -> Items] : input = <<"pattern", list>>
MCNext == input = NoInput /\ Next /\ UNCHANGED input
MCSpec == MCInit /\ [][MCNext]_<<vars, input>>

\* LogFormatter::init takes patterns of up to four items apart into the items they were
\* written with, "%%", formats in braces and neighbours of every kind included.  The literals
\* are blanks and percent signs: no letters, no '}' and no brace that is not closed.
PatternExact == input[1] = "pattern" => ParsedAsWritten(input[2])
=============================================================================
