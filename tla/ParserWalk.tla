----------------------------- MODULE ParserWalk -----------------------------
(***************************************************************************)
(* Both generated parsers reading any message, one character at a time and *)
(* without a break (one call of ..._execute).  Instead of offsets the      *)
(* state remembers which part of the message mark, field_start and         *)
(* field_len were last set for, and which callbacks have been made; of the *)
(* size of a chunk, how many digits it has.                                *)
(***************************************************************************)
EXTENDS Naturals, Sequences, FiniteSets

CONSTANTS RequestChars,    \* the characters of requests that are tried
          ResponseChars

VARIABLES side,          \* which parser is reading: "request" or "response"
          cs,            \* its state
          markOf,        \* the part of the message at whose start mark was set
          nameAt,        \* the header lines at which field_start and field_len were set
          calls,         \* the callbacks made so far, repeated field callbacks once
          made,          \* the callbacks of the last character
          flags,         \* close, chunked and content_len of the response parser
          digits,        \* significant digits of the hexadecimal number since mark, up to IntDigits
          chunks_done,   \* set: the action chunk_size calls last_chunk instead of chunk_size
          uri_relaxed,
          line,          \* the current header line while it may be a recognised one
          told,          \* the flags that the lines read so far ask for
          size,          \* the size in a chunk header as text: "none", "zero" or "more"
          emptySeen      \* a recognised header had no value on its line

chunkVars == <<digits, chunks_done, size>>
walkVars == <<side, cs, markOf, nameAt, calls, made, flags, chunkVars, uri_relaxed, line, told, emptySeen>>

Rq == INSTANCE Http11Parser
Rs == INSTANCE HttpClientParser

NoName  == [start |-> 0, len |-> 0]

\* The part of the message that a mark in state s opens.
Part(s) ==
    CASE s[1] = "start"                                   -> "first"
      [] s[1] \in {"target", "hier"}                      -> "target"
      [] s[1] = "fragment0"                               -> "fragment"
      [] s[1] \in {"status0", "reason0", "version", "brace"} -> s[1]
      [] OTHER                                            -> "value"

Callbacks == {"method", "path", "uri", "query", "fragment", "version", "status", "reason",
              "chunk_size", "field", "done"}

\* The callbacks of one transition, in the order in which it makes them.
One(a, acts) == IF a \in acts THEN <<a>> ELSE <<>>
Made(acts) ==
    One("method", acts) \o One("path", acts) \o One("query", acts) \o One("uri", acts)
      \o One("fragment", acts) \o One("version", acts) \o One("status", acts)
      \o One("reason", acts) \o One("chunk_size", acts) \o One("field", acts) \o One("done", acts)

Add(seq, more) ==
    IF seq # <<>> /\ more # <<>> /\ seq[Len(seq)] = "field" /\ more[1] = "field"
      THEN seq \o Tail(more)
      ELSE seq \o more

Reading(s) == s[1] \notin {"error", "final"}

--------------------------------------------------------------------------
(* What a header line asks for, read as a line.  Only lines that may still *)
(* be a recognised header are kept; further blanks before the value and    *)
(* further digits say nothing new.                                         *)

KnownOf ==
    [close       |-> {<<"c", "n", ":", "c", "l">>, <<"c", "n", ":", "SP", "c", "l">>},
     chunked     |-> {<<"t", "r", ":", "c", "k">>, <<"t", "r", ":", "SP", "c", "k">>},
     content_len |-> {<<"c", "t", ":", "0">>, <<"c", "t", ":", "SP", "0">>}]
Headers == {"close", "chunked", "content_len"}
Other   == <<"other">>

KnownLines == UNION {KnownOf[h] : h \in Headers}
Begins(l)  == \E k \in KnownLines : Len(l) <= Len(k) /\ \A i \in 1 .. Len(l) : k[i] = l[i]

\* Blanks are alike, and so are digits.
Like(c) == IF c \in Rs!Space THEN "SP" ELSE IF c \in Rs!Digit THEN "0" ELSE c

Repeats(l, c) == l # <<>> /\ l[Len(l)] = Like(c) /\ Like(c) \in {"SP", "0"} /\ Begins(l)

LineWith(l, c) ==
    IF Repeats(l, c) THEN l
    ELSE IF Begins(Append(l, Like(c))) THEN Append(l, Like(c)) ELSE Other

Asks(l) == {h \in Headers : l \in KnownOf[h]}

\* A recognised name with an empty value: the parser looks for it on the next line.
IsEmpty(l) == l \in {<<"c", "n", ":">>, <<"t", "r", ":">>, <<"c", "t", ":">>,
                     <<"c", "n", ":", "SP">>, <<"t", "r", ":", "SP">>, <<"c", "t", ":", "SP">>}

InHeaders(s) == s[1] \notin {"start"} \cup Rs!ChunkStates \cup Rs!FirstStates

\* A chunk header tells its length, and that the body is chunked, where its size ends; a
\* header line at its line feed.
Says(s, c, l) ==
    IF s[1] = "chunkSize" THEN (IF c \in Rs!XDigit THEN {} ELSE {"chunked", "content_len"})
    ELSE IF InHeaders(s) /\ c = "LF" THEN Asks(l) ELSE {}

SizeWith(s, c) ==
    CASE s[1] = "start" /\ c \in Rs!XDigit                  -> IF c = "0" THEN "zero" ELSE "more"
      [] s[1] = "chunkSize" /\ c \in Rs!XDigit /\ c # "0"   -> "more"
      [] OTHER                                              -> size

--------------------------------------------------------------------------
(* The size of a chunk, as the action chunk_size reads it: content_len, an *)
(* int, is strtol of the text from mark on, and chunks_done says whether   *)
(* that is at most 0.  A number of IntDigits digits or more may be         *)
(* negative or 0 as an int.                                                *)

IntDigits == 8

Significant(n, c) ==
    IF c \notin Rs!XDigit \/ (n = 0 /\ c = "0") \/ n = IntDigits THEN n ELSE n + 1

ReadSize(s, c, acts) ==
    /\ digits' = IF s[1] \notin {"start", "chunkSize"} THEN digits
                 ELSE Significant(IF "mark" \in acts THEN 0 ELSE digits, c)
    /\ chunks_done' \in IF "chunk_size" \notin acts THEN {chunks_done}
                       ELSE IF digits = IntDigits THEN BOOLEAN ELSE {digits = 0}

--------------------------------------------------------------------------
InitWalk ==
    /\ side \in {"request", "response"}
    /\ cs = IF side = "request" THEN Rq!S("start") ELSE Rs!S("start")
    /\ markOf = "none"
    /\ nameAt = NoName
    /\ calls = <<>>
    /\ made = {}
    /\ flags = {}
    /\ digits = 0 /\ chunks_done = FALSE /\ size = "none"
    /\ uri_relaxed \in (IF side = "request" THEN BOOLEAN ELSE {FALSE})
    /\ line = <<>>
    /\ told = {}
    /\ emptySeen = FALSE

\* One character: the offsets are set first, then the callbacks use them.
Move(d) ==
    /\ cs' = d.to
    /\ markOf' = IF "mark" \in d.acts THEN Part(cs) ELSE markOf
    /\ nameAt' = [start |-> IF "field_start" \in d.acts THEN 1 ELSE nameAt.start,
                  len   |-> IF "field_len" \in d.acts THEN 1
                            ELSE IF "field_start" \in d.acts THEN 0 ELSE nameAt.len]
    /\ calls' = Add(calls, Made(d.acts))
    /\ made' = d.acts \cap Callbacks
    /\ flags' = flags \cup (d.acts \cap Headers)
    /\ UNCHANGED <<side, uri_relaxed>>

ReadRequest ==
    /\ side = "request"
    /\ Reading(cs)
    /\ \E c \in RequestChars : Move(Rq!Delta(cs, c))
    /\ UNCHANGED <<chunkVars, line, told, emptySeen>>

ReadResponse ==
    /\ side = "response"
    /\ Reading(cs)
    /\ \E c \in ResponseChars :
         /\ Move(Rs!Delta(cs, c))
         /\ ReadSize(cs, c, Rs!Delta(cs, c).acts)
         /\ line' = IF ~InHeaders(cs) \/ c = "LF" THEN <<>>
                    ELSE IF c = "CR" THEN line ELSE LineWith(line, c)
         /\ told' = told \cup Says(cs, c, line)
         /\ size' = SizeWith(cs, c)
         /\ emptySeen' = (emptySeen \/ (InHeaders(cs) /\ c \in {"CR", "LF"} /\ IsEmpty(line)))

Walk == ReadRequest \/ ReadResponse

WalkSpec == InitWalk /\ [][Walk]_walkVars

--------------------------------------------------------------------------

\* The parts of the message that may be handed to each callback through mark.
OwnParts ==
    [method |-> {"first"}, path |-> {"target", "first"}, uri |-> {"target"},
     fragment |-> {"fragment"}, version |-> {"version", "first"}, status |-> {"status0"},
     reason |-> {"reason0"}, chunk_size |-> {"first"}, field |-> {"value"}]

\* Every callback is handed the text of its own part: mark was set where that part began
\* and not overwritten or left from an earlier one (http11_parser.rl.cc, PTR_TO(mark)), and a
\* field callback gets the name of its line, with field_start and field_len both set for it.
\* After a recognised header with an empty value the response parser may take the next line
\* for the value and report the old length with the new start.
OffsetsAreOwn ==
    /\ \A a \in made \cap DOMAIN OwnParts : markOf \in OwnParts[a]
    /\ "field" \in made /\ ~emptySeen => nameAt = [start |-> 1, len |-> 1]

Optional(x) == {<<>>, <<x>>}
RequestOrders ==
    {<<"method", "path">> \o q \o <<"uri">> \o g \o <<"version">> \o h \o <<"done">> :
        q \in Optional("query"), g \in Optional("fragment"), h \in Optional("field")}
ResponseOrders ==
    {b \o h \o <<"done">> : b \in {<<"version", "status", "reason">>, <<"chunk_size">>},
                            h \in Optional("field")}
Orders == {<<"path", "done">>} \cup RequestOrders \cup ResponseOrders

\* A message the parser calls complete has had each part of its first line reported
\* once, in order, before its fields, whatever way through the grammar it took.
CompleteInOrder == cs[1] = "final" => calls \in Orders

\* When a response or a chunk header is complete, close, chunked and content_len are set
\* exactly if a header line says so or a chunk's size was given, although the words are
\* recognised inside the states that read ordinary names and values, and close is only
\* written on the next line.  chunks_done is set exactly for a size of zeros, unless the
\* size has so many digits that it may not fit the int content_len.
FlagsMatchLines ==
    side = "response" /\ cs[1] = "final" =>
        /\ ~emptySeen => flags = told
        /\ digits < IntDigits => (chunks_done <=> size = "zero")

=============================================================================
