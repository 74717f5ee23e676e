-------------------------- MODULE HttpClientParser --------------------------
(***************************************************************************)
(* The response automaton that Ragel generated from httpclient_parser.rl   *)
(* (src/dwframe/http/httpclient_parser.rl.cc): a status line with header   *)
(* fields, or the header of a chunk.  A state is <<name, word, k>>.  Three *)
(* headers are recognised letter by letter while they are also read as     *)
(* plain fields: Connection: close, Transfer-Encoding: chunked and         *)
(* Content-Length: digits.  The six words are cut down to two letters that *)
(* branch as the originals do (close is "cl", chunked "ck"); "HTTP/" is    *)
(* "H/".                                                                   *)
(***************************************************************************)
EXTENDS Naturals, Sequences

Digit  == {"0", "1", "2", "3", "4"}
XDigit == Digit \cup {"a", "c"}
Token  == XDigit \cup {"H", "n", "t", "r", "l", "k", "x", "."}
Space  == {"SP", "TAB"}                 \* 9, 11, 12 and the blank
Chars  == Token \cup Space \cup {"CR", "LF", ":", ";", "=", "/", "("}

\* The recognised names, read letter by letter and as a name at the same time, and values.
ConnectionName == <<"c", "n">>
LengthName     == <<"c", "t">>
TransferName   == <<"t", "r">>
ValueOf == [conn |-> <<"c", "l">>, te |-> <<"c", "k">>, cl |-> <<>>]

S(name)     == <<name, "-", 0>>
K(name, w)  == <<name, w, 0>>
At(s)       == s[1]
Reach(s, k) == [s EXCEPT ![3] = k]
Go(s, acts) == [to |-> s, acts |-> acts]
Stay(s)     == Go(s, {})
Fail        == Stay(S("error"))

--------------------------------------------------------------------------
(* Chunked_Header: size, extensions, CRLF. *)

StartStep(c) ==
    CASE c \in XDigit -> Go(S("chunkSize"), {"mark"})
      [] c = "H"      -> Go(S("version"), {"mark"})
      [] OTHER        -> Fail

\* How a chunk header goes on after a part that ends with the actions acts.
ChunkEnd(c, acts) ==
    CASE c = "LF" -> Go(S("final"), acts \cup {"done"})
      [] c = "CR" -> Go(S("lastcr"), acts)
      [] c = ";"  -> Go(S("ext"), acts)
      [] OTHER    -> Fail

\* The action chunk_size writes chunked and content_len, then makes its callback.
ChunkSizeStep(s, c) ==
    IF c \in XDigit THEN Stay(s) ELSE ChunkEnd(c, {"chunked", "content_len", "chunk_size"})

ExtNameStep(s, c) ==
    CASE At(s) = "ext" /\ c \in Token     -> Go(S("extName"), {"field_start"})
      [] At(s) = "extName" /\ c \in Token -> Stay(s)
      [] At(s) = "extName" /\ c = "="     -> Go(S("extEq"), {"field_len", "mark"})
      [] At(s) = "extName"                -> ChunkEnd(c, {"field_len", "mark", "field"})
      [] OTHER                            -> Fail

ExtValueStep(s, c) ==
    CASE At(s) = "extEq" /\ c \in Token    -> Go(S("extValue"), {"mark"})
      [] At(s) = "extValue" /\ c \in Token -> Stay(s)
      [] At(s) = "extValue"                -> ChunkEnd(c, {"field"})
      [] OTHER                             -> Fail

--------------------------------------------------------------------------
(* Status_Line = HTTP_Version " " Status_Code " " Reason_Phrase :> CRLF *)

VersionStep(s, c) ==
    CASE s[3] = 0 /\ c = "/"                 -> Stay(Reach(s, 1))
      [] s[3] \in {1, 2} /\ c \in Digit      -> Stay(Reach(s, 2))
      [] s[3] = 2 /\ c = "."                 -> Stay(Reach(s, 3))
      [] s[3] \in {3, 4} /\ c \in Digit      -> Stay(Reach(s, 4))
      [] s[3] = 4 /\ c = "SP"                -> Go(S("status0"), {"version"})
      [] OTHER                               -> Fail

StatusStep(s, c) ==
    CASE c \in Digit                     -> Go(S("status"), IF At(s) = "status0" THEN {"mark"} ELSE {})
      [] At(s) = "status" /\ c = "SP"    -> Go(S("reason0"), {"status"})
      [] OTHER                           -> Fail

ReasonStep(s, c) ==
    CASE At(s) = "reason0" /\ c # "LF" -> Go(S("reason"), {"mark"})
      [] At(s) = "reason" /\ c = "CR"  -> Go(S("crlf"), {"reason"})
      [] At(s) = "reason" /\ c = "LF"  -> Go(S("header"), {"reason"})
      [] At(s) = "reason"              -> Stay(s)
      [] OTHER                         -> Fail

--------------------------------------------------------------------------
(* Header fields.  A name that has matched the first letter of a word is   *)
(* in "nameC" or "nameT"; "named" w has matched the word w.                *)

\* The start of a header line; acts is what the line before left to do.
LineStart(c, acts) ==
    CASE c = "LF"    -> Go(S("final"), acts \cup {"done"})
      [] c = "CR"    -> Go(S("lastcr"), acts)
      [] c = ConnectionName[1] -> Go(S("nameC"), acts \cup {"field_start"})
      [] c = TransferName[1]   -> Go(S("nameT"), acts \cup {"field_start"})
      [] c \in Token \ {ConnectionName[1], TransferName[1]} -> Go(S("name"), acts \cup {"field_start"})
      [] OTHER       -> Fail

\* Mutant: the leaving action of "Connection: close" is lost.
HeaderStepStaysOpen(s, c) == LineStart(c, {})

\* write_connection_close is a leaving action: it runs on the character after the line.
HeaderStep(s, c) == LineStart(c, IF At(s) = "closeLine" THEN {"close"} ELSE {})

\* One more letter of a name: it goes on with a recognised word or is an ordinary one.
Letter(s, c) ==
    CASE At(s) \in {"nameC", "nameCl", "nameCk"} /\ c = ConnectionName[2] -> K("named", "conn")
      [] At(s) \in {"nameC", "nameCl", "nameCk"} /\ c = LengthName[2]     -> K("named", "cl")
      [] At(s) = "nameT" /\ c = TransferName[2]                           -> K("named", "te")
      [] At(s) = "nameCl" /\ c = "l"                                      -> K("nameIsValue", "conn")
      [] At(s) = "nameCk" /\ c = "k"                                      -> K("nameIsValue", "te")
      [] OTHER                                                            -> S("name")

NameStep(s, c) ==
    CASE c \in Token                  -> Stay(Letter(s, c))
      [] c = ":" /\ At(s) = "named"   -> Go(K("lws", s[2]), {"field_len"})
      [] c = ":" /\ At(s) # "named"   -> Go(S("lws"), {"field_len"})
      [] OTHER                        -> Fail

LwsStep(s, c) ==
    CASE c \in Space -> Go(s, {"mark"})
      [] c = "LF"    -> Go(S("header"), {"mark", "field"})
      [] c = "CR"    -> Go(S("crlf"), {"mark", "field"})
      [] OTHER       -> Go(S("value"), {"mark"})

ValueStep(s, c) ==
    CASE c = "LF" -> Go(S("header"), {"field"})
      [] c = "CR" -> Go(S("crlf"), {"field"})
      [] OTHER    -> Stay(s)

CrlfStep(s, c) ==
    CASE c = "LF" /\ At(s) = "crlf"      -> Stay(S("header"))
      [] c = "LF" /\ At(s) = "crlfClose" -> Stay(S("closeLine"))
      [] c = "LF" /\ At(s) = "crlfTe"    -> Go(S("header"), {"chunked"})
      [] c = "LF" /\ At(s) = "lastcr"    -> Go(S("final"), {"done"})
      [] OTHER                           -> Fail

--------------------------------------------------------------------------
(* The value of a recognised header: it is compared with the word while it *)
(* is read as a value.  First(w, c): c begins the recognised value of w.   *)

First(w, c) == IF w = "cl" THEN c \in Digit ELSE c = ValueOf[w][1]

\* The states in which one letter, or some digits, of the value have been read: it may
\* still be any value, it must be the word, or it may be a field name as well.
Begun(kind, w) == <<kind, w, IF w = "cl" THEN 2 ELSE 1>>
IsWord(s)      == s[3] = 2

WordLwsStep(s, c) ==
    LET w == s[2] IN
    CASE c \in Space  -> Go(s, {"mark"})
      [] c = "LF"     -> Go(K("emptyLine", w), {"mark", "field"})
      [] c = "CR"     -> Go(K("emptyCr", w), {"mark", "field"})
      [] First(w, c)  -> Go(Begun("any", w), {"mark"})
      [] OTHER        -> Go(S("value"), {"mark"})

\* The actions and the next state at the end of a value that is the word.
WordEnd(w, c, acts) ==
    CASE c = "LF" /\ w = "conn" -> Go(S("closeLine"), acts)
      [] c = "CR" /\ w = "conn" -> Go(S("crlfClose"), acts)
      [] c = "LF" /\ w = "te"   -> Go(S("header"), acts \cup {"chunked"})
      [] c = "CR" /\ w = "te"   -> Go(S("crlfTe"), acts)
      [] c = "LF" /\ w = "cl"   -> Go(S("header"), acts \cup {"content_len"})
      [] c = "CR" /\ w = "cl"   -> Go(S("crlf"), acts \cup {"content_len"})

Ends == {"CR", "LF"}

\* On the header's own line: anything else makes it an ordinary value.
AnyValueStep(s, c) ==
    LET w == s[2] IN
    CASE IsWord(s) /\ c \in Ends              -> WordEnd(w, c, {"field"})
      [] IsWord(s) /\ w = "cl" /\ c \in Digit -> Stay(s)
      [] ~IsWord(s) /\ c = ValueOf[w][2]       -> Stay(Reach(s, 2))
      [] OTHER                                 -> ValueStep(S("value"), c)

\* "space*" in the grammar includes CR and LF: after an empty value the word may stand
\* on the next line, where its first letter may as well begin a field name.
EmptyLineStep(s, c) ==
    LET w == s[2] IN
    CASE c = "LF"    -> Go(K("final", w), {"done"})
      [] c = "CR"    -> Stay(K("emptyLineCr", w))
      [] c \in Space -> Stay(K("fold", w))
      [] w = "conn" /\ c = "c"    -> Go(S("nameCl"), {"field_start"})
      [] w = "te" /\ c = "c"      -> Go(S("nameCk"), {"field_start", "mark"})
      [] w = "cl" /\ c \in Digit  -> Go(K("nameIsValue", w), {"field_start", "mark"})
      [] OTHER                    -> LineStart(c, {})

FoldStep(s, c) ==
    LET w == s[2]
        m == IF w = "conn" THEN {} ELSE {"mark"} IN
    CASE c = "LF" /\ At(s) = "emptyCr"     -> Stay(K("emptyLine", w))
      [] c = "LF" /\ At(s) = "emptyLineCr" -> Go(K("final", w), {"done"})
      [] c \in Space \cup Ends             -> Stay(K("fold", w))
      [] First(w, c)                       -> Go(Begun("must", w), m)
      [] OTHER                             -> Fail

\* The value of a folded Connection header is not reported as a field.
MustValueStep(s, c) ==
    LET w == s[2] IN
    CASE IsWord(s) /\ c \in Ends              -> WordEnd(w, c, IF w = "conn" THEN {} ELSE {"field"})
      [] IsWord(s) /\ w = "cl" /\ c \in Digit -> Stay(s)
      [] ~IsWord(s) /\ c = ValueOf[w][2]       -> Stay(Reach(s, 2))
      [] OTHER                                 -> Fail

NameIsValueStep(s, c) ==
    LET w == s[2] IN
    CASE c \in Ends                  -> WordEnd(w, c, IF w = "conn" THEN {} ELSE {"field"})
      [] w = "cl" /\ c \in Digit     -> Stay(s)
      [] OTHER                       -> NameStep(S("name"), c)

--------------------------------------------------------------------------
(* One character: the switch over cs in httpclient_parser_execute, by the  *)
(* parts of a message that the states read.                                *)

ChunkStates == {"chunkSize", "ext", "extName", "extEq", "extValue"}
FirstStates == {"version", "status0", "status", "reason0", "reason"}
NameStates  == {"name", "nameC", "nameT", "nameCl", "nameCk", "named"}
BreakStates == {"crlf", "crlfClose", "crlfTe", "lastcr"}
FoldStates  == {"emptyLine", "emptyCr", "emptyLineCr", "fold", "must", "nameIsValue"}

ChunkDelta(s, c) ==
    CASE At(s) = "chunkSize"             -> ChunkSizeStep(s, c)
      [] At(s) \in {"ext", "extName"}    -> ExtNameStep(s, c)
      [] At(s) \in {"extEq", "extValue"} -> ExtValueStep(s, c)

FirstDelta(s, c) ==
    CASE At(s) = "version"              -> VersionStep(s, c)
      [] At(s) \in {"status0", "status"} -> StatusStep(s, c)
      [] At(s) \in {"reason0", "reason"} -> ReasonStep(s, c)

FoldDelta(s, c) ==
    CASE At(s) = "emptyLine"                          -> EmptyLineStep(s, c)
      [] At(s) \in {"emptyCr", "emptyLineCr", "fold"} -> FoldStep(s, c)
      [] At(s) = "must"                               -> MustValueStep(s, c)
      [] At(s) = "nameIsValue"                        -> NameIsValueStep(s, c)

Delta(s, c) ==
    CASE At(s) = "start"                   -> StartStep(c)
      [] At(s) \in ChunkStates             -> ChunkDelta(s, c)
      [] At(s) \in FirstStates             -> FirstDelta(s, c)
      [] At(s) \in {"header", "closeLine"} -> HeaderStep(s, c)
      [] At(s) \in NameStates              -> NameStep(s, c)
      [] s = S("lws")                      -> LwsStep(s, c)
      [] At(s) = "lws" /\ s # S("lws")     -> WordLwsStep(s, c)
      [] At(s) = "value"                   -> ValueStep(s, c)
      [] At(s) \in BreakStates             -> CrlfStep(s, c)
      [] At(s) = "any"                     -> AnyValueStep(s, c)
      [] At(s) \in FoldStates              -> FoldDelta(s, c)
      [] OTHER                             -> Fail
=============================================================================
