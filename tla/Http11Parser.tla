---------------------------- MODULE Http11Parser ----------------------------
(***************************************************************************)
(* The request automaton that Ragel generated from http11_parser.rl        *)
(* (src/dwframe/http/http11_parser.rl.cc).  A state is <<name, k, mode>>:  *)
(* the part of the message being read, a counter (letters of a method or   *)
(* of "HTTP/1.x" read so far, or how far a %XX escape has come) and the    *)
(* kind of message, an HTTP request or the "@path {...}" form.  A          *)
(* character is one representative of its class.  The states inside "["    *)
(* "]" host literals are not modelled and "[" is not among the characters. *)
(***************************************************************************)
EXTENDS Naturals, Sequences

VARIABLE uri_relaxed    \* a field of the parser that http_parser_init leaves unset

MethodMax == 20     \* Method = ( upper | digit ){1,20}

Upper   == {"A", "H", "T", "P"}
Lower   == {"a", "c", "g", "k", "l", "n", "t", "x"}
Digit   == {"0", "1", "2", "9"}
XDigit  == Digit \cup {"A", "a", "c"}
Alpha   == Upper \cup Lower
Space   == {"SP", "TAB"}
Control == {"CR", "LF", "CTL"}          \* 1 .. 31 without the tab

\* sub_delims, with more_delims when { parser->uri_relaxed }; "{" stands for "^" too.
SubDelim == {"!", "=", "+"} \cup (IF uri_relaxed THEN {"{", "}"} ELSE {})
NameChar == Alpha \cup Digit \cup {"-", ".", "_"} \cup SubDelim   \* unreserved | sub_delims
PChar    == NameChar \cup {":", "@", "HI"}                        \* any -- ascii included

\* HTTP_CTL = (0 - 31) | 127 subtracts 31 from 0, so a field name may hold CR, LF and
\* every other control character but NUL and the tab, which is a separator.
Token   == Alpha \cup Digit \cup Control \cup {"-", ".", "_", "!", "+", "%", "#"}
Content == (Token \ {"CR", "LF"}) \cup PChar \cup Space
             \cup {"{", "}", "=", "/", "?", "<", ">", ":"}

Chars == Content \cup Token \cup {"NUL", "DEL"}

S(name) == <<name, 0, "http">>
At(s)   == s[1]
Further(s) == [s EXCEPT ![2] = @ + 1]    \* one more letter of the word

\* A transition: the state entered and the grammar's actions it executes.
Go(s, acts) == [to |-> s, acts |-> acts]
Stay(s)     == Go(s, {})
Error       == S("error")
Fail        == Stay(Error)

--------------------------------------------------------------------------
(* The request line: Method " " URI_reference " " HTTP_Version CRLF. *)

StartStep(c) ==
    CASE c \in Upper \cup Digit -> Go(<<"method", 1, "http">>, {"mark"})
      [] c = "<"                -> Go(S("xmlName"), {"mark"})
      [] c = "@"                -> Go(<<"target", 0, "json">>, {"mark"})
      [] OTHER                  -> Fail

MethodStep(s, c) ==
    CASE c = "SP"                                      -> Go(S("target"), {"method"})
      [] c \in Upper \cup Digit /\ s[2] < MethodMax -> Stay(Further(s))
      [] OTHER                                         -> Fail

Word == <<"H", "T", "T", "P", "/", "1", ".">>

VersionStep(s, c) ==
    CASE s[2] < Len(Word) /\ c = Word[s[2] + 1] ->
             Go(Further(s), IF s[2] = 0 THEN {"mark"} ELSE {})
      [] s[2] = Len(Word) /\ c \in {"0", "1"}   -> Stay(Further(s))
      [] s[2] > Len(Word) /\ c = "CR"           -> Go(S("crlf"), {"version"})
      [] s[2] > Len(Word) /\ c = "LF"           -> Go(S("header"), {"version"})
      [] OTHER                                  -> Fail

--------------------------------------------------------------------------
(* The target.  What may follow a complete path, by the kind of message.   *)
(* The parts that hold %XX escapes count its digits in the state.          *)

\* Mutant: a path that ends at "?" is not reported.
PathEndSilent(s, c, acts) ==
    CASE c = "SP" /\ s[3] = "http" -> Go(S("version"), acts \cup {"path", "uri"})
      [] c = "?" /\ s[3] = "http" -> Go(S("query0"), acts)
      [] OTHER                    -> Fail

PathEnd(s, c, acts) ==
    CASE c = "SP" /\ s[3] = "json" -> Go(S("brace"), acts \cup {"path"})
      [] c = "SP" /\ s[3] = "http" -> Go(S("version"), acts \cup {"path", "uri"})
      [] c = "?" /\ s[3] = "http" -> Go(S("query0"), acts \cup {"path"})
      [] c = "#" /\ s[3] = "http" -> Go(S("fragment0"), acts \cup {"path", "uri"})
      [] OTHER                    -> Fail

In(s, name)  == <<name, 0, s[3]>>
Pct(s, name) == <<name, 1, s[3]>>

PctStep(s, c) ==
    IF c \in XDigit THEN Stay([s EXCEPT ![2] = (@ + 1) % 3]) ELSE Fail

TargetStep(s, c) ==
    LET m == IF s[3] = "http" THEN {"mark"} ELSE {} IN
    CASE c \in Alpha /\ s[3] = "http"         -> Go(S("scheme"), m)
      [] c \in NameChar \cup {"@"}            -> Go(In(s, "segment"), m)
      [] c = "%"                              -> Go(Pct(s, "segment"), m)
      [] c = "/"                              -> Go(In(s, "slash"), m)
      [] OTHER                                -> PathEnd(s, c, m)

SegmentStep(s, c) ==
    CASE c \in NameChar \cup {"@"} -> Stay(s)
      [] c = "%"                   -> Stay(Pct(s, "segment"))
      [] c = "/"                   -> Stay(In(s, "path"))
      [] OTHER                     -> PathEnd(s, c, {})

PathStep(s, c) ==
    CASE c \in PChar \cup {"/"} -> Stay(s)
      [] c = "%"                -> Stay(Pct(s, "path"))
      [] OTHER                  -> PathEnd(s, c, {})

SlashStep(s, c) ==
    CASE c \in PChar -> Stay(In(s, "path"))
      [] c = "%"     -> Stay(Pct(s, "path"))
      [] c = "/"     -> Stay(In(s, "authority"))
      [] OTHER       -> PathEnd(s, c, {})

\* "//" authority: it is not known yet whether a name is userinfo or host.
AuthorityStep(s, c) ==
    CASE c \in NameChar -> Stay(In(s, "authority"))
      [] c = "%"        -> Stay(Pct(s, "authority"))
      [] c = ":"        -> Stay(In(s, "userOrPort"))
      [] c = "@"        -> Stay(In(s, "host"))
      [] c = "/"        -> Stay(In(s, "path"))
      [] OTHER          -> PathEnd(s, c, {})

UserOrPortStep(s, c) ==
    CASE c \in Digit                      -> Stay(s)
      [] c \in (NameChar \ Digit) \cup {":"} -> Stay(In(s, "user"))
      [] c = "%"                          -> Stay(Pct(s, "user"))
      [] c = "@"                          -> Stay(In(s, "host"))
      [] c = "/"                          -> Stay(In(s, "path"))
      [] OTHER                            -> PathEnd(s, c, {})

UserStep(s, c) ==
    CASE c \in NameChar \cup {":"} -> Stay(s)
      [] c = "%"                   -> Stay(Pct(s, "user"))
      [] c = "@"                   -> Stay(In(s, "host"))
      [] OTHER                     -> Fail

HostStep(s, c) ==
    CASE c \in NameChar -> Stay(s)
      [] c = "%"        -> Stay(Pct(s, "host"))
      [] c = ":"        -> Stay(In(s, "port"))
      [] c = "/"        -> Stay(In(s, "path"))
      [] OTHER          -> PathEnd(s, c, {})

PortStep(s, c) ==
    CASE c \in Digit -> Stay(s)
      [] c = "/"     -> Stay(In(s, "path"))
      [] OTHER       -> PathEnd(s, c, {})

SchemeStep(s, c) ==
    CASE c \in Alpha \cup Digit \cup {"+", "-", "."} -> Stay(s)
      [] c = ":"                                     -> Stay(S("hier"))
      [] OTHER                                       -> SegmentStep(In(s, "segment"), c)

\* After "scheme:" the path is marked again: the scheme is not part of it.
HierStep(s, c) ==
    CASE c \in PChar -> Go(S("path"), {"mark"})
      [] c = "%"     -> Go(Pct(s, "path"), {"mark"})
      [] c = "/"     -> Go(S("slash"), {"mark"})
      [] OTHER       -> PathEnd(s, c, {"mark"})

\* "query0" and "fragment0" are the states before the first character.
QueryStep(s, c) ==
    LET q == IF At(s) = "query0" THEN {"query_start"} ELSE {} IN
    CASE c \in PChar \cup {"/", "?"} -> Go(S("query"), q)
      [] c = "%"                     -> Go(Pct(s, "query"), q)
      [] c = "SP"                    -> Go(S("version"), q \cup {"query", "uri"})
      [] c = "#"                     -> Go(S("fragment0"), q \cup {"query", "uri"})
      [] OTHER                       -> Fail

\* Mutant: the start of the fragment is not marked.
FragmentStepUnmarked(s, c) ==
    CASE c = "SP"    -> Go(S("version"), {"fragment"})
      [] c \in PChar -> Stay(S("fragment"))
      [] OTHER       -> Fail

FragmentStep(s, c) ==
    LET m == IF At(s) = "fragment0" THEN {"mark"} ELSE {} IN
    CASE c \in PChar \cup {"/", "?"} -> Go(S("fragment"), m)
      [] c = "%"                     -> Go(Pct(s, "fragment"), m)
      [] c = "SP"                    -> Go(S("version"), m \cup {"fragment"})
      [] OTHER                       -> Fail

--------------------------------------------------------------------------
(* Header fields: field_name ":" lws* field_value :> CRLF, then CRLF.      *)

HeaderStep(s, c) ==
    CASE c = "LF"    -> Go(S("final"), {"field_start", "done"})
      [] c = "CR"    -> Go(S("lastcr"), {"field_start"})
      [] c \in Token -> Go(S("name"), {"field_start"})
      [] OTHER       -> Fail

NameStep(s, c) ==
    CASE c = ":"                       -> Go(S("lws"), {"field_len"})
      [] At(s) = "lastcr" /\ c = "LF"  -> Go(S("final"), {"done"})
      [] c \in Token                   -> Stay(S("name"))
      [] OTHER                         -> Fail

LwsStep(s, c) ==
    CASE c \in Space   -> Go(s, {"mark"})
      [] c \in Content -> Go(S("value"), {"mark"})
      [] c = "CR"      -> Go(S("crlf"), {"mark", "field"})
      [] c = "LF"      -> Go(S("header"), {"mark", "field"})
      [] OTHER         -> Fail

ValueStep(s, c) ==
    CASE c \in Content -> Stay(s)
      [] c = "CR"      -> Go(S("crlf"), {"field"})
      [] c = "LF"      -> Go(S("header"), {"field"})
      [] OTHER         -> Fail

CrlfStep(s, c) == IF c = "LF" THEN Stay(S("header")) ELSE Fail

--------------------------------------------------------------------------
(* "<name ...>NUL" and "@path {...}NUL" messages. *)

XmlNameStep(s, c) ==
    CASE c \in Alpha \cup Digit \cup {"-", "."}                           -> Stay(<<"xmlName", 1, "http">>)
      [] s[2] = 1 /\ c \in Space \cup {"CR", "LF", "/", ">"} -> Go(S("xml"), {"path"})
      [] OTHER                                                -> Fail

XmlStep(s, c) ==
    CASE c = ">"                       -> Stay(S("xmlClose"))
      [] At(s) = "xmlClose" /\ c = "NUL" -> Go(S("final"), {"xml", "done"})
      [] OTHER                         -> Stay(S("xml"))

BraceStep(s, c) == IF c = "{" THEN Go(S("json"), {"mark"}) ELSE Fail

JsonStep(s, c) ==
    CASE c = "}"                        -> Stay(S("jsonClose"))
      [] At(s) = "jsonClose" /\ c = "NUL" -> Go(S("final"), {"json", "done"})
      [] OTHER                          -> Stay(S("json"))

--------------------------------------------------------------------------
(* One character: the switch over cs in http_parser_execute, by the parts  *)
(* of a message that the states read.                                      *)

HostStates   == {"authority", "userOrPort", "user", "host", "port"}
TargetStates == {"target", "segment", "path", "slash", "scheme", "hier"}
FieldStates  == {"header", "name", "lastcr", "lws", "value", "crlf"}
BodyStates   == {"xmlName", "xml", "xmlClose", "brace", "json", "jsonClose"}

HostDelta(s, c) ==
    CASE At(s) = "authority"  -> AuthorityStep(s, c)
      [] At(s) = "userOrPort" -> UserOrPortStep(s, c)
      [] At(s) = "user"       -> UserStep(s, c)
      [] At(s) = "host"       -> HostStep(s, c)
      [] At(s) = "port"       -> PortStep(s, c)

TargetDelta(s, c) ==
    CASE At(s) = "target"  -> TargetStep(s, c)
      [] At(s) = "segment" -> SegmentStep(s, c)
      [] At(s) = "path"    -> PathStep(s, c)
      [] At(s) = "slash"   -> SlashStep(s, c)
      [] At(s) = "scheme"  -> SchemeStep(s, c)
      [] At(s) = "hier"    -> HierStep(s, c)

FieldDelta(s, c) ==
    CASE At(s) = "header"             -> HeaderStep(s, c)
      [] At(s) \in {"name", "lastcr"} -> NameStep(s, c)
      [] At(s) = "lws"                -> LwsStep(s, c)
      [] At(s) = "value"              -> ValueStep(s, c)
      [] At(s) = "crlf"               -> CrlfStep(s, c)

BodyDelta(s, c) ==
    CASE At(s) = "xmlName"                -> XmlNameStep(s, c)
      [] At(s) \in {"xml", "xmlClose"}    -> XmlStep(s, c)
      [] At(s) = "brace"                  -> BraceStep(s, c)
      [] At(s) \in {"json", "jsonClose"}  -> JsonStep(s, c)

Delta(s, c) ==
    CASE s[2] > 0 /\ At(s) \notin {"method", "version", "xmlName"} -> PctStep(s, c)
      [] At(s) = "start"                     -> StartStep(c)
      [] At(s) = "method"                    -> MethodStep(s, c)
      [] At(s) \in TargetStates              -> TargetDelta(s, c)
      [] At(s) \in HostStates                -> HostDelta(s, c)
      [] At(s) \in {"query0", "query"}       -> QueryStep(s, c)
      [] At(s) \in {"fragment0", "fragment"} -> FragmentStep(s, c)
      [] At(s) = "version"                   -> VersionStep(s, c)
      [] At(s) \in FieldStates               -> FieldDelta(s, c)
      [] At(s) \in BodyStates                -> BodyDelta(s, c)
      [] OTHER                               -> Fail
=============================================================================
