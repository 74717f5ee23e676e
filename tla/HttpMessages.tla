---------------------------- MODULE HttpMessages ----------------------------
(***************************************************************************)
(* HttpRequest and HttpResponse (src/dwframe/http/http.h, http.cc): the    *)
(* records, the header maps and the conversions to text.  Text is a        *)
(* sequence of characters, in the alphabets of the two parsers, and the    *)
(* long words are cut down to short ones: connection is "cn",              *)
(* content-length "ct", close "cl" and keep-alive "ka".                    *)
(***************************************************************************)
EXTENDS Integers, Sequences, SequencesExt, TLC

\* HTTP_METHOD_MAP, in its order: three methods of which one ends like another
\* (BIND, UNBIND) stand for the thirty-four.
HttpMethods == << [name |-> "GET",    string |-> <<"T">>],
                  [name |-> "BIND",   string |-> <<"A", "H">>],
                  [name |-> "UNBIND", string |-> <<"P", "A", "H">>] >>

\* The first method whose string begins the text at m (strncmp with the string's length).
CharsToHttpMethod(m) ==
    LET hits == {i \in DOMAIN HttpMethods : IsPrefix(HttpMethods[i].string, m)}
    IN  IF hits = {} THEN "INVALID_METHOD"
        ELSE HttpMethods[CHOOSE i \in hits : \A j \in hits : i <= j].name

HttpMethodToString(name) ==
    HttpMethods[CHOOSE i \in DOMAIN HttpMethods : HttpMethods[i].name = name].string

\* HTTP_STATUS_MAP: the reason phrases of the statuses that are used here.
HttpStatusToString(s) ==
    CASE s = 200 -> <<"x">>
      [] s = 302 -> <<"l">>
      [] s = 404 -> <<"x", "SP", "l">>
      [] OTHER   -> <<"(">>

--------------------------------------------------------------------------
(* MapType: keys that differ only in case are one key (CaseInsensitiveLess) *)

CaseFold(text) ==
    [i \in DOMAIN text |-> CASE text[i] = "A" -> "a" [] text[i] = "T" -> "t" [] OTHER -> text[i]]

EmptyMap == <<>>
setHeader(map, key, val)  == (CaseFold(key) :> val) @@ map
delHeader(map, key)       == [k \in DOMAIN map \ {CaseFold(key)} |-> map[k]]
getHeader(map, key, def)  == IF CaseFold(key) \in DOMAIN map THEN map[CaseFold(key)] ELSE def

DigitValue == [d \in {"0", "1", "2", "3", "4", "9"} |-> CHOOSE n \in 0..9 : ToString(n) = d]
IsDigits(t) == t # <<>> /\ \A i \in DOMAIN t : t[i] \in DOMAIN DigitValue
Decimal(t)  == FoldLeft(LAMBDA n, d : 10 * n + DigitValue[d], 0, t)

\* A number below 1000 in decimal, without leading zeros.
Digits(n) ==
    LET all == <<n \div 100, (n \div 10) % 10, n % 10>>
        skip == IF n < 10 THEN 2 ELSE IF n < 100 THEN 1 ELSE 0
    IN  [i \in 1..(3 - skip) |-> ToString(all[i + skip])]

\* getAs<uint64_t>: lexical_cast takes a sign and wraps, which the caller's int64_t undoes;
\* a missing key or a text that is not a number gives the default.
getAs(map, key, def) ==
    LET t == getHeader(map, key, <<>>) IN
    CASE IsDigits(t)                                 -> Decimal(t)
      [] t # <<>> /\ t[1] = "-" /\ IsDigits(Tail(t)) -> 0 - Decimal(Tail(t))
      [] OTHER                                       -> def

--------------------------------------------------------------------------
ContentLength == <<"c", "t">>
Connection    == <<"c", "n">>
Close         == <<"c", "l">>
KeepAlive     == <<"k", "a">>

HttpRequest ==
    [method |-> "GET", version |-> 17, path |-> <<"/">>, query |-> <<>>, fragment |-> <<>>,
     headers |-> EmptyMap, body |-> <<>>, close |-> TRUE]

\* HttpRequest::init: a connection header decides; without one m_close stays as constructed.
init(req) ==
    LET conn == getHeader(req.headers, Connection, <<>>) IN
    IF conn = <<>> THEN req ELSE [req EXCEPT !.close = (CaseFold(conn) # KeepAlive)]

HttpResponse(version, close) ==
    [version |-> version, status |-> 200, reason |-> <<>>, close |-> close,
     headers |-> EmptyMap, cookies |-> <<>>, body |-> <<>>]

setRedirect(rsp, uri) == [rsp EXCEPT !.status = 302, !.headers = setHeader(@, <<"l">>, uri)]
setCookie(rsp, text)  == [rsp EXCEPT !.cookies = Append(@, text)]

--------------------------------------------------------------------------
(* The text of a message. *)
CRLF == <<"CR", "LF">>

Line(key, val) == key \o <<":", "SP">> \o val \o CRLF
Lines(map)     == FoldLeft(LAMBDA t, k : t \o Line(k, map[k]), <<>>,
                           SetToSeq(DOMAIN map \ {Connection}))
ConnectionLine(close) == Line(Connection, IF close THEN Close ELSE KeepAlive)

\* The content-length line is written from the body, whatever the headers say.
BodyText(body) ==
    IF body = <<>> THEN CRLF ELSE Line(ContentLength, Digits(Len(body))) \o CRLF \o body

dumpRequest(req) ==
    HttpMethodToString(req.method) \o <<"SP">> \o req.path
      \o (IF req.query = <<>> THEN <<>> ELSE <<"?">>) \o req.query
      \o (IF req.fragment = <<>> THEN <<>> ELSE <<"#">>) \o req.fragment
      \o <<"SP", "H", "T", "T", "P", "/">> \o Digits(req.version \div 16) \o <<".">>
      \o Digits(req.version % 16) \o CRLF
      \o ConnectionLine(req.close) \o Lines(req.headers) \o BodyText(req.body)

\* Mutant: without a reason of its own the line is not ended.
StatusLineUnended(rsp) ==
    <<"H", "/", "1", ".">> \o Digits(rsp.version % 16) \o <<"SP">> \o Digits(rsp.status) \o <<"SP">>
      \o (IF rsp.reason = <<>> THEN HttpStatusToString(rsp.status) ELSE rsp.reason \o CRLF)

StatusLine(rsp) ==
    <<"H", "/">> \o Digits(rsp.version \div 16) \o <<".">> \o Digits(rsp.version % 16) \o <<"SP">>
      \o Digits(rsp.status) \o <<"SP">>
      \o (IF rsp.reason = <<>> THEN HttpStatusToString(rsp.status) ELSE rsp.reason) \o CRLF

dumpResponse(rsp) ==
    StatusLine(rsp) \o Lines(rsp.headers)
      \o FlattenSeq([i \in DOMAIN rsp.cookies |-> Line(<<"x", "k">>, rsp.cookies[i])])
      \o ConnectionLine(rsp.close) \o BodyText(rsp.body)
=============================================================================
