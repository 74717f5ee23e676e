----------------------------- MODULE HttpParser -----------------------------
(***************************************************************************)
(* HttpRequestParser and HttpResponseParser (src/dwframe/http/             *)
(* http_parser.cc): the generated automata run over a buffer, with the     *)
(* callbacks that fill in the message.  Offsets count from 0 as in the     *)
(* code; a token is the text from an offset up to the current character.   *)
(***************************************************************************)
EXTENDS Http11Parser, HttpMessages

Rs == INSTANCE HttpClientParser

Token0(buf, from, p) == SubSeq(buf, from + 1, p)

HttpRequestParser ==
    [cs |-> S("start"), mark |-> 0, fs |-> 0, fl |-> 0, qs |-> 0, p |-> 0,
     data |-> HttpRequest, m_error |-> 0, threw |-> FALSE]

--------------------------------------------------------------------------
(* The callbacks of the request parser: q after reading the character at   *)
(* offset q.p of buf.  std::string(at, length) with a length below zero    *)
(* throws: query_start is the one offset that execute does not reset.      *)

on_request_method(q, buf) ==
    LET m == CharsToHttpMethod(Token0(buf, q.mark, q.p)) IN
    IF m = "INVALID_METHOD" THEN [q EXCEPT !.m_error = 1000]
                            ELSE [q EXCEPT !.data.method = m]

on_request_path(q, buf)     == [q EXCEPT !.data.path = Token0(buf, q.mark, q.p)]
on_request_fragment(q, buf) == [q EXCEPT !.data.fragment = Token0(buf, q.mark, q.p)]

on_request_query(q, buf) ==
    IF q.qs > q.p THEN [q EXCEPT !.threw = TRUE]
                  ELSE [q EXCEPT !.data.query = Token0(buf, q.qs, q.p)]

\* strncmp(at, "HTTP/1.1", length) compares length characters: none, if length is 0.
on_request_version(q, buf) ==
    LET t == Token0(buf, q.mark, q.p) IN
    CASE IsPrefix(t, Word \o <<"1">>) -> [q EXCEPT !.data.version = 17]
      [] IsPrefix(t, Word \o <<"0">>) -> [q EXCEPT !.data.version = 16]
      [] OTHER                        -> [q EXCEPT !.m_error = 1001]

on_request_http_field(q, buf) ==
    IF q.fl = 0 THEN q
    ELSE [q EXCEPT !.data.headers =
                       setHeader(@, SubSeq(buf, q.fs + 1, q.fs + q.fl), Token0(buf, q.mark, q.p))]

--------------------------------------------------------------------------
\* One character: the offsets the transition sets, then its callbacks in order.
MarkAll(q, acts) ==
    [q EXCEPT !.mark = IF "mark" \in acts THEN q.p ELSE @,
              !.fs   = IF "field_start" \in acts THEN q.p ELSE @,
              !.qs   = IF "query_start" \in acts THEN q.p ELSE @,
              !.fl   = IF "field_len" \in acts THEN q.p - q.fs ELSE @]

Call(q, a, buf) ==
    CASE a = "method"   -> on_request_method(q, buf)
      [] a = "path"     -> on_request_path(q, buf)
      [] a = "query"    -> on_request_query(q, buf)
      [] a = "fragment" -> on_request_fragment(q, buf)
      [] a = "version"  -> on_request_version(q, buf)
      [] a = "field"    -> on_request_http_field(q, buf)

RequestCalls == <<"method", "path", "query", "fragment", "version", "field">>

RequestStep(q, d, buf) ==
    LET r == FoldLeft(LAMBDA x, a : Call(x, a, buf), MarkAll(q, d.acts),
                      SelectSeq(RequestCalls, LAMBDA a : a \in d.acts))
    IN  [r EXCEPT !.cs = d.to, !.p = IF At(d.to) = "error" THEN @ ELSE @ + 1]

Halted(q) == q.threw \/ At(q.cs) \in {"error", "final"}

\* The parser after the rest of buf.  Singleton sets make TLC evaluate each step once.
RECURSIVE RunRequest(_, _)
RunRequest(Q, buf) ==
    UNION {IF Halted(q) \/ q.p = Len(buf) THEN {q}
           ELSE RunRequest({RequestStep(q, d, buf) : d \in {Delta(q.cs, buf[q.p + 1])}}, buf) : q \in Q}

\* http_parser_execute from offset 0: every offset but query_start starts at 0 again.
http_parser_execute(q, buf) ==
    CHOOSE r \in RunRequest({[q EXCEPT !.mark = 0, !.fs = 0, !.fl = 0, !.p = 0]}, buf) : TRUE

hasError(q)         == q.m_error # 0 \/ At(q.cs) = "error"
isFinished(q)       == At(q.cs) = "final"
getContentLength(q) == getAs(q.data.headers, ContentLength, 0)

--------------------------------------------------------------------------
(* The response parser, run over a whole response as the server writes it: *)
(* a status line, never the header of a chunk.                             *)

HttpResponseParser ==
    [cs |-> Rs!S("start"), mark |-> 0, fs |-> 0, fl |-> 0, p |-> 0,
     close |-> FALSE, chunked |-> FALSE, content_len |-> 0 - 1, m_error |-> 0,
     version |-> 17, status |-> 200, reason |-> <<>>, headers |-> EmptyMap]

HttpWord == <<"H", "/", "1", ".">>

on_response_version(q, t) ==
    CASE IsPrefix(t, HttpWord \o <<"1">>) -> [q EXCEPT !.version = 17]
      [] IsPrefix(t, HttpWord \o <<"0">>) -> [q EXCEPT !.version = 16]
      [] OTHER                            -> [q EXCEPT !.m_error = 1001]

on_response_http_field(q, buf, t) ==
    IF q.fl = 0 THEN q
    ELSE [q EXCEPT !.headers = setHeader(@, SubSeq(buf, q.fs + 1, q.fs + q.fl), t)]

ResponseCall(q, a, buf) ==
    LET t == Token0(buf, q.mark, q.p) IN
    CASE a = "version"     -> on_response_version(q, t)
      [] a = "status"      -> [q EXCEPT !.status = Decimal(t)]
      [] a = "reason"      -> [q EXCEPT !.reason = t]
      [] a = "field"       -> on_response_http_field(q, buf, t)
      [] a = "close"       -> [q EXCEPT !.close = TRUE]
      [] a = "chunked"     -> [q EXCEPT !.chunked = TRUE]
      [] a = "content_len" -> [q EXCEPT !.content_len = Decimal(t)]

ResponseCalls == <<"version", "status", "reason", "close", "field", "chunked", "content_len">>

ResponseStep(q, d, buf) ==
    LET m == [q EXCEPT !.mark = IF "mark" \in d.acts THEN q.p ELSE @,
                       !.fs   = IF "field_start" \in d.acts THEN q.p ELSE @,
                       !.fl   = IF "field_len" \in d.acts THEN q.p - q.fs ELSE @]
        r == FoldLeft(LAMBDA x, a : ResponseCall(x, a, buf), m,
                      SelectSeq(ResponseCalls, LAMBDA a : a \in d.acts))
    IN  [r EXCEPT !.cs = d.to, !.p = IF Rs!At(d.to) = "error" THEN @ ELSE @ + 1]

RECURSIVE RunResponse(_, _)
RunResponse(Q, buf) ==
    UNION {IF Rs!At(q.cs) \in {"error", "final"} \/ q.p = Len(buf) THEN {q}
           ELSE RunResponse({ResponseStep(q, d, buf) : d \in {Rs!Delta(q.cs, buf[q.p + 1])}}, buf) : q \in Q}

httpclient_parser_execute(buf) == CHOOSE r \in RunResponse({HttpResponseParser}, buf) : TRUE

\* httpclient_parser_is_finished compares with the first final state only.
responseIsFinished(q) == q.cs = Rs!S("final")
=============================================================================
