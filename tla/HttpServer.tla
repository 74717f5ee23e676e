----------------------------- MODULE HttpServer -----------------------------
(***************************************************************************)
(* One connection of HttpServer (src/dwframe/http/http_server.cc,          *)
(* http_session.cc, over stream.cc and socket_stream.cc): handleClient     *)
(* reads requests, dispatches them to a servlet and writes responses until *)
(* the connection ends.  The client may send ahead, its bytes arrive in    *)
(* any pieces, and it may close, or stop reading, at any time.             *)
(***************************************************************************)
EXTENDS HttpParser, ServletDispatch, FiniteSetsExt

CONSTANTS Messages,    \* what the client sends: records [text, req]
          BufSize,     \* GetHttpRequestBufferSize
          MaxOps       \* messages, registrations, and reads and writes of less than there is

VARIABLES m_isKeepalive,
          pc,          \* "recv", "body", "handle", "send" or "closed"
          parser,      \* recvRequest's parser
          body,        \* the part of the body that is there
          left,        \* the rest that readFixSize or writeFixSize has to do
          room,        \* the send buffer of the socket is not full
          wire,        \* bytes on their way to the server
          open,        \* the client's end is open
          sent,        \* history: the messages sent
          count,       \* the number of requests given to the dispatcher
          got,         \* the last of them, in a sequence that is empty before the first
          out,         \* the response that sendResponse writes, in a sequence, or empty
          ops,         \* how many of the things that MaxOps bounds have happened
          clean,       \* history: no read ended inside a token of a header
          dropped      \* history: bytes beyond a request went away with the buffer

connVars == <<m_isKeepalive, pc, parser, body, left, room, wire, open, sent, count, got, out,
              clean, dropped, uri_relaxed>>
vars == <<connVars, dispatchVars, ops>>

Malformed == [HttpRequest EXCEPT !.method = "INVALID_METHOD"]

InitConnection ==
    /\ m_isKeepalive \in BOOLEAN
    /\ pc = "recv"
    /\ parser = HttpRequestParser
    /\ uri_relaxed \in BOOLEAN
    /\ body = <<>> /\ left = 0 /\ room = TRUE
    /\ wire = <<>> /\ open = TRUE /\ sent = <<>>
    /\ count = 0 /\ got = <<>> /\ out = <<>>
    /\ clean = TRUE /\ dropped = FALSE

Init == InitConnection /\ InitDispatch /\ ops = 0

Another == ops < MaxOps /\ ops' = ops + 1

--------------------------------------------------------------------------
(* The client. *)

ClientSend(msg) ==
    /\ pc # "closed" /\ open
    /\ Another
    /\ wire' = wire \o msg.text
    /\ sent' = Append(sent, msg.req)
    /\ UNCHANGED <<m_isKeepalive, pc, parser, body, left, room, open, count, got, out, clean,
                   dropped, uri_relaxed, dispatchVars>>

ClientClose ==
    /\ pc # "closed" /\ open
    /\ open' = FALSE
    /\ UNCHANGED <<m_isKeepalive, pc, parser, body, left, room, wire, sent, count, got, out, clean,
                   dropped, uri_relaxed, dispatchVars, ops>>

\* The client reads what has filled the buffer, or never does.
ClientReads ==
    /\ pc # "closed" /\ open
    /\ ~room
    /\ room' = TRUE
    /\ UNCHANGED <<m_isKeepalive, pc, parser, body, left, wire, open, sent, count, got, out, clean,
                   dropped, uri_relaxed, dispatchVars, ops>>

--------------------------------------------------------------------------
(* recvRequest.  A read returns some of the bytes that have arrived. *)

Sizes(max) ==
    LET all == Min({max, Len(wire)}) IN
    {k \in 1..all : k = all \/ ops < MaxOps}

Rest(k)        == SubSeq(wire, k + 1, Len(wire))
Count(k, max)  == ops' = IF k = Min({max, Len(wire)}) THEN ops ELSE ops + 1

\* close() and no request: handleClient leaves its loop and closes once more.  What has
\* not been read is gone with the socket.
GiveUp ==
    /\ pc' = "closed"
    /\ parser' = HttpRequestParser
    /\ body' = <<>> /\ left' = 0
    /\ wire' = <<>>

\* Mutant: the beginning of the body is forgotten.
HeaderDoneForgets(q, rest) ==
    LET length == getContentLength(q)
        have   == IF length <= 0 THEN 0 ELSE Min({length, Len(rest)})
    IN  /\ body' = <<>>
        /\ left' = Max({length, 0}) - have
        /\ pc' = IF length > have THEN "body" ELSE "handle"
        /\ dropped' = (dropped \/ Len(rest) > have)

\* What is left of the buffer after the header is the beginning of the body; bytes beyond
\* the body are not kept for the next recvRequest.
HeaderDone(q, rest) ==
    LET length == getContentLength(q)
        have   == IF length <= 0 THEN 0 ELSE Min({length, Len(rest)})
        need   == IF length <= 0 THEN 0 ELSE length - have
    IN  /\ body' = SubSeq(rest, 1, have)
        /\ left' = need
        /\ dropped' = (dropped \/ Len(rest) > have)
        /\ pc' = IF need > 0 THEN "body" ELSE "handle"

\* The states in which a read may end without spoiling the request: none of the offsets
\* that http_parser_execute resets or keeps is in use.
Harmless == {S("version")} \cup
            {S(n) : n \in {"start", "target", "query0", "fragment0", "crlf", "header", "lastcr"}}

Read ==
    /\ pc = "recv"
    /\ \E k \in Sizes(BufSize) : \E q \in {http_parser_execute(parser, SubSeq(wire, 1, k))} :
         LET rest   == SubSeq(wire, q.p + 1, k)
             failed == q.threw \/ hasError(q) \/ Len(rest) = BufSize
         IN  /\ Count(k, BufSize)
             /\ \/ failed /\ GiveUp /\ UNCHANGED <<dropped, clean>>
                \/ /\ ~failed /\ isFinished(q)
                   /\ HeaderDone(q, rest)
                   /\ parser' = q
                   /\ wire' = Rest(k)
                   /\ UNCHANGED clean
                \/ /\ ~failed /\ ~isFinished(q)
                   /\ parser' = q
                   /\ wire' = Rest(k)
                   /\ clean' = (clean /\ q.cs \in Harmless)
                   /\ UNCHANGED <<pc, body, left, dropped>>
    /\ UNCHANGED <<m_isKeepalive, room, open, sent, count, got, out, uri_relaxed, dispatchVars>>

\* One read of readFixSize.
ReadBody ==
    /\ pc = "body"
    /\ \E k \in Sizes(left) :
         /\ Count(k, left)
         /\ wire' = Rest(k)
         /\ body' = body \o SubSeq(wire, 1, k)
         /\ left' = left - k
         /\ pc' = IF left = k THEN "handle" ELSE pc
    /\ UNCHANGED <<m_isKeepalive, parser, room, open, sent, count, got, out, clean, dropped,
                   uri_relaxed, dispatchVars>>

\* Mutant: a receive without a timeout.
ReadFailsAtEnd ==
    /\ pc \in {"recv", "body"}
    /\ wire = <<>> /\ ~open
    /\ GiveUp
    /\ UNCHANGED <<m_isKeepalive, room, open, sent, count, got, out, clean, dropped, uri_relaxed,
                   dispatchVars, ops>>

\* read returns 0 after the client has closed, or -1 when the receive timeout passes.
ReadFails ==
    /\ pc \in {"recv", "body"}
    /\ wire = <<>>
    /\ GiveUp
    /\ UNCHANGED <<m_isKeepalive, room, open, sent, count, got, out, clean, dropped, uri_relaxed,
                   dispatchVars, ops>>

--------------------------------------------------------------------------
(* handleClient with the request. *)

\* What a servlet does to the response; the ones that are not the framework's own write a
\* body with cookies, or redirect.
handle(slt, rsp) ==
    CASE slt = NotFound ->
             [rsp EXCEPT !.status = 404, !.body = <<"x", "(">>,
                         !.headers = setHeader(setHeader(@, <<"x">>, <<"x", "2">>),
                                               <<"c", "t", "x">>, <<"k">>)]
      [] slt = "page"  -> [setCookie(setCookie(rsp, <<"x">>), <<"l">>) EXCEPT !.body = <<"H">>]
      [] slt = "moved" -> setRedirect(rsp, <<"/", "x">>)

Response(req) ==
    LET rsp == HttpResponse(req.version, req.close \/ ~m_isKeepalive)
    IN  handle(getMatchedServlet(req.path), [rsp EXCEPT !.headers = setHeader(@, <<"x">>, <<"x">>)])

\* The dispatcher has the servlet answer, and sendResponse begins.
Handle ==
    /\ pc = "handle"
    /\ LET req == init([parser.data EXCEPT !.body = body]) IN
         /\ got' = <<req>>
         /\ count' = count + 1
         /\ out' = <<Response(req)>>
    /\ left' = Len(dumpResponse(Last(out')))
    /\ pc' = "send"
    /\ parser' = HttpRequestParser
    /\ uri_relaxed' \in BOOLEAN
    /\ body' = <<>>
    /\ UNCHANGED <<m_isKeepalive, room, wire, open, sent, clean, dropped, dispatchVars, ops>>

\* The result of sendResponse is not looked at: the loop goes on, or ends.
Sent ==
    /\ out' = <<>> /\ left' = 0
    /\ pc' = IF ~m_isKeepalive \/ Last(got).close THEN "closed" ELSE "recv"
    /\ wire' = IF pc' = "closed" THEN <<>> ELSE wire

\* One write of writeFixSize: of a part when that fills the buffer (all but a byte: how much is
\* left matters to nobody), else of all that is left, which may fill it too.  While the buffer
\* is full do_io waits, without a timeout.
Write ==
    /\ pc = "send" /\ room
    /\ \/ /\ Sent
          /\ room' \in BOOLEAN
          /\ UNCHANGED ops
       \/ /\ left > 1 /\ Another
          /\ left' = 1
          /\ room' = FALSE
          /\ UNCHANGED <<pc, wire, out>>
    /\ UNCHANGED <<m_isKeepalive, parser, body, open, sent, count, got, clean, dropped,
                   uri_relaxed, dispatchVars>>

\* The client is gone; or the buffer is full and do_io cannot wait, as addEvent fails.
WriteFails ==
    /\ pc = "send"
    /\ ~open \/ ~room
    /\ Sent
    /\ UNCHANGED <<m_isKeepalive, parser, body, room, open, sent, count, got, clean, dropped,
                   uri_relaxed, dispatchVars, ops>>

--------------------------------------------------------------------------
(* The application registers servlets while the server runs.  Until the    *)
(* request is dispatched this commutes with all the connection does.       *)
Admin ==
    /\ pc = "handle"
    /\ Another
    /\ Register
    /\ UNCHANGED connVars

Next ==
    \/ \E msg \in Messages : ClientSend(msg)
    \/ ClientClose
    \/ ClientReads
    \/ Read
    \/ ReadBody
    \/ ReadFails
    \/ Handle
    \/ Write
    \/ WriteFails
    \/ Admin

Spec == Init /\ [][Next]_vars

\* The fiber of the connection is scheduled, a receive that nothing answers times out, and
\* a send ends when there is room or the client is gone.  The client promises nothing.
FairSpec ==
    /\ Spec
    /\ WF_vars(Read) /\ WF_vars(ReadBody) /\ WF_vars(ReadFails)
    /\ WF_vars(Handle) /\ WF_vars(Write) /\ WF_vars(~open /\ WriteFails)

--------------------------------------------------------------------------

\* The headers the peer wrote are among those received.
SameRequest(a, b) ==
    /\ \A f \in {"method", "version", "path", "query", "fragment", "body", "close"} : a[f] = b[f]
    /\ \A k \in DOMAIN b.headers : getHeader(a.headers, k, <<>>) = b.headers[k]

\* What is dispatched is what was sent, in order and without a gap, however the bytes were
\* grouped, as long as no read ended inside a token and no message was sent ahead of the
\* answer: the body is joined from the buffer and from further reads (http_session.cc:47).
DeliveredAsSent ==
    clean /\ ~dropped =>
        \A i \in DOMAIN got : sent[count] # Malformed /\ SameRequest(got[i], sent[count])

\* Every response the server writes is read back by the repository's own response parser
\* as the same response, with its body left in the buffer.
RoundTrip ==
    out # <<>> =>
        LET rsp  == Last(out)
            text == dumpResponse(rsp)
            q    == httpclient_parser_execute(text)
        IN  /\ responseIsFinished(q) /\ q.m_error = 0
            /\ q.version = rsp.version /\ q.status = rsp.status /\ q.close = rsp.close
            /\ q.content_len = IF rsp.body = <<>> THEN 0 - 1 ELSE Len(rsp.body)
            /\ SubSeq(text, q.p + 1, Len(text)) = rsp.body
            /\ \A k \in DOMAIN rsp.headers : getHeader(q.headers, k, <<>>) = rsp.headers[k]

\* The client leaves a response unread that fills the buffer, and stays.
Unread == pc = "send" /\ ~room /\ open

\* handleClient ends: whatever the client sends or does not send, the connection is closed,
\* unless the client for ever leaves a response unread (only receives have a timeout).
ConnectionEnds == <>(pc = "closed") \/ <>[]Unread
=============================================================================
