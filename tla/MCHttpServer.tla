---------------------------- MODULE MCHttpServer ----------------------------
(* Requests written by HttpRequest::dump, one written by hand with bare    *)
(* line feeds and other cases, and two that must be refused.               *)
EXTENDS HttpServer

Written ==
    { [HttpRequest EXCEPT !.method = "UNBIND", !.version = 16, !.path = <<"/", "g">>,
                          !.query = <<"g", "=", "1">>, !.headers = <<"x">> :> <<"l", "a">>,
                          !.body = <<"g", "g">>, !.close = FALSE],
      [HttpRequest EXCEPT !.path = <<"/", "{">>, !.fragment = <<"c">>, !.close = FALSE] }

ByHand ==
    [text |-> <<"A", "H", "SP", "/", "SP", "H", "T", "T", "P", "/", "1", ".", "1", "LF",
                "c", "T", ":", "1", "LF", "c", "n", ":", "SP", "k", "A", "LF", "LF", "k">>,
     req  |-> [HttpRequest EXCEPT !.method = "BIND", !.body = <<"k">>, !.close = FALSE,
                                  !.headers = <<"c", "n">> :> <<"k", "A">>]]

MCMessages ==
    {[text |-> dumpRequest(r), req |-> r] : r \in Written}
      \cup {ByHand}
      \cup {[text |-> t, req |-> Malformed] :
               t \in { <<"A", "SP", "/", "SP">>, <<"T", "SP", "/", "?", "CTL">> }}

MCUris  == {<<"/">>}
MCGlobs == {<<"/", "*">>, <<"/", "g">>}
=============================================================================
