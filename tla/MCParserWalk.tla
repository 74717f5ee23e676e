---------------------------- MODULE MCParserWalk ----------------------------
(* Both parsers on the characters that lead to every modelled state.       *)
EXTENDS ParserWalk
=============================================================================
