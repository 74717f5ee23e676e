---------------------------- MODULE MCByteArray ----------------------------
(* Nodes of two bytes of three bits, so that every item crosses a node     *)
(* boundary somewhere; items with the least and greatest values; addresses *)
(* of eight groups as in the code.                                         *)
EXTENDS Conversions

MCItems == {<<"F1", 5>>, <<"F2", 10>>, <<"U", 31>>, <<"I", -16>>, <<"SF", <<>>>>, <<"SV", <<3, 7>>>>}
MCChunks == {<<>>, <<1, 2>>, <<6, 1, 4>>}
=============================================================================
