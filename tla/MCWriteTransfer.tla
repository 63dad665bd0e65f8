--------------------------- MODULE MCWriteTransfer --------------------------
(* Items to put on the pasteboard: small ones, one of two representations   *)
(* of which the first takes two chunks, and one with an empty               *)
(* representation.                                                          *)
EXTENDS WriteTransfer

MCShapes == {<<>>, <<2, 1>>, <<0, 1>>}
=============================================================================
