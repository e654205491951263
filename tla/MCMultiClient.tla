--------------------------- MODULE MCMultiClient ----------------------------
(* MultiClient for TLC. *)
EXTENDS MultiClient

Indices == {-1, 0}
=============================================================================
