------------------------------ MODULE MCClient ------------------------------
(* Client for TLC: the connection slots are interchangeable. *)
EXTENDS Client, TLC

Slots == Permutations(Conns)
=============================================================================
