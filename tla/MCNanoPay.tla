----------------------------- MODULE MCNanoPay ------------------------------
(* NanoPay for TLC. *)
EXTENDS NanoPay, TLC

Callers == Permutations(Payers)
=============================================================================
