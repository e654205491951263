-------------------------- MODULE MCNanoPayClaimer --------------------------
(* NanoPayClaimer for TLC. *)
EXTENDS NanoPayClaimer, TLC

CONSTANTS MaxAmount, Expirations

AllTxns ==
  [id : Ids, amount : 1..MaxAmount, expiration : Expirations]
Symmetric == Permutations(Claimers) \cup Permutations(Ids)
=============================================================================
