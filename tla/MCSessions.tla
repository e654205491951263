----------------------------- MODULE MCSessions -----------------------------
(* Sessions for TLC: the receive loops, and the sessions of the one remote *)
(* address, are interchangeable.                                           *)
EXTENDS Sessions, TLC

CONSTANT r1

AddrOf == [k \in RemoteKey |-> r1]

Symmetric == Permutations(Loops) \cup Permutations(RemoteKey)
=============================================================================
