--------------------------- MODULE MCTransactions ---------------------------
(* Transactions for TLC. *)
EXTENDS Transactions, TLC

CONSTANTS c1, m1, w1, s1, s2

(* The client's node is s1; the multiclient may also reach s2. *)
MCNodes == (c1 :> {s1}) @@ (m1 :> {s1, s2})

(* Two transactions of the client in a row beside one of the wallet, two   *)
(* of the multiclient, and one each of the client and of the multiclient.  *)
MCWorkloads ==
  {(c1 :> 2) @@ (w1 :> 1) @@ (m1 :> 0), (c1 :> 0) @@ (w1 :> 0) @@ (m1 :> 2),
   (c1 :> 1) @@ (w1 :> 0) @@ (m1 :> 1)}
=============================================================================
