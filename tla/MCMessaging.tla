---------------------------- MODULE MCMessaging -----------------------------
(* Messaging for TLC. *)
EXTENDS Messaging

(* Never connected; an hour, after more reconnects than are counted. *)
MCStats ==
  {NoStats,
   [connectTime |-> 1, hours |-> 1, reconnects |-> 6, failures |-> 0]}

MCLines == {-1, 0}
=============================================================================
