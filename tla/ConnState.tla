----------------------------- MODULE ConnState ------------------------------
(***************************************************************************)
(* What a client's connection looks like from outside, through             *)
(* MultiClient.GetAllSubConnStates: its state and, while it is connected,  *)
(* its node.                                                               *)
(***************************************************************************)
CONSTANTS Node, NoNode

VARIABLES state, nodeAddr

vars == <<state, nodeAddr>>

Init == state = "Connecting" /\ nodeAddr = NoNode

(* The node acknowledged the client. *)
Connect ==
  /\ state = "Connecting"
  /\ state' = "Connected"
  /\ nodeAddr' \in Node

(* The connection is given up; the client looks for another one. *)
Drop ==
  /\ state = "Connected"
  /\ state' = "Connecting"
  /\ nodeAddr' = NoNode

(* Close.  There is no way back. *)
Disconnect ==
  /\ state # "Disconnected"
  /\ state' = "Disconnected"
  /\ nodeAddr' = NoNode

Next == Connect \/ Drop \/ Disconnect

(* The node never changes under a connected client, and a closed client    *)
(* stays closed.                                                           *)
Spec == Init /\ [][Next]_vars
=============================================================================
