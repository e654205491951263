----------------------------- MODULE MCRPCCall ------------------------------
(* RPCCall for TLC. *)
EXTENDS RPCCall

MCServers == 1..NumServers

(* One goroutine, two, and none; without RPCGetHttpDialContext, as many    *)
(* goroutines as addresses, and fewer.                                     *)
MCConfigs ==
  {[conc |-> 1, dials |-> TRUE], [conc |-> 2, dials |-> TRUE],
   [conc |-> -1, dials |-> TRUE],
   [conc |-> 0, dials |-> FALSE], [conc |-> 1, dials |-> FALSE]}
=============================================================================
