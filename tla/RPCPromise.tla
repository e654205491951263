----------------------------- MODULE RPCPromise -----------------------------
(***************************************************************************)
(* What RPCCall of rpc.go promises its callers, whatever the number of     *)
(* goroutines: the request goes to servers of the list, and the call ends  *)
(* once, with the answer of one of them, with errCodeNetworkError after    *)
(* all were tried, or because the caller gave up.  A server may handle a   *)
(* request long after the call has returned.                               *)
(***************************************************************************)
EXTENDS Integers

CONSTANT Servers   \* the positions of the list of server addresses

(* What a server makes of a request: "ok" is a result, with all its fields *)
(* or only some or none, "error" an error object, "partial" a result with  *)
(* fields of other types, "bad" something that is not JSON, "null" a body  *)
(* that is null.                                                           *)
Answers == {"ok", "error", "partial", "bad", "null"}

Success == {"ok"}

VARIABLES
  tried,     \* the servers the request was given to a goroutine for
  answer,    \* what the servers made of it
  canceled,  \* parentCtx
  outcome,   \* how the call ended
  source     \* the server whose answer ended it, 0 if none did

promised == <<tried, answer, canceled, outcome, source>>

PInit ==
  /\ tried = {}
  /\ answer = [s \in Servers |-> "none"]
  /\ canceled = FALSE
  /\ outcome = "pending"
  /\ source = 0

PTry(s) ==
  /\ outcome = "pending"
  /\ tried' = tried \cup {s}
  /\ UNCHANGED <<answer, canceled, outcome, source>>

PServe(s, a) ==
  /\ s \in tried
  /\ answer[s] = "none"
  /\ answer' = [answer EXCEPT ![s] = a]
  /\ UNCHANGED <<tried, canceled, outcome, source>>

PCancel ==
  /\ outcome = "pending"
  /\ canceled' = TRUE
  /\ UNCHANGED <<tried, answer, outcome, source>>

PReturn(o, s) ==
  /\ outcome = "pending"
  /\ \/ o = "ok" /\ s \in tried /\ answer[s] \in Success /\ ~canceled
     \/ o = "error" /\ s \in tried /\ answer[s] = "error" /\ ~canceled
     \/ o = "network" /\ s = 0 /\ tried = Servers /\ ~canceled
     \/ o = "canceled" /\ s = 0 /\ canceled
  /\ outcome' = o
  /\ source' = s
  /\ UNCHANGED <<tried, answer, canceled>>

PNext ==
  \/ \E s \in Servers : PTry(s)
  \/ \E s \in Servers, a \in Answers : PServe(s, a)
  \/ PCancel
  \/ \E o \in {"ok", "error", "network", "canceled"}, s \in Servers \cup {0} :
        PReturn(o, s)

PSpec == PInit /\ [][PNext]_promised
=============================================================================
