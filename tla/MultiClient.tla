---------------------------- MODULE MultiClient -----------------------------
(***************************************************************************)
(* multiclient.go: NewMultiClient, its goroutines that create and serve    *)
(* the sub-clients, the merging of what they receive, and Close.           *)
(*                                                                         *)
(* The critical sections of m.lock here are short and take no other lock   *)
(* but a client's, so each is one step (Close also takes sessionLock:      *)
(* module Sessions).  Sub-clients are known by what Client promises: one   *)
(* is created or not, gets messages, and may close itself.  Behaviours are *)
(* shorter than MsgCacheExpiration.                                        *)
(***************************************************************************)
EXTENDS Integers

CONSTANTS
  Idx,    \* the indices of the sub-clients; -1 is the original client
  NoIdx,  \* no sub-client: a nil *Client
  Msgs,   \* message ids
  NoMsg

ASSUME MultiClientAssumption ==
  /\ Idx \subseteq Int
  /\ NoIdx \notin Idx
  /\ NoMsg \notin Msgs

VARIABLES
  client,         \* the sub-clients: not there yet, failed, open or closed
  clients,        \* the keys of m.clients
  defaultClient,  \* the key of m.defaultClient
  wg,             \* the goroutines that did not call wg.Done yet
  success, fail,  \* the two channels of NewMultiClient are full
  createDone,
  result,         \* what NewMultiClient returned
  isClosed,       \* m.isClosed, and: m's channels and m.onClose are closed
  msgCache,
  OnConnect,      \* m.OnConnect has an event
  emitted,        \* how often m.OnMessage.receive was called for a message
  arrived,        \* the messages each sub-client got
  inbox,          \* those in its OnMessage channel
  msg,            \* the message its receive loop works on
  pc,             \* the goroutine that creates it and is then its receive loop
  connPc,         \* its OnConnect loop
  waiter,         \* the goroutine at wg.Wait
  toClose,        \* the linger timer: not started, or the clients left to close
  panicked        \* a send on the closed m.OnMessageEvent

vars == <<client, clients, defaultClient, wg, success, fail, createDone, result,
          isClosed, msgCache, OnConnect, emitted, arrived, inbox, msg,
          pc, connPc, waiter, toClose, panicked>>

Init ==
  /\ client = [i \in Idx |-> "creating"]
  /\ clients = {}
  /\ defaultClient = NoIdx
  /\ wg = Idx
  /\ success = FALSE /\ fail = FALSE
  /\ createDone = FALSE
  /\ result = "pending"
  /\ isClosed = FALSE
  /\ msgCache = {}
  /\ OnConnect = FALSE
  /\ emitted = [m \in Msgs |-> 0]
  /\ arrived = [i \in Idx |-> {}]
  /\ inbox = [i \in Idx |-> {}]
  /\ msg = [i \in Idx |-> NoMsg]
  /\ pc = [i \in Idx |-> "create"]
  /\ connPc = [i \in Idx |-> "none"]
  /\ waiter = "wait"
  /\ toClose = [timer |-> "off", left |-> {}]
  /\ panicked = FALSE

creation == <<clients, defaultClient, wg, success, fail, createDone, result, waiter>>
traffic  == <<msgCache, OnConnect, emitted, arrived, inbox, msg>>
closing  == <<isClosed, toClose, panicked>>

Goto(i, from, to) == pc[i] = from /\ pc' = [pc EXCEPT ![i] = to]

-----------------------------------------------------------------------------
(* The goroutine that creates sub-client i. *)

(* Mutant: wg.Done before the sub-client is registered. *)
NewClientDoneFirst(i) ==
  /\ Goto(i, "create", "register")
  /\ client' = [client EXCEPT ![i] = "open"]
  /\ wg' = wg \ {i}
  /\ UNCHANGED <<clients, defaultClient, success, fail, createDone, result,
                 waiter, traffic, closing, connPc>>

NewClient(i) ==
  /\ Goto(i, "create", "register")
  /\ client' = [client EXCEPT ![i] = "open"]
  /\ UNCHANGED <<creation, traffic, closing, connPc>>

NewClientFails(i) ==
  /\ Goto(i, "create", "done")
  /\ client' = [client EXCEPT ![i] = "error"]
  /\ connPc' = [connPc EXCEPT ![i] = "done"]
  /\ wg' = wg \ {i}
  /\ UNCHANGED <<clients, defaultClient, success, fail, createDone, result,
                 waiter, traffic, closing>>

(* Mutant: the first sub-client that is created stays the default. *)
FirstSoFar(i) == defaultClient = NoIdx

(* defaultClientIdx is the index of the default client, or larger than all. *)
SmallestSoFar(i) == defaultClient = NoIdx \/ i < defaultClient

(* Mutant: whether the multiclient was closed meanwhile is not looked at. *)
RegisterUnchecked(i) ==
  /\ Goto(i, "register", "success")
  /\ clients' = clients \cup {i}
  /\ defaultClient' = IF SmallestSoFar(i) THEN i ELSE defaultClient
  /\ UNCHANGED <<client, wg, connPc, success, fail, createDone, result, waiter,
                 traffic, closing>>

(* Under m.lock.  A multiclient that was closed meanwhile has no use for   *)
(* the sub-client.                                                         *)
Register(i) ==
  /\ IF isClosed
       THEN /\ Goto(i, "register", "done")
            /\ client' = [client EXCEPT ![i] = "closed"]
            /\ connPc' = [connPc EXCEPT ![i] = "done"]
            /\ wg' = wg \ {i}
            /\ UNCHANGED <<clients, defaultClient>>
       ELSE /\ Goto(i, "register", "success")
            /\ clients' = clients \cup {i}
            /\ defaultClient' = IF SmallestSoFar(i) THEN i ELSE defaultClient
            /\ UNCHANGED <<client, wg, connPc>>
  /\ UNCHANGED <<success, fail, createDone, result, waiter, traffic, closing>>

SendSuccess(i) ==
  /\ Goto(i, "success", "wgDone")
  /\ success' = TRUE
  /\ UNCHANGED <<client, clients, defaultClient, wg, fail, createDone, result,
                 waiter, traffic, closing, connPc>>

(* wg.Done; the OnConnect loop is started. *)
StartLoops(i) ==
  /\ Goto(i, "wgDone", "select")
  /\ wg' = wg \ {i}
  /\ connPc' = [connPc EXCEPT ![i] = "select"]
  /\ UNCHANGED <<client, clients, defaultClient, success, fail, createDone,
                 result, waiter, traffic, closing>>

Create(i) ==
  NewClient(i) \/ NewClientFails(i) \/ Register(i) \/ SendSuccess(i) \/ StartLoops(i)

(* The goroutine at wg.Wait. *)
CreateDone ==
  /\ waiter = "wait" /\ wg = {}
  /\ createDone' = TRUE
  /\ waiter' = "fail"
  /\ UNCHANGED <<client, clients, defaultClient, wg, success, fail, result,
                 traffic, closing, pc, connPc>>

SendFail ==
  /\ waiter = "fail"
  /\ fail' = TRUE
  /\ waiter' = "done"
  /\ UNCHANGED <<client, clients, defaultClient, wg, success, createDone, result,
                 traffic, closing, pc, connPc>>

(* The select at the end of NewMultiClient; if both channels are ready it  *)
(* takes either.                                                           *)
Return ==
  /\ result = "pending"
  /\ \/ success /\ result' = "client" /\ success' = FALSE /\ UNCHANGED fail
     \/ fail /\ result' = "error" /\ fail' = FALSE /\ UNCHANGED success
  /\ UNCHANGED <<client, clients, defaultClient, wg, createDone, waiter, traffic,
                 closing, pc, connPc>>

-----------------------------------------------------------------------------
(* The sub-clients, as the receive loops see them. *)

(* A message arrives at sub-client i. *)
Arrive(i, m) ==
  /\ client[i] = "open"
  /\ m \notin arrived[i]
  /\ arrived' = [arrived EXCEPT ![i] = @ \cup {m}]
  /\ inbox' = [inbox EXCEPT ![i] = @ \cup {m}]
  /\ UNCHANGED <<client, creation, closing, msgCache, OnConnect, emitted, msg, pc, connPc>>

(* Its node refuses it: the sub-client closes itself. *)
ClosesItself(i) ==
  /\ client[i] = "open"
  /\ client' = [client EXCEPT ![i] = "closed"]
  /\ UNCHANGED <<creation, traffic, closing, pc, connPc>>

-----------------------------------------------------------------------------
(* The receive loop of sub-client i. *)

(* The next message, and m.OnMessageEvent.receive without m.lock: a send   *)
(* on a closed channel if Close came first.                                *)
Receive(i) ==
  /\ Goto(i, "select", "get")
  /\ \E m \in inbox[i] :
       /\ msg' = [msg EXCEPT ![i] = m]
       /\ inbox' = [inbox EXCEPT ![i] = @ \ {m}]
  /\ panicked' = isClosed
  /\ UNCHANGED <<client, creation, isClosed, toClose, msgCache, OnConnect, emitted,
                 arrived, connPc>>

(* continue with the next message if this one is known. *)
CacheGet(i) ==
  /\ Goto(i, "get", IF msg[i] \in msgCache THEN "select" ELSE "set")
  /\ msg' = [msg EXCEPT ![i] = IF @ \in msgCache THEN NoMsg ELSE @]
  /\ UNCHANGED <<client, creation, closing, msgCache, OnConnect, emitted, arrived,
                 inbox, connPc>>

(* Mutant: the message is marked and then not handed over. *)
CacheSetContinues(i) ==
  /\ Goto(i, "set", "select")
  /\ msgCache' = msgCache \cup {msg[i]}
  /\ UNCHANGED <<client, creation, closing, OnConnect, emitted, arrived, inbox, msg, connPc>>

CacheSet(i) ==
  /\ Goto(i, "set", "emit")
  /\ msgCache' = msgCache \cup {msg[i]}
  /\ UNCHANGED <<client, creation, closing, OnConnect, emitted, arrived, inbox, msg, connPc>>

(* Under m.lock.  (receive discards the message if the channel is full.) *)
EmitMessage(i) ==
  /\ Goto(i, "emit", IF isClosed THEN "done" ELSE "select")
  /\ emitted' = IF isClosed THEN emitted ELSE [emitted EXCEPT ![msg[i]] = @ + 1]
  /\ msg' = [msg EXCEPT ![i] = NoMsg]
  /\ UNCHANGED <<client, creation, closing, msgCache, OnConnect, arrived, inbox, connPc>>

(* Mutant: the closed channel's nil is taken for a message. *)
ReceiveEndsUnchecked(i) ==
  \/ /\ isClosed
     /\ Goto(i, "select", "done")
     /\ UNCHANGED <<client, creation, traffic, closing, connPc>>
  \/ /\ client[i] = "closed" /\ inbox[i] = {}
     /\ Goto(i, "select", "get")
     /\ UNCHANGED <<client, creation, traffic, closing, connPc>>

(* m.onClose, or the drained channel of a closed sub-client. *)
ReceiveEnds(i) ==
  /\ isClosed \/ (client[i] = "closed" /\ inbox[i] = {})
  /\ Goto(i, "select", "done")
  /\ UNCHANGED <<client, creation, traffic, closing, connPc>>

ReceiveLoop(i) ==
  Receive(i) \/ CacheGet(i) \/ CacheSet(i) \/ EmitMessage(i) \/ ReceiveEnds(i)

(* The OnConnect loop of sub-client i, whose channel may have an event.    *)
(* m.OnConnect holds one; receive discards the others.                     *)
ForwardConnect(i) ==
  /\ connPc[i] = "select"
  /\ connPc' = [connPc EXCEPT ![i] = IF isClosed THEN "done" ELSE "select"]
  /\ OnConnect' = (OnConnect \/ ~isClosed)
  /\ UNCHANGED <<client, creation, closing, msgCache, emitted, arrived, inbox,
                 msg, pc>>

ConnectEnds(i) ==
  /\ connPc[i] = "select"
  /\ isClosed \/ client[i] = "closed"
  /\ connPc' = [connPc EXCEPT ![i] = "done"]
  /\ UNCHANGED <<client, creation, traffic, closing, pc>>

ConnectLoop(i) == ForwardConnect(i) \/ ConnectEnds(i)

-----------------------------------------------------------------------------
(* Close, by the application that got the multiclient. *)
Close ==
  /\ result = "client" /\ ~isClosed
  /\ isClosed' = TRUE
  /\ toClose' = [timer |-> "armed", left |-> {}]
  /\ UNCHANGED <<client, creation, traffic, panicked, pc, connPc>>

(* After the linger time: GetClients, then each client's Close. *)
LingerEnds ==
  /\ toClose.timer = "armed"
  /\ toClose' = [timer |-> "fired", left |-> clients]
  /\ UNCHANGED <<client, creation, traffic, isClosed, panicked, pc, connPc>>

CloseClient(i) ==
  /\ i \in toClose.left
  /\ toClose' = [toClose EXCEPT !.left = @ \ {i}]
  /\ client' = [client EXCEPT ![i] = "closed"]
  /\ UNCHANGED <<creation, traffic, isClosed, panicked, pc, connPc>>

Linger == LingerEnds \/ \E i \in Idx : CloseClient(i)

-----------------------------------------------------------------------------
SubNext(i) ==
  \/ Create(i) \/ ReceiveLoop(i) \/ ConnectLoop(i)
  \/ \E m \in Msgs : Arrive(i, m)
  \/ ClosesItself(i)

Next ==
  /\ ~panicked
  /\ \/ \E i \in Idx : SubNext(i)
     \/ CreateDone \/ SendFail \/ Return
     \/ Close \/ Linger

Spec == Init /\ [][Next]_vars

(* The goroutines and the timer go on, and NewClient returns (its retries  *)
(* are limited and every attempt has a timeout).  Nothing is assumed of    *)
(* the network and of the application.                                     *)
FairSpec ==
  /\ Spec
  /\ \A i \in Idx : /\ WF_vars(~panicked /\ Create(i))
                    /\ WF_vars(~panicked /\ ReceiveLoop(i))
                    /\ WF_vars(~panicked /\ ConnectLoop(i))
  /\ WF_vars(~panicked /\ (CreateDone \/ SendFail \/ Return))
  /\ WF_vars(~panicked /\ Linger)

-----------------------------------------------------------------------------
(* Properties. *)

(* The fields and the goroutines' locals keep their types; a receive loop  *)
(* that handles a message has one.                                         *)
TypeOK ==
  /\ client \in [Idx -> {"creating", "error", "open", "closed"}]
  /\ clients \subseteq Idx
  /\ defaultClient \in Idx \cup {NoIdx}
  /\ wg \subseteq Idx
  /\ success \in BOOLEAN /\ fail \in BOOLEAN
  /\ createDone \in BOOLEAN
  /\ result \in {"pending", "client", "error"}
  /\ isClosed \in BOOLEAN
  /\ msgCache \subseteq Msgs
  /\ OnConnect \in BOOLEAN
  /\ emitted \in [Msgs -> Nat]
  /\ arrived \in [Idx -> SUBSET Msgs]
  /\ inbox \in [Idx -> SUBSET Msgs]
  /\ msg \in [Idx -> Msgs \cup {NoMsg}]
  /\ pc \in [Idx -> {"create", "register", "success", "wgDone", "select",
                     "get", "set", "emit", "done"}]
  /\ \A i \in Idx : pc[i] \in {"get", "set", "emit"} => msg[i] \in Msgs
  /\ connPc \in [Idx -> {"none", "select", "done"}]
  /\ waiter \in {"wait", "fail", "done"}
  /\ toClose \in [timer : {"off", "armed", "fired"}, left : SUBSET Idx]
  /\ panicked \in BOOLEAN

(* GetDefaultClient "returns the default client, which is the client with  *)
(* the smallest index", in whatever order the sub-clients are created; and *)
(* a multiclient that was returned has one, so that Address, Seed and the  *)
(* RPC methods find it.                                                    *)
DefaultSmallest ==
  /\ defaultClient = NoIdx => clients = {} /\ result # "client"
  /\ defaultClient # NoIdx =>
       defaultClient \in clients /\ \A i \in clients : defaultClient <= i

(* GetClients hands out m.clients itself once createDone is set, and its   *)
(* callers range over it without m.lock: it is never written again.        *)
ClientsFrozen == [][createDone => clients' = clients]_vars

(* A message that the other receive loops skip as a duplicate was handed   *)
(* to OnMessage, or is about to be by the loop that marked it, unless the  *)
(* multiclient is closed.                                                  *)
Working(i, m) == pc[i] = "emit" /\ msg[i] = m
DedupLosesNothing ==
  \A m \in msgCache :
    emitted[m] > 0 \/ isClosed \/ \E i \in Idx : Working(i, m)

(* The inductive invariant behind these.  Before its wg.Done a goroutine   *)
(* is counted, and createDone comes after all of them; success is sent     *)
(* only after a sub-client was registered.                                 *)
BeforeDone == {"create", "register", "success", "wgDone"}
WgCounts ==
  /\ \A i \in Idx : pc[i] \in BeforeDone => i \in wg
  /\ createDone => wg = {}

SuccessMeans ==
  success \/ result = "client" \/ (\E i \in Idx : pc[i] = "success") => clients # {}

DefaultInClients ==
  /\ defaultClient = NoIdx => clients = {}
  /\ defaultClient # NoIdx =>
       defaultClient \in clients /\ \A i \in clients : defaultClient <= i

IndInv ==
  TypeOK /\ WgCounts /\ SuccessMeans /\ DefaultInClients /\ DedupLosesNothing

(* Close "closes the multiclient, including all clients it created": also  *)
(* the sub-clients that are created only after Close, and all goroutines   *)
(* end.                                                                    *)
CloseClosesClients ==
  isClosed ~> \/ panicked
              \/ \A i \in Idx : /\ client[i] \in {"error", "closed"}
                                /\ pc[i] = "done" /\ connPc[i] = "done"
=============================================================================
