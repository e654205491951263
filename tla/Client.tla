------------------------------- MODULE Client -------------------------------
(***************************************************************************)
(* The connection life cycle of one nkn.Client (client.go): NewClient,     *)
(* connect, connectToNode and the three goroutines it starts for every     *)
(* connection, the text half of handleMessage, Reconnect, handleReconnect, *)
(* writeMessage and Close.                                                 *)
(*                                                                         *)
(* Every goroutine is a member of Proc with a program counter in pc.  One  *)
(* step is one critical section of c.lock, one channel operation or one    *)
(* operation on a websocket; a step that takes c.lock also includes the    *)
(* lock-free code around it.  A call of IsClosed is made in the step       *)
(* before it if the client is closed by then; if not, the step after it    *)
(* covers both outcomes of the call when it finds the client closed: the   *)
(* caller saw it, or Close came between the call and the step.             *)
(*                                                                         *)
(* A websocket connection is one of the slots in Conns.  A slot is used    *)
(* again once nothing refers to it any more, so that a client that         *)
(* reconnects for ever has finitely many states.                           *)
(***************************************************************************)
EXTENDS Integers, Sequences, FiniteSets

CONSTANTS
  Conns,           \* slots for websocket connections
  NilConn,         \* c.conn before the first connection, and "no connection"
  Node,            \* the nodes of the network
  NoNode,          \* a nil *Node
  FaultyNode,      \* the nodes that never accept a connection
  RPCNode,         \* the nodes whose RPC server answers GetNodeState in time
  ConnectRetries,  \* config.ConnectRetries, negative for no limit
  PingTicks,       \* bound: FALSE for behaviours shorter than a pingInterval
  MaxCount,        \* bound: the statistics saturate here
  MaxDisturb,      \* bound: broken connections, redirections, failed writes
                   \* and calls of Reconnect by the application
  NilStats         \* c.Stats before the first connection

ASSUME ClientAssumption ==
  /\ NilConn \notin Conns
  /\ NoNode \notin Node
  /\ FaultyNode \subseteq Node
  /\ RPCNode \subseteq Node
  /\ ConnectRetries \in Int
  /\ PingTicks \in BOOLEAN
  /\ MaxCount \in Nat \ {0}
  /\ MaxDisturb \in Nat
  /\ NilStats \notin [ReconnectCount : 0..MaxCount, SendFailureCount : 0..MaxCount]

VARIABLES
  isClosed,              \* c.isClosed, and: every channel of the client is closed
  State,                 \* c.State
  conn, node,            \* c.conn and c.node
  rpcNode,               \* the node c.wallet.config.SeedRPCServerAddr points to
  Stats,                 \* c.Stats without its timestamps
  link,                  \* the websocket of each slot
  inbox,                 \* what the node sent on it and the client did not handle
  chChallengeSignature,  \* the buffered channel: whose challenge was signed
  sig,                   \* what the setClient goroutine got: saltAndSig
  arg,                   \* the argument of a goroutine's call of Reconnect
  job,                   \* the locals of connect and connectToNode
  retry,                 \* the loop variable of NewClient's call of connect
  pc,                    \* where each goroutine is
  panicked,              \* a send on a closed channel ended the program
  disturb                \* how much happened that counts towards MaxDisturb

vars == <<isClosed, State, conn, node, rpcNode, Stats, link, inbox,
          chChallengeSignature, sig, arg, job, retry, pc, panicked, disturb>>

-----------------------------------------------------------------------------
(* Goroutines. *)

Reader(k)   == <<"reader", k>>    \* reads conn k until an error or Close
Pinger(k)   == <<"pinger", k>>    \* pings conn k
Auth(k)     == <<"auth", k>>      \* waits for a challenge, sends setClient
Redirect(k) == <<"redirect", k>>  \* the Reconnect(&node) of a WRONG_NODE answer
Main        == <<"main", NilConn>>     \* the caller of NewClient
Handler     == <<"handler", NilConn>>  \* handleReconnect
Writer      == <<"writer", NilConn>>   \* some caller of writeMessage
User        == <<"user", NilConn>>     \* the application: Reconnect and Close

ConnProcs(k) == {Reader(k), Pinger(k), Auth(k), Redirect(k)}
Connectors   == {Main, Handler}
Proc == (UNION {ConnProcs(k) : k \in Conns}) \cup Connectors \cup {Writer, User}

(* What a node sends on a connection (text messages of handleMessage). *)
MsgType == {"authChallenge", "setClientOK", "setClientErr", "wrongNode"}
Msg     == [type : MsgType, node : Node \cup {NoNode}]
TextMsg(t) == [type |-> t, node |-> NoNode]

StatsRecord == [ReconnectCount : 0..MaxCount, SendFailureCount : 0..MaxCount]
ZeroStats   == [ReconnectCount |-> 0, SendFailureCount |-> 0]
OrZero(s)   == IF s = NilStats THEN ZeroStats ELSE s
Saturate(n) == IF n < MaxCount THEN n + 1 ELSE n

(* Program counters: the reader, the pinger, the setClient goroutine, the  *)
(* two callers of connect, the writer, and the two steps of Reconnect.     *)
PC == {"done", "idle", "check", "read", "emit", "run", "wait", "write",
       "loop", "install", "ready", "failed", "next", "range", "count",
       "recState", "recSend"}

Init ==
  /\ isClosed = FALSE
  /\ State = "Connecting"
  /\ conn = NilConn
  /\ node = NoNode
  /\ rpcNode = NoNode
  /\ Stats = NilStats
  /\ link = [k \in Conns |-> "closed"]
  /\ inbox = [k \in Conns |-> <<>>]
  /\ chChallengeSignature = <<>>
  /\ sig = [k \in Conns |-> "none"]
  /\ arg = [p \in Proc |-> NoNode]
  /\ job = [p \in Connectors |->
              [target |-> NoNode, prev |-> NilConn, fresh |-> NilConn]]
  /\ retry = 1
  /\ pc = [p \in Proc |->
             CASE p = Main -> "loop"
               [] p = Handler -> "next"
               [] p \in {Writer, User} -> "idle"
               [] OTHER -> "done"]
  /\ panicked = FALSE
  /\ disturb = 0

(* A step of goroutine p from one place to the next. *)
Goto(p, from, to) == pc[p] = from /\ pc' = [pc EXCEPT ![p] = to]

(* A send on a closed channel by p ends the program where it is. *)
Panic == panicked' = TRUE /\ UNCHANGED pc

(* A step that is one of the MaxDisturb disturbances. *)
Disturb == disturb < MaxDisturb /\ disturb' = disturb + 1

(* Where a reader goes on: it tests IsClosed before it reads again. *)
ReadAgain == IF isClosed THEN "done" ELSE "read"

(* Slot k is not referred to by the client any more. *)
Free(k) ==
  /\ k # conn
  /\ link[k] = "closed"
  /\ \A p \in ConnProcs(k) : pc[p] = "done"
  /\ \A p \in Connectors : pc[p] = "install" => job[p].prev # k

-----------------------------------------------------------------------------
(* connect and connectToNode, called by NewClient and by handleReconnect.  *)

(* The loop of connect ends for NewClient after ConnectRetries rounds. *)
Exhausted(p) == p = Main /\ ConnectRetries >= 0 /\ retry > ConnectRetries

(* The iteration failed: continue with the next one. *)
NextTry(p) == retry' = IF p = Main /\ ConnectRetries >= 0 THEN retry + 1 ELSE retry

connVars == <<isClosed, State, conn, node, rpcNode, Stats, link, inbox,
              chChallengeSignature, sig, arg>>

(* GetWsAddr answers with the node that serves the client's address. *)
FindNode(p, n) ==
  /\ pc[p] = "loop" /\ ~Exhausted(p)
  /\ job[p].target = NoNode
  /\ job' = [job EXCEPT ![p].target = n]
  /\ UNCHANGED <<connVars, retry, pc, panicked, disturb>>

FindNodeFails(p) ==
  /\ pc[p] = "loop" /\ ~Exhausted(p)
  /\ job[p].target = NoNode
  /\ NextTry(p)
  /\ UNCHANGED <<connVars, job, pc, panicked, disturb>>

(* The websocket handshake fails; the local variable node keeps its value. *)
DialFailsAsksHandler(p) ==  \* a mutant: a failed dial is handed to the handler
  /\ pc[p] = "loop" /\ ~Exhausted(p)
  /\ job[p].target # NoNode
  /\ pc[Handler] = "range" => pc' = [pc EXCEPT ![Handler] = "check"]
  /\ pc[Handler] # "range" => UNCHANGED pc
  /\ NextTry(p)
  /\ UNCHANGED <<connVars, job, panicked, disturb>>

DialFails(p) ==
  /\ pc[p] = "loop" /\ ~Exhausted(p)
  /\ job[p].target # NoNode
  /\ NextTry(p)
  /\ UNCHANGED <<connVars, job, pc, panicked, disturb>>

(* ErrConnectFailed: NewClient returns no client. *)
GiveUp(p) ==
  /\ Exhausted(p)
  /\ Goto(p, "loop", "failed")
  /\ UNCHANGED <<connVars, job, retry, panicked, disturb>>

(* The statistics of a first connection and of a change of node are reset. *)
StatsAfterInstall(n) ==
  IF node # NoNode /\ node # n THEN ZeroStats
  ELSE IF node = NoNode THEN OrZero(Stats)
  ELSE Stats

(* The handshake succeeded.  The node may send its challenge at once.  The *)
(* connection is installed under c.lock, whether the client is closed or   *)
(* not.                                                                    *)
ConnectToNode(p, k) ==
  LET n == job[p].target IN
  /\ ~Exhausted(p)
  /\ Goto(p, "loop", "install")
  /\ n \notin FaultyNode \cup {NoNode}
  /\ Free(k)
  /\ link' = [link EXCEPT ![k] = "up"]
  /\ \E greeting \in {<<>>, <<TextMsg("authChallenge")>>} :
        inbox' = [inbox EXCEPT ![k] = greeting]
  /\ sig' = [sig EXCEPT ![k] = "none"]
  \* a signature for an earlier connection in this slot
  /\ chChallengeSignature' = IF chChallengeSignature = <<k>> THEN <<NilConn>>
                             ELSE chChallengeSignature
  /\ job' = [job EXCEPT ![p].prev = conn, ![p].fresh = k]
  /\ conn' = k
  /\ node' = n
  /\ State' = "Connecting"
  /\ Stats' = StatsAfterInstall(n)
  /\ rpcNode' = IF n \in RPCNode THEN n ELSE NoNode
  /\ UNCHANGED <<isClosed, arg, retry, panicked, disturb>>

(* prevConn.Close(), then the three goroutines of the new connection.      *)
CloseConn(c) == link' = IF c = NilConn THEN link ELSE [link EXCEPT ![c] = "closed"]

StartConnKeepsPrev(p) ==  \* a mutant: prevConn is not closed
  LET k == job[p].fresh IN
  /\ pc[p] = "install"
  /\ pc' = [pc EXCEPT ![p] = IF p = Main THEN "ready" ELSE "next",
                      ![Reader(k)] = ReadAgain,
                      ![Pinger(k)] = "run",
                      ![Auth(k)] = "wait"]
  /\ job' = [job EXCEPT ![p] =
               [target |-> NoNode, prev |-> NilConn, fresh |-> NilConn]]
  /\ UNCHANGED <<connVars, retry, panicked, disturb>>

StartConn(p) ==
  LET k == job[p].fresh IN
  /\ pc[p] = "install"
  /\ CloseConn(job[p].prev)
  /\ pc' = [pc EXCEPT ![p] = IF p = Main THEN "ready" ELSE "next",
                      ![Reader(k)] = ReadAgain,
                      ![Pinger(k)] = "run",
                      ![Auth(k)] = "wait"]
  /\ job' = [job EXCEPT ![p] =
               [target |-> NoNode, prev |-> NilConn, fresh |-> NilConn]]
  /\ retry' = 1  \* the locals of connect are gone
  /\ UNCHANGED <<isClosed, State, conn, node, rpcNode, Stats, inbox,
                 chChallengeSignature, sig, arg, panicked, disturb>>

Connect(p) ==
  \/ \E n \in Node : FindNode(p, n)
  \/ FindNodeFails(p)
  \/ DialFails(p)
  \/ GiveUp(p)
  \/ \E k \in Conns : ConnectToNode(p, k)
  \/ StartConn(p)

-----------------------------------------------------------------------------
(* Reconnect(node), in the goroutine of its caller. *)

recVars == <<conn, node, rpcNode, Stats, link, inbox, chChallengeSignature,
             sig, retry, isClosed>>

(* Where the caller goes on when Reconnect returns. *)
Return(p) ==
  IF p = Writer THEN "count" ELSE IF p = User THEN "idle" ELSE "done"

(* c.State is set even when the client is closed; then IsClosed. *)
EnterReconnect(p, from) ==
  /\ Goto(p, from, IF isClosed THEN Return(p) ELSE "recSend")
  /\ State' = "Connecting"

ReconnectState(p) ==
  /\ EnterReconnect(p, "recState")
  /\ arg' = [arg EXCEPT ![p] = IF isClosed THEN NoNode ELSE @]
  /\ UNCHANGED <<recVars, job, panicked, disturb>>

(* The non-blocking send on the unbuffered c.reconnectChan.  It succeeds   *)
(* only if handleReconnect waits for it.                                   *)
ReconnectSend(p) ==
  /\ ~isClosed
  /\ pc[p] = "recSend"
  /\ arg' = [arg EXCEPT ![p] = NoNode]
  /\ IF pc[Handler] = "range"
       THEN /\ pc' = [pc EXCEPT ![p] = Return(p), ![Handler] = "check"]
            /\ job' = [job EXCEPT ![Handler].target = arg[p]]
       ELSE /\ pc' = [pc EXCEPT ![p] = Return(p)]
            /\ UNCHANGED job
  /\ UNCHANGED <<recVars, State, panicked, disturb>>

(* The client was closed before IsClosed, or between IsClosed and the send. *)
ReconnectClosed(p) ==
  /\ isClosed
  /\ \/ /\ Goto(p, "recSend", Return(p))
        /\ arg' = [arg EXCEPT ![p] = NoNode]
        /\ UNCHANGED panicked
     \/ /\ pc[p] = "recSend"
        /\ Panic
        /\ UNCHANGED arg
  /\ UNCHANGED <<recVars, State, job, disturb>>

Reconnect(p) == ReconnectState(p) \/ ReconnectSend(p) \/ ReconnectClosed(p)

-----------------------------------------------------------------------------
(* handleReconnect. *)

(* Before it waits at the range over c.reconnectChan, requests are dropped. *)
HandlerRange ==
  /\ Goto(Handler, "next", "range")
  /\ UNCHANGED <<connVars, job, retry, panicked, disturb>>

(* The request is accepted: sleep, then connect(-1, node). *)
HandlerIsClosed ==
  /\ Goto(Handler, "check", IF isClosed THEN "done" ELSE "loop")
  /\ UNCHANGED <<connVars, job, retry, panicked, disturb>>

HandlerRangeNeverEnds ==  \* a mutant: Close does not close c.reconnectChan
  /\ FALSE
  /\ UNCHANGED vars

(* The range over c.reconnectChan ends when Close closed it. *)
HandlerRangeEnds ==
  /\ isClosed
  /\ Goto(Handler, "range", "done")
  /\ UNCHANGED <<connVars, job, retry, panicked, disturb>>

-----------------------------------------------------------------------------
(* Close. *)

(* Close by goroutine p, which goes on at place to. *)
Close(p, to) ==
  /\ pc' = [pc EXCEPT ![p] = to]
  /\ isClosed' = TRUE
  /\ IF isClosed THEN UNCHANGED <<State, link>>
     ELSE /\ State' = "Disconnected"
          /\ CloseConn(conn)

-----------------------------------------------------------------------------
(* The reader of connection k: IsClosed, ReadMessage, handleMessage. *)

readerVars == <<conn, node, rpcNode, job, retry>>

(* The reader sees that the client is closed before it reads. *)
ReaderIsClosed(k) ==
  /\ isClosed
  /\ Goto(Reader(k), "read", "done")
  /\ inbox' = [inbox EXCEPT ![k] = <<>>]
  /\ UNCHANGED <<readerVars, isClosed, State, Stats, link,
                 chChallengeSignature, sig, arg, panicked, disturb>>

(* ReadMessage fails on a closed connection, and on a broken one at the    *)
(* latest when the read deadline passes.                                   *)
ReadFails(k) ==
  /\ link[k] # "up"
  /\ EnterReconnect(Reader(k), "read")
  /\ inbox' = [inbox EXCEPT ![k] = <<>>]
  /\ UNCHANGED <<readerVars, isClosed, Stats, link,
                 chChallengeSignature, sig, arg, panicked, disturb>>

(* ReadMessage returns the next message, for handleMessage.  A message     *)
(* that had arrived is still read from a broken connection.                *)
Receive(k, type) ==
  /\ pc[Reader(k)] = "read"
  /\ inbox[k] # <<>>
  /\ Head(inbox[k]).type = type
  /\ inbox' = [inbox EXCEPT ![k] = Tail(@)]

(* handleMessage returns at once if the client is closed. *)
IgnoreMessage(k) ==
  /\ isClosed
  /\ \E type \in MsgType : Receive(k, type)
  /\ pc' = [pc EXCEPT ![Reader(k)] = "done"]
  /\ UNCHANGED <<readerVars, isClosed, State, Stats, link,
                 chChallengeSignature, sig, arg, panicked, disturb>>

(* The challenge is signed and the signature handed over, unless one is    *)
(* already waiting.                                                        *)
HandleChallengeQueues(k) ==  \* a mutant: signatures queue up in the channel
  /\ ~isClosed
  /\ Receive(k, "authChallenge")
  /\ pc' = [pc EXCEPT ![Reader(k)] = "read"]
  /\ chChallengeSignature' = Append(chChallengeSignature, k)
  /\ UNCHANGED <<readerVars, isClosed, State, Stats, link, sig, arg, panicked, disturb>>

HandleChallenge(k) ==
  /\ Receive(k, "authChallenge")
  /\ IF isClosed
       THEN Panic /\ UNCHANGED chChallengeSignature
       ELSE /\ pc' = [pc EXCEPT ![Reader(k)] = "read"]
            /\ chChallengeSignature' = IF chChallengeSignature = <<>> THEN <<k>>
                                       ELSE chChallengeSignature
            /\ UNCHANGED panicked
  /\ UNCHANGED <<readerVars, isClosed, State, Stats, link, sig, arg, disturb>>

(* WRONG_NODE: another goroutine calls Reconnect with the right node. *)
HandleWrongNode(k) ==
  /\ Receive(k, "wrongNode")
  /\ pc' = [pc EXCEPT ![Reader(k)] = ReadAgain, ![Redirect(k)] = "recState"]
  /\ arg' = [arg EXCEPT ![Redirect(k)] = Head(inbox[k]).node]
  /\ UNCHANGED <<readerVars, isClosed, State, Stats, link,
                 chChallengeSignature, sig, panicked, disturb>>

(* Any other error of setClient closes the client. *)
HandleSetClientErr(k) ==
  /\ Receive(k, "setClientErr")
  /\ Close(Reader(k), "done")
  /\ UNCHANGED <<readerVars, Stats, chChallengeSignature, sig, arg, panicked,
                 disturb>>

(* setClient succeeded: statistics and state under c.lock, then OnConnect. *)
HandleSetClientOKUnchecked(k) ==  \* a mutant: isClosed is not tested under c.lock
  /\ Receive(k, "setClientOK")
  /\ pc' = [pc EXCEPT ![Reader(k)] = "emit"]
  /\ State' = "Connected"
  /\ UNCHANGED <<readerVars, isClosed, Stats, link, chChallengeSignature, sig, arg,
                 panicked, disturb>>

HandleSetClientOK(k) ==
  /\ ~isClosed
  /\ Receive(k, "setClientOK")
  /\ pc' = [pc EXCEPT ![Reader(k)] = "emit"]
  /\ Stats' = IF Stats = NilStats THEN ZeroStats
              ELSE IF State # "Connected"
                THEN [Stats EXCEPT !.ReconnectCount = Saturate(@)]
                ELSE Stats
  /\ State' = "Connected"
  /\ UNCHANGED <<readerVars, isClosed, link, chChallengeSignature, sig, arg,
                 panicked, disturb>>

(* OnConnect.receive, after c.lock is released. *)
EmitOnConnect(k) ==
  /\ pc[Reader(k)] = "emit"
  /\ IF isClosed THEN Panic
     ELSE pc' = [pc EXCEPT ![Reader(k)] = "read"] /\ UNCHANGED panicked
  /\ UNCHANGED <<readerVars, isClosed, State, Stats, link, inbox,
                 chChallengeSignature, sig, arg, disturb>>

ReaderNext(k) ==
  \/ ReaderIsClosed(k)
  \/ ReadFails(k)
  \/ IgnoreMessage(k)
  \/ HandleChallenge(k)
  \/ HandleWrongNode(k)
  \/ HandleSetClientErr(k)
  \/ HandleSetClientOK(k)
  \/ EmitOnConnect(k)

-----------------------------------------------------------------------------
(* The pinger of connection k. *)

PingFails(k) ==
  /\ PingTicks
  /\ link[k] # "up"
  /\ EnterReconnect(Pinger(k), "run")
  /\ UNCHANGED <<recVars, arg, job, panicked, disturb>>

(* The reader ended and closed done. *)
PingerDone(k) ==
  /\ pc[Reader(k)] = "done"
  /\ Goto(Pinger(k), "run", "done")
  /\ UNCHANGED <<connVars, job, retry, panicked, disturb>>

PingerNext(k) == PingFails(k) \/ PingerDone(k)

-----------------------------------------------------------------------------
(* The setClient goroutine of connection k. *)

authVars == <<isClosed, conn, node, rpcNode, Stats, link, arg, job, retry>>

(* A signature from the channel: this connection's, or an older one's. *)
TakeSignature(k) ==
  /\ chChallengeSignature # <<>>
  /\ Goto(Auth(k), "wait", "write")
  /\ sig' = [sig EXCEPT ![k] =
               IF Head(chChallengeSignature) = k THEN "valid" ELSE "stale"]
  /\ chChallengeSignature' = <<>>
  /\ UNCHANGED <<authVars, State, inbox, panicked, disturb>>

(* waitForChallengeTimeout, or a nil from the closed empty channel. *)
NoSignature(k) ==
  /\ Goto(Auth(k), "wait", "write")
  /\ UNCHANGED <<authVars, State, inbox, sig, chChallengeSignature, panicked, disturb>>

(* How a node answers setClient: it checks the signature against the       *)
(* challenge of this connection, and may not serve the address any more.   *)
Answers(s) ==
  LET wrongNode == [type : {"wrongNode"}, node : Node]
  IN CASE s = "valid" -> {TextMsg("setClientOK")} \cup wrongNode
       [] s = "stale" -> {TextMsg("setClientErr")}
       [] s = "none"  -> {TextMsg("setClientOK"), TextMsg("setClientErr")} \cup wrongNode

(* A write to a connection that broke is lost without an error at first. *)
WriteSetClient(k) ==
  /\ link[k] # "closed"
  /\ Goto(Auth(k), "write", "done")
  /\ IF link[k] = "up" /\ pc[Reader(k)] # "done"
       THEN \E a \in Answers(sig[k]) :
              /\ inbox' = [inbox EXCEPT ![k] = Append(@, a)]
              /\ IF a.type = "wrongNode" THEN Disturb ELSE UNCHANGED disturb
       ELSE UNCHANGED <<inbox, disturb>>
  /\ sig' = [sig EXCEPT ![k] = "none"]
  /\ UNCHANGED <<authVars, State, chChallengeSignature, panicked>>

WriteSetClientFails(k) ==
  /\ link[k] # "up"
  /\ EnterReconnect(Auth(k), "write")
  /\ sig' = [sig EXCEPT ![k] = "none"]
  /\ UNCHANGED <<authVars, inbox, chChallengeSignature, panicked, disturb>>

AuthNext(k) ==
  TakeSignature(k) \/ NoSignature(k) \/ WriteSetClient(k) \/ WriteSetClientFails(k)

-----------------------------------------------------------------------------
(* writeMessage and its callers' bookkeeping. *)

WriteMessageFails ==
  /\ pc[Main] = "ready"
  /\ link[conn] # "up"
  /\ Goto(Writer, "idle", "recState")
  /\ Disturb
  /\ UNCHANGED <<connVars, job, retry, panicked>>

CountSendFailure ==
  /\ Goto(Writer, "count", "idle")
  /\ Stats' = [OrZero(Stats) EXCEPT !.SendFailureCount = Saturate(@)]
  /\ UNCHANGED <<isClosed, State, conn, node, rpcNode, link, inbox,
                 chChallengeSignature, sig, arg, job, retry, panicked, disturb>>

(* The application. *)
UserReconnect(n) ==
  /\ pc[Main] = "ready"
  /\ EnterReconnect(User, "idle")
  /\ arg' = [arg EXCEPT ![User] = IF isClosed THEN NoNode ELSE n]
  /\ Disturb
  /\ UNCHANGED <<recVars, job, panicked>>

UserClose ==
  /\ pc[Main] = "ready" /\ pc[User] = "idle"
  /\ ~isClosed
  /\ Close(User, "idle")
  /\ UNCHANGED <<readerVars, Stats, inbox, chChallengeSignature, sig, arg, panicked, disturb>>

(* The network breaks a connection. *)
LinkDown(k) ==
  /\ link[k] = "up"
  /\ link' = [link EXCEPT ![k] = "down"]
  /\ Disturb
  /\ UNCHANGED <<isClosed, State, conn, node, rpcNode, Stats, inbox,
                 chChallengeSignature, sig, arg, job, retry, pc, panicked>>

-----------------------------------------------------------------------------
ConnNext(k) ==
  \/ ReaderNext(k)
  \/ PingerNext(k)
  \/ AuthNext(k)
  \/ LinkDown(k)
  \/ \E p \in ConnProcs(k) : Reconnect(p)

HandlerNext == HandlerRange \/ HandlerIsClosed \/ HandlerRangeEnds \/ Connect(Handler)

AppNext ==
  \/ WriteMessageFails
  \/ CountSendFailure
  \/ \E n \in Node \cup {NoNode} : UserReconnect(n)
  \/ UserClose
  \/ Reconnect(Writer)
  \/ Reconnect(User)

Next ==
  /\ ~panicked
  /\ \/ Connect(Main)
     \/ HandlerNext
     \/ \E k \in Conns : ConnNext(k)
     \/ AppNext

Spec == Init /\ [][Next]_vars

(* What the Go scheduler, the timers and the deadlines guarantee: a        *)
(* goroutine that can go on goes on.  It is not promised that a call of    *)
(* GetWsAddr or a handshake succeeds, except with a node that is up.       *)
ConnSteps ==
  /\ ~panicked
  /\ \/ \E k \in Conns : \/ ReaderNext(k) \/ PingerNext(k) \/ AuthNext(k)
                          \/ \E p \in ConnProcs(k) : Reconnect(p)
     \/ CountSendFailure \/ Reconnect(Writer) \/ Reconnect(User)

HandlerSteps ==
  /\ ~panicked
  /\ \/ HandlerRange \/ HandlerIsClosed \/ HandlerRangeEnds \/ StartConn(Handler)
     \/ \E n \in Node : FindNode(Handler, n)
     \/ \E k \in Conns : ConnectToNode(Handler, k)

FairSpec == Spec /\ WF_vars(ConnSteps) /\ WF_vars(HandlerSteps)

-----------------------------------------------------------------------------
(* Properties. *)

Inboxes    == [Conns -> Seq(Msg)]
Signatures == {<<>>} \cup {<<k>> : k \in Conns \cup {NilConn}}
Job == [target : Node \cup {NoNode}, prev : Conns \cup {NilConn},
        fresh : Conns \cup {NilConn}]
Jobs == [Connectors -> Job]

(* Every variable of the client keeps its type. *)
TypeOK ==
  /\ isClosed \in BOOLEAN
  /\ State \in {"Connecting", "Connected", "Disconnected"}
  /\ conn \in Conns \cup {NilConn}
  /\ node \in Node \cup {NoNode}
  /\ rpcNode \in Node \cup {NoNode}
  /\ Stats \in StatsRecord \cup {NilStats}
  /\ link \in [Conns -> {"up", "down", "closed"}]
  /\ inbox \in Inboxes
  /\ chChallengeSignature \in Signatures
  /\ sig \in [Conns -> {"none", "valid", "stale"}]
  /\ arg \in [Proc -> Node \cup {NoNode}]
  /\ job \in Jobs
  /\ retry \in Nat
  /\ pc \in [Proc -> PC]
  /\ panicked \in BOOLEAN
  /\ disturb \in 0..MaxDisturb

(* A closed client never looks connected: the acknowledgement of setClient *)
(* and Close exclude each other through c.lock, and a late Reconnect or    *)
(* connectToNode only goes back to Connecting.                             *)
ClosedNotConnected == isClosed => State # "Connected"

(* NewClient and handleReconnect are never in connect at the same time:    *)
(* connectToNode reads and replaces c.conn and c.peer without a lock that  *)
(* would order two of them.                                                *)
ConnectExclusive ==
  ~ (pc[Main] \in {"loop", "install"} /\ pc[Handler] \in {"loop", "install"})

(* No websocket is forgotten open: it is c.conn, or the prevConn that a    *)
(* running connectToNode is about to close.                                *)
OpenConnsAccounted ==
  \A k \in Conns : link[k] # "closed" =>
    \/ k = conn
    \/ \E p \in Connectors : pc[p] = "install" /\ job[p].prev = k

(* The inductive invariant behind the invariants and the refinement.       *)
(* While NewClient is in connect nothing else runs, except that            *)
(* handleReconnect gets to its range; no reader runs before c.node is set; *)
(* only Close sets ConnDisconnected.                                       *)
MainFirst ==
  pc[Main] \in {"loop", "install"} =>
    /\ pc[Handler] \in {"next", "range", "done"}
    /\ \A p \in Proc \ Connectors : pc[p] \in {"done", "idle"}

NodeKnown ==
  node = NoNode =>
    /\ \A p \in Connectors : pc[p] # "install"
    /\ \A k \in Conns : pc[Reader(k)] = "done"

OnlyCloseDisconnects == State = "Disconnected" => isClosed

IndInv ==
  /\ TypeOK
  /\ ClosedNotConnected
  /\ OnlyCloseDisconnects
  /\ MainFirst
  /\ NodeKnown
  /\ OpenConnsAccounted

(* What MultiClient.GetAllSubConnStates reports of the client. *)
reportedStateRaw == State  \* a mutant: c.isClosed is not consulted

reportedState == IF isClosed THEN "Disconnected" ELSE State

reportedNode == IF reportedState = "Connected" THEN node ELSE NoNode

CS == INSTANCE ConnState WITH state <- reportedState, nodeAddr <- reportedNode

(* The client implements ConnState: as GetAllSubConnStates reports it, a   *)
(* connected client never changes its node without passing through         *)
(* Connecting, however late the acknowledgements and reconnect requests of *)
(* its older connections arrive, and a closed client stays disconnected.   *)
ConnStateSpec == CS!Spec

AllDone == \A p \in Proc \ {Main, Writer, User} : pc[p] = "done"

(* After Close every goroutine of the client ends (or a send on a closed   *)
(* channel ends the program): the readers see isClosed or a read error,    *)
(* the pingers the end of their reader, the setClient goroutines a nil     *)
(* signature, handleReconnect the end of its range.                        *)
ClosedQuiesces == isClosed ~> (panicked \/ AllDone)
=============================================================================
