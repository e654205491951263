---------------------------- MODULE ClientProofs ----------------------------
(***************************************************************************)
(* Proofs about Client, for every set of connections and nodes and every   *)
(* number of disturbances.                                                 *)
(***************************************************************************)
EXTENDS Client, TLAPS

(* Every goroutine that can call Reconnect. *)
Caller == Proc \ Connectors

(* Nobody can close the client before NewClient is out of connect. *)
InConnect == {"loop", "install"}
ClosedAfterMain == isClosed => pc[Main] \notin InConnect

(* What ClosedQuiesces leads to. *)
Quiet == isClosed /\ AllDone

(* It is for ever: no goroutine is started and no websocket opened. *)
StaysQuiet ==
  Quiet => /\ Quiet'
           /\ UNCHANGED <<conn, node, rpcNode, inbox>>
           /\ \A k \in Conns : link'[k] = "up" => link[k] = "up"

(* The goroutines are members of Proc, each with a place in pc. *)
LEMMA ProcFacts ==
  /\ Main \in Connectors /\ Handler \in Connectors
  /\ Main \in Proc /\ Handler \in Proc
  /\ Main # Handler
  /\ Writer \in Caller /\ User \in Caller
  /\ \A k \in Conns : \A p \in ConnProcs(k) : p \in Caller
  /\ \A k \in Conns : ConnProcs(k) = {Reader(k), Pinger(k), Auth(k), Redirect(k)}
BY DEF Caller, Proc, Connectors, ConnProcs, Reader, Pinger, Auth, Redirect,
       Main, Handler, Writer, User

(* The callers of connect are none of the goroutines that call Reconnect. *)
LEMMA ConnectorsApart ==
  \A q \in Connectors :
    /\ q \in Proc
    /\ q # Writer /\ q # User
    /\ \A k : q # Reader(k) /\ q # Pinger(k) /\ q # Auth(k) /\ q # Redirect(k)
    /\ \A p \in Caller : q # p
BY DEF Connectors, Caller, Proc, Main, Handler, Writer, User, Reader, Pinger, Auth, Redirect

(* Next, action by action. *)
LEMMA NextCases ==
  Next =>
    \/ \E p \in Connectors :
         \/ \E n \in Node : FindNode(p, n)
         \/ FindNodeFails(p)
         \/ DialFails(p)
         \/ GiveUp(p)
         \/ \E k \in Conns : ConnectToNode(p, k)
         \/ StartConn(p)
    \/ \E p \in Caller : ReconnectState(p) \/ ReconnectSend(p) \/ ReconnectClosed(p)
    \/ HandlerRange \/ HandlerIsClosed \/ HandlerRangeEnds
    \/ \E k \in Conns :
         \/ ReaderIsClosed(k) \/ ReadFails(k) \/ IgnoreMessage(k)
         \/ HandleChallenge(k) \/ HandleWrongNode(k) \/ HandleSetClientErr(k)
         \/ HandleSetClientOK(k) \/ EmitOnConnect(k)
         \/ PingFails(k) \/ PingerDone(k)
         \/ TakeSignature(k) \/ NoSignature(k) \/ WriteSetClient(k) \/ WriteSetClientFails(k)
         \/ LinkDown(k)
    \/ WriteMessageFails \/ CountSendFailure \/ UserClose
    \/ \E n \in Node \cup {NoNode} : UserReconnect(n)
<1> SUFFICES ASSUME Next PROVE NextCases!2
  OBVIOUS
<1>1. CASE Connect(Main)
  BY <1>1, ProcFacts DEF Connect
<1>2. CASE HandlerNext
  BY <1>2, ProcFacts DEF HandlerNext, Connect
<1>3. CASE \E k \in Conns : ConnNext(k)
  BY <1>3, ProcFacts DEF ConnNext, Reconnect, ReaderNext, PingerNext, AuthNext
<1>4. CASE AppNext
  BY <1>4, ProcFacts DEF AppNext, Reconnect
<1> QED
  BY <1>1, <1>2, <1>3, <1>4 DEF Next

-----------------------------------------------------------------------------
(* Types. *)

(* What the actions do to the inboxes and to the locals of connect: a      *)
(* reader that ends forgets its inbox.                                     *)
LEMMA InboxClear ==
  ASSUME inbox \in Inboxes, NEW k \in Conns
  PROVE  [inbox EXCEPT ![k] = <<>>] \in Inboxes
BY DEF Inboxes

(* The node's greeting on a new connection. *)
LEMMA InboxGreeting ==
  ASSUME inbox \in Inboxes, NEW k \in Conns
  PROVE  [inbox EXCEPT ![k] = <<TextMsg("authChallenge")>>] \in Inboxes
<1>1. TextMsg("authChallenge") \in Msg
  BY DEF TextMsg, Msg, MsgType
<1>2. <<TextMsg("authChallenge")>> \in Seq(Msg)
  BY <1>1
<1> QED
  BY <1>2 DEF Inboxes

(* ReadMessage takes a message. *)
LEMMA InboxTail ==
  ASSUME inbox \in Inboxes, NEW k \in Conns, inbox[k] # <<>>
  PROVE  /\ [inbox EXCEPT ![k] = Tail(@)] \in Inboxes
         /\ Head(inbox[k]) \in Msg
<1>1. inbox[k] \in Seq(Msg)
  BY DEF Inboxes
<1>2. Tail(inbox[k]) \in Seq(Msg) /\ Head(inbox[k]) \in Msg
  BY <1>1
<1> QED
  BY <1>2 DEF Inboxes

(* The node's answer to setClient arrives. *)
LEMMA InboxAppend ==
  ASSUME inbox \in Inboxes, NEW k \in Conns, NEW a \in Msg
  PROVE  [inbox EXCEPT ![k] = Append(@, a)] \in Inboxes
<1>1. inbox[k] \in Seq(Msg)
  BY DEF Inboxes
<1>2. Append(inbox[k], a) \in Seq(Msg)
  BY <1>1
<1> QED
  BY <1>2 DEF Inboxes

(* The node that connect works on. *)
LEMMA JobTarget ==
  ASSUME job \in Jobs, NEW p \in Connectors, NEW n \in Node \cup {NoNode}
  PROVE  [job EXCEPT ![p].target = n] \in Jobs
BY DEF Jobs, Job

(* prevConn and the new connection in connectToNode. *)
LEMMA JobInstall ==
  ASSUME job \in Jobs, NEW p \in Connectors,
         NEW c \in Conns \cup {NilConn}, NEW k \in Conns
  PROVE  [job EXCEPT ![p].prev = c, ![p].fresh = k] \in Jobs
BY DEF Jobs, Job

(* Another node does not change prevConn. *)
LEMMA JobUpdate ==
  ASSUME job \in Jobs, NEW p \in Connectors, NEW n
  PROVE  \A q \in Connectors : [job EXCEPT ![p].target = n][q].prev = job[q].prev
BY DEF Jobs, Job

(* connect returned. *)
LEMMA JobReset ==
  ASSUME job \in Jobs, NEW p \in Connectors
  PROVE  [job EXCEPT ![p] = [target |-> NoNode, prev |-> NilConn, fresh |-> NilConn]] \in Jobs
BY DEF Jobs, Job

(* What a node may answer to setClient is a message. *)
LEMMA AnswersType ==
  ASSUME NEW s \in {"none", "valid", "stale"}, NEW a \in Answers(s)
  PROVE  a \in Msg
BY DEF Answers, Msg, MsgType, TextMsg

(* The statistics stay within their bounds. *)
LEMMA StatsType ==
  ASSUME Stats \in StatsRecord \cup {NilStats}
  PROVE  /\ ZeroStats \in StatsRecord
         /\ OrZero(Stats) \in StatsRecord
         /\ [OrZero(Stats) EXCEPT !.SendFailureCount = Saturate(@)] \in StatsRecord
         /\ Stats # NilStats =>
              [Stats EXCEPT !.ReconnectCount = Saturate(@)] \in StatsRecord
         /\ \A n : StatsAfterInstall(n) \in StatsRecord \cup {NilStats}
BY ClientAssumption DEF StatsRecord, ZeroStats, OrZero, Saturate, StatsAfterInstall

(* NewClient starts with the right types. *)
LEMMA TypeInit == Init => TypeOK
<1> SUFFICES ASSUME Init PROVE TypeOK
  OBVIOUS
<1>1. inbox \in Inboxes
  BY DEF Init, Inboxes
<1>2. job \in Jobs
  BY DEF Init, Jobs, Job
<1>3. pc \in [Proc -> PC]
  BY DEF Init, PC
<1>4. disturb \in 0..MaxDisturb
  BY ClientAssumption DEF Init
<1> QED
  BY <1>1, <1>2, <1>3, <1>4 DEF Init, TypeOK, Signatures

(* Every step keeps the types. *)
LEMMA TypeStep == TypeOK /\ [Next]_vars => TypeOK'
<1> SUFFICES ASSUME TypeOK, [Next]_vars PROVE TypeOK'
  OBVIOUS
<1> USE ClientAssumption DEF TypeOK, PC
<1>1. ASSUME NEW p \in Connectors, NEW n \in Node, FindNode(p, n) PROVE TypeOK'
  BY <1>1, JobTarget DEF FindNode, connVars
<1>2. ASSUME NEW p \in Connectors, NEW k \in Conns, ConnectToNode(p, k)
      PROVE TypeOK'
  <2>1. inbox' \in Inboxes
    <3>1. PICK greeting \in {<<>>, <<TextMsg("authChallenge")>>} :
            inbox' = [inbox EXCEPT ![k] = greeting]
      BY <1>2 DEF ConnectToNode
    <3>2. CASE greeting = <<>>
      BY <3>1, <3>2, InboxClear
    <3>3. CASE greeting = <<TextMsg("authChallenge")>>
      BY <3>1, <3>3, InboxGreeting
    <3> QED
      BY <3>1, <3>2, <3>3
  <2>2. job' \in Jobs
    BY <1>2, JobInstall DEF ConnectToNode
  <2>3. Stats' \in StatsRecord \cup {NilStats}
    BY <1>2, StatsType DEF ConnectToNode
  <2>4. chChallengeSignature' \in Signatures
    BY <1>2 DEF ConnectToNode, Signatures
  <2>5. job[p].target \in Node \cup {NoNode}
    BY DEF Jobs, Job
  <2> QED
    BY <1>2, <2>1, <2>2, <2>3, <2>4, <2>5 DEF ConnectToNode, Goto
<1>3. ASSUME NEW p \in Connectors, FindNodeFails(p) PROVE TypeOK'
  BY <1>3 DEF FindNodeFails, NextTry, connVars
<1>4. ASSUME NEW p \in Connectors, DialFails(p) PROVE TypeOK'
  BY <1>4 DEF DialFails, NextTry, connVars
<1>5. ASSUME NEW p \in Connectors, GiveUp(p) PROVE TypeOK'
  BY <1>5 DEF GiveUp, Goto, connVars
<1>6. ASSUME NEW p \in Connectors, StartConn(p) PROVE TypeOK'
  BY <1>6, JobReset DEF StartConn, CloseConn, ReadAgain
<1>7. ASSUME NEW p \in Caller, ReconnectState(p) PROVE TypeOK'
  BY <1>7 DEF ReconnectState, EnterReconnect, Goto, Return, recVars
<1>8. ASSUME NEW p \in Caller, ReconnectSend(p) PROVE TypeOK'
  <2>1. arg[p] \in Node \cup {NoNode}
    BY DEF Caller
  <2>2. job' \in Jobs
    BY <1>8, <2>1, JobTarget, ProcFacts DEF ReconnectSend
  <2> QED
    BY <1>8, <2>1, <2>2, ProcFacts DEF ReconnectSend, Return, recVars
<1>9. ASSUME NEW p \in Caller, ReconnectClosed(p) PROVE TypeOK'
  BY <1>9 DEF ReconnectClosed, Goto, Return, Panic, recVars
<1>10. CASE HandlerRange
  BY <1>10 DEF HandlerRange, Goto, connVars
<1>11. CASE HandlerIsClosed
  BY <1>11 DEF HandlerIsClosed, Goto, connVars
<1>12. CASE HandlerRangeEnds
  BY <1>12 DEF HandlerRangeEnds, Goto, connVars
<1>13. ASSUME NEW k \in Conns, ReaderIsClosed(k) PROVE TypeOK'
  BY <1>13, InboxClear DEF ReaderIsClosed, Goto, readerVars
<1>14. ASSUME NEW k \in Conns, ReadFails(k) PROVE TypeOK'
  BY <1>14, InboxClear DEF ReadFails, EnterReconnect, Goto, Return,
       readerVars
<1>15. ASSUME NEW k \in Conns, IgnoreMessage(k) PROVE TypeOK'
  <2>1. inbox' \in Inboxes
    BY <1>15, InboxTail DEF IgnoreMessage, Receive
  <2> QED
    BY <1>15, <2>1 DEF IgnoreMessage, readerVars
<1>16. ASSUME NEW k \in Conns, HandleChallenge(k) PROVE TypeOK'
  <2>1. inbox' \in Inboxes
    BY <1>16, InboxTail DEF HandleChallenge, Receive
  <2>2. chChallengeSignature' \in Signatures
    BY <1>16 DEF HandleChallenge, Signatures
  <2> QED
    BY <1>16, <2>1, <2>2 DEF HandleChallenge, Panic, readerVars
<1>17. ASSUME NEW k \in Conns, HandleWrongNode(k) PROVE TypeOK'
  <2>1. inbox' \in Inboxes
    BY <1>17, InboxTail DEF HandleWrongNode, Receive
  <2>2. Head(inbox[k]).node \in Node \cup {NoNode}
    BY <1>17, InboxTail DEF HandleWrongNode, Receive, Msg
  <2> QED
    BY <1>17, <2>1, <2>2 DEF HandleWrongNode, ReadAgain, readerVars
<1>18. ASSUME NEW k \in Conns, HandleSetClientErr(k) PROVE TypeOK'
  <2>1. inbox' \in Inboxes
    BY <1>18, InboxTail DEF HandleSetClientErr, Receive
  <2> QED
    BY <1>18, <2>1 DEF HandleSetClientErr, Close, CloseConn, readerVars
<1>19. ASSUME NEW k \in Conns, HandleSetClientOK(k) PROVE TypeOK'
  <2>1. inbox' \in Inboxes
    BY <1>19, InboxTail DEF HandleSetClientOK, Receive
  <2>2. Stats' \in StatsRecord \cup {NilStats}
    BY <1>19, StatsType DEF HandleSetClientOK
  <2> QED
    BY <1>19, <2>1, <2>2 DEF HandleSetClientOK, readerVars
<1>20. ASSUME NEW k \in Conns, EmitOnConnect(k) PROVE TypeOK'
  BY <1>20 DEF EmitOnConnect, Panic, readerVars
<1>21. ASSUME NEW k \in Conns, PingFails(k) PROVE TypeOK'
  BY <1>21 DEF PingFails, EnterReconnect, Goto, Return, recVars
<1>22. ASSUME NEW k \in Conns, PingerDone(k) PROVE TypeOK'
  BY <1>22 DEF PingerDone, Goto, connVars
<1>23. ASSUME NEW k \in Conns, TakeSignature(k) PROVE TypeOK'
  <2>1. chChallengeSignature' \in Signatures
    BY <1>23 DEF TakeSignature, Signatures
  <2> QED
    BY <1>23, <2>1 DEF TakeSignature, Goto, authVars
<1>24. ASSUME NEW k \in Conns, NoSignature(k) PROVE TypeOK'
  BY <1>24 DEF NoSignature, Goto, authVars
<1>25. ASSUME NEW k \in Conns, WriteSetClient(k) PROVE TypeOK'
  <2>1. inbox' \in Inboxes
    BY <1>25, InboxAppend, AnswersType DEF WriteSetClient
  <2>2. disturb' \in 0..MaxDisturb
    BY <1>25 DEF WriteSetClient, Disturb
  <2> QED
    BY <1>25, <2>1, <2>2 DEF WriteSetClient, Goto, authVars
<1>26. ASSUME NEW k \in Conns, WriteSetClientFails(k) PROVE TypeOK'
  BY <1>26 DEF WriteSetClientFails, EnterReconnect, Goto, Return, authVars
<1>27. ASSUME NEW k \in Conns, LinkDown(k) PROVE TypeOK'
  <2>1. disturb' \in 0..MaxDisturb
    BY <1>27 DEF LinkDown, Disturb
  <2> QED
    BY <1>27, <2>1 DEF LinkDown
<1>28. CASE WriteMessageFails
  <2>1. disturb' \in 0..MaxDisturb
    BY <1>28 DEF WriteMessageFails, Disturb
  <2> QED
    BY <1>28, <2>1 DEF WriteMessageFails, Goto, connVars
<1>29. CASE CountSendFailure
  BY <1>29, StatsType DEF CountSendFailure, Goto
<1>30. CASE UserClose
  BY <1>30 DEF UserClose, Close, CloseConn, readerVars
<1>31. ASSUME NEW n \in Node \cup {NoNode}, UserReconnect(n) PROVE TypeOK'
  <2>1. disturb' \in 0..MaxDisturb
    BY <1>31 DEF UserReconnect, Disturb
  <2> QED
    BY <1>31, <2>1 DEF UserReconnect, EnterReconnect, Goto, Return, recVars
<1>32. CASE UNCHANGED vars
  BY <1>32 DEF vars
<1> HIDE DEF TypeOK
<1> QED
  BY <1>1, <1>2, <1>3, <1>4, <1>5, <1>6, <1>7, <1>8, <1>9, <1>10, <1>11,
     <1>12, <1>13, <1>14, <1>15, <1>16, <1>17, <1>18, <1>19, <1>20, <1>21,
     <1>22, <1>23, <1>24, <1>25, <1>26, <1>27, <1>28, <1>29, <1>30, <1>31,
     <1>32, NextCases

-----------------------------------------------------------------------------
(* The parts of the inductive invariant. *)

(* Only HandleSetClientOK sets Connected, and it tests isClosed. *)
LEMMA ClosedStep == ClosedNotConnected /\ [Next]_vars => ClosedNotConnected'
<1> SUFFICES ASSUME ClosedNotConnected, [Next]_vars PROVE ClosedNotConnected'
  OBVIOUS
<1> USE DEF ClosedNotConnected
<1>1. ASSUME NEW p \in Connectors, NEW n \in Node, FindNode(p, n)
      PROVE  ClosedNotConnected'
  BY <1>1 DEF FindNode, connVars
<1>2. ASSUME NEW p \in Connectors, NEW k \in Conns, ConnectToNode(p, k)
      PROVE  ClosedNotConnected'
  BY <1>2 DEF ConnectToNode, Goto
<1>3. ASSUME NEW p \in Connectors, FindNodeFails(p) \/ DialFails(p) \/
   GiveUp(p) \/ StartConn(p)
      PROVE  ClosedNotConnected'
  BY <1>3 DEF FindNodeFails, DialFails, GiveUp, StartConn, NextTry,
     connVars, Goto, CloseConn, ReadAgain
<1>4. ASSUME NEW p \in Caller, ReconnectState(p) \/ ReconnectSend(p) \/
   ReconnectClosed(p)
      PROVE  ClosedNotConnected'
  BY <1>4 DEF ReconnectState, ReconnectSend, ReconnectClosed,
     EnterReconnect, Goto, Return, recVars, Panic
<1>5. CASE HandlerRange \/ HandlerIsClosed \/ HandlerRangeEnds
  BY <1>5 DEF HandlerRange, HandlerIsClosed, HandlerRangeEnds, Goto,
     connVars
<1>6. ASSUME NEW k \in Conns, HandleSetClientOK(k)
      PROVE  ClosedNotConnected'
  BY <1>6 DEF HandleSetClientOK, Receive, readerVars
<1>7. ASSUME NEW k \in Conns, HandleSetClientErr(k)
      PROVE  ClosedNotConnected'
  BY <1>7 DEF HandleSetClientErr, Receive, Close, CloseConn, readerVars
<1>8. ASSUME NEW k \in Conns, ReaderIsClosed(k) \/ ReadFails(k) \/
   IgnoreMessage(k) \/ HandleChallenge(k) \/ HandleWrongNode(k) \/
   EmitOnConnect(k)
      PROVE  ClosedNotConnected'
  BY <1>8 DEF ReaderIsClosed, ReadFails, IgnoreMessage, HandleChallenge,
     HandleWrongNode, EmitOnConnect, Goto, readerVars, EnterReconnect,
     Return, Receive, Panic, ReadAgain
<1>9. ASSUME NEW k \in Conns, PingFails(k) \/ PingerDone(k) \/
   TakeSignature(k) \/ NoSignature(k) \/ WriteSetClient(k) \/
   WriteSetClientFails(k) \/ LinkDown(k)
      PROVE  ClosedNotConnected'
  BY <1>9 DEF PingFails, PingerDone, TakeSignature, NoSignature,
     WriteSetClient, WriteSetClientFails, LinkDown, EnterReconnect, Goto,
     Return, recVars, connVars, authVars
<1>10. CASE WriteMessageFails \/ CountSendFailure \/ UserClose
  BY <1>10 DEF WriteMessageFails, CountSendFailure, UserClose, Goto,
     connVars, Close, CloseConn, readerVars
<1>11. ASSUME NEW n \in Node \cup {NoNode}, UserReconnect(n)
      PROVE  ClosedNotConnected'
  BY <1>11 DEF UserReconnect, EnterReconnect, Goto, Return, recVars
<1>12. CASE UNCHANGED vars
  BY <1>12 DEF vars
<1> HIDE DEF ClosedNotConnected
<1> QED
  BY <1>1, <1>2, <1>3, <1>4, <1>5, <1>6, <1>7, <1>8, <1>9, <1>10, <1>11,
     <1>12, NextCases

(* Close sets ConnDisconnected together with isClosed. *)
LEMMA DisconnectedStep == OnlyCloseDisconnects /\ [Next]_vars => OnlyCloseDisconnects'
<1> SUFFICES ASSUME OnlyCloseDisconnects, [Next]_vars PROVE OnlyCloseDisconnects'
  OBVIOUS
<1> USE DEF OnlyCloseDisconnects
<1>1. ASSUME NEW p \in Connectors, NEW n \in Node, FindNode(p, n)
      PROVE  OnlyCloseDisconnects'
  BY <1>1 DEF FindNode, connVars
<1>2. ASSUME NEW p \in Connectors, NEW k \in Conns, ConnectToNode(p, k)
      PROVE  OnlyCloseDisconnects'
  BY <1>2 DEF ConnectToNode, Goto
<1>3. ASSUME NEW p \in Connectors, FindNodeFails(p) \/ DialFails(p) \/
   GiveUp(p) \/ StartConn(p)
      PROVE  OnlyCloseDisconnects'
  BY <1>3 DEF FindNodeFails, DialFails, GiveUp, StartConn, NextTry,
     connVars, Goto, CloseConn, ReadAgain
<1>4. ASSUME NEW p \in Caller, ReconnectState(p) \/ ReconnectSend(p) \/
   ReconnectClosed(p)
      PROVE  OnlyCloseDisconnects'
  BY <1>4 DEF ReconnectState, ReconnectSend, ReconnectClosed,
     EnterReconnect, Goto, Return, recVars, Panic
<1>5. CASE HandlerRange \/ HandlerIsClosed \/ HandlerRangeEnds
  BY <1>5 DEF HandlerRange, HandlerIsClosed, HandlerRangeEnds, Goto,
     connVars
<1>6. ASSUME NEW k \in Conns, HandleSetClientOK(k)
      PROVE  OnlyCloseDisconnects'
  BY <1>6 DEF HandleSetClientOK, Receive, readerVars
<1>7. ASSUME NEW k \in Conns, HandleSetClientErr(k)
      PROVE  OnlyCloseDisconnects'
  BY <1>7 DEF HandleSetClientErr, Receive, Close, CloseConn, readerVars
<1>8. ASSUME NEW k \in Conns, ReaderIsClosed(k) \/ ReadFails(k) \/
   IgnoreMessage(k) \/ HandleChallenge(k) \/ HandleWrongNode(k) \/
   EmitOnConnect(k)
      PROVE  OnlyCloseDisconnects'
  BY <1>8 DEF ReaderIsClosed, ReadFails, IgnoreMessage, HandleChallenge,
     HandleWrongNode, EmitOnConnect, Goto, readerVars, EnterReconnect,
     Return, Receive, Panic, ReadAgain
<1>9. ASSUME NEW k \in Conns, PingFails(k) \/ PingerDone(k) \/
   TakeSignature(k) \/ NoSignature(k) \/ WriteSetClient(k) \/
   WriteSetClientFails(k) \/ LinkDown(k)
      PROVE  OnlyCloseDisconnects'
  BY <1>9 DEF PingFails, PingerDone, TakeSignature, NoSignature,
     WriteSetClient, WriteSetClientFails, LinkDown, EnterReconnect, Goto,
     Return, recVars, connVars, authVars
<1>10. CASE WriteMessageFails \/ CountSendFailure \/ UserClose
  BY <1>10 DEF WriteMessageFails, CountSendFailure, UserClose, Goto,
     connVars, Close, CloseConn, readerVars
<1>11. ASSUME NEW n \in Node \cup {NoNode}, UserReconnect(n)
      PROVE  OnlyCloseDisconnects'
  BY <1>11 DEF UserReconnect, EnterReconnect, Goto, Return, recVars
<1>12. CASE UNCHANGED vars
  BY <1>12 DEF vars
<1> HIDE DEF OnlyCloseDisconnects
<1> QED
  BY <1>1, <1>2, <1>3, <1>4, <1>5, <1>6, <1>7, <1>8, <1>9, <1>10, <1>11,
     <1>12, NextCases

(* Before NewClient is out of connect no other action is enabled that could *)
(* start a goroutine or wake the handler.                                   *)
LEMMA MainFirstStep == TypeOK /\ MainFirst /\ [Next]_vars => MainFirst'
<1> SUFFICES ASSUME TypeOK, MainFirst, [Next]_vars PROVE MainFirst'
  OBVIOUS
<1> USE ProcFacts DEF MainFirst, TypeOK, Connectors, Main, Handler, Writer,
   User, Caller, Reader, Pinger, Auth, Redirect
<1>1. ASSUME NEW p \in Connectors, NEW n \in Node, FindNode(p, n)
      PROVE  MainFirst'
  BY <1>1 DEF FindNode, connVars
<1>2. ASSUME NEW p \in Connectors, NEW k \in Conns, ConnectToNode(p, k)
      PROVE  MainFirst'
  BY <1>2 DEF ConnectToNode, Goto
<1>3. ASSUME NEW p \in Connectors, FindNodeFails(p) \/ DialFails(p) \/
   GiveUp(p)
      PROVE  MainFirst'
  BY <1>3 DEF FindNodeFails, DialFails, GiveUp, NextTry, connVars, Goto
<1>4. ASSUME NEW p \in Connectors, StartConn(p)
      PROVE  MainFirst'
  BY <1>4 DEF StartConn, CloseConn, ReadAgain
<1>5. ASSUME NEW p \in Caller, ReconnectState(p) \/ ReconnectSend(p) \/
   ReconnectClosed(p)
      PROVE  MainFirst'
  BY <1>5 DEF ReconnectState, ReconnectSend, ReconnectClosed,
     EnterReconnect, Goto, Return, recVars, Panic
<1>6. CASE HandlerRange \/ HandlerIsClosed \/ HandlerRangeEnds
  BY <1>6 DEF HandlerRange, HandlerIsClosed, HandlerRangeEnds, Goto,
     connVars
<1>7. ASSUME NEW k \in Conns, ReaderIsClosed(k) \/ ReadFails(k) \/
   IgnoreMessage(k) \/ HandleChallenge(k) \/ HandleWrongNode(k) \/
   EmitOnConnect(k) \/ HandleSetClientOK(k) \/ HandleSetClientErr(k)
      PROVE  MainFirst'
  BY <1>7 DEF ReaderIsClosed, ReadFails, IgnoreMessage, HandleChallenge,
     HandleWrongNode, EmitOnConnect, HandleSetClientOK, HandleSetClientErr,
     Goto, readerVars, EnterReconnect, Return, Receive, Panic, ReadAgain,
     Close, CloseConn
<1>8. ASSUME NEW k \in Conns, PingFails(k) \/ PingerDone(k) \/
   TakeSignature(k) \/ NoSignature(k) \/ WriteSetClient(k) \/
   WriteSetClientFails(k)
      PROVE  MainFirst'
  BY <1>8 DEF PingFails, PingerDone, TakeSignature, NoSignature,
     WriteSetClient, WriteSetClientFails, EnterReconnect, Goto, Return,
     recVars, connVars, authVars
<1>9. ASSUME NEW k \in Conns, LinkDown(k)
      PROVE  MainFirst'
  BY <1>9 DEF LinkDown
<1>10. CASE WriteMessageFails \/ CountSendFailure
  BY <1>10 DEF WriteMessageFails, CountSendFailure, Goto, connVars
<1>11. CASE UserClose
  BY <1>11 DEF UserClose, Close, CloseConn, readerVars
<1>12. ASSUME NEW n \in Node \cup {NoNode}, UserReconnect(n)
      PROVE  MainFirst'
  BY <1>12 DEF UserReconnect, EnterReconnect, Goto, Return, recVars
<1>13. CASE UNCHANGED vars
  BY <1>13 DEF vars
<1> HIDE DEF MainFirst, TypeOK, Connectors, Main, Handler, Writer, User, Caller, Reader, Pinger, Auth, Redirect
<1> QED
  BY <1>1, <1>2, <1>3, <1>4, <1>5, <1>6, <1>7, <1>8, <1>9, <1>10, <1>11,
     <1>12, <1>13, NextCases

(* connectToNode sets c.node before it starts the reader. *)
LEMMA NodeKnownStep == TypeOK /\ NodeKnown /\ [Next]_vars => NodeKnown'
<1> SUFFICES ASSUME TypeOK, NodeKnown, [Next]_vars PROVE NodeKnown'
  OBVIOUS
<1> USE ProcFacts DEF NodeKnown, TypeOK, Connectors, Main, Handler, Writer,
   User, Caller, Reader, Pinger, Auth, Redirect
<1>1. ASSUME NEW p \in Connectors, NEW n \in Node, FindNode(p, n)
      PROVE  NodeKnown'
  BY <1>1 DEF FindNode, connVars
<1>2. ASSUME NEW p \in Connectors, NEW k \in Conns, ConnectToNode(p, k)
      PROVE  NodeKnown'
  BY <1>2 DEF ConnectToNode, Goto
<1>3. ASSUME NEW p \in Connectors, FindNodeFails(p) \/ DialFails(p) \/
   GiveUp(p)
      PROVE  NodeKnown'
  BY <1>3 DEF FindNodeFails, DialFails, GiveUp, NextTry, connVars, Goto
<1>4. ASSUME NEW p \in Connectors, StartConn(p)
      PROVE  NodeKnown'
  BY <1>4 DEF StartConn, CloseConn, ReadAgain
<1>5. ASSUME NEW p \in Caller, ReconnectState(p) \/ ReconnectSend(p) \/
   ReconnectClosed(p)
      PROVE  NodeKnown'
  BY <1>5 DEF ReconnectState, ReconnectSend, ReconnectClosed,
     EnterReconnect, Goto, Return, recVars, Panic
<1>6. CASE HandlerRange \/ HandlerIsClosed \/ HandlerRangeEnds
  BY <1>6 DEF HandlerRange, HandlerIsClosed, HandlerRangeEnds, Goto,
     connVars
<1>7. ASSUME NEW k \in Conns, ReaderIsClosed(k) \/ ReadFails(k) \/
   IgnoreMessage(k) \/ HandleChallenge(k) \/ HandleWrongNode(k) \/
   EmitOnConnect(k)
      PROVE  NodeKnown'
  BY <1>7 DEF ReaderIsClosed, ReadFails, IgnoreMessage, HandleChallenge,
     HandleWrongNode, EmitOnConnect, Goto, readerVars, EnterReconnect,
     Return, Receive, Panic, ReadAgain
<1>8. ASSUME NEW k \in Conns, HandleSetClientOK(k)
      PROVE  NodeKnown'
  BY <1>8 DEF HandleSetClientOK, Receive, readerVars
<1>9. ASSUME NEW k \in Conns, HandleSetClientErr(k)
      PROVE  NodeKnown'
  BY <1>9 DEF HandleSetClientErr, Receive, Close, CloseConn, readerVars
<1>10. ASSUME NEW k \in Conns, PingFails(k) \/ PingerDone(k) \/
   TakeSignature(k) \/ NoSignature(k) \/ WriteSetClient(k) \/
   WriteSetClientFails(k)
      PROVE  NodeKnown'
  BY <1>10 DEF PingFails, PingerDone, TakeSignature, NoSignature,
     WriteSetClient, WriteSetClientFails, EnterReconnect, Goto, Return,
     recVars, connVars, authVars
<1>11. ASSUME NEW k \in Conns, LinkDown(k)
      PROVE  NodeKnown'
  BY <1>11 DEF LinkDown
<1>12. CASE WriteMessageFails \/ CountSendFailure
  BY <1>12 DEF WriteMessageFails, CountSendFailure, Goto, connVars
<1>13. CASE UserClose
  BY <1>13 DEF UserClose, Close, CloseConn, readerVars
<1>14. ASSUME NEW n \in Node \cup {NoNode}, UserReconnect(n)
      PROVE  NodeKnown'
  BY <1>14 DEF UserReconnect, EnterReconnect, Goto, Return, recVars
<1>15. CASE UNCHANGED vars
  BY <1>15 DEF vars
<1> HIDE DEF NodeKnown, TypeOK, Connectors, Main, Handler, Writer, User, Caller, Reader, Pinger, Auth, Redirect
<1> QED
  BY <1>1, <1>2, <1>3, <1>4, <1>5, <1>6, <1>7, <1>8, <1>9, <1>10, <1>11,
     <1>12, <1>13, <1>14, <1>15, NextCases

(* The connection that connectToNode replaces is in its prevConn until it is *)
(* closed.                                                                   *)
LEMMA OpenConnsStep == TypeOK /\ OpenConnsAccounted /\ [Next]_vars => OpenConnsAccounted'
<1> SUFFICES ASSUME TypeOK, OpenConnsAccounted, [Next]_vars PROVE OpenConnsAccounted'
  OBVIOUS
<1> USE ProcFacts DEF OpenConnsAccounted, TypeOK, Connectors, Main, Handler,
   Writer, User, Caller, Reader, Pinger, Auth, Redirect
<1>1. ASSUME NEW p \in Connectors, NEW n \in Node, FindNode(p, n)
      PROVE  OpenConnsAccounted'
  BY <1>1 DEF FindNode, connVars
<1>2. ASSUME NEW p \in Connectors, NEW k \in Conns, ConnectToNode(p, k)
      PROVE  OpenConnsAccounted'
  <2> HIDE DEF Connectors, Main, Handler, Reader, Pinger, Auth
  <2>1. /\ pc[p] # "install" /\ pc'[p] = "install"
        /\ \A q \in Connectors \ {p} : pc'[q] = pc[q]
    BY <1>2, ConnectorsApart DEF ConnectToNode, Goto
  <2>3. job' = [job EXCEPT ![p].prev = conn, ![p].fresh = k] /\ conn' = k
    BY <1>2 DEF ConnectToNode
  <2>4. job'[p].prev = conn /\ \A q \in Connectors \ {p} : job'[q] = job[q]
    BY <2>3 DEF Jobs, Job
  <2>2. \A j \in Conns \ {k} : link'[j] = link[j]
    BY <1>2 DEF ConnectToNode
  <2>5. ASSUME NEW j \in Conns, link'[j] # "closed", j # k
        PROVE  \E q \in Connectors : pc'[q] = "install" /\ job'[q].prev = j
    <3>1. CASE j = conn
      BY <3>1, <2>1, <2>4
    <3>2. CASE j # conn
      <4>1. PICK q \in Connectors : pc[q] = "install" /\ job[q].prev = j
        BY <3>2, <2>2, <2>5
      <4>2. q # p
        BY <4>1, <2>1
      <4> QED
        BY <4>1, <4>2, <2>1, <2>4
    <3> QED
      BY <3>1, <3>2
  <2> HIDE DEF TypeOK
  <2> QED
    BY <2>3, <2>5
<1>3. ASSUME NEW p \in Connectors, FindNodeFails(p) \/ DialFails(p) \/
   GiveUp(p)
      PROVE  OpenConnsAccounted'
  BY <1>3 DEF FindNodeFails, DialFails, GiveUp, NextTry, connVars, Goto
<1>4. ASSUME NEW p \in Connectors, StartConn(p)
      PROVE  OpenConnsAccounted'
  <2> HIDE DEF Connectors, Main, Handler, Reader, Pinger, Auth
  <2>1. \A q \in Connectors \ {p} : pc'[q] = pc[q] /\ job'[q] = job[q]
    BY <1>4, ConnectorsApart DEF StartConn, Jobs
  <2>2. \A j \in Conns : link'[j] # "closed" => link[j] # "closed" /\ j # job[p].prev
    BY <1>4, ClientAssumption DEF StartConn, CloseConn, Jobs, Job
  <2>3. conn' = conn
    BY <1>4 DEF StartConn
  <2> QED
    BY <2>1, <2>2, <2>3
<1>5. ASSUME NEW p \in Caller, ReconnectState(p)
      PROVE  OpenConnsAccounted'
  BY <1>5 DEF ReconnectState, EnterReconnect, Goto, Return, recVars
<1>6. ASSUME NEW p \in Caller, ReconnectSend(p)
      PROVE  OpenConnsAccounted'
  <2> HIDE DEF Connectors, Main, Handler, Reader, Pinger, Auth, Caller
  <2>1. \A q \in Connectors : pc[q] = "install" => pc'[q] = "install"
    BY <1>6, ConnectorsApart DEF ReconnectSend
  <2>2. job' = job \/ \E n : job' = [job EXCEPT ![Handler].target = n]
    BY <1>6 DEF ReconnectSend
  <2>3. \A q \in Connectors : job'[q].prev = job[q].prev
    <3>1. CASE job' = job
      BY <3>1
    <3>2. ASSUME NEW n, job' = [job EXCEPT ![Handler].target = n]
          PROVE  \A q \in Connectors : job'[q].prev = job[q].prev
      BY <3>2, JobUpdate
    <3> QED
      BY <2>2, <3>1, <3>2
  <2> QED
    BY <1>6, <2>1, <2>3 DEF ReconnectSend, recVars
<1>7. ASSUME NEW p \in Caller, ReconnectClosed(p)
      PROVE  OpenConnsAccounted'
  BY <1>7 DEF ReconnectClosed, Goto, Return, Panic, recVars
<1>8. CASE HandlerRange \/ HandlerIsClosed \/ HandlerRangeEnds
  BY <1>8 DEF HandlerRange, HandlerIsClosed, HandlerRangeEnds, Goto,
     connVars
<1>9. ASSUME NEW k \in Conns, ReaderIsClosed(k) \/ ReadFails(k) \/
   IgnoreMessage(k) \/ HandleChallenge(k) \/ HandleWrongNode(k) \/
   EmitOnConnect(k)
      PROVE  OpenConnsAccounted'
  <2>1. UNCHANGED <<conn, job, link>>
    BY <1>9 DEF ReaderIsClosed, ReadFails, IgnoreMessage, HandleChallenge,
       HandleWrongNode, EmitOnConnect, readerVars, EnterReconnect
  <2>2. \A q \in Connectors : pc'[q] = pc[q]
    <3> HIDE DEF OpenConnsAccounted, TypeOK, Connectors, Main, Handler, Writer,
          User, Caller, Reader, Pinger, Auth, Redirect
    <3>0. DOMAIN pc = Proc
      BY DEF TypeOK
    <3>1. CASE ReaderIsClosed(k) \/ ReadFails(k)
      BY <3>0, <3>1, ConnectorsApart
         DEF ReaderIsClosed, ReadFails, EnterReconnect, Goto
    <3>2. CASE EmitOnConnect(k)
      BY <3>0, <3>2, ConnectorsApart DEF EmitOnConnect, Panic
    <3>3. CASE IgnoreMessage(k)
      BY <3>0, <3>3, ConnectorsApart DEF IgnoreMessage
    <3>4. CASE HandleChallenge(k)
      BY <3>0, <3>4, ConnectorsApart DEF HandleChallenge, Panic
    <3>5. CASE HandleWrongNode(k)
      BY <3>0, <3>5, ConnectorsApart DEF HandleWrongNode
    <3> QED
      BY <1>9, <3>1, <3>2, <3>3, <3>4, <3>5
  <2> HIDE DEF TypeOK
  <2> QED
    BY <2>1, <2>2
<1>10. ASSUME NEW k \in Conns, HandleSetClientOK(k)
      PROVE  OpenConnsAccounted'
  <2>1. UNCHANGED <<conn, job, link>>
    BY <1>10 DEF HandleSetClientOK, readerVars
  <2>2. \A q \in Connectors : pc'[q] = pc[q]
    <3> HIDE DEF OpenConnsAccounted, TypeOK, Connectors, Main, Handler, Writer,
          User, Caller, Reader, Pinger, Auth, Redirect
    <3>1. DOMAIN pc = Proc
      BY DEF TypeOK
    <3> QED
      BY <1>10, <3>1, ConnectorsApart DEF HandleSetClientOK
  <2> HIDE DEF TypeOK
  <2> QED
    BY <2>1, <2>2
<1>11. ASSUME NEW k \in Conns, HandleSetClientErr(k)
      PROVE  OpenConnsAccounted'
  <2>1. \A q \in Connectors : pc'[q] = pc[q] /\ job'[q] = job[q]
    BY <1>11 DEF HandleSetClientErr, Close, readerVars
  <2>2. \A j \in Conns : link'[j] # "closed" => link[j] # "closed"
    BY <1>11 DEF HandleSetClientErr, Close, CloseConn
  <2>3. conn' = conn
    BY <1>11 DEF HandleSetClientErr, readerVars
  <2> QED
    BY <2>1, <2>2, <2>3
<1>12. ASSUME NEW k \in Conns, PingFails(k) \/ PingerDone(k) \/
   TakeSignature(k) \/ NoSignature(k) \/ WriteSetClient(k) \/
   WriteSetClientFails(k)
      PROVE  OpenConnsAccounted'
  <2>1. UNCHANGED <<conn, job, link>>
    BY <1>12 DEF PingFails, PingerDone, TakeSignature, NoSignature,
       WriteSetClient, WriteSetClientFails, recVars, connVars, authVars
  <2>2. \A q \in Connectors : pc'[q] = pc[q]
    <3> HIDE DEF OpenConnsAccounted, TypeOK, Connectors, Main, Handler, Writer,
          User, Caller, Reader, Pinger, Auth, Redirect
    <3>0. DOMAIN pc = Proc
      BY DEF TypeOK
    <3>1. CASE PingFails(k) \/ PingerDone(k)
      BY <3>0, <3>1, ConnectorsApart
         DEF PingFails, PingerDone, EnterReconnect, Goto
    <3>2. CASE TakeSignature(k) \/ NoSignature(k)
      BY <3>0, <3>2, ConnectorsApart DEF TakeSignature, NoSignature, Goto
    <3>3. CASE WriteSetClient(k) \/ WriteSetClientFails(k)
      BY <3>0, <3>3, ConnectorsApart
         DEF WriteSetClient, WriteSetClientFails, EnterReconnect, Goto
    <3> QED
      BY <1>12, <3>1, <3>2, <3>3
  <2> HIDE DEF TypeOK
  <2> QED
    BY <2>1, <2>2
<1>13. ASSUME NEW k \in Conns, LinkDown(k)
      PROVE  OpenConnsAccounted'
  BY <1>13 DEF LinkDown
<1>14. CASE WriteMessageFails \/ CountSendFailure
  BY <1>14 DEF WriteMessageFails, CountSendFailure, Goto, connVars
<1>15. CASE UserClose
  BY <1>15 DEF UserClose, Close, CloseConn, readerVars
<1>16. ASSUME NEW n \in Node \cup {NoNode}, UserReconnect(n)
      PROVE  OpenConnsAccounted'
  BY <1>16 DEF UserReconnect, EnterReconnect, Goto, Return, recVars
<1>17. CASE UNCHANGED vars
  BY <1>17 DEF vars
<1> HIDE DEF OpenConnsAccounted, TypeOK, Connectors, Main, Handler, Writer, User, Caller, Reader, Pinger, Auth, Redirect
<1> QED
  BY <1>1, <1>2, <1>3, <1>4, <1>5, <1>6, <1>7, <1>8, <1>9, <1>10, <1>11,
     <1>12, <1>13, <1>14, <1>15, <1>16, <1>17, NextCases

-----------------------------------------------------------------------------
(* The theorems. *)

(* The inductive invariant holds in every state of the client: the initial *)
(* state of NewClient satisfies it and every step of every goroutine, of   *)
(* the application and of the network preserves it.                        *)
THEOREM Invariance == Spec => []IndInv
<1>1. Init => IndInv
  <2> SUFFICES ASSUME Init PROVE IndInv
    OBVIOUS
  <2>1. /\ pc[Handler] = "next"
        /\ \A p \in Proc \ Connectors : pc[p] \in {"done", "idle"}
    <3>1. pc[Handler] = "next"
      BY ProcFacts, ConnectorsApart DEF Init
    <3>2. ASSUME NEW p \in Proc \ Connectors PROVE pc[p] \in {"done", "idle"}
      <4>1. p # Main /\ p # Handler
        BY DEF Connectors
      <4> QED
        BY <4>1 DEF Init
    <3> QED
      BY <3>1, <3>2
  <2>2. \A p \in Connectors : pc[p] # "install"
    BY ProcFacts DEF Init, Connectors, Main, Handler
  <2>3. \A k \in Conns : pc[Reader(k)] = "done"
    BY ProcFacts DEF Init, Main, Handler, Reader, Writer, User, Caller
  <2> QED
    BY TypeInit, <2>1, <2>2, <2>3
       DEF IndInv, Init, ClosedNotConnected, OnlyCloseDisconnects, MainFirst,
           NodeKnown, OpenConnsAccounted
<1>2. IndInv /\ [Next]_vars => IndInv'
  BY TypeStep, ClosedStep, DisconnectedStep, MainFirstStep, NodeKnownStep,
     OpenConnsStep
     DEF IndInv
<1> QED
  BY <1>1, <1>2, PTL DEF Spec

(* The types of the client's state, for every number of connections. *)
THEOREM TypeCorrect == Spec => []TypeOK
<1>1. IndInv => TypeOK
  BY DEF IndInv
<1> QED
  BY <1>1, Invariance, PTL

(* c.isClosed excludes ConnConnected: setClient's acknowledgement tests    *)
(* isClosed under the lock that Close holds.                               *)
THEOREM ClosedIsNotConnected == Spec => []ClosedNotConnected
<1>1. IndInv => ClosedNotConnected
  BY DEF IndInv
<1> QED
  BY <1>1, Invariance, PTL

(* NewClient's connect and handleReconnect's connect never overlap.        *)
THEOREM ConnectIsExclusive == Spec => []ConnectExclusive
<1>1. IndInv => ConnectExclusive
  BY DEF IndInv, MainFirst, ConnectExclusive
<1> QED
  BY <1>1, Invariance, PTL

(* Every websocket that is not closed is c.conn or is about to be closed   *)
(* by the connectToNode that replaced it.                                  *)
THEOREM NoConnForgotten == Spec => []OpenConnsAccounted
<1>1. IndInv => OpenConnsAccounted
  BY DEF IndInv
<1> QED
  BY <1>1, Invariance, PTL

(* A step of the client is a step of ConnState or leaves it unchanged.     *)
LEMMA StepRefines == IndInv /\ [Next]_vars => [CS!Next]_CS!vars
<1> SUFFICES ASSUME IndInv, [Next]_vars PROVE [CS!Next]_CS!vars
  OBVIOUS
<1> USE DEF IndInv, ClosedNotConnected, OnlyCloseDisconnects
<1>a. State \in {"Connecting", "Connected", "Disconnected"}
  BY DEF TypeOK
<1>1. ASSUME UNCHANGED <<isClosed, State, node>> PROVE [CS!Next]_CS!vars
  BY <1>1 DEF CS!vars, reportedState, reportedNode
<1>2. ASSUME State' = "Connecting", isClosed' = isClosed PROVE [CS!Next]_CS!vars
  BY <1>a, <1>2 DEF CS!Next, CS!Drop, CS!vars, reportedState, reportedNode
<1>3. ASSUME NEW p, NEW q, Close(p, q), node' = node PROVE [CS!Next]_CS!vars
  BY <1>a, <1>3 DEF Close, CS!Next, CS!Disconnect, CS!vars, reportedState, reportedNode
<1>4. ASSUME NEW k \in Conns, HandleSetClientOK(k) PROVE [CS!Next]_CS!vars
  <2>1. node' = node /\ node \in Node
    <3>1. pc[Reader(k)] # "done" /\ node' = node
      BY <1>4 DEF HandleSetClientOK, Receive, readerVars
    <3> QED
      BY <3>1 DEF NodeKnown, TypeOK
  <2>2. ~isClosed /\ ~isClosed' /\ State' = "Connected"
    BY <1>4 DEF HandleSetClientOK
  <2> QED
    BY <1>a, <2>1, <2>2
       DEF CS!Next, CS!Connect, CS!vars, reportedState, reportedNode
<1> HIDE DEF IndInv, ClosedNotConnected, OnlyCloseDisconnects
<1>5. ASSUME NEW p \in Connectors, NEW n \in Node, FindNode(p, n)
      PROVE  [CS!Next]_CS!vars
  BY <1>5, <1>1 DEF FindNode, connVars
<1>6. ASSUME NEW p \in Connectors, NEW k \in Conns, ConnectToNode(p, k)
      PROVE  [CS!Next]_CS!vars
  BY <1>6, <1>2 DEF ConnectToNode
<1>7. ASSUME NEW p \in Connectors,
             FindNodeFails(p) \/ DialFails(p) \/ GiveUp(p) \/ StartConn(p)
      PROVE  [CS!Next]_CS!vars
  BY <1>7, <1>1 DEF FindNodeFails, DialFails, GiveUp, StartConn, connVars
<1>8. ASSUME NEW p \in Caller, ReconnectState(p) PROVE [CS!Next]_CS!vars
  BY <1>8, <1>2 DEF ReconnectState, EnterReconnect, recVars
<1>9. ASSUME NEW p \in Caller, ReconnectSend(p) \/ ReconnectClosed(p)
      PROVE  [CS!Next]_CS!vars
  BY <1>9, <1>1 DEF ReconnectSend, ReconnectClosed, recVars
<1>10. CASE HandlerRange \/ HandlerIsClosed \/ HandlerRangeEnds
  BY <1>10, <1>1 DEF HandlerRange, HandlerIsClosed, HandlerRangeEnds, connVars
<1>11. ASSUME NEW k \in Conns,
              \/ ReaderIsClosed(k) \/ IgnoreMessage(k) \/ HandleChallenge(k)
              \/ HandleWrongNode(k) \/ EmitOnConnect(k) \/ LinkDown(k)
       PROVE  [CS!Next]_CS!vars
  BY <1>11, <1>1 DEF ReaderIsClosed, IgnoreMessage, HandleChallenge, HandleWrongNode,
                     EmitOnConnect, LinkDown, readerVars
<1>12. ASSUME NEW k \in Conns, ReadFails(k) \/ PingFails(k) \/ WriteSetClientFails(k)
       PROVE  [CS!Next]_CS!vars
  BY <1>12, <1>2 DEF ReadFails, PingFails, WriteSetClientFails, EnterReconnect,
                     readerVars, recVars, authVars
<1>13. ASSUME NEW k \in Conns, HandleSetClientErr(k) PROVE [CS!Next]_CS!vars
  BY <1>13, <1>3 DEF HandleSetClientErr, readerVars
<1>14. ASSUME NEW k \in Conns,
              PingerDone(k) \/ TakeSignature(k) \/ NoSignature(k) \/ WriteSetClient(k)
       PROVE  [CS!Next]_CS!vars
  BY <1>14, <1>1 DEF PingerDone, TakeSignature, NoSignature, WriteSetClient,
                     connVars, authVars
<1>15. CASE WriteMessageFails \/ CountSendFailure
  BY <1>15, <1>1 DEF WriteMessageFails, CountSendFailure, connVars
<1>16. CASE UserClose
  BY <1>16, <1>3 DEF UserClose, readerVars
<1>17. ASSUME NEW n \in Node \cup {NoNode}, UserReconnect(n) PROVE [CS!Next]_CS!vars
  BY <1>17, <1>2 DEF UserReconnect, EnterReconnect, recVars
<1>18. CASE UNCHANGED vars
  BY <1>18, <1>1 DEF vars
<1> QED
  BY <1>4, <1>5, <1>6, <1>7, <1>8, <1>9, <1>10, <1>11, <1>12, <1>13, <1>14, <1>15,
     <1>16, <1>17, <1>18, NextCases

(* The client implements ConnState: GetAllSubConnStates never shows a      *)
(* connected client change its node directly, nor a closed one come back.  *)
THEOREM ImplementsConnState == Spec => ConnStateSpec
<1>1. Init => CS!Init
  BY DEF Init, CS!Init, reportedState, reportedNode
<1> QED
  BY <1>1, StepRefines, Invariance, PTL DEF Spec, ConnStateSpec, CS!Spec

-----------------------------------------------------------------------------
(* After Close. *)

(* Close is called by a reader, which starts only after connect, or by the *)
(* application, which has the client only after NewClient.                 *)
LEMMA ClosedAfterMainStep ==
  TypeOK /\ MainFirst /\ ClosedAfterMain /\ [Next]_vars => ClosedAfterMain'
<1> SUFFICES ASSUME TypeOK, MainFirst, ClosedAfterMain, [Next]_vars
             PROVE  ClosedAfterMain'
  OBVIOUS
<1> USE ProcFacts, ConnectorsApart DEF ClosedAfterMain, InConnect
<1>1. pc \in [Proc -> PC]
  BY DEF TypeOK
<1>2. ASSUME NEW p \in Connectors, NEW n \in Node, FindNode(p, n)
      PROVE  ClosedAfterMain'
  BY <1>2 DEF FindNode, connVars
<1>3. ASSUME NEW p \in Connectors, NEW k \in Conns, ConnectToNode(p, k)
      PROVE  ClosedAfterMain'
  BY <1>1, <1>3 DEF ConnectToNode, Goto
<1>4. ASSUME NEW p \in Connectors, FindNodeFails(p) \/ DialFails(p) \/ GiveUp(p)
      PROVE  ClosedAfterMain'
  BY <1>1, <1>4 DEF FindNodeFails, DialFails, GiveUp, connVars, Goto
<1>5. ASSUME NEW p \in Connectors, StartConn(p)
      PROVE  ClosedAfterMain'
  <2>1. isClosed' = isClosed
    BY <1>5 DEF StartConn
  <2>2. p = Main => pc[Main] = "install"
    BY <1>5 DEF StartConn
  <2>3. p # Main => pc'[Main] = pc[Main]
    BY <1>1, <1>5 DEF StartConn
  <2> QED BY <2>1, <2>2, <2>3
<1>6. ASSUME NEW p \in Caller, ReconnectState(p) \/ ReconnectSend(p) \/ ReconnectClosed(p)
      PROVE  ClosedAfterMain'
  BY <1>1, <1>6 DEF ReconnectState, ReconnectSend, ReconnectClosed,
     EnterReconnect, Goto, recVars, Panic
<1>7. CASE HandlerRange \/ HandlerIsClosed \/ HandlerRangeEnds
  BY <1>1, <1>7 DEF HandlerRange, HandlerIsClosed, HandlerRangeEnds, Goto, connVars
<1>8. ASSUME NEW k \in Conns,
             \/ ReaderIsClosed(k) \/ ReadFails(k) \/ IgnoreMessage(k)
             \/ HandleChallenge(k) \/ HandleWrongNode(k) \/ HandleSetClientOK(k)
             \/ EmitOnConnect(k)
      PROVE  ClosedAfterMain'
  BY <1>1, <1>8 DEF ReaderIsClosed, ReadFails, IgnoreMessage, HandleChallenge,
     HandleWrongNode, HandleSetClientOK, EmitOnConnect, EnterReconnect, Goto, Panic
<1>9. ASSUME NEW k \in Conns, HandleSetClientErr(k)
      PROVE  ClosedAfterMain'
  <2>1. pc[Reader(k)] = "read" /\ pc'[Main] = pc[Main]
    BY <1>1, <1>9 DEF HandleSetClientErr, Receive, Close
  <2>2. Reader(k) \in Proc \ Connectors
    BY DEF Caller
  <2> QED BY <2>1, <2>2 DEF MainFirst
<1>10. ASSUME NEW k \in Conns,
              \/ PingFails(k) \/ PingerDone(k) \/ TakeSignature(k) \/ NoSignature(k)
              \/ WriteSetClient(k) \/ WriteSetClientFails(k) \/ LinkDown(k)
      PROVE  ClosedAfterMain'
  BY <1>1, <1>10 DEF PingFails, PingerDone, TakeSignature, NoSignature, WriteSetClient,
     WriteSetClientFails, LinkDown, EnterReconnect, Goto, recVars, connVars, authVars
<1>11. CASE WriteMessageFails \/ CountSendFailure
  BY <1>1, <1>11 DEF WriteMessageFails, CountSendFailure, Goto, connVars
<1>12. CASE UserClose
  BY <1>1, <1>12 DEF UserClose, Close
<1>13. ASSUME NEW n \in Node \cup {NoNode}, UserReconnect(n)
      PROVE  ClosedAfterMain'
  BY <1>1, <1>13 DEF UserReconnect, EnterReconnect, Goto, recVars
<1>14. CASE UNCHANGED vars
  BY <1>14 DEF vars
<1> HIDE DEF ClosedAfterMain
<1> QED
  BY <1>2, <1>3, <1>4, <1>5, <1>6, <1>7, <1>8, <1>9, <1>10, <1>11, <1>12, <1>13,
     <1>14, NextCases

(* Every goroutine but NewClient's caller, the writer and the application  *)
(* is done, so only the latter two and the network can take a step.        *)
LEMMA QuietStep ==
  TypeOK /\ ClosedAfterMain /\ [Next]_vars => StaysQuiet
<1> SUFFICES ASSUME TypeOK, ClosedAfterMain, [Next]_vars, Quiet
             PROVE  /\ Quiet'
                    /\ UNCHANGED <<conn, node, rpcNode, inbox>>
                    /\ \A k \in Conns : link'[k] = "up" => link[k] = "up"
  BY DEF StaysQuiet
<1> DEFINE Still == UNCHANGED <<isClosed, conn, node, rpcNode, inbox, link>>
           Outside == {Main, Writer, User}
<1> USE ProcFacts, ConnectorsApart
<1>1. pc \in [Proc -> PC] /\ link \in [Conns -> {"up", "down", "closed"}] /\ isClosed
  BY DEF TypeOK, Quiet
<1>2. \A p \in Proc \ Outside : pc[p] = "done"
  BY DEF Quiet, AllDone
<1>3. pc[Main] \notin {"loop", "install"} /\ pc[Handler] = "done"
  <2>1. Handler \notin Outside
    BY DEF Handler, Main, Writer, User
  <2> QED BY <1>1, <1>2, <2>1 DEF ClosedAfterMain, InConnect
<1>4. \A k \in Conns : \A p \in ConnProcs(k) : p \in Proc \ Outside
  <2> SUFFICES ASSUME NEW k \in Conns, NEW p \in ConnProcs(k)
               PROVE  p \in Proc \ Outside
    OBVIOUS
  <2>1. p \in Proc /\ p # Main
    BY DEF Caller, Connectors
  <2>2. p # Writer /\ p # User
    BY DEF ConnProcs, Reader, Pinger, Auth, Redirect, Writer, User
  <2> QED BY <2>1, <2>2
<1>5. \A k \in Conns : /\ pc[Reader(k)] = "done" /\ pc[Pinger(k)] = "done"
                       /\ pc[Auth(k)] = "done" /\ pc[Redirect(k)] = "done"
  BY <1>2, <1>4
<1>6. ASSUME Still, NEW p \in Outside, NEW to, pc' = pc \/ pc' = [pc EXCEPT ![p] = to]
      PROVE  /\ Quiet'
             /\ UNCHANGED <<conn, node, rpcNode, inbox>>
             /\ \A k \in Conns : link'[k] = "up" => link[k] = "up"
  BY <1>1, <1>2, <1>6 DEF Quiet, AllDone
<1> HIDE DEF Outside
<1>7. ASSUME NEW p \in Connectors
      PROVE  ~( \/ \E n \in Node : FindNode(p, n)
                \/ FindNodeFails(p) \/ DialFails(p) \/ GiveUp(p)
                \/ \E k \in Conns : ConnectToNode(p, k)
                \/ StartConn(p))
  <2>1. pc[p] \notin {"loop", "install"}
    BY <1>3 DEF Connectors
  <2> QED
    BY <2>1 DEF FindNode, FindNodeFails, DialFails, GiveUp, ConnectToNode, StartConn, Goto
<1>8. ~(HandlerRange \/ HandlerIsClosed \/ HandlerRangeEnds)
  BY <1>3 DEF HandlerRange, HandlerIsClosed, HandlerRangeEnds, Goto
<1>9. ASSUME NEW k \in Conns
      PROVE  ~(\/ ReaderIsClosed(k) \/ ReadFails(k) \/ IgnoreMessage(k)
               \/ HandleChallenge(k) \/ HandleWrongNode(k) \/ HandleSetClientErr(k)
               \/ HandleSetClientOK(k) \/ EmitOnConnect(k)
               \/ PingFails(k) \/ PingerDone(k)
               \/ TakeSignature(k) \/ NoSignature(k)
               \/ WriteSetClient(k) \/ WriteSetClientFails(k))
  BY <1>5 DEF ReaderIsClosed, ReadFails, IgnoreMessage, HandleChallenge, HandleWrongNode,
     HandleSetClientErr, HandleSetClientOK, EmitOnConnect, PingFails, PingerDone,
     TakeSignature, NoSignature, WriteSetClient, WriteSetClientFails, EnterReconnect,
     Receive, Goto
<1>10. ASSUME NEW p \in Caller, ReconnectState(p) \/ ReconnectSend(p) \/ ReconnectClosed(p)
       PROVE  Still /\ p \in Outside /\ (pc' = pc \/ pc' = [pc EXCEPT ![p] = Return(p)])
  <2>1. pc[p] \in {"recState", "recSend"}
    BY <1>10 DEF ReconnectState, ReconnectSend, ReconnectClosed, EnterReconnect, Goto
  <2>2. p \in Outside
    BY <1>2, <2>1 DEF Caller
  <2> QED
    BY <1>1, <1>10, <2>2 DEF ReconnectState, ReconnectSend, ReconnectClosed,
       EnterReconnect, Goto, Panic, recVars
<1>11. ASSUME NEW k \in Conns, LinkDown(k)
       PROVE  /\ Quiet'
              /\ UNCHANGED <<conn, node, rpcNode, inbox>>
              /\ \A c \in Conns : link'[c] = "up" => link[c] = "up"
  BY <1>1, <1>11 DEF LinkDown, Quiet, AllDone
<1>12. ASSUME WriteMessageFails \/ CountSendFailure
       PROVE  Still /\ \E to : pc' = [pc EXCEPT ![Writer] = to]
  BY <1>12 DEF WriteMessageFails, CountSendFailure, Goto, connVars
<1>13. ~UserClose
  BY <1>1 DEF UserClose
<1>14. ASSUME NEW n \in Node \cup {NoNode}, UserReconnect(n)
       PROVE  Still /\ \E to : pc' = [pc EXCEPT ![User] = to]
  BY <1>14 DEF UserReconnect, EnterReconnect, Goto, recVars
<1>15. ASSUME UNCHANGED vars
       PROVE  Still /\ pc' = pc
  BY <1>15 DEF vars
<1>16. Writer \in Outside /\ User \in Outside
  BY DEF Outside
<1> HIDE DEF Still
<1>17. CASE WriteMessageFails \/ CountSendFailure
  BY <1>6, <1>12, <1>16, <1>17
<1>18. ASSUME NEW n \in Node \cup {NoNode}, UserReconnect(n)
       PROVE  /\ Quiet'
              /\ UNCHANGED <<conn, node, rpcNode, inbox>>
              /\ \A k \in Conns : link'[k] = "up" => link[k] = "up"
  BY <1>6, <1>14, <1>16, <1>18
<1>19. CASE UNCHANGED vars
  BY <1>6, <1>15, <1>16, <1>19
<1>20. ASSUME NEW p \in Caller, ReconnectState(p) \/ ReconnectSend(p) \/ ReconnectClosed(p)
       PROVE  /\ Quiet'
              /\ UNCHANGED <<conn, node, rpcNode, inbox>>
              /\ \A k \in Conns : link'[k] = "up" => link[k] = "up"
  BY <1>6, <1>10, <1>20
<1> QED
  BY <1>7, <1>8, <1>9, <1>11, <1>13, <1>17, <1>18, <1>19, <1>20, NextCases

(* A closed client whose goroutines have ended stays so: neither a call of *)
(* Reconnect nor a failed write, which are still possible, restarts        *)
(* handleReconnect or opens a websocket.  With ClosedQuiesces: the client  *)
(* is eventually quiet for ever.                                           *)
THEOREM ClosedStaysQuiet == Spec => [][StaysQuiet]_vars
<1>1. Init => ClosedAfterMain
  BY DEF Init, ClosedAfterMain
<1>2. TypeOK /\ MainFirst /\ ClosedAfterMain /\ [Next]_vars => ClosedAfterMain'
  BY ClosedAfterMainStep
<1>3. TypeOK /\ ClosedAfterMain /\ [Next]_vars => [StaysQuiet]_vars
  BY QuietStep
<1>4. IndInv => TypeOK /\ MainFirst
  BY DEF IndInv
<1> QED
  BY <1>1, <1>2, <1>3, <1>4, Invariance, PTL DEF Spec
=============================================================================
