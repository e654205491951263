-------------------------- MODULE MultiClientProofs --------------------------
(* Proofs about MultiClient.tla: for any set of sub-clients and messages. *)
EXTENDS MultiClient, TLAPS

(* Where a sub-client is while it has to be closed yet: its goroutine is   *)
(* before Register, or it is in m.clients, which the linger timer will     *)
(* read or has read.                                                       *)
ToBeClosed ==
  /\ \A i \in Idx :
       /\ client[i] = "creating" => pc[i] = "create"
       /\ client[i] = "open" => pc[i] = "register" \/ i \in clients
       /\ pc[i] \in {"create", "register"} => i \notin clients
       /\ connPc[i] = "none" => pc[i] \in BeforeDone
  /\ isClosed <=> toClose.timer # "off"
  /\ toClose.timer = "fired" =>
       \A i \in clients : client[i] = "closed" \/ i \in toClose.left

(* Nothing is left of sub-client i; or one of its goroutines runs, none of *)
(* which waits for anything once m.onClose is closed, or the linger timer  *)
(* will close it.                                                          *)
Ended(i) == client[i] \in {"error", "closed"} /\ pc[i] = "done" /\ connPc[i] = "done"
Ending(i) == \/ pc[i] # "done" \/ connPc[i] = "select"
             \/ toClose.timer = "armed" \/ i \in toClose.left

NoneForgotten == isClosed => \A i \in Idx : Ended(i) \/ Ending(i)

(* The actions of a step. *)
LEMMA NextCases ==
  ASSUME Next
  PROVE  \/ \E i \in Idx :
              \/ NewClient(i) \/ NewClientFails(i) \/ Register(i) \/ SendSuccess(i)
              \/ StartLoops(i) \/ (\E m \in Msgs : Arrive(i, m)) \/ ClosesItself(i)
              \/ Receive(i) \/ CacheGet(i) \/ CacheSet(i) \/ EmitMessage(i)
              \/ ReceiveEnds(i) \/ ForwardConnect(i) \/ ConnectEnds(i)
              \/ CloseClient(i)
         \/ CreateDone \/ SendFail \/ Return \/ Close \/ LingerEnds
  BY DEF Next, SubNext, Create, ReceiveLoop, ConnectLoop, Linger

(* Every step keeps the types. *)
LEMMA TypeStep ==
  ASSUME TypeOK, [Next]_vars
  PROVE  TypeOK'
  <1>0. CASE UNCHANGED vars
    BY <1>0 DEF TypeOK, vars
  <1> SUFFICES ASSUME Next PROVE TypeOK'
    BY <1>0
  <1>1. ASSUME NEW i \in Idx,
               \/ NewClient(i) \/ NewClientFails(i) \/ Register(i) \/ SendSuccess(i)
               \/ StartLoops(i) \/ (\E m \in Msgs : Arrive(i, m)) \/ ClosesItself(i)
               \/ Receive(i) \/ CacheGet(i) \/ CacheSet(i) \/ EmitMessage(i)
               \/ ReceiveEnds(i) \/ ForwardConnect(i) \/ ConnectEnds(i)
               \/ CloseClient(i)
        PROVE  TypeOK'
    <2>1. CASE NewClient(i)
      BY <2>1 DEF TypeOK, NewClient, Goto, creation, traffic, closing
    <2>2. CASE NewClientFails(i)
      BY <2>2 DEF TypeOK, NewClientFails, Goto, creation, traffic, closing
    <2>3. CASE Register(i)
      BY <2>3 DEF TypeOK, Register, Goto, creation, traffic, closing
    <2>4. CASE SendSuccess(i)
      BY <2>4 DEF TypeOK, SendSuccess, Goto, creation, traffic, closing
    <2>5. CASE StartLoops(i)
      BY <2>5 DEF TypeOK, StartLoops, Goto, creation, traffic, closing
    <2>6. CASE \E m \in Msgs : Arrive(i, m)
      BY <2>6 DEF TypeOK, Arrive, Goto, creation, traffic, closing
    <2>7. CASE ClosesItself(i)
      BY <2>7 DEF TypeOK, ClosesItself, Goto, creation, traffic, closing
    <2>8. CASE Receive(i)
      <3>1. PICK m \in inbox[i] : msg' = [msg EXCEPT ![i] = m]
                                 /\ inbox' = [inbox EXCEPT ![i] = @ \ {m}]
        BY <2>8 DEF Receive
      <3>2. m \in Msgs
        BY DEF TypeOK
      <3> QED BY <2>8, <3>1, <3>2 DEF TypeOK, Receive, Goto, creation
    <2>9. CASE CacheGet(i)
      BY <2>9 DEF TypeOK, CacheGet, Goto, creation, traffic, closing
    <2>10. CASE CacheSet(i)
      BY <2>10 DEF TypeOK, CacheSet, Goto, creation, traffic, closing
    <2>11. CASE EmitMessage(i)
      <3>1. msg[i] \in Msgs
        BY <2>11 DEF TypeOK, EmitMessage, Goto
      <3>2. emitted' \in [Msgs -> Nat]
        BY <2>11, <3>1 DEF TypeOK, EmitMessage
      <3> QED BY <2>11, <3>1, <3>2 DEF TypeOK, EmitMessage, Goto, creation, closing
    <2>12. CASE ReceiveEnds(i)
      BY <2>12 DEF TypeOK, ReceiveEnds, Goto, creation, traffic, closing
    <2>13. CASE ForwardConnect(i)
      BY <2>13 DEF TypeOK, ForwardConnect, Goto, creation, traffic, closing
    <2>14. CASE ConnectEnds(i)
      BY <2>14 DEF TypeOK, ConnectEnds, Goto, creation, traffic, closing
    <2>15. CASE CloseClient(i)
      BY <2>15 DEF TypeOK, CloseClient, Goto, creation, traffic, closing
    <2> QED BY <1>1, <2>1, <2>2, <2>3, <2>4, <2>5, <2>6, <2>7, <2>8, <2>9, <2>10, <2>11, <2>12, <2>13, <2>14, <2>15
  <1>2. CASE CreateDone
    BY <1>2 DEF TypeOK, CreateDone, creation, traffic, closing
  <1>3. CASE SendFail
    BY <1>3 DEF TypeOK, SendFail, creation, traffic, closing
  <1>4. CASE Return
    BY <1>4, ZenonT(60) DEF TypeOK, Return, creation, traffic, closing
  <1>5. CASE Close
    BY <1>5 DEF TypeOK, Close, creation, traffic, closing
  <1>6. CASE LingerEnds
    BY <1>6 DEF TypeOK, LingerEnds, creation, traffic, closing
  <1> QED BY NextCases, <1>1, <1>2, <1>3, <1>4, <1>5, <1>6

(* Before its wg.Done a goroutine is counted: only then does it write     *)
(* m.clients.                                                              *)
LEMMA WgStep ==
  ASSUME TypeOK, WgCounts, [Next]_vars
  PROVE  WgCounts'
  <1>0. CASE UNCHANGED vars
    BY <1>0 DEF TypeOK, WgCounts, BeforeDone, vars
  <1> SUFFICES ASSUME Next PROVE WgCounts'
    BY <1>0
  <1>1. ASSUME NEW i \in Idx,
               \/ NewClient(i) \/ NewClientFails(i) \/ Register(i) \/ SendSuccess(i)
               \/ StartLoops(i) \/ (\E m \in Msgs : Arrive(i, m)) \/ ClosesItself(i)
               \/ Receive(i) \/ CacheGet(i) \/ CacheSet(i) \/ EmitMessage(i)
               \/ ReceiveEnds(i) \/ ForwardConnect(i) \/ ConnectEnds(i)
               \/ CloseClient(i)
        PROVE  WgCounts'
    <2>1. CASE NewClient(i)
      BY <2>1 DEF TypeOK, WgCounts, BeforeDone, NewClient, Goto, creation, traffic, closing
    <2>2. CASE NewClientFails(i)
      BY <2>2 DEF TypeOK, WgCounts, BeforeDone, NewClientFails, Goto, creation, traffic, closing
    <2>3. CASE Register(i)
      BY <2>3 DEF TypeOK, WgCounts, BeforeDone, Register, Goto, creation, traffic, closing
    <2>4. CASE SendSuccess(i)
      BY <2>4 DEF TypeOK, WgCounts, BeforeDone, SendSuccess, Goto, creation, traffic, closing
    <2>5. CASE StartLoops(i)
      BY <2>5 DEF TypeOK, WgCounts, BeforeDone, StartLoops, Goto, creation, traffic, closing
    <2>6. CASE \E m \in Msgs : Arrive(i, m)
      BY <2>6 DEF TypeOK, WgCounts, BeforeDone, Arrive, Goto, creation, traffic, closing
    <2>7. CASE ClosesItself(i)
      BY <2>7 DEF TypeOK, WgCounts, BeforeDone, ClosesItself, Goto, creation, traffic, closing
    <2>8. CASE Receive(i)
      BY <2>8 DEF TypeOK, WgCounts, BeforeDone, Receive, Goto, creation, traffic, closing
    <2>9. CASE CacheGet(i)
      BY <2>9 DEF TypeOK, WgCounts, BeforeDone, CacheGet, Goto, creation, traffic, closing
    <2>10. CASE CacheSet(i)
      BY <2>10 DEF TypeOK, WgCounts, BeforeDone, CacheSet, Goto, creation, traffic, closing
    <2>11. CASE EmitMessage(i)
      BY <2>11 DEF TypeOK, WgCounts, BeforeDone, EmitMessage, Goto, creation, traffic, closing
    <2>12. CASE ReceiveEnds(i)
      BY <2>12 DEF TypeOK, WgCounts, BeforeDone, ReceiveEnds, Goto, creation, traffic, closing
    <2>13. CASE ForwardConnect(i)
      BY <2>13 DEF TypeOK, WgCounts, BeforeDone, ForwardConnect, Goto, creation, traffic, closing
    <2>14. CASE ConnectEnds(i)
      BY <2>14 DEF TypeOK, WgCounts, BeforeDone, ConnectEnds, Goto, creation, traffic, closing
    <2>15. CASE CloseClient(i)
      BY <2>15 DEF TypeOK, WgCounts, BeforeDone, CloseClient, Goto, creation, traffic, closing
    <2> QED BY <1>1, <2>1, <2>2, <2>3, <2>4, <2>5, <2>6, <2>7, <2>8, <2>9, <2>10, <2>11, <2>12, <2>13, <2>14, <2>15
  <1>2. CASE CreateDone
    BY <1>2 DEF TypeOK, WgCounts, BeforeDone, CreateDone, creation, traffic, closing
  <1>3. CASE SendFail
    BY <1>3 DEF TypeOK, WgCounts, BeforeDone, SendFail, creation, traffic, closing
  <1>4. CASE Return
    BY <1>4 DEF TypeOK, WgCounts, BeforeDone, Return, creation, traffic, closing
  <1>5. CASE Close
    BY <1>5 DEF TypeOK, WgCounts, BeforeDone, Close, creation, traffic, closing
  <1>6. CASE LingerEnds
    BY <1>6 DEF TypeOK, WgCounts, BeforeDone, LingerEnds, creation, traffic, closing
  <1> QED BY NextCases, <1>1, <1>2, <1>3, <1>4, <1>5, <1>6

(* success is sent for a sub-client that is registered. *)
LEMMA SuccessStep ==
  ASSUME TypeOK, SuccessMeans, [Next]_vars
  PROVE  SuccessMeans'
  <1>0. CASE UNCHANGED vars
    BY <1>0 DEF TypeOK, SuccessMeans, vars
  <1> SUFFICES ASSUME Next PROVE SuccessMeans'
    BY <1>0
  <1>1. ASSUME NEW i \in Idx,
               \/ NewClient(i) \/ NewClientFails(i) \/ Register(i) \/ SendSuccess(i)
               \/ StartLoops(i) \/ (\E m \in Msgs : Arrive(i, m)) \/ ClosesItself(i)
               \/ Receive(i) \/ CacheGet(i) \/ CacheSet(i) \/ EmitMessage(i)
               \/ ReceiveEnds(i) \/ ForwardConnect(i) \/ ConnectEnds(i)
               \/ CloseClient(i)
        PROVE  SuccessMeans'
    <2>1. CASE NewClient(i)
      BY <2>1 DEF TypeOK, SuccessMeans, NewClient, Goto, creation, traffic, closing
    <2>2. CASE NewClientFails(i)
      BY <2>2 DEF TypeOK, SuccessMeans, NewClientFails, Goto, creation, traffic, closing
    <2>3. CASE Register(i)
      BY <2>3 DEF TypeOK, SuccessMeans, Register, Goto, creation, traffic, closing
    <2>4. CASE SendSuccess(i)
      BY <2>4 DEF TypeOK, SuccessMeans, SendSuccess, Goto, creation, traffic, closing
    <2>5. CASE StartLoops(i)
      BY <2>5 DEF TypeOK, SuccessMeans, StartLoops, Goto, creation, traffic, closing
    <2>6. CASE \E m \in Msgs : Arrive(i, m)
      BY <2>6 DEF TypeOK, SuccessMeans, Arrive, Goto, creation, traffic, closing
    <2>7. CASE ClosesItself(i)
      BY <2>7 DEF TypeOK, SuccessMeans, ClosesItself, Goto, creation, traffic, closing
    <2>8. CASE Receive(i)
      BY <2>8 DEF TypeOK, SuccessMeans, Receive, Goto, creation, traffic, closing
    <2>9. CASE CacheGet(i)
      BY <2>9 DEF TypeOK, SuccessMeans, CacheGet, Goto, creation, traffic, closing
    <2>10. CASE CacheSet(i)
      BY <2>10 DEF TypeOK, SuccessMeans, CacheSet, Goto, creation, traffic, closing
    <2>11. CASE EmitMessage(i)
      BY <2>11 DEF TypeOK, SuccessMeans, EmitMessage, Goto, creation, traffic, closing
    <2>12. CASE ReceiveEnds(i)
      BY <2>12 DEF TypeOK, SuccessMeans, ReceiveEnds, Goto, creation, traffic, closing
    <2>13. CASE ForwardConnect(i)
      BY <2>13 DEF TypeOK, SuccessMeans, ForwardConnect, Goto, creation, traffic, closing
    <2>14. CASE ConnectEnds(i)
      BY <2>14 DEF TypeOK, SuccessMeans, ConnectEnds, Goto, creation, traffic, closing
    <2>15. CASE CloseClient(i)
      BY <2>15 DEF TypeOK, SuccessMeans, CloseClient, Goto, creation, traffic, closing
    <2> QED BY <1>1, <2>1, <2>2, <2>3, <2>4, <2>5, <2>6, <2>7, <2>8, <2>9, <2>10, <2>11, <2>12, <2>13, <2>14, <2>15
  <1>2. CASE CreateDone
    BY <1>2 DEF TypeOK, SuccessMeans, CreateDone, creation, traffic, closing
  <1>3. CASE SendFail
    BY <1>3 DEF TypeOK, SuccessMeans, SendFail, creation, traffic, closing
  <1>4. CASE Return
    BY <1>4 DEF TypeOK, SuccessMeans, Return, creation, traffic, closing
  <1>5. CASE Close
    BY <1>5 DEF TypeOK, SuccessMeans, Close, creation, traffic, closing
  <1>6. CASE LingerEnds
    BY <1>6 DEF TypeOK, SuccessMeans, LingerEnds, creation, traffic, closing
  <1> QED BY NextCases, <1>1, <1>2, <1>3, <1>4, <1>5, <1>6

(* The default client stays the smallest, whatever the order. *)
LEMMA DefaultStep ==
  ASSUME TypeOK, DefaultInClients, [Next]_vars
  PROVE  DefaultInClients'
  <1>0. CASE UNCHANGED vars
    BY <1>0 DEF TypeOK, DefaultInClients, vars
  <1> SUFFICES ASSUME Next PROVE DefaultInClients'
    BY <1>0
  <1>1. ASSUME NEW i \in Idx,
               \/ NewClient(i) \/ NewClientFails(i) \/ Register(i) \/ SendSuccess(i)
               \/ StartLoops(i) \/ (\E m \in Msgs : Arrive(i, m)) \/ ClosesItself(i)
               \/ Receive(i) \/ CacheGet(i) \/ CacheSet(i) \/ EmitMessage(i)
               \/ ReceiveEnds(i) \/ ForwardConnect(i) \/ ConnectEnds(i)
               \/ CloseClient(i)
        PROVE  DefaultInClients'
    <2>1. CASE NewClient(i)
      BY <2>1 DEF TypeOK, DefaultInClients, NewClient, Goto, creation, traffic, closing
    <2>2. CASE NewClientFails(i)
      BY <2>2 DEF TypeOK, DefaultInClients, NewClientFails, Goto, creation, traffic, closing
    <2>3. CASE Register(i)
      <3>1. Idx \subseteq Int /\ NoIdx \notin Idx
        BY MultiClientAssumption
      <3>2. CASE isClosed
        BY <2>3, <3>2 DEF DefaultInClients, Register
      <3>3. CASE ~isClosed
        <4>1. clients' = clients \cup {i}
          BY <2>3, <3>3 DEF Register
        <4>2. CASE SmallestSoFar(i)
          <5>1. defaultClient' = i
            BY <2>3, <3>3, <4>2 DEF Register
          <5>2. \A j \in clients : i <= j
            <6>1. CASE defaultClient = NoIdx
              BY <6>1 DEF DefaultInClients
            <6>2. CASE defaultClient # NoIdx
              <7>1. i < defaultClient /\ defaultClient \in Int /\ clients \subseteq Int
                BY <3>1, <4>2, <6>2 DEF SmallestSoFar, TypeOK
              <7>2. \A j \in clients : defaultClient <= j
                BY <6>2 DEF DefaultInClients
              <7> QED BY <7>1, <7>2, <3>1
            <6> QED BY <6>1, <6>2
          <5> QED BY <3>1, <4>1, <5>1, <5>2 DEF DefaultInClients
        <4>3. CASE ~SmallestSoFar(i)
          <5>1. defaultClient' = defaultClient
            BY <2>3, <3>3, <4>3 DEF Register
          <5>2. defaultClient # NoIdx /\ defaultClient <= i
            BY <3>1, <4>3 DEF SmallestSoFar, TypeOK
          <5> QED BY <4>1, <5>1, <5>2 DEF DefaultInClients
        <4> QED BY <4>2, <4>3
      <3> QED BY <3>2, <3>3
    <2>4. CASE SendSuccess(i)
      BY <2>4 DEF TypeOK, DefaultInClients, SendSuccess, Goto, creation, traffic, closing
    <2>5. CASE StartLoops(i)
      BY <2>5 DEF TypeOK, DefaultInClients, StartLoops, Goto, creation, traffic, closing
    <2>6. CASE \E m \in Msgs : Arrive(i, m)
      BY <2>6 DEF TypeOK, DefaultInClients, Arrive, Goto, creation, traffic, closing
    <2>7. CASE ClosesItself(i)
      BY <2>7 DEF TypeOK, DefaultInClients, ClosesItself, Goto, creation, traffic, closing
    <2>8. CASE Receive(i)
      BY <2>8 DEF TypeOK, DefaultInClients, Receive, Goto, creation, traffic, closing
    <2>9. CASE CacheGet(i)
      BY <2>9 DEF TypeOK, DefaultInClients, CacheGet, Goto, creation, traffic, closing
    <2>10. CASE CacheSet(i)
      BY <2>10 DEF TypeOK, DefaultInClients, CacheSet, Goto, creation, traffic, closing
    <2>11. CASE EmitMessage(i)
      BY <2>11 DEF TypeOK, DefaultInClients, EmitMessage, Goto, creation, traffic, closing
    <2>12. CASE ReceiveEnds(i)
      BY <2>12 DEF TypeOK, DefaultInClients, ReceiveEnds, Goto, creation, traffic, closing
    <2>13. CASE ForwardConnect(i)
      BY <2>13 DEF TypeOK, DefaultInClients, ForwardConnect, Goto, creation, traffic, closing
    <2>14. CASE ConnectEnds(i)
      BY <2>14 DEF TypeOK, DefaultInClients, ConnectEnds, Goto, creation, traffic, closing
    <2>15. CASE CloseClient(i)
      BY <2>15 DEF TypeOK, DefaultInClients, CloseClient, Goto, creation, traffic, closing
    <2> QED BY <1>1, <2>1, <2>2, <2>3, <2>4, <2>5, <2>6, <2>7, <2>8, <2>9, <2>10, <2>11, <2>12, <2>13, <2>14, <2>15
  <1>2. CASE CreateDone
    BY <1>2 DEF TypeOK, DefaultInClients, CreateDone, creation, traffic, closing
  <1>3. CASE SendFail
    BY <1>3 DEF TypeOK, DefaultInClients, SendFail, creation, traffic, closing
  <1>4. CASE Return
    BY <1>4 DEF TypeOK, DefaultInClients, Return, creation, traffic, closing
  <1>5. CASE Close
    BY <1>5 DEF TypeOK, DefaultInClients, Close, creation, traffic, closing
  <1>6. CASE LingerEnds
    BY <1>6 DEF TypeOK, DefaultInClients, LingerEnds, creation, traffic, closing
  <1> QED BY NextCases, <1>1, <1>2, <1>3, <1>4, <1>5, <1>6

(* A receive loop that marks a message in the cache hands it over before   *)
(* it turns to the next one.                                               *)
LEMMA DedupStep ==
  ASSUME TypeOK, DedupLosesNothing, [Next]_vars
  PROVE  DedupLosesNothing'
  <1>0. CASE UNCHANGED vars
    BY <1>0 DEF TypeOK, DedupLosesNothing, Working, vars
  <1> SUFFICES ASSUME Next PROVE DedupLosesNothing'
    BY <1>0
  <1>1. ASSUME NEW i \in Idx,
               \/ NewClient(i) \/ NewClientFails(i) \/ Register(i) \/ SendSuccess(i)
               \/ StartLoops(i) \/ (\E m \in Msgs : Arrive(i, m)) \/ ClosesItself(i)
               \/ Receive(i) \/ CacheGet(i) \/ CacheSet(i) \/ EmitMessage(i)
               \/ ReceiveEnds(i) \/ ForwardConnect(i) \/ ConnectEnds(i)
               \/ CloseClient(i)
        PROVE  DedupLosesNothing'
    <2>1. CASE NewClient(i)
      BY <2>1 DEF TypeOK, DedupLosesNothing, Working, NewClient, Goto, creation, traffic, closing
    <2>2. CASE NewClientFails(i)
      BY <2>2 DEF TypeOK, DedupLosesNothing, Working, NewClientFails, Goto, creation, traffic, closing
    <2>3. CASE Register(i)
      BY <2>3 DEF TypeOK, DedupLosesNothing, Working, Register, Goto, creation, traffic, closing
    <2>4. CASE SendSuccess(i)
      BY <2>4 DEF TypeOK, DedupLosesNothing, Working, SendSuccess, Goto, creation, traffic, closing
    <2>5. CASE StartLoops(i)
      BY <2>5 DEF TypeOK, DedupLosesNothing, Working, StartLoops, Goto, creation, traffic, closing
    <2>6. CASE \E m \in Msgs : Arrive(i, m)
      BY <2>6 DEF TypeOK, DedupLosesNothing, Working, Arrive, Goto, creation, traffic, closing
    <2>7. CASE ClosesItself(i)
      BY <2>7 DEF TypeOK, DedupLosesNothing, Working, ClosesItself, Goto, creation, traffic, closing
    <2>8. CASE Receive(i)
      BY <2>8 DEF TypeOK, DedupLosesNothing, Working, Receive, Goto, creation, traffic, closing
    <2>9. CASE CacheGet(i)
      BY <2>9 DEF TypeOK, DedupLosesNothing, Working, CacheGet, Goto, creation, traffic, closing
    <2>10. CASE CacheSet(i)
      BY <2>10 DEF TypeOK, DedupLosesNothing, Working, CacheSet, Goto, creation, traffic, closing
    <2>11. CASE EmitMessage(i)
      <3> SUFFICES ASSUME NEW m \in msgCache, ~isClosed
                   PROVE  emitted'[m] > 0 \/ \E j \in Idx : Working(j, m)'
        BY <2>11 DEF DedupLosesNothing, EmitMessage, closing
      <3>0. msg[i] \in Msgs /\ m \in Msgs /\ emitted \in [Msgs -> Nat]
        BY <2>11 DEF TypeOK, EmitMessage, Goto
      <3>1. emitted' = [emitted EXCEPT ![msg[i]] = @ + 1]
        BY <2>11 DEF EmitMessage
      <3>2. CASE m = msg[i]
        BY <3>0, <3>1, <3>2
      <3>3. CASE m # msg[i] /\ emitted[m] > 0
        BY <3>0, <3>1, <3>3
      <3>4. CASE m # msg[i] /\ \E j \in Idx : Working(j, m)
        <4>1. PICK j \in Idx : Working(j, m)
          BY <3>4
        <4>2. j # i
          BY <3>4, <4>1 DEF Working
        <4> QED BY <2>11, <4>1, <4>2 DEF TypeOK, Working, EmitMessage, Goto
      <3> QED BY <3>2, <3>3, <3>4 DEF DedupLosesNothing
    <2>12. CASE ReceiveEnds(i)
      BY <2>12 DEF TypeOK, DedupLosesNothing, Working, ReceiveEnds, Goto, creation, traffic, closing
    <2>13. CASE ForwardConnect(i)
      BY <2>13 DEF TypeOK, DedupLosesNothing, Working, ForwardConnect, Goto, creation, traffic, closing
    <2>14. CASE ConnectEnds(i)
      BY <2>14 DEF TypeOK, DedupLosesNothing, Working, ConnectEnds, Goto, creation, traffic, closing
    <2>15. CASE CloseClient(i)
      BY <2>15 DEF TypeOK, DedupLosesNothing, Working, CloseClient, Goto, creation, traffic, closing
    <2> QED BY <1>1, <2>1, <2>2, <2>3, <2>4, <2>5, <2>6, <2>7, <2>8, <2>9, <2>10, <2>11, <2>12, <2>13, <2>14, <2>15
  <1>2. CASE CreateDone
    BY <1>2 DEF TypeOK, DedupLosesNothing, Working, CreateDone, creation, traffic, closing
  <1>3. CASE SendFail
    BY <1>3 DEF TypeOK, DedupLosesNothing, Working, SendFail, creation, traffic, closing
  <1>4. CASE Return
    BY <1>4 DEF TypeOK, DedupLosesNothing, Working, Return, creation, traffic, closing
  <1>5. CASE Close
    BY <1>5 DEF TypeOK, DedupLosesNothing, Working, Close, creation, traffic, closing
  <1>6. CASE LingerEnds
    BY <1>6 DEF TypeOK, DedupLosesNothing, Working, LingerEnds, creation, traffic, closing
  <1> QED BY NextCases, <1>1, <1>2, <1>3, <1>4, <1>5, <1>6

(* IndInv is an invariant: it holds initially and every step keeps it. *)
THEOREM Invariance == Spec => []IndInv
  <1>1. Init => IndInv
    <2>1. Init => TypeOK
      <3> SUFFICES ASSUME Init PROVE TypeOK
        OBVIOUS
      <3>1. /\ client \in [Idx -> {"creating", "error", "open", "closed"}]
            /\ emitted \in [Msgs -> Nat]
            /\ arrived \in [Idx -> SUBSET Msgs] /\ inbox \in [Idx -> SUBSET Msgs]
            /\ msg \in [Idx -> Msgs \cup {NoMsg}]
        BY DEF Init
      <3>2. /\ pc \in [Idx -> {"create", "register", "success", "wgDone", "select",
                                "get", "set", "emit", "done"}]
            /\ \A i \in Idx : pc[i] \notin {"get", "set", "emit"}
            /\ connPc \in [Idx -> {"none", "select", "done"}]
            /\ toClose \in [timer : {"off", "armed", "fired"}, left : SUBSET Idx]
        BY DEF Init
      <3> QED BY <3>1, <3>2 DEF Init, TypeOK
    <2>2. Init => WgCounts /\ SuccessMeans /\ DefaultInClients /\ DedupLosesNothing
      BY DEF Init, WgCounts, SuccessMeans, DefaultInClients, DedupLosesNothing
    <2> QED BY <2>1, <2>2 DEF IndInv
  <1>2. IndInv /\ [Next]_vars => IndInv'
    BY TypeStep, WgStep, SuccessStep, DefaultStep, DedupStep DEF IndInv
  <1> QED BY <1>1, <1>2, PTL DEF Spec

(* The types of the multiclient's state. *)
THEOREM TypeCorrect == Spec => []TypeOK
  <1>1. IndInv => TypeOK
    BY DEF IndInv
  <1> QED BY <1>1, Invariance, PTL

(* GetDefaultClient returns the sub-client with the smallest index, and a  *)
(* multiclient that NewMultiClient returned has one.                       *)
THEOREM DefaultIsSmallest == Spec => []DefaultSmallest
  <1>1. IndInv => DefaultSmallest
    BY DEF IndInv, DefaultSmallest, DefaultInClients, SuccessMeans
  <1> QED BY <1>1, Invariance, PTL

(* What a receive loop skips as a duplicate is handed over by another. *)
THEOREM NothingIsLost == Spec => []DedupLosesNothing
  <1>1. IndInv => DedupLosesNothing
    BY DEF IndInv
  <1> QED BY <1>1, Invariance, PTL

(* m.clients is not written after createDone: only Register writes it, by  *)
(* a goroutine that wg still counts.                                       *)
THEOREM ClientsAreFrozen == Spec => ClientsFrozen
  <1>1. ASSUME IndInv, [Next]_vars, createDone
        PROVE  clients' = clients
    <2>1. CASE UNCHANGED vars
      BY <2>1 DEF vars
    <2>2. CASE Next
      <3>1. \A i \in Idx : ~Register(i)
        BY <1>1 DEF IndInv, WgCounts, BeforeDone, Register, Goto
      <3> QED
        BY <2>2, <3>1, NextCases
        DEF NewClient, NewClientFails, SendSuccess, StartLoops, Arrive, ClosesItself,
            Receive, CacheGet, CacheSet, EmitMessage, ReceiveEnds, ForwardConnect,
            ConnectEnds, CloseClient, CreateDone, SendFail, Return, Close, LingerEnds,
            creation
    <2> QED BY <1>1, <2>1, <2>2
  <1>2. IndInv /\ [Next]_vars => [createDone => clients' = clients]_vars
    BY <1>1
  <1> QED BY <1>2, Invariance, PTL DEF Spec, ClientsFrozen

-----------------------------------------------------------------------------
(* The safety half of CloseClosesClients. *)

(* Every step keeps track of the sub-clients that have to be closed. *)
LEMMA ToBeClosedStep ==
  ASSUME TypeOK, ToBeClosed, [Next]_vars
  PROVE  ToBeClosed'
  <1> USE DEF ToBeClosed, TypeOK, BeforeDone
  <1>0. CASE UNCHANGED vars
    BY <1>0 DEF vars
  <1> SUFFICES ASSUME Next PROVE ToBeClosed'
    BY <1>0
  <1>1. ASSUME NEW i \in Idx, NewClient(i) \/ NewClientFails(i)
        PROVE  ToBeClosed'
    BY <1>1 DEF NewClient, NewClientFails, Goto, creation, traffic, closing
  <1>2. ASSUME NEW i \in Idx, Register(i)
        PROVE  ToBeClosed'
    <2>1. CASE isClosed
      BY <1>2, <2>1 DEF Register, Goto, traffic, closing
    <2>2. CASE ~isClosed
      BY <1>2, <2>2 DEF Register, Goto, traffic, closing
    <2> QED BY <2>1, <2>2
  <1>3. ASSUME NEW i \in Idx, SendSuccess(i) \/ StartLoops(i)
        PROVE  ToBeClosed'
    BY <1>3 DEF SendSuccess, StartLoops, Goto, traffic, closing
  <1>4. ASSUME NEW i \in Idx, NEW m \in Msgs, Arrive(i, m)
        PROVE  ToBeClosed'
    BY <1>4 DEF Arrive, creation, closing
  <1>5. ASSUME NEW i \in Idx, ClosesItself(i)
        PROVE  ToBeClosed'
    BY <1>5 DEF ClosesItself, creation, traffic, closing
  <1>6. ASSUME NEW i \in Idx,
               Receive(i) \/ CacheGet(i) \/ CacheSet(i) \/ EmitMessage(i) \/ ReceiveEnds(i)
        PROVE  ToBeClosed'
    <2>1. /\ UNCHANGED <<client, clients, connPc, isClosed, toClose>>
          /\ pc[i] \in {"select", "get", "set", "emit"}
          /\ \E to \in {"select", "get", "set", "emit", "done"} : pc' = [pc EXCEPT ![i] = to]
      BY <1>6 DEF Receive, CacheGet, CacheSet, EmitMessage, ReceiveEnds, Goto, creation, closing
    <2> QED BY <2>1
  <1>7. ASSUME NEW i \in Idx, ForwardConnect(i) \/ ConnectEnds(i)
        PROVE  ToBeClosed'
    BY <1>7 DEF ForwardConnect, ConnectEnds, creation, traffic, closing
  <1>8. ASSUME NEW i \in Idx, CloseClient(i)
        PROVE  ToBeClosed'
    BY <1>8 DEF CloseClient, creation, traffic
  <1>9. CASE CreateDone \/ SendFail \/ Return
    BY <1>9 DEF CreateDone, SendFail, Return, traffic, closing
  <1>10. CASE Close
    BY <1>10 DEF Close, creation, traffic
  <1>11. CASE LingerEnds
    BY <1>11 DEF LingerEnds, creation, traffic
  <1> HIDE DEF ToBeClosed
  <1> QED
    BY NextCases, <1>1, <1>2, <1>3, <1>4, <1>5, <1>6, <1>7, <1>8, <1>9, <1>10, <1>11

(* Close "closes the multiclient, including all clients it created": at    *)
(* any time after Close every sub-client, also one that is created only    *)
(* then, is closed with its goroutines ended, or some goroutine of it or   *)
(* the linger timer has yet to run.                                        *)
THEOREM CloseForgetsNone == Spec => []NoneForgotten
  <1>1. Init => ToBeClosed
    BY DEF Init, ToBeClosed, BeforeDone
  <1>2. TypeOK /\ ToBeClosed /\ [Next]_vars => ToBeClosed'
    BY ToBeClosedStep
  <1>3. TypeOK /\ ToBeClosed => NoneForgotten
    BY DEF TypeOK, ToBeClosed, NoneForgotten, Ended, Ending, BeforeDone
  <1> QED BY <1>1, <1>2, <1>3, TypeCorrect, PTL DEF Spec
=============================================================================
