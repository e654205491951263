--------------------------- MODULE RPCCallProofs ----------------------------
(* Proofs about one call of RPCCall: for any list of servers, any number   *)
(* of goroutines and any result.                                           *)
EXTENDS RPCCall, TLAPS, FiniteSetTheorems

Decided == Success \cup {"error"}

(* respLock is held by the goroutine that decodes, and by no other. *)
LockHeld ==
  \A w \in 1..n : wpc[w] \in {"locked", "decide", "panic"} <=> respLock = w

(* A goroutine works on an address that was handed over, and decodes what  *)
(* the server sent.                                                        *)
WorkerKnows ==
  \A w \in 1..n :
    /\ wpc[w] \in {"post", "body", "locked", "decide"} => waddr[w] \in tried
    /\ wpc[w] \in {"body", "locked", "decide"} => answer[waddr[w]] # "none"

(* Until an answer is accepted, all that was decoded is of answers that    *)
(* were refused.                                                           *)
Leftovers ==
  (~ctxDone /\ respLock = 0) \/ (\E w \in 1..n : wpc[w] = "locked") =>
    \A f \in Fields : result[f] = 0 \/ answer[result[f]] = "partial"

(* While a goroutine has decoded an answer and still holds respLock, the   *)
(* result is the answer's.                                                 *)
DecodedWhole ==
  \A w \in 1..n :
    wpc[w] = "decide" => answer[waddr[w]] \in Decided /\ ResultOf(waddr[w])

(* So it is once the answer is in respErrChan; respLock is not taken any   *)
(* more then.                                                              *)
DecidedWhole ==
  respErr # 0 =>
    /\ ctxDone /\ respLock = 0
    /\ respErr \in tried /\ answer[respErr] \in Decided
    /\ ResultOf(respErr)

(* Why ctx may be cancelled while the call goes on. *)
CtxDoneWhy ==
  /\ canceled => ctxDone
  /\ ctxDone /\ outcome = "pending" => canceled \/ respErr # 0

(* No address is skipped before ctx is cancelled. *)
FedInOrder ==
  /\ ~ctxDone => tried = 1..(next - 1)
  /\ closed => next = NumServers + 1

(* When the call has returned, the goroutines have. *)
ReturnedLast ==
  outcome # "pending" =>
    /\ ctxDone
    /\ \A w \in 1..n : wpc[w] = "done"
    /\ outcome = "ok" => source = respErr /\ source # 0

IndInv ==
  /\ TypeOK /\ LockHeld /\ WorkerKnows /\ Leftovers /\ DecodedWhole
  /\ DecidedWhole /\ CtxDoneWhy /\ FedInOrder /\ ReturnedLast

(* A goroutine has ended only because there is nothing more to do, or      *)
(* because it could not dial the address that it took.                     *)
DoneWhy ==
  \A w \in 1..n :
    wpc[w] = "done" => closed \/ ctxDone \/ (~dials /\ waddr[w] # 0)

(* Each address goes to one goroutine. *)
AddrsApart ==
  /\ \A w \in 1..n : waddr[w] < next
  /\ \A v, w \in 1..n : waddr[v] = waddr[w] /\ waddr[v] # 0 => v = w

(* Goroutines that cannot dial get no answer and keep the one address they *)
(* took; every address that was handed over is with one of them.           *)
NoDialKeeps ==
  ~dials \/ n = 0 =>
    /\ respErr = 0
    /\ \A w \in 1..n : /\ wpc[w] \in {"range", "post", "done"}
                       /\ wpc[w] = "range" => waddr[w] = 0
    /\ ~ctxDone => \A s \in 1..(next - 1) : \E w \in 1..n : waddr[w] = s

(* The conditions of the caller's steps, and of a goroutine's. *)
CallerCan ==
  \/ next <= NumServers /\ ctxDone
  \/ next = NumServers + 1 /\ ~closed
  \/ closed /\ \A w \in 1..n : wpc[w] = "done"
WorkerCan(w) ==
  \/ wpc[w] = "range" /\ (next <= NumServers \/ closed)
  \/ wpc[w] = "post"
  \/ wpc[w] = "body" /\ respLock = 0
  \/ wpc[w] = "locked" /\ answer[waddr[w]] \in {"bad", "partial", "null"} \cup Decided
  \/ wpc[w] = "decide" /\ (respErr = 0 \/ ctxDone)

(* The caller has an address that no goroutine will take: there was none,  *)
(* or they could not dial, and there were fewer of them than addresses.    *)
Abandoned ==
  /\ n = 0 \/ ~dials
  /\ n < NumServers
  /\ next <= NumServers /\ ~ctxDone /\ \A w \in 1..n : wpc[w] = "done"

(* Until the call has returned, its caller or one of its goroutines can    *)
(* take a step, whatever the servers do, unless the call was abandoned.    *)
NeverStuck ==
  outcome = "pending" /\ ~Panicked =>
    CallerCan \/ (\E w \in 1..n : WorkerCan(w)) \/ Abandoned

(* The parts of the invariant. *)
LEMMA IndInvParts ==
  ASSUME IndInv
  PROVE  /\ TypeOK /\ LockHeld /\ WorkerKnows /\ Leftovers /\ DecodedWhole
         /\ DecidedWhole /\ CtxDoneWhy /\ FedInOrder /\ ReturnedLast
  BY DEF IndInv

(* The actions of a step. *)
LEMMA NextCases ==
  ASSUME Next
  PROVE  \/ SkipAddr \/ CloseAddrChan \/ Return \/ Cancel
         \/ \E w \in 1..n :
              \/ Feed(w) \/ RangeEnds(w) \/ NoDialContext(w) \/ PostReturns(w)
              \/ PostFails(w) \/ TooLate(w) \/ Lock(w) \/ UnmarshalFails(w)
              \/ Unmarshal(w) \/ UnmarshalNull(w) \/ Decide(w) \/ DecideCanceled(w)
         \/ \E s \in Servers, a \in Answers : Serve(s, a)
  BY DEF Next, Main, Worker

(* The call begins with nothing tried. *)
LEMMA InitInv == Init => IndInv
  <1> SUFFICES ASSUME Init PROVE IndInv
    OBVIOUS
  <1>1. n \in Nat /\ dials \in BOOLEAN
    <2>1. PICK c \in Configs : n = NumWorkers(c.conc) /\ dials = c.dials
      BY DEF Init
    <2> QED BY <2>1, RPCCallAssumption DEF NumWorkers
  <1>2. TypeOK
    <2>1. next \in 1..(NumServers + 1)
      BY RPCCallAssumption DEF Init
    <2>2. /\ tried \subseteq Servers
          /\ answer \in [Servers -> Answers \cup {"none"}]
          /\ canceled \in BOOLEAN /\ closed \in BOOLEAN /\ ctxDone \in BOOLEAN
          /\ outcome \in {"pending", "ok", "error", "network", "canceled"}
          /\ source \in Servers \cup {0} /\ respErr \in Servers \cup {0}
      BY DEF Init, PInit
    <2>3. /\ wpc \in [1..n -> {"range", "post", "body", "locked", "decide", "panic",
                              "done"}]
          /\ waddr \in [1..n -> Servers \cup {0}]
          /\ respLock \in 0..n
          /\ result \in [Fields -> Servers \cup {0}] /\ carried \subseteq Fields
      BY <1>1 DEF Init
    <2> QED BY <1>1, <2>1, <2>2, <2>3 DEF TypeOK
  <1>3. LockHeld /\ WorkerKnows /\ Leftovers /\ DecodedWhole /\ DecidedWhole
    BY <1>1 DEF Init, PInit, LockHeld, WorkerKnows, Leftovers, DecodedWhole,
                DecidedWhole
  <1>4. CtxDoneWhy /\ ReturnedLast
    BY DEF Init, PInit, CtxDoneWhy, ReturnedLast
  <1>5. FedInOrder
    BY RPCCallAssumption DEF Init, PInit, FedInOrder
  <1> QED BY <1>2, <1>3, <1>4, <1>5 DEF IndInv

(* rpcAddrChan <- rpcAddr. *)
LEMMA FeedStep ==
  ASSUME IndInv, NEW w \in 1..n, Feed(w)
  PROVE  IndInv'
  <1> USE IndInvParts, RPCCallAssumption
  <1>1. next \in Servers /\ n \in Nat /\ outcome = "pending"
    BY DEF TypeOK, Feed, config, decoded, ReturnedLast
  <1>2. TypeOK'
    BY <1>1 DEF TypeOK, Feed, config, decoded
  <1>3. LockHeld'
    BY DEF TypeOK, Feed, config, decoded, LockHeld
  <1>4. WorkerKnows'
    BY DEF TypeOK, Feed, config, decoded, WorkerKnows
  <1>5. DecodedWhole'
    BY DEF TypeOK, Feed, config, decoded, DecodedWhole, ResultOf
  <1>6. DecidedWhole'
    BY DEF TypeOK, Feed, config, decoded, DecidedWhole, ResultOf
  <1>7. CtxDoneWhy' /\ ReturnedLast'
    BY <1>1 DEF Feed, config, decoded, CtxDoneWhy, ReturnedLast
  <1>8. FedInOrder'
    BY <1>1 DEF TypeOK, Feed, config, decoded, FedInOrder
  <1>9. Leftovers'
    BY <1>1 DEF TypeOK, Feed, config, decoded, Leftovers, LockHeld
  <1> QED BY <1>2, <1>3, <1>4, <1>5, <1>6, <1>7, <1>8, <1>9 DEF IndInv

(* The loop of the caller goes on after ctx is cancelled. *)
LEMMA SkipAddrStep ==
  ASSUME IndInv, SkipAddr
  PROVE  IndInv'
  <1> USE IndInvParts, RPCCallAssumption
  <1>1. TypeOK'
    BY DEF TypeOK, SkipAddr, promised, config, decoded
  <1>2. LockHeld'
    BY DEF TypeOK, SkipAddr, promised, config, decoded, LockHeld
  <1>3. WorkerKnows'
    BY DEF TypeOK, SkipAddr, promised, config, decoded, WorkerKnows
  <1>4. DecodedWhole'
    BY DEF TypeOK, SkipAddr, promised, config, decoded, DecodedWhole, ResultOf
  <1>5. DecidedWhole'
    BY DEF TypeOK, SkipAddr, promised, config, decoded, DecidedWhole, ResultOf
  <1>6. CtxDoneWhy'
    BY DEF TypeOK, SkipAddr, promised, config, decoded, CtxDoneWhy
  <1>7. FedInOrder'
    BY DEF TypeOK, SkipAddr, promised, config, decoded, FedInOrder
  <1>8. ReturnedLast'
    BY DEF TypeOK, SkipAddr, promised, config, decoded, ReturnedLast
  <1>9. Leftovers'
    BY <1>1 DEF TypeOK, SkipAddr, promised, config, decoded, Leftovers, LockHeld
  <1> QED BY <1>1, <1>2, <1>3, <1>4, <1>5, <1>6, <1>7, <1>8, <1>9 DEF IndInv

(* close(rpcAddrChan). *)
LEMMA CloseAddrChanStep ==
  ASSUME IndInv, CloseAddrChan
  PROVE  IndInv'
  <1> USE IndInvParts, RPCCallAssumption
  <1>1. TypeOK'
    BY DEF TypeOK, CloseAddrChan, promised, config, decoded
  <1>2. LockHeld'
    BY DEF TypeOK, CloseAddrChan, promised, config, decoded, LockHeld
  <1>3. WorkerKnows'
    BY DEF TypeOK, CloseAddrChan, promised, config, decoded, WorkerKnows
  <1>4. DecodedWhole'
    BY DEF TypeOK, CloseAddrChan, promised, config, decoded, DecodedWhole, ResultOf
  <1>5. DecidedWhole'
    BY DEF TypeOK, CloseAddrChan, promised, config, decoded, DecidedWhole, ResultOf
  <1>6. CtxDoneWhy'
    BY DEF TypeOK, CloseAddrChan, promised, config, decoded, CtxDoneWhy
  <1>7. FedInOrder'
    BY DEF TypeOK, CloseAddrChan, promised, config, decoded, FedInOrder
  <1>8. ReturnedLast'
    BY DEF TypeOK, CloseAddrChan, promised, config, decoded, ReturnedLast
  <1>9. Leftovers'
    BY <1>1 DEF TypeOK, CloseAddrChan, promised, config, decoded, Leftovers,
                LockHeld
  <1> QED BY <1>1, <1>2, <1>3, <1>4, <1>5, <1>6, <1>7, <1>8, <1>9 DEF IndInv

(* wg.Wait is over: the call returns. *)
LEMMA ReturnStep ==
  ASSUME IndInv, Return
  PROVE  IndInv'
  <1> USE IndInvParts, RPCCallAssumption
  <1>1. TypeOK'
    BY DEF TypeOK, Return, config, decoded, Outcome
  <1>2. LockHeld'
    BY DEF TypeOK, Return, config, decoded, Outcome, LockHeld
  <1>3. WorkerKnows'
    BY DEF TypeOK, Return, config, decoded, Outcome, WorkerKnows
  <1>4. DecodedWhole'
    BY DEF TypeOK, Return, config, decoded, Outcome, DecodedWhole, ResultOf
  <1>5. DecidedWhole'
    BY DEF TypeOK, Return, config, decoded, Outcome, DecidedWhole, ResultOf
  <1>6. CtxDoneWhy'
    BY DEF TypeOK, Return, config, decoded, Outcome, CtxDoneWhy
  <1>7. FedInOrder'
    BY DEF TypeOK, Return, config, decoded, Outcome, FedInOrder
  <1>8. ReturnedLast'
    BY DEF TypeOK, Return, config, decoded, Outcome, ReturnedLast
  <1>9. Leftovers'
    BY <1>1 DEF TypeOK, Return, config, decoded, Outcome, Leftovers, LockHeld
  <1> QED BY <1>1, <1>2, <1>3, <1>4, <1>5, <1>6, <1>7, <1>8, <1>9 DEF IndInv

(* The caller gives up. *)
LEMMA CancelStep ==
  ASSUME IndInv, Cancel
  PROVE  IndInv'
  <1> USE IndInvParts, RPCCallAssumption
  <1>1. TypeOK'
    BY DEF TypeOK, Cancel, config, decoded
  <1>2. LockHeld'
    BY DEF TypeOK, Cancel, config, decoded, LockHeld
  <1>3. WorkerKnows'
    BY DEF TypeOK, Cancel, config, decoded, WorkerKnows
  <1>4. DecodedWhole'
    BY DEF TypeOK, Cancel, config, decoded, DecodedWhole, ResultOf
  <1>5. DecidedWhole'
    BY DEF TypeOK, Cancel, config, decoded, DecidedWhole, ResultOf
  <1>6. CtxDoneWhy'
    BY DEF TypeOK, Cancel, config, decoded, CtxDoneWhy
  <1>7. FedInOrder'
    BY DEF TypeOK, Cancel, config, decoded, FedInOrder
  <1>8. ReturnedLast'
    BY DEF TypeOK, Cancel, config, decoded, ReturnedLast
  <1>9. Leftovers'
    BY <1>1 DEF TypeOK, Cancel, config, decoded, Leftovers, LockHeld
  <1> QED BY <1>1, <1>2, <1>3, <1>4, <1>5, <1>6, <1>7, <1>8, <1>9 DEF IndInv

(* A server handles a request. *)
LEMMA ServeStep ==
  ASSUME IndInv, NEW s \in Servers, NEW a \in Answers, Serve(s, a)
  PROVE  IndInv'
  <1> USE IndInvParts, RPCCallAssumption
  <1>1. TypeOK'
    BY DEF TypeOK, Serve, callVars, config, decoded, Answers
  <1>2. LockHeld'
    BY DEF TypeOK, Serve, callVars, config, decoded, Answers, LockHeld
  <1>3. WorkerKnows'
    BY DEF TypeOK, Serve, callVars, config, decoded, Answers, WorkerKnows
  <1>4. DecodedWhole'
    BY DEF TypeOK, Serve, callVars, config, decoded, DecodedWhole, Decided,
           Success, ResultOf
  <1>5. DecidedWhole'
    BY DEF TypeOK, Serve, callVars, config, decoded, DecidedWhole, Decided,
           Success, ResultOf
  <1>6. CtxDoneWhy'
    BY DEF TypeOK, Serve, callVars, config, decoded, Answers, CtxDoneWhy
  <1>7. FedInOrder'
    BY DEF TypeOK, Serve, callVars, config, decoded, Answers, FedInOrder
  <1>8. ReturnedLast'
    BY DEF TypeOK, Serve, callVars, config, decoded, Answers, ReturnedLast
  <1>9. Leftovers'
    BY <1>1 DEF TypeOK, Serve, callVars, config, decoded, Answers, Leftovers
  <1> QED BY <1>1, <1>2, <1>3, <1>4, <1>5, <1>6, <1>7, <1>8, <1>9 DEF IndInv

(* rpcAddrChan is closed. *)
LEMMA RangeEndsStep ==
  ASSUME IndInv, NEW w \in 1..n, RangeEnds(w)
  PROVE  IndInv'
  <1> USE IndInvParts, RPCCallAssumption
  <1>1. TypeOK'
    BY DEF TypeOK, RangeEnds, promised, config, decoded
  <1>2. LockHeld'
    BY DEF TypeOK, RangeEnds, promised, config, decoded, LockHeld
  <1>3. WorkerKnows'
    BY DEF TypeOK, RangeEnds, promised, config, decoded, WorkerKnows
  <1>4. DecodedWhole'
    BY DEF TypeOK, RangeEnds, promised, config, decoded, DecodedWhole, ResultOf
  <1>5. DecidedWhole'
    BY DEF TypeOK, RangeEnds, promised, config, decoded, DecidedWhole, ResultOf
  <1>6. CtxDoneWhy'
    BY DEF TypeOK, RangeEnds, promised, config, decoded, CtxDoneWhy
  <1>7. FedInOrder'
    BY DEF TypeOK, RangeEnds, promised, config, decoded, FedInOrder
  <1>8. ReturnedLast'
    BY DEF TypeOK, RangeEnds, promised, config, decoded, ReturnedLast
  <1>9. Leftovers'
    BY <1>1 DEF TypeOK, RangeEnds, promised, config, decoded, Leftovers, LockHeld
  <1> QED BY <1>1, <1>2, <1>3, <1>4, <1>5, <1>6, <1>7, <1>8, <1>9 DEF IndInv

(* The goroutine cannot dial. *)
LEMMA NoDialContextStep ==
  ASSUME IndInv, NEW w \in 1..n, NoDialContext(w)
  PROVE  IndInv'
  <1> USE IndInvParts, RPCCallAssumption
  <1>1. TypeOK'
    BY DEF TypeOK, NoDialContext, promised, config, decoded
  <1>2. LockHeld'
    BY DEF TypeOK, NoDialContext, promised, config, decoded, LockHeld
  <1>3. WorkerKnows'
    BY DEF TypeOK, NoDialContext, promised, config, decoded, WorkerKnows
  <1>4. DecodedWhole'
    BY DEF TypeOK, NoDialContext, promised, config, decoded, DecodedWhole, ResultOf
  <1>5. DecidedWhole'
    BY DEF TypeOK, NoDialContext, promised, config, decoded, DecidedWhole, ResultOf
  <1>6. CtxDoneWhy'
    BY DEF TypeOK, NoDialContext, promised, config, decoded, CtxDoneWhy
  <1>7. FedInOrder'
    BY DEF TypeOK, NoDialContext, promised, config, decoded, FedInOrder
  <1>8. ReturnedLast'
    BY DEF TypeOK, NoDialContext, promised, config, decoded, ReturnedLast
  <1>9. Leftovers'
    BY <1>1 DEF TypeOK, NoDialContext, promised, config, decoded, Leftovers,
                LockHeld
  <1> QED BY <1>1, <1>2, <1>3, <1>4, <1>5, <1>6, <1>7, <1>8, <1>9 DEF IndInv

(* httpPost returns a body. *)
LEMMA PostReturnsStep ==
  ASSUME IndInv, NEW w \in 1..n, PostReturns(w)
  PROVE  IndInv'
  <1> USE IndInvParts, RPCCallAssumption
  <1>1. TypeOK'
    BY DEF TypeOK, PostReturns, promised, config, decoded
  <1>2. LockHeld'
    BY DEF TypeOK, PostReturns, promised, config, decoded, LockHeld
  <1>3. WorkerKnows'
    BY DEF TypeOK, PostReturns, promised, config, decoded, WorkerKnows
  <1>4. DecodedWhole'
    BY DEF TypeOK, PostReturns, promised, config, decoded, DecodedWhole, ResultOf
  <1>5. DecidedWhole'
    BY DEF TypeOK, PostReturns, promised, config, decoded, DecidedWhole, ResultOf
  <1>6. CtxDoneWhy'
    BY DEF TypeOK, PostReturns, promised, config, decoded, CtxDoneWhy
  <1>7. FedInOrder'
    BY DEF TypeOK, PostReturns, promised, config, decoded, FedInOrder
  <1>8. ReturnedLast'
    BY DEF TypeOK, PostReturns, promised, config, decoded, ReturnedLast
  <1>9. Leftovers'
    BY <1>1 DEF TypeOK, PostReturns, promised, config, decoded, Leftovers, LockHeld
  <1> QED BY <1>1, <1>2, <1>3, <1>4, <1>5, <1>6, <1>7, <1>8, <1>9 DEF IndInv

(* httpPost fails. *)
LEMMA PostFailsStep ==
  ASSUME IndInv, NEW w \in 1..n, PostFails(w)
  PROVE  IndInv'
  <1> USE IndInvParts, RPCCallAssumption
  <1>1. TypeOK'
    BY DEF TypeOK, PostFails, promised, config, decoded
  <1>2. LockHeld'
    BY DEF TypeOK, PostFails, promised, config, decoded, LockHeld
  <1>3. WorkerKnows'
    BY DEF TypeOK, PostFails, promised, config, decoded, WorkerKnows
  <1>4. DecodedWhole'
    BY DEF TypeOK, PostFails, promised, config, decoded, DecodedWhole, ResultOf
  <1>5. DecidedWhole'
    BY DEF TypeOK, PostFails, promised, config, decoded, DecidedWhole, ResultOf
  <1>6. CtxDoneWhy'
    BY DEF TypeOK, PostFails, promised, config, decoded, CtxDoneWhy
  <1>7. FedInOrder'
    BY DEF TypeOK, PostFails, promised, config, decoded, FedInOrder
  <1>8. ReturnedLast'
    BY DEF TypeOK, PostFails, promised, config, decoded, ReturnedLast
  <1>9. Leftovers'
    BY <1>1 DEF TypeOK, PostFails, promised, config, decoded, Leftovers, LockHeld
  <1> QED BY <1>1, <1>2, <1>3, <1>4, <1>5, <1>6, <1>7, <1>8, <1>9 DEF IndInv

(* ctx is cancelled before respLock is taken. *)
LEMMA TooLateStep ==
  ASSUME IndInv, NEW w \in 1..n, TooLate(w)
  PROVE  IndInv'
  <1> USE IndInvParts, RPCCallAssumption
  <1>1. TypeOK'
    BY DEF TypeOK, TooLate, promised, config, decoded
  <1>2. LockHeld'
    BY DEF TypeOK, TooLate, promised, config, decoded, LockHeld
  <1>3. WorkerKnows'
    BY DEF TypeOK, TooLate, promised, config, decoded, WorkerKnows
  <1>4. DecodedWhole'
    BY DEF TypeOK, TooLate, promised, config, decoded, DecodedWhole, ResultOf
  <1>5. DecidedWhole'
    BY DEF TypeOK, TooLate, promised, config, decoded, DecidedWhole, ResultOf
  <1>6. CtxDoneWhy'
    BY DEF TypeOK, TooLate, promised, config, decoded, CtxDoneWhy
  <1>7. FedInOrder'
    BY DEF TypeOK, TooLate, promised, config, decoded, FedInOrder
  <1>8. ReturnedLast'
    BY DEF TypeOK, TooLate, promised, config, decoded, ReturnedLast
  <1>9. Leftovers'
    BY <1>1 DEF TypeOK, TooLate, promised, config, decoded, Leftovers, LockHeld
  <1> QED BY <1>1, <1>2, <1>3, <1>4, <1>5, <1>6, <1>7, <1>8, <1>9 DEF IndInv

(* respLock is taken. *)
LEMMA LockStep ==
  ASSUME IndInv, NEW w \in 1..n, Lock(w)
  PROVE  IndInv'
  <1> USE IndInvParts, RPCCallAssumption
  <1>1. TypeOK'
    BY DEF TypeOK, Lock, promised, config, decoded
  <1>2. LockHeld'
    BY DEF TypeOK, Lock, promised, config, decoded, LockHeld
  <1>3. WorkerKnows'
    BY DEF TypeOK, Lock, promised, config, decoded, WorkerKnows
  <1>4. DecodedWhole'
    BY DEF TypeOK, Lock, promised, config, decoded, DecodedWhole, ResultOf
  <1>5. DecidedWhole'
    BY DEF TypeOK, Lock, promised, config, decoded, DecidedWhole, ResultOf
  <1>6. CtxDoneWhy'
    BY DEF TypeOK, Lock, promised, config, decoded, CtxDoneWhy
  <1>7. FedInOrder'
    BY DEF TypeOK, Lock, promised, config, decoded, FedInOrder
  <1>8. ReturnedLast'
    BY DEF TypeOK, Lock, promised, config, decoded, ReturnedLast
  <1>9. Leftovers'
    BY <1>1 DEF TypeOK, Lock, promised, config, decoded, Leftovers, LockHeld
  <1> QED BY <1>1, <1>2, <1>3, <1>4, <1>5, <1>6, <1>7, <1>8, <1>9 DEF IndInv

(* The body is null. *)
LEMMA UnmarshalNullStep ==
  ASSUME IndInv, NEW w \in 1..n, UnmarshalNull(w)
  PROVE  IndInv'
  <1> USE IndInvParts, RPCCallAssumption
  <1>1. TypeOK'
    BY DEF TypeOK, UnmarshalNull, promised, config, decoded
  <1>2. LockHeld'
    BY DEF TypeOK, UnmarshalNull, promised, config, decoded, LockHeld
  <1>3. WorkerKnows'
    BY DEF TypeOK, UnmarshalNull, promised, config, decoded, WorkerKnows
  <1>4. DecodedWhole'
    BY DEF TypeOK, UnmarshalNull, promised, config, decoded, DecodedWhole, ResultOf
  <1>5. DecidedWhole'
    BY DEF TypeOK, UnmarshalNull, promised, config, decoded, DecidedWhole, ResultOf
  <1>6. CtxDoneWhy'
    BY DEF TypeOK, UnmarshalNull, promised, config, decoded, CtxDoneWhy
  <1>7. FedInOrder'
    BY DEF TypeOK, UnmarshalNull, promised, config, decoded, FedInOrder
  <1>8. ReturnedLast'
    BY DEF TypeOK, UnmarshalNull, promised, config, decoded, ReturnedLast
  <1>9. Leftovers'
    BY <1>1 DEF TypeOK, UnmarshalNull, promised, config, decoded, Leftovers,
                LockHeld
  <1> QED BY <1>1, <1>2, <1>3, <1>4, <1>5, <1>6, <1>7, <1>8, <1>9 DEF IndInv

(* json.Unmarshal fails. *)
LEMMA UnmarshalFailsStep ==
  ASSUME IndInv, NEW w \in 1..n, UnmarshalFails(w)
  PROVE  IndInv'
  <1> USE IndInvParts, RPCCallAssumption
  <1>1. TypeOK'
    BY DEF TypeOK, UnmarshalFails, promised, config, decoded, Merge
  <1>2. LockHeld'
    BY DEF TypeOK, UnmarshalFails, promised, config, decoded, LockHeld
  <1>3. WorkerKnows'
    BY DEF TypeOK, UnmarshalFails, promised, config, decoded, WorkerKnows
  <1>4. DecodedWhole'
    BY DEF TypeOK, UnmarshalFails, promised, config, decoded, DecodedWhole,
           LockHeld, ResultOf
  <1>5. DecidedWhole'
    BY DEF TypeOK, UnmarshalFails, promised, config, decoded, DecidedWhole,
           LockHeld, ResultOf
  <1>6. CtxDoneWhy'
    BY DEF TypeOK, UnmarshalFails, promised, config, decoded, CtxDoneWhy
  <1>7. FedInOrder'
    BY DEF TypeOK, UnmarshalFails, promised, config, decoded, FedInOrder
  <1>8. ReturnedLast'
    BY DEF TypeOK, UnmarshalFails, promised, config, decoded, ReturnedLast
  <1>9. Leftovers'
    <2>1. \A f \in Fields : result[f] = 0 \/ answer[result[f]] = "partial"
      BY DEF UnmarshalFails, Leftovers
    <2>2. \A f \in Fields : result'[f] = 0 \/ answer[result'[f]] = "partial"
      BY <2>1 DEF UnmarshalFails, Merge
    <2> QED BY <2>2 DEF UnmarshalFails, promised, Leftovers
  <1> QED BY <1>1, <1>2, <1>3, <1>4, <1>5, <1>6, <1>7, <1>8, <1>9 DEF IndInv

(* json.Unmarshal fills the result. *)
LEMMA UnmarshalStep ==
  ASSUME IndInv, NEW w \in 1..n, Unmarshal(w)
  PROVE  IndInv'
  <1> USE IndInvParts, RPCCallAssumption
  <1>1. TypeOK'
    BY DEF TypeOK, Unmarshal, promised, config, decoded, Merge
  <1>2. LockHeld'
    BY DEF TypeOK, Unmarshal, promised, config, decoded, LockHeld
  <1>3. WorkerKnows'
    BY DEF TypeOK, Unmarshal, promised, config, decoded, WorkerKnows
  <1>4. DecodedWhole'
    <2>1. PICK fs \in SUBSET Fields : carried' = fs /\ result' = Merge(fs, w)
      BY DEF Unmarshal
    <2>2. \A f \in Fields : result[f] = 0 \/ answer[result[f]] = "partial"
      BY DEF Unmarshal, Leftovers
    <2>3. \A f \in Fields :
            IF f \in carried' THEN result'[f] = waddr[w]
            ELSE result'[f] = 0 \/ answer[result'[f]] = "partial"
      BY <2>1, <2>2 DEF Merge
    <2>4. \A v \in 1..n : wpc'[v] = "decide" => v = w
      BY DEF TypeOK, Unmarshal, LockHeld
    <2>5. answer' = answer /\ waddr' = waddr /\ n' = n
          /\ answer[waddr[w]] \in Decided
      BY DEF Unmarshal, promised, config, Decided
    <2> QED BY <2>3, <2>4, <2>5 DEF DecodedWhole, ResultOf
  <1>5. DecidedWhole'
    BY SMTT(30) DEF TypeOK, Unmarshal, promised, config, decoded, DecidedWhole,
           LockHeld, ResultOf
  <1>6. CtxDoneWhy'
    BY DEF TypeOK, Unmarshal, promised, config, decoded, CtxDoneWhy
  <1>7. FedInOrder'
    BY DEF TypeOK, Unmarshal, promised, config, decoded, FedInOrder
  <1>8. ReturnedLast'
    BY DEF TypeOK, Unmarshal, promised, config, decoded, ReturnedLast
  <1>9. Leftovers'
    <2>1. respLock' = w /\ w # 0 /\ \A v \in 1..n : wpc'[v] # "locked"
      BY DEF TypeOK, Unmarshal, LockHeld
    <2> QED BY <2>1 DEF Unmarshal, config, Leftovers
  <1> QED BY <1>1, <1>2, <1>3, <1>4, <1>5, <1>6, <1>7, <1>8, <1>9 DEF IndInv

(* The answer decides the call. *)
LEMMA DecideStep ==
  ASSUME IndInv, NEW w \in 1..n, Decide(w)
  PROVE  IndInv'
  <1> USE IndInvParts, RPCCallAssumption
  <1>1. TypeOK'
    BY DEF TypeOK, Decide, promised, config, decoded
  <1>2. LockHeld'
    BY DEF TypeOK, Decide, promised, config, decoded, LockHeld
  <1>3. WorkerKnows'
    BY DEF TypeOK, Decide, promised, config, decoded, WorkerKnows
  <1>4. DecodedWhole'
    BY DEF TypeOK, Decide, promised, config, decoded, DecodedWhole, ResultOf
  <1>5. DecidedWhole'
    BY DEF TypeOK, Decide, promised, config, decoded, DecidedWhole,
           DecodedWhole, WorkerKnows, ResultOf
  <1>6. CtxDoneWhy'
    BY DEF TypeOK, Decide, promised, config, decoded, CtxDoneWhy, WorkerKnows
  <1>7. FedInOrder'
    BY DEF TypeOK, Decide, promised, config, decoded, FedInOrder
  <1>8. ReturnedLast'
    BY DEF TypeOK, Decide, promised, config, decoded, ReturnedLast
  <1>9. Leftovers'
    BY <1>1 DEF TypeOK, Decide, promised, config, decoded, Leftovers, LockHeld
  <1> QED BY <1>1, <1>2, <1>3, <1>4, <1>5, <1>6, <1>7, <1>8, <1>9 DEF IndInv

(* The caller gave up in between. *)
LEMMA DecideCanceledStep ==
  ASSUME IndInv, NEW w \in 1..n, DecideCanceled(w)
  PROVE  IndInv'
  <1> USE IndInvParts, RPCCallAssumption
  <1>1. TypeOK'
    BY DEF TypeOK, DecideCanceled, promised, config, decoded
  <1>2. LockHeld'
    BY DEF TypeOK, DecideCanceled, promised, config, decoded, LockHeld
  <1>3. WorkerKnows'
    BY DEF TypeOK, DecideCanceled, promised, config, decoded, WorkerKnows
  <1>4. DecodedWhole'
    BY DEF TypeOK, DecideCanceled, promised, config, decoded, DecodedWhole, ResultOf
  <1>5. DecidedWhole'
    BY DEF TypeOK, DecideCanceled, promised, config, decoded, DecidedWhole, ResultOf
  <1>6. CtxDoneWhy'
    BY DEF TypeOK, DecideCanceled, promised, config, decoded, CtxDoneWhy
  <1>7. FedInOrder'
    BY DEF TypeOK, DecideCanceled, promised, config, decoded, FedInOrder
  <1>8. ReturnedLast'
    BY DEF TypeOK, DecideCanceled, promised, config, decoded, ReturnedLast
  <1>9. Leftovers'
    BY <1>1 DEF TypeOK, DecideCanceled, promised, config, decoded, Leftovers,
                LockHeld
  <1> QED BY <1>1, <1>2, <1>3, <1>4, <1>5, <1>6, <1>7, <1>8, <1>9 DEF IndInv

(* Every behaviour of the call keeps the inductive invariant. *)
THEOREM Invariance == Spec => []IndInv
  <1>1. IndInv /\ [Next]_vars => IndInv'
    <2> SUFFICES ASSUME IndInv, [Next]_vars PROVE IndInv'
      OBVIOUS
    <2>1. CASE UNCHANGED vars
      BY <2>1 DEF vars, promised, callVars, config, decoded, IndInv, TypeOK, LockHeld,
                  WorkerKnows, Leftovers, DecodedWhole, DecidedWhole, ResultOf,
                  CtxDoneWhy, FedInOrder, ReturnedLast
    <2>2. CASE Next
      BY <2>2, NextCases, FeedStep, SkipAddrStep, CloseAddrChanStep, ReturnStep,
         CancelStep, ServeStep, RangeEndsStep, NoDialContextStep, PostReturnsStep,
         PostFailsStep, TooLateStep, LockStep, UnmarshalFailsStep, UnmarshalStep,
         UnmarshalNullStep, DecideStep, DecideCanceledStep
    <2> QED BY <2>1, <2>2
  <1> QED BY <1>1, InitInv, PTL DEF Spec

(* The types of the variables. *)
THEOREM TypeCorrect == Spec => []TypeOK
  <1>1. IndInv => TypeOK
    BY DEF IndInv
  <1> QED BY <1>1, Invariance, PTL

(* A result that is reported without an error has all that the deciding    *)
(* answer has, nothing of another answer that was accepted, and in the     *)
(* fields which that answer lacks at most what refused answers left, for   *)
(* any number of goroutines that decode into it.                           *)
THEOREM ResultIsOfDecider == Spec => []ResultOfDecider
  <1>1. IndInv => ResultOfDecider
    BY DEF IndInv, ResultOfDecider, ReturnedLast, DecidedWhole
  <1> QED BY <1>1, Invariance, PTL

(* No goroutine writes into the result after RPCCall has returned. *)
THEOREM ResultIsKept == Spec => ResultKept
  <1>1. IndInv /\ [Next]_vars => [outcome # "pending" => result' = result]_vars
    <2> SUFFICES ASSUME IndInv, Next, outcome # "pending" PROVE result' = result
      OBVIOUS
    <2>1. \A w \in 1..n : wpc[w] = "done"
      BY DEF IndInv, ReturnedLast
    <2>2. ASSUME NEW w \in 1..n, UnmarshalFails(w) \/ Unmarshal(w)
          PROVE  FALSE
      BY <2>1, <2>2 DEF UnmarshalFails, Unmarshal
    <2> QED BY <2>2, NextCases
         DEF SkipAddr, CloseAddrChan, Return, Cancel, Feed, RangeEnds,
             NoDialContext, PostReturns, PostFails, TooLate, Lock, UnmarshalNull,
             Decide, DecideCanceled, Serve, callVars, decoded
  <1> QED BY <1>1, Invariance, PTL DEF Spec, ResultKept

(* What the caller makes of respErrChan is what the promise allows. *)
LEMMA ReturnPromised ==
  ASSUME IndInv, Return
  PROVE  PNext
  <1> USE IndInvParts, RPCCallAssumption
  <1>1. CASE canceled
    <2>1. PReturn("canceled", 0)
      BY <1>1 DEF Return, Outcome, PReturn
    <2> QED BY <2>1 DEF PNext
  <1>2. CASE ~canceled /\ respErr = 0
    <2>1. ~ctxDone /\ next = NumServers + 1
      BY <1>2 DEF Return, CtxDoneWhy, FedInOrder
    <2>2. tried = Servers
      BY <2>1 DEF FedInOrder
    <2>3. PReturn("network", 0)
      BY <1>2, <2>2 DEF Return, Outcome, PReturn
    <2> QED BY <2>3 DEF PNext
  <1>3. CASE ~canceled /\ respErr # 0
    <2>1. respErr \in tried /\ respErr \in Servers /\ answer[respErr] \in Decided
      BY <1>3 DEF DecidedWhole, TypeOK
    <2>2. CASE answer[respErr] = "error"
      <3>1. PReturn("error", respErr)
        BY <1>3, <2>1, <2>2 DEF Return, Outcome, PReturn
      <3> QED BY <2>1, <3>1 DEF PNext
    <2>3. CASE answer[respErr] \in Success
      <3>1. answer[respErr] # "error"
        BY <2>3 DEF Success
      <3>2. PReturn("ok", respErr)
        BY <1>3, <2>1, <2>3, <3>1 DEF Return, Outcome, PReturn
      <3> QED BY <2>1, <3>2 DEF PNext
    <2> QED BY <2>1, <2>2, <2>3 DEF Decided
  <1> QED BY <1>1, <1>2, <1>3

(* RPCCall implements RPCPromise: it ends once, with the answer of a       *)
(* server that it asked, and with errCodeNetworkError only after it has    *)
(* tried them all.                                                         *)
THEOREM PromiseIsKept == Spec => KeepsPromise
  <1>1. Init => PInit
    BY DEF Init
  <1>2. IndInv /\ [Next]_vars => [PNext]_promised
    <2> SUFFICES ASSUME IndInv, [Next]_vars PROVE [PNext]_promised
      OBVIOUS
    <2> USE IndInvParts, RPCCallAssumption
    <2>1. ASSUME NEW w \in 1..n, Feed(w) PROVE PNext
      <3>1. next \in Servers /\ outcome = "pending"
        BY <2>1 DEF Feed, TypeOK, ReturnedLast
      <3>2. PTry(next)
        BY <2>1, <3>1 DEF Feed, PTry
      <3> QED BY <3>1, <3>2 DEF PNext
    <2>2. ASSUME NEW s \in Servers, NEW a \in Answers, Serve(s, a) PROVE PNext
      BY <2>2 DEF Serve, PServe, PNext
    <2>3. CASE Cancel
      BY <2>3 DEF Cancel, PCancel, PNext
    <2>4. CASE Return
      BY <2>4, ReturnPromised
    <2>5. CASE SkipAddr \/ CloseAddrChan
      BY <2>5 DEF SkipAddr, CloseAddrChan
    <2>6. ASSUME NEW w \in 1..n,
                 \/ RangeEnds(w) \/ NoDialContext(w) \/ PostReturns(w)
                 \/ PostFails(w) \/ TooLate(w) \/ Lock(w) \/ UnmarshalFails(w)
                 \/ Unmarshal(w) \/ UnmarshalNull(w) \/ Decide(w)
                 \/ DecideCanceled(w)
          PROVE  UNCHANGED promised
      BY <2>6 DEF RangeEnds, NoDialContext, PostReturns, PostFails, TooLate,
                  Lock, UnmarshalFails, Unmarshal, UnmarshalNull, Decide,
                  DecideCanceled
    <2>7. CASE UNCHANGED vars
      BY <2>7 DEF vars
    <2> QED BY <2>1, <2>2, <2>3, <2>4, <2>5, <2>6, <2>7, NextCases
  <1> QED BY <1>1, <1>2, Invariance, PTL DEF Spec, KeepsPromise, PSpec

(* Goroutines end for a reason, and share no address. *)
LEMMA EndsForAReason == Spec => [](DoneWhy /\ AddrsApart)
  <1>1. Init => DoneWhy /\ AddrsApart
    BY DEF Init, DoneWhy, AddrsApart
  <1>2. IndInv /\ (DoneWhy /\ AddrsApart) /\ [Next]_vars => (DoneWhy /\ AddrsApart)'
    <2> SUFFICES ASSUME IndInv, DoneWhy, AddrsApart, [Next]_vars
                 PROVE  DoneWhy' /\ AddrsApart'
      OBVIOUS
    <2> USE IndInvParts, RPCCallAssumption
    <2>1. /\ wpc \in [1..n -> {"range", "post", "body", "locked", "decide", "panic",
                               "done"}]
          /\ waddr \in [1..n -> Servers \cup {0}]
          /\ n \in Nat /\ next \in 1..(NumServers + 1)
      BY DEF TypeOK
    <2>2. CASE UNCHANGED vars
      BY <2>2 DEF vars, callVars, config, DoneWhy, AddrsApart
    <2>3. CASE SkipAddr \/ CloseAddrChan \/ Return \/ Cancel
      <3>1. /\ n' = n /\ dials' = dials /\ wpc' = wpc /\ waddr' = waddr
            /\ (closed => closed') /\ (ctxDone => ctxDone')
            /\ next' \in {next, next + 1}
        BY <2>3 DEF SkipAddr, CloseAddrChan, Return, Cancel, config, TypeOK
      <3>2. DoneWhy'
        BY <3>1 DEF DoneWhy
      <3>3. \A w \in 1..n : waddr[w] < next'
        BY <2>1, <3>1 DEF AddrsApart
      <3> QED BY <3>1, <3>2, <3>3 DEF AddrsApart
    <2>4. ASSUME NEW s \in Servers, NEW a \in Answers, Serve(s, a)
          PROVE  DoneWhy' /\ AddrsApart'
      BY <2>4 DEF Serve, callVars, config, DoneWhy, AddrsApart
    <2>5. ASSUME NEW w \in 1..n, Feed(w)
          PROVE  DoneWhy' /\ AddrsApart'
      <3>1. /\ n' = n /\ dials' = dials /\ closed' = closed /\ ctxDone' = ctxDone
            /\ wpc' = [wpc EXCEPT ![w] = "post"]
            /\ waddr' = [waddr EXCEPT ![w] = next] /\ next' = next + 1
        BY <2>5 DEF Feed, config
      <3>2. DoneWhy'
        BY <2>1, <3>1 DEF DoneWhy
      <3>3. \A v \in 1..n : waddr'[v] < next'
        BY <2>1, <3>1 DEF AddrsApart
      <3>4. \A v \in 1..n : v # w => waddr'[v] = waddr[v] /\ waddr[v] # next
        BY <2>1, <3>1 DEF AddrsApart
      <3>5. waddr'[w] = next
        BY <2>1, <3>1
      <3> QED BY <3>1, <3>2, <3>3, <3>4, <3>5 DEF AddrsApart
    <2>6. ASSUME NEW w \in 1..n,
                 \/ PostReturns(w) \/ Lock(w) \/ UnmarshalFails(w)
                 \/ Unmarshal(w) \/ UnmarshalNull(w)
          PROVE  DoneWhy' /\ AddrsApart'
      <3>1. /\ n' = n /\ dials' = dials /\ closed' = closed /\ ctxDone' = ctxDone
            /\ waddr' = waddr /\ next' = next
            /\ \E p \in {"range", "post", "body", "locked", "decide", "panic"} :
                 wpc' = [wpc EXCEPT ![w] = p]
        BY <2>6 DEF PostReturns, Lock, UnmarshalFails, Unmarshal, UnmarshalNull, config
      <3> QED BY <2>1, <3>1 DEF DoneWhy, AddrsApart
    <2>7. ASSUME NEW w \in 1..n,
                 \/ RangeEnds(w) \/ NoDialContext(w) \/ PostFails(w) \/ TooLate(w)
                 \/ Decide(w) \/ DecideCanceled(w)
          PROVE  DoneWhy' /\ AddrsApart'
      <3>1. wpc[w] = "post" => waddr[w] # 0
        BY DEF TypeOK, WorkerKnows
      <3>2. /\ n' = n /\ dials' = dials /\ closed' = closed /\ (ctxDone => ctxDone')
            /\ waddr' = waddr /\ next' = next
            /\ \/ wpc' = [wpc EXCEPT ![w] = "range"]
               \/ /\ wpc' = [wpc EXCEPT ![w] = "done"]
                  /\ closed \/ ctxDone' \/ (~dials /\ waddr[w] # 0)
        BY <2>7, <3>1 DEF RangeEnds, NoDialContext, PostFails, TooLate, Decide,
                          DecideCanceled, config
      <3> QED BY <2>1, <3>2 DEF DoneWhy, AddrsApart
    <2> QED BY <2>2, <2>3, <2>4, <2>5, <2>6, <2>7, NextCases
  <1> QED BY <1>1, <1>2, Invariance, PTL DEF Spec

(* There are k numbers up to k. *)
LEMMA UpToK ==
  ASSUME NEW k \in Nat
  PROVE  IsFiniteSet(1..k) /\ Cardinality(1..k) = k
  <1>1. IsFiniteSet(1..k) /\ Cardinality(1..k) = IF 1 > k THEN 0 ELSE k - 1 + 1
    BY FS_Interval
  <1> QED BY <1>1

(* No more goroutines hold an address than were handed over. *)
LEMMA FewerThanFed ==
  ASSUME TypeOK, AddrsApart, \A w \in 1..n : waddr[w] # 0
  PROVE  n <= next - 1
  <1> USE RPCCallAssumption
  <1>1. n \in Nat /\ next \in Nat /\ next - 1 \in Nat
    BY DEF TypeOK
  <1>2. waddr \in [1..n -> 1..(next - 1)]
    BY <1>1 DEF TypeOK, AddrsApart
  <1>3. waddr \in Injection(1..n, 1..(next - 1))
    BY <1>2 DEF AddrsApart, Injection, IsInjective
  <1>4. /\ IsFiniteSet(1..(next - 1)) /\ Cardinality(1..(next - 1)) = next - 1
        /\ Cardinality(1..n) = n
    BY <1>1, UpToK
  <1>5. Cardinality(1..n) <= Cardinality(1..(next - 1))
    BY <1>3, <1>4, FS_Injection
  <1> QED BY <1>4, <1>5

(* No deadlock, for any number of servers and goroutines, but the one of a *)
(* config that starts no goroutine or cannot dial: whoever waits for       *)
(* respLock waits for a goroutine that can give it back, nobody waits for  *)
(* a full respErrChan, and the caller is left with an address that no      *)
(* goroutine will take only when there are fewer goroutines than addresses *)
(* and each of them has returned because of its config.                    *)
THEOREM CallNeverStuck == Spec => []NeverStuck
  <1>1. IndInv /\ (DoneWhy /\ AddrsApart) => NeverStuck
    <2> SUFFICES ASSUME IndInv, DoneWhy, AddrsApart, outcome = "pending", ~Panicked,
                        ~CallerCan, \A w \in 1..n : ~WorkerCan(w)
                 PROVE  Abandoned
      BY DEF NeverStuck
    <2> USE IndInvParts, RPCCallAssumption
    <2>1. n \in Nat /\ next \in 1..(NumServers + 1) /\ closed \in BOOLEAN
          /\ ctxDone \in BOOLEAN
      BY DEF TypeOK
    <2>2. ASSUME NEW w \in 1..n PROVE wpc[w] \notin {"locked", "decide", "panic"}
      <3>1. CASE wpc[w] = "locked"
        <4>1. answer[waddr[w]] \in Answers
          <5>1. waddr[w] \in Servers /\ answer[waddr[w]] # "none"
            BY <3>1 DEF WorkerKnows, TypeOK
          <5> QED BY <5>1 DEF TypeOK
        <4> QED BY <3>1, <4>1 DEF WorkerCan, Answers, Decided, Success
      <3>2. CASE wpc[w] = "decide"
        <4>1. respLock = w /\ w # 0
          BY <2>1, <3>2 DEF LockHeld
        <4>2. respErr = 0
          BY <4>1 DEF DecidedWhole
        <4> QED BY <3>2, <4>2 DEF WorkerCan
      <3>3. wpc[w] # "panic"
        BY DEF Panicked
      <3> QED BY <3>1, <3>2, <3>3
    <2>3. respLock = 0
      <3>1. respLock \in 0..n
        BY DEF TypeOK
      <3> QED BY <2>1, <2>2, <3>1 DEF LockHeld
    <2>4. ASSUME NEW w \in 1..n PROVE wpc[w] = "done"
      <3>1. wpc[w] \in {"range", "post", "body", "locked", "decide", "panic", "done"}
        BY DEF TypeOK
      <3>2. wpc[w] # "range"
        BY <2>1 DEF WorkerCan, CallerCan
      <3> QED BY <2>2, <2>3, <3>1, <3>2 DEF WorkerCan
    <2>5. ~closed /\ next <= NumServers /\ ~ctxDone
      BY <2>1, <2>4 DEF CallerCan
    <2>6. \A w \in 1..n : ~dials /\ waddr[w] # 0
      BY <2>4, <2>5 DEF DoneWhy
    <2>7. n <= next - 1
      BY <2>6, FewerThanFed
    <2>8. n < NumServers
      BY <2>1, <2>5, <2>7
    <2>9. n = 0 \/ ~dials
      <3>1. n # 0 => 1 \in 1..n
        BY <2>1
      <3> QED BY <2>6, <3>1
    <2> QED BY <2>4, <2>5, <2>8, <2>9 DEF Abandoned
  <1> QED BY <1>1, EndsForAReason, Invariance, PTL

(* Goroutines that cannot dial do keep their addresses. *)
LEMMA NoDialInv == Spec => []NoDialKeeps
  <1>1. Init => NoDialKeeps
    BY DEF Init, NoDialKeeps
  <1>2. IndInv /\ NoDialKeeps /\ [Next]_vars => NoDialKeeps'
    <2> SUFFICES ASSUME IndInv, NoDialKeeps, [Next]_vars PROVE NoDialKeeps'
      OBVIOUS
    <2> USE IndInvParts, RPCCallAssumption
    <2>1. /\ wpc \in [1..n -> {"range", "post", "body", "locked", "decide", "panic",
                               "done"}]
          /\ waddr \in [1..n -> Servers \cup {0}]
          /\ n \in Nat /\ next \in 1..(NumServers + 1) /\ dials \in BOOLEAN
          /\ ctxDone \in BOOLEAN
      BY DEF TypeOK
    <2>2. CASE UNCHANGED vars
      BY <2>2 DEF vars, callVars, config, NoDialKeeps
    <2>3. CASE SkipAddr
      BY <2>3 DEF SkipAddr, config, NoDialKeeps
    <2>4. CASE CloseAddrChan \/ Return \/ Cancel
      <3>1. /\ n' = n /\ dials' = dials /\ wpc' = wpc /\ waddr' = waddr
            /\ next' = next /\ respErr' = respErr /\ (ctxDone => ctxDone')
        BY <2>4 DEF CloseAddrChan, Return, Cancel, config
      <3> QED BY <3>1 DEF NoDialKeeps
    <2>5. ASSUME NEW s \in Servers, NEW a \in Answers, Serve(s, a)
          PROVE  NoDialKeeps'
      BY <2>5 DEF Serve, callVars, config, NoDialKeeps
    <2>6. ASSUME NEW w \in 1..n, Feed(w)
          PROVE  NoDialKeeps'
      <3> SUFFICES ASSUME ~dials PROVE NoDialKeeps'
        BY <2>1, <2>6 DEF Feed, config, NoDialKeeps
      <3>1. /\ n' = n /\ dials' = dials /\ ctxDone' = ctxDone /\ respErr' = respErr
            /\ wpc[w] = "range" /\ wpc' = [wpc EXCEPT ![w] = "post"]
            /\ waddr' = [waddr EXCEPT ![w] = next] /\ next' = next + 1
        BY <2>6 DEF Feed, config
      <3>2. \A v \in 1..n : /\ wpc'[v] \in {"range", "post", "done"}
                            /\ wpc'[v] = "range" => waddr'[v] = 0
        BY <2>1, <3>1 DEF NoDialKeeps
      <3>3. waddr[w] = 0
        BY <3>1 DEF NoDialKeeps
      <3>4. ASSUME ~ctxDone, NEW s \in 1..next PROVE \E v \in 1..n : waddr'[v] = s
        <4>1. CASE s = next
          BY <2>1, <3>1, <4>1
        <4>2. CASE s # next
          <5>1. s \in 1..(next - 1) /\ s # 0
            BY <2>1, <4>2
          <5>2. PICK v \in 1..n : waddr[v] = s
            BY <3>4, <5>1 DEF NoDialKeeps
          <5>3. waddr'[v] = s
            BY <2>1, <3>1, <3>3, <5>1, <5>2
          <5> QED BY <5>3
        <4> QED BY <4>1, <4>2
      <3>5. next' - 1 = next
        BY <2>1, <3>1
      <3> QED BY <3>1, <3>2, <3>4, <3>5 DEF NoDialKeeps
    <2>7. ASSUME NEW w \in 1..n, RangeEnds(w) \/ NoDialContext(w)
          PROVE  NoDialKeeps'
      <3>1. /\ n' = n /\ dials' = dials /\ ctxDone' = ctxDone /\ respErr' = respErr
            /\ waddr' = waddr /\ next' = next /\ wpc' = [wpc EXCEPT ![w] = "done"]
        BY <2>7 DEF RangeEnds, NoDialContext, config
      <3> QED BY <2>1, <3>1 DEF NoDialKeeps
    <2>8. ASSUME NEW w \in 1..n,
                 \/ PostReturns(w) \/ PostFails(w) \/ TooLate(w) \/ Lock(w)
                 \/ UnmarshalFails(w) \/ Unmarshal(w) \/ UnmarshalNull(w)
                 \/ Decide(w) \/ DecideCanceled(w)
          PROVE  NoDialKeeps'
      <3>1. n' = n /\ dials' = dials /\ n # 0
        BY <2>1, <2>8 DEF PostReturns, PostFails, TooLate, Lock, UnmarshalFails,
                          Unmarshal, UnmarshalNull, Decide, DecideCanceled, config
      <3>2. dials \/ wpc[w] \in {"body", "locked", "decide"}
        BY <2>8 DEF PostReturns, PostFails, TooLate, Lock, UnmarshalFails,
                    Unmarshal, UnmarshalNull, Decide, DecideCanceled
      <3>3. dials
        BY <3>2 DEF NoDialKeeps
      <3> QED BY <3>1, <3>3 DEF NoDialKeeps
    <2> QED BY <2>2, <2>3, <2>4, <2>5, <2>6, <2>7, <2>8, NextCases
  <1> QED BY <1>1, <1>2, Invariance, PTL DEF Spec

(* Goroutines that took all addresses, and keep them, are as many. *)
LEMMA AsManyAsFed ==
  ASSUME TypeOK, \A s \in 1..NumServers : \E w \in 1..n : waddr[w] = s
  PROVE  n >= NumServers
  <1> USE RPCCallAssumption
  <1> DEFINE taker == [s \in 1..NumServers |-> CHOOSE w \in 1..n : waddr[w] = s]
  <1>1. \A s \in 1..NumServers : taker[s] \in 1..n /\ waddr[taker[s]] = s
    OBVIOUS
  <1>2. taker \in [1..NumServers -> 1..n]
    BY <1>1
  <1> HIDE DEF taker
  <1>3. taker \in Injection(1..NumServers, 1..n)
    <2>1. ASSUME NEW s \in 1..NumServers, NEW t \in 1..NumServers, taker[s] = taker[t]
          PROVE  s = t
      <3>1. waddr[taker[s]] = s /\ waddr[taker[t]] = t
        BY <1>1
      <3> QED BY <2>1, <3>1, Zenon
    <2> QED BY <1>2, <2>1 DEF Injection, IsInjective
  <1>4. n \in Nat
    BY DEF TypeOK
  <1>5. /\ IsFiniteSet(1..n) /\ Cardinality(1..n) = n
        /\ Cardinality(1..NumServers) = NumServers
    BY <1>4, UpToK
  <1>6. Cardinality(1..NumServers) <= Cardinality(1..n)
    BY <1>3, <1>5, FS_Injection
  <1> QED BY <1>5, <1>6

(* A call whose goroutines cannot dial, or that has none, returns only     *)
(* when the caller gives up or when there are as many goroutines as        *)
(* addresses: Configured is not only enough but needed.                    *)
THEOREM ReturnsIsConfigured == Spec => []ReturnsOnlyConfigured
  <1>1. Init => ReturnsOnlyConfigured
    BY DEF Init, PInit, ReturnsOnlyConfigured
  <1>2. IndInv /\ NoDialKeeps /\ ReturnsOnlyConfigured /\ [Next]_vars
          => ReturnsOnlyConfigured'
    <2> SUFFICES ASSUME IndInv, NoDialKeeps, ReturnsOnlyConfigured, [Next]_vars
                 PROVE  ReturnsOnlyConfigured'
      OBVIOUS
    <2> USE IndInvParts, RPCCallAssumption
    <2>1. n \in Nat /\ dials \in BOOLEAN /\ next \in Nat
      BY DEF TypeOK
    <2>2. CASE Return
      <3> SUFFICES ASSUME ~canceled, n = 0 \/ ~dials PROVE n >= NumServers
        BY <2>1, <2>2 DEF Return, config, ReturnsOnlyConfigured, Configured
      <3>1. ~ctxDone
        BY <2>2 DEF Return, CtxDoneWhy, NoDialKeeps
      <3>2. next - 1 = NumServers
        BY <2>1, <2>2 DEF Return, FedInOrder
      <3> QED BY <3>1, <3>2, AsManyAsFed DEF NoDialKeeps
    <2>3. ASSUME outcome' = outcome, n' = n, dials' = dials, canceled => canceled'
          PROVE  ReturnsOnlyConfigured'
      BY <2>3 DEF ReturnsOnlyConfigured, Configured
    <2>4. CASE UNCHANGED vars \/ SkipAddr \/ CloseAddrChan \/ Cancel
      BY <2>3, <2>4 DEF vars, callVars, config, promised, SkipAddr, CloseAddrChan, Cancel
    <2>5. ASSUME NEW s \in Servers, NEW a \in Answers, Serve(s, a)
          PROVE  ReturnsOnlyConfigured'
      BY <2>3, <2>5 DEF Serve, callVars, config
    <2>6. ASSUME NEW w \in 1..n,
                 \/ Feed(w) \/ RangeEnds(w) \/ NoDialContext(w) \/ PostReturns(w)
                 \/ PostFails(w) \/ TooLate(w) \/ Lock(w) \/ UnmarshalFails(w)
                 \/ Unmarshal(w) \/ UnmarshalNull(w) \/ Decide(w) \/ DecideCanceled(w)
          PROVE  ReturnsOnlyConfigured'
      <3>1. outcome' = outcome /\ n' = n /\ dials' = dials /\ canceled' = canceled
        BY <2>6 DEF Feed, RangeEnds, NoDialContext, PostReturns, PostFails, TooLate,
                    Lock, UnmarshalFails, Unmarshal, UnmarshalNull, Decide,
                    DecideCanceled, promised, config
      <3> QED BY <2>3, <3>1
    <2> QED BY <2>2, <2>4, <2>5, <2>6, NextCases
  <1> QED BY <1>1, <1>2, NoDialInv, Invariance, PTL DEF Spec
=============================================================================
