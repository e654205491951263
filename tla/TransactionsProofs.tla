------------------------- MODULE TransactionsProofs -------------------------
(* Proofs about Transactions.tla: for any set of servers, any callers of   *)
(* one account and any number of calls.                                    *)
EXTENDS Transactions, TLAPS, SequenceTheorems

NonceAnswer == [server : Servers, nonce : Nat, nonceInTxPool : Nat]
SendAnswer  == [server : Servers, accepted : BOOLEAN]

AnswersIn(p) ==
  CASE p \in {"query", "nonce"} -> NonceAnswer
    [] p = "send" -> SendAnswer
    [] p \in {"idle", "build"} -> {}

(* The shape of what TypeOK describes from outside; a caller outside a     *)
(* call has no nonce, and one in a transaction has counted it.             *)
Shape ==
  /\ routes \in [Callers -> Seq(SUBSET Servers)]
  /\ asked \in [Callers -> SUBSET Servers]
  /\ answers \in [Callers -> SUBSET (NonceAnswer \cup SendAnswer)]
  /\ \A c \in Callers :
       /\ answers[c] \subseteq AnswersIn(pc[c])
       /\ pc[c] \in {"idle", "build"} => asked[c] = {}
       /\ pc[c] \in {"idle", "nonce"} => from[c] = NoServer
       /\ pc[c] \in {"nonce", "build", "send"} => cur[c] > 0
  /\ inflight \subseteq [server : Servers, tx : SignedTx, attempt : Nat]
  /\ ledger \in Seq(SignedTx)

(* A pool that is not empty has a transaction with the highest nonce. *)
PoolTop ==
  \A s \in Servers : pool[s] # {} =>
    \E t \in pool[s] : \A u \in pool[s] : u.nonce <= t.nonce

(* The transactions that are on their way, in a pool, or in the chain. *)
Copies ==
  {m.tx : m \in inflight} \cup (UNION {pool[s] : s \in Servers})
    \cup {ledger[i] : i \in 1..Len(ledger)}

(* They are signed by now; those of the call that is going on have its     *)
(* nonce.                                                                  *)
SignedBefore ==
  \A t \in Copies : LET c == t.id[1] IN
    /\ t.id[2] <= cur[c]
    /\ t.id[2] = cur[c] => /\ pc[c] \notin {"nonce", "build"}
                           /\ pc[c] = "send" => t.nonce = nonce[c]

(* All copies of a transaction carry the nonce it was signed with. *)
SignedOnce ==
  \A t, u \in Copies : t.id = u.id => t.nonce = u.nonce

(* Requests of the RPC that is going on went to servers it has asked. *)
InflightAsked ==
  \A m \in inflight : LET c == m.tx.id[1] IN
    pc[c] = "send" /\ m.tx.id[2] = cur[c] =>
      /\ m.attempt >= Len(routes[c])
      /\ m.attempt = Len(routes[c]) => m.server \in asked[c]

(* A server that took a transaction has it, until its nonce is used up. *)
TakenBy(t, s) == t.nonce < Len(ledger) \/ t \in pool[s]

TakenStays ==
  /\ \A h \in hash : TakenBy(h.tx, h.by)
  /\ \A c \in Callers : pc[c] = "send" =>
       \A a \in answers[c] : a.accepted => TakenBy(Tx(c), a.server)

(* The answers of a server that wait for GetNonce count what it took. *)
AnswerAboveTaken ==
  \A c \in Callers : pc[c] = "nonce" =>
    \A a \in answers[c], h \in hash :
      h.tx.id[1] = c /\ h.by = a.server => h.tx.nonce < NonceOf(a)

IndInv ==
  /\ TypeOK /\ Shape /\ PoolTop /\ SignedBefore /\ SignedOnce /\ InflightAsked
  /\ TakenStays /\ AnswerAboveTaken /\ NonceAboveTaken

(* The parts of the invariant. *)
LEMMA IndInvParts ==
  ASSUME IndInv
  PROVE  /\ TypeOK /\ Shape /\ PoolTop /\ SignedBefore /\ SignedOnce
         /\ InflightAsked /\ TakenStays /\ AnswerAboveTaken /\ NonceAboveTaken
  BY DEF IndInv

-----------------------------------------------------------------------------
(* What the operators of the model return. *)

(* Every way an RPC may take is a list of server lists, with one at least. *)
LEMMA RoutesType ==
  ASSUME NEW c \in Callers, NEW r \in Routes(c)
  PROVE  r \in Seq(SUBSET Servers) /\ r # <<>>
  <1> USE TransactionsAssumption
  <1>1. ASSUME NEW k \in Nat, NEW o \in [1..k -> Servers]
        PROVE  LET q == [i \in 1..Len(o) |-> {o[i]}] \o <<Seeds>> IN
               q \in Seq(SUBSET Servers) /\ q # <<>>
    <2> DEFINE q == [i \in 1..Len(o) |-> {o[i]}]
    <2>1. o \in Seq(Servers) /\ Len(o) = k
      BY IsASeq
    <2>2. q \in Seq(SUBSET Servers) /\ Len(q) = k
      <3>1. \A i \in 1..k : {o[i]} \in SUBSET Servers
        OBVIOUS
      <3> QED BY <2>1, <3>1, IsASeq
    <2>3. <<Seeds>> \in Seq(SUBSET Servers) /\ Len(<<Seeds>>) = 1
      OBVIOUS
    <2> HIDE DEF q
    <2>4. q \o <<Seeds>> \in Seq(SUBSET Servers) /\ Len(q \o <<Seeds>>) = k + 1
      BY <2>2, <2>3, ConcatProperties
    <2>5. q \o <<Seeds>> # <<>>
      BY <2>4
    <2> QED BY <2>4, <2>5 DEF q
  <1>2. CASE r \in WalletRoutes
    <2>1. r = <<Seeds>>
      BY <1>2 DEF WalletRoutes
    <2> QED BY <2>1
  <1>3. CASE c \in Clients \cup MultiClients /\ r \in ClientRoutes(c)
    <2>1. r = <<Seeds>> \/ \E s \in Nodes[c] : r = <<{s}, Seeds>>
      BY <1>3 DEF ClientRoutes
    <2>2. ASSUME NEW s \in Nodes[c]
          PROVE  <<{s}, Seeds>> \in Seq(SUBSET Servers) /\ <<{s}, Seeds>> # <<>>
      <3>1. {s} \in SUBSET Servers /\ Seeds \in SUBSET Servers
        BY <1>3
      <3> QED BY <3>1
    <2>3. <<Seeds>> \in Seq(SUBSET Servers) /\ <<Seeds>> # <<>>
      OBVIOUS
    <2> QED BY <2>1, <2>2, <2>3, Zenon
  <1>4. CASE c \in Clients \cup MultiClients /\ r \in MultiClientRoutes(c)
    <2>1. Nodes[c] \subseteq Servers
      BY <1>4
    <2>2. PICK k \in Nat : \E o \in [1..k -> Nodes[c]] :
            r = [i \in 1..Len(o) |-> {o[i]}] \o <<Seeds>>
      <3>1. PICK o \in UNION {[1..k -> Nodes[c]] : k \in 0..MaxClients} :
              r = [i \in 1..Len(o) |-> {o[i]}] \o <<Seeds>>
        BY <1>4, Zenon DEF MultiClientRoutes
      <3>2. PICK k \in 0..MaxClients : o \in [1..k -> Nodes[c]]
        BY <3>1, Zenon
      <3>3. k \in Nat
        BY <3>2
      <3> QED BY <3>1, <3>2, <3>3, Zenon
    <2> PICK o \in [1..k -> Nodes[c]] : r = [i \in 1..Len(o) |-> {o[i]}] \o <<Seeds>>
      BY <2>2
    <2>3. o \in [1..k -> Servers]
      BY <2>1, <2>2
    <2> QED BY <1>1, <2>2, <2>3
  <1> QED BY <1>2, <1>3, <1>4 DEF Routes, Callers

(* Going on to the next list. *)
LEMMA TailType ==
  ASSUME NEW S, NEW r \in Seq(S), Len(r) > 1
  PROVE  Tail(r) \in Seq(S) /\ Tail(r) # <<>> /\ Len(Tail(r)) = Len(r) - 1
  <1>1. r # <<>>
    OBVIOUS
  <1>2. Tail(r) \in Seq(S) /\ Len(Tail(r)) = Len(r) - 1
    BY <1>1, HeadTailProperties
  <1>3. Len(r) \in Nat /\ Len(Tail(r)) \in Nat
    BY <1>2, LenProperties
  <1>4. Len(Tail(r)) # 0
    BY <1>2, <1>3
  <1> QED BY <1>2, <1>4, EmptySeq

(* The servers of the list that is being asked. *)
LEMMA HeadType ==
  ASSUME NEW S, NEW r \in Seq(S), r # <<>>
  PROVE  Head(r) \in S
  BY HeadTailProperties

(* A transaction that is about to be sent is a signed one. *)
LEMMA TxType ==
  ASSUME TypeOK, Shape, NEW c \in Callers, pc[c] = "send"
  PROVE  /\ Tx(c) \in SignedTx
         /\ Tx(c).id[1] = c /\ Tx(c).id[2] = cur[c] /\ Tx(c).nonce = nonce[c]
  BY DEF TypeOK, Shape, SignedTx, Tx

(* What is signed has an account's caller, a number and a nonce. *)
LEMMA SignedParts ==
  ASSUME NEW t \in SignedTx
  PROVE  t.id[1] \in Callers /\ t.id[2] \in Nat /\ t.nonce \in Nat
         /\ t.id = <<t.id[1], t.id[2]>>
  BY DEF SignedTx

(* Where a copy of a transaction may be. *)
LEMMA CopiesCases ==
  ASSUME NEW t
  PROVE  t \in Copies <=>
           \/ \E m \in inflight : t = m.tx
           \/ \E s \in Servers : t \in pool[s]
           \/ \E i \in 1..Len(ledger) : t = ledger[i]
  <1>1. t \in {m.tx : m \in inflight} <=> \E m \in inflight : t = m.tx
    BY Zenon
  <1>2. t \in UNION {pool[s] : s \in Servers} <=> \E s \in Servers : t \in pool[s]
    BY Zenon
  <1>3. t \in {ledger[i] : i \in 1..Len(ledger)} <=>
          \E i \in 1..Len(ledger) : t = ledger[i]
    BY Zenon
  <1> QED BY <1>1, <1>2, <1>3, Zenon DEF Copies

(* Every copy is a signed transaction. *)
LEMMA CopiesSigned ==
  ASSUME TypeOK
  PROVE  Copies \subseteq SignedTx
  <1>1. \A m \in inflight : m.tx \in SignedTx
    BY DEF TypeOK
  <1>2. \A s \in Servers : pool[s] \subseteq SignedTx
    BY DEF TypeOK
  <1>3. \A i \in 1..Len(ledger) : ledger[i] \in SignedTx
    BY DEF TypeOK
  <1>4. ASSUME NEW t \in Copies PROVE t \in SignedTx
    <2>1. \/ \E m \in inflight : t = m.tx
          \/ \E s \in Servers : t \in pool[s]
          \/ \E i \in 1..Len(ledger) : t = ledger[i]
      BY CopiesCases
    <2> QED BY <1>1, <1>2, <1>3, <2>1
  <1> QED BY <1>4

(* The nonce after the last transaction in a pool is above all of them. *)
LEMMA NonceInTxPoolAbove ==
  ASSUME TypeOK, PoolTop, NEW s \in Servers
  PROVE  /\ NonceInTxPool(s) \in Nat
         /\ \A t \in pool[s] : t.nonce < NonceInTxPool(s)
  <1>1. CASE pool[s] = {}
    BY <1>1 DEF NonceInTxPool
  <1>2. CASE pool[s] # {}
    <2> DEFINE S == {t.nonce : t \in pool[s]}
               top == CHOOSE k \in S : \A t \in pool[s] : t.nonce <= k
    <2>1. \A t \in pool[s] : t.nonce \in Nat
      BY SignedParts DEF TypeOK
    <2>2. \E k \in S : \A t \in pool[s] : t.nonce <= k
      BY <1>2 DEF PoolTop
    <2>3. top \in S /\ \A t \in pool[s] : t.nonce <= top
      BY <2>2
    <2>4. top \in Nat
      BY <2>1, <2>3
    <2>5. NonceInTxPool(s) = 1 + top
      BY <1>2 DEF NonceInTxPool
    <2> HIDE DEF top
    <2> QED BY <2>1, <2>3, <2>4, <2>5
  <1> QED BY <1>1, <1>2

(* The answer that GetNonce takes. *)
LEMMA NonceOfType ==
  ASSUME NEW a \in NonceAnswer
  PROVE  NonceOf(a) \in Nat /\ NonceOf(a) >= a.nonce /\ NonceOf(a) >= a.nonceInTxPool
  BY DEF NonceAnswer, NonceOf

-----------------------------------------------------------------------------
(* The steps of a caller that leave the servers alone. *)

RPCTyped ==
  /\ routes' \in [Callers -> Seq(SUBSET Servers)]
  /\ asked' \in [Callers -> SUBSET Servers]
  /\ answers' \in [Callers -> SUBSET (NonceAnswer \cup SendAnswer)]

OthersKeepRPC(c) ==
  \A d \in Callers \ {c} :
    routes'[d] = routes[d] /\ asked'[d] = asked[d] /\ answers'[d] = answers[d]

(* An RPC begins without answers. *)
LEMMA BeginRPCStep ==
  ASSUME Shape, NEW c \in Callers, BeginRPC(c)
  PROVE  /\ RPCTyped /\ OthersKeepRPC(c)
         /\ routes'[c] # <<>> /\ asked'[c] = {} /\ answers'[c] = {}
  <1>1. PICK r \in Routes(c) : routes' = [routes EXCEPT ![c] = r]
    BY DEF BeginRPC
  <1>2. r \in Seq(SUBSET Servers) /\ r # <<>>
    BY RoutesType
  <1> QED BY <1>1, <1>2 DEF BeginRPC, Shape, RPCTyped, OthersKeepRPC

(* So do its next attempts. *)
LEMMA NextRouteStep ==
  ASSUME Shape, NEW c \in Callers, NextRoute(c), Len(routes[c]) > 1
  PROVE  /\ RPCTyped /\ OthersKeepRPC(c)
         /\ routes'[c] # <<>> /\ Len(routes'[c]) < Len(routes[c])
         /\ asked'[c] = {} /\ answers'[c] = {}
  <1>1. routes[c] \in Seq(SUBSET Servers) /\ Len(routes[c]) \in Nat
    BY LenProperties DEF Shape
  <1>2. /\ Tail(routes[c]) \in Seq(SUBSET Servers) /\ Tail(routes[c]) # <<>>
        /\ Len(Tail(routes[c])) = Len(routes[c]) - 1
    BY <1>1, TailType
  <1>3. routes' = [routes EXCEPT ![c] = Tail(routes[c])]
    BY DEF NextRoute
  <1>4. routes'[c] = Tail(routes[c])
    BY <1>3 DEF Shape
  <1>5. Len(routes'[c]) < Len(routes[c])
    BY <1>1, <1>2, <1>4
  <1>6. routes' \in [Callers -> Seq(SUBSET Servers)]
    BY <1>2, <1>3 DEF Shape
  <1> QED BY <1>2, <1>3, <1>4, <1>5, <1>6 DEF NextRoute, Shape, RPCTyped, OthersKeepRPC

(* After it nothing of it is left. *)
LEMMA EndRPCStep ==
  ASSUME Shape, NEW c \in Callers, EndRPC(c)
  PROVE  /\ RPCTyped /\ OthersKeepRPC(c)
         /\ routes'[c] = <<>> /\ asked'[c] = {} /\ answers'[c] = {}
  BY DEF EndRPC, Shape, RPCTyped, OthersKeepRPC

(* What such a step of caller c may do. *)
CallerTyped ==
  /\ pc' \in [Callers -> {"idle", "query", "nonce", "build", "send"}]
  /\ cur' \in [Callers -> Nat] /\ left' \in [Callers -> Nat]
  /\ nonce' \in [Callers -> Nat]
  /\ from' \in [Callers -> Servers \cup {NoServer}]
  /\ RPCTyped

OthersKeep(c) ==
  /\ OthersKeepRPC(c)
  /\ \A d \in Callers \ {c} :
       /\ pc'[d] = pc[d] /\ cur'[d] = cur[d] /\ left'[d] = left[d]
       /\ nonce'[d] = nonce[d] /\ from'[d] = from[d]

(* It goes on with its transaction, or counts a new one. *)
GoesOn(c) ==
  /\ pc'[c] \in {"query", "nonce", "send"} <=> routes'[c] # <<>>
  /\ asked'[c] = {} /\ answers'[c] = {}
  /\ pc'[c] \in {"idle", "nonce"} => from'[c] = NoServer
  /\ pc'[c] \in {"nonce", "build", "send"} => cur'[c] > 0
  /\ \/ cur'[c] = cur[c] + 1 /\ pc'[c] # "send"
     \/ /\ cur'[c] = cur[c]
        /\ pc'[c] \in {"nonce", "build"} => pc[c] \in {"nonce", "build"}
        /\ pc'[c] = "send" =>
             \/ pc[c] = "build"
             \/ /\ pc[c] = "send" /\ nonce'[c] = nonce[c]
                /\ Len(routes'[c]) < Len(routes[c])

(* Its nonce is the one it had, or an answer of GetNonce. *)
NonceFrom(c) ==
  pc'[c] \in {"build", "send"} /\ from'[c] # NoServer =>
    \/ pc[c] \in {"build", "send"} /\ nonce'[c] = nonce[c] /\ from'[c] = from[c]
    \/ pc[c] = "nonce" /\ \E a \in answers[c] :
         nonce'[c] = NonceOf(a) /\ from'[c] = a.server

(* It returns the hash of a transaction that was taken, if any. *)
HashGrows(c) ==
  \/ hash' = hash
  \/ /\ pc'[c] = "idle"
     /\ \E h \in [tx : SignedTx, by : Servers] :
          /\ hash' = hash \cup {h}
          /\ h.tx.id[1] = c /\ TakenBy(h.tx, h.by)

CallerStep(c) ==
  /\ CallerTyped /\ OthersKeep(c) /\ GoesOn(c) /\ NonceFrom(c) /\ HashGrows(c)
  /\ UNCHANGED chain

(* Such a step keeps the invariant. *)
LEMMA CallerStepInv ==
  ASSUME IndInv, NEW c \in Callers, CallerStep(c)
  PROVE  IndInv'
  <1> USE IndInvParts
  <1>1. /\ CallerTyped /\ OthersKeep(c) /\ GoesOn(c) /\ NonceFrom(c) /\ HashGrows(c)
        /\ inflight' = inflight /\ pool' = pool /\ ledger' = ledger
    BY DEF CallerStep, chain
  <1>2. Copies' = Copies /\ Copies \subseteq SignedTx
    BY <1>1, CopiesSigned DEF Copies
  <1>3. \A d \in Callers : d # c =>
          /\ pc'[d] = pc[d] /\ cur'[d] = cur[d] /\ nonce'[d] = nonce[d]
          /\ from'[d] = from[d] /\ routes'[d] = routes[d]
          /\ asked'[d] = asked[d] /\ answers'[d] = answers[d]
    BY <1>1 DEF OthersKeep, OthersKeepRPC
  <1>4. hash' \subseteq [tx : SignedTx, by : Servers]
    BY <1>1 DEF HashGrows, TypeOK
  <1>5. TypeOK'
    <2>1. ASSUME NEW d \in Callers
          PROVE  /\ pc'[d] \in {"query", "nonce", "send"} <=> routes'[d] # <<>>
                 /\ asked'[d] \subseteq Servers
                 /\ routes'[d] # <<>> => asked'[d] \subseteq Head(routes'[d])
                 /\ \A a \in answers'[d] : a.server \in asked'[d]
      <3>1. CASE d = c
        BY <1>1, <3>1 DEF GoesOn
      <3>2. CASE d # c
        BY <1>3, <3>2 DEF TypeOK
      <3> QED BY <3>1, <3>2
    <2> QED BY <1>1, <1>4, <2>1 DEF TypeOK, CallerTyped
  <1>6. Shape'
    <2>1. ASSUME NEW d \in Callers
          PROVE  /\ answers'[d] \subseteq AnswersIn(pc'[d])
                 /\ pc'[d] \in {"idle", "build"} => asked'[d] = {}
                 /\ pc'[d] \in {"idle", "nonce"} => from'[d] = NoServer
                 /\ pc'[d] \in {"nonce", "build", "send"} => cur'[d] > 0
      <3>1. CASE d = c
        BY <1>1, <3>1 DEF GoesOn
      <3>2. CASE d # c
        BY <1>3, <3>2 DEF Shape
      <3> QED BY <3>1, <3>2
    <2> QED BY <1>1, <2>1 DEF Shape, CallerTyped, RPCTyped
  <1>7. PoolTop' /\ SignedOnce'
    BY <1>1, <1>2 DEF PoolTop, SignedOnce
  <1>8. SignedBefore'
    <2> SUFFICES ASSUME NEW t \in Copies
                 PROVE  LET d == t.id[1] IN
                        /\ t.id[2] <= cur'[d]
                        /\ t.id[2] = cur'[d] =>
                             /\ pc'[d] \notin {"nonce", "build"}
                             /\ pc'[d] = "send" => t.nonce = nonce'[d]
      BY <1>2 DEF SignedBefore
    <2>1. t.id[1] \in Callers /\ t.id[2] \in Nat
      BY <1>2, SignedParts
    <2>2. LET d == t.id[1] IN
          /\ t.id[2] <= cur[d]
          /\ t.id[2] = cur[d] => /\ pc[d] \notin {"nonce", "build"}
                                 /\ pc[d] = "send" => t.nonce = nonce[d]
      BY DEF SignedBefore
    <2>3. CASE t.id[1] # c
      BY <1>3, <2>1, <2>2, <2>3
    <2>4. CASE t.id[1] = c
      <3>1. cur[c] \in Nat
        BY DEF TypeOK
      <3> QED BY <1>1, <2>1, <2>2, <2>4, <3>1 DEF GoesOn
    <2> QED BY <2>3, <2>4
  <1>9. InflightAsked'
    <2> SUFFICES ASSUME NEW m \in inflight,
                        pc'[m.tx.id[1]] = "send", m.tx.id[2] = cur'[m.tx.id[1]]
                 PROVE  /\ m.attempt >= Len(routes'[m.tx.id[1]])
                        /\ m.attempt = Len(routes'[m.tx.id[1]])
                             => m.server \in asked'[m.tx.id[1]]
      BY <1>1 DEF InflightAsked
    <2>1. m.tx \in SignedTx /\ m.attempt \in Nat /\ m.tx \in Copies
      BY CopiesCases DEF Shape
    <2>2. m.tx.id[1] \in Callers /\ m.tx.id[2] \in Nat
      BY <2>1, SignedParts
    <2>3. CASE m.tx.id[1] # c
      BY <1>3, <2>2, <2>3 DEF InflightAsked
    <2>4. CASE m.tx.id[1] = c
      <3>1. cur[c] \in Nat
        BY DEF TypeOK
      <3>2. m.tx.id[2] <= cur[c] /\ (m.tx.id[2] = cur[c] => pc[c] # "build")
        BY <2>1, <2>4 DEF SignedBefore
      <3>3. /\ cur'[c] = cur[c] /\ pc[c] = "send"
            /\ Len(routes'[c]) < Len(routes[c])
        BY <1>1, <2>2, <2>4, <3>1, <3>2 DEF GoesOn
      <3>4. m.attempt >= Len(routes[c])
        BY <2>4, <3>3 DEF InflightAsked
      <3>5. Len(routes[c]) \in Nat /\ Len(routes'[c]) \in Nat
        BY <1>1, LenProperties DEF Shape, CallerTyped, RPCTyped
      <3> QED BY <2>1, <2>4, <3>3, <3>4, <3>5
    <2> QED BY <2>3, <2>4
  <1>10. TakenStays'
    <2>1. \A t, s : TakenBy(t, s)' <=> TakenBy(t, s)
      BY <1>1 DEF TakenBy
    <2>2. ASSUME NEW h \in hash' PROVE TakenBy(h.tx, h.by)'
      BY <1>1, <2>1 DEF HashGrows, TakenStays, TakenBy
    <2>3. ASSUME NEW d \in Callers, pc'[d] = "send", NEW a \in answers'[d], a.accepted
          PROVE  TakenBy(Tx(d), a.server)'
      <3>1. d # c
        BY <1>1, <2>3 DEF GoesOn
      <3>2. Tx(d)' = Tx(d)
        BY <1>3, <3>1 DEF Tx
      <3>3. TakenBy(Tx(d), a.server)
        BY <1>3, <2>3, <3>1 DEF TakenStays
      <3> QED BY <1>1, <3>2, <3>3 DEF TakenBy
    <2> QED BY <2>2, <2>3 DEF TakenStays
  <1>11. AnswerAboveTaken'
    <2> SUFFICES ASSUME NEW d \in Callers, pc'[d] = "nonce", NEW a \in answers'[d],
                        NEW h \in hash', h.tx.id[1] = d, h.by = a.server
                 PROVE  h.tx.nonce < NonceOf(a)
      BY DEF AnswerAboveTaken, NonceOf
    <2>1. d # c
      BY <1>1 DEF GoesOn
    <2>2. h \in hash
      BY <1>1, <2>1 DEF HashGrows
    <2> QED BY <1>3, <2>1, <2>2 DEF AnswerAboveTaken
  <1>12. NonceAboveTaken'
    <2> SUFFICES ASSUME NEW d \in Callers,
                        pc'[d] \in {"build", "send"}, from'[d] # NoServer,
                        NEW h \in hash', h.tx.id[1] = d, h.by = from'[d]
                 PROVE  h.tx.nonce < nonce'[d]
      BY DEF NonceAboveTaken
    <2>1. h \in hash
      BY <1>1 DEF HashGrows
    <2>2. CASE d # c
      BY <1>3, <2>1, <2>2 DEF NonceAboveTaken
    <2>3. CASE d = c
      BY <1>1, <2>1, <2>3 DEF NonceFrom, NonceAboveTaken, AnswerAboveTaken
    <2> QED BY <2>2, <2>3
  <1> QED BY <1>5, <1>6, <1>7, <1>8, <1>9, <1>10, <1>11, <1>12 DEF IndInv

(* A query begins. *)
LEMMA QueryStep ==
  ASSUME IndInv, NEW c \in Callers, Query(c)
  PROVE  CallerStep(c)
  <1> USE IndInvParts
  <1>1. /\ RPCTyped /\ OthersKeepRPC(c)
        /\ routes'[c] # <<>> /\ asked'[c] = {} /\ answers'[c] = {}
    BY BeginRPCStep DEF Query
  <1>2. CallerTyped
    BY <1>1 DEF Query, TypeOK, CallerTyped
  <1>3. OthersKeep(c)
    BY <1>1 DEF Query, TypeOK, OthersKeep
  <1>4. GoesOn(c) /\ NonceFrom(c) /\ HashGrows(c)
    BY <1>1 DEF Query, TypeOK, GoesOn, NonceFrom, HashGrows
  <1> QED BY <1>2, <1>3, <1>4 DEF Query, CallerStep

(* A call ends. *)
LEMMA EndCallStep ==
  ASSUME IndInv, NEW c \in Callers, EndCall(c), UNCHANGED <<cur, left, chain>>,
         HashGrows(c)
  PROVE  CallerStep(c)
  <1> USE IndInvParts
  <1>1. /\ RPCTyped /\ OthersKeepRPC(c)
        /\ routes'[c] = <<>> /\ asked'[c] = {} /\ answers'[c] = {}
    BY EndRPCStep DEF EndCall
  <1>2. pc' = [pc EXCEPT ![c] = "idle"] /\ nonce' = [nonce EXCEPT ![c] = 0]
        /\ from' = [from EXCEPT ![c] = NoServer]
    BY DEF EndCall
  <1>3. CallerTyped
    BY <1>1, <1>2 DEF TypeOK, CallerTyped
  <1>4. OthersKeep(c)
    BY <1>1, <1>2 DEF TypeOK, OthersKeep
  <1>5. GoesOn(c) /\ NonceFrom(c)
    BY <1>1, <1>2 DEF TypeOK, GoesOn, NonceFrom
  <1> QED BY <1>3, <1>4, <1>5 DEF CallerStep

(* A transaction begins: it is counted, and has a nonce or asks for one. *)
LEMMA TransactStep ==
  ASSUME IndInv, NEW c \in Callers, NEW checks, Transact(c, checks)
  PROVE  CallerStep(c)
  <1> USE IndInvParts, TransactionsAssumption
  <1>1. /\ pc[c] = "idle" /\ left[c] > 0
        /\ left' = [left EXCEPT ![c] = left[c] - 1]
        /\ cur' = [cur EXCEPT ![c] = cur[c] + 1]
        /\ hash' = hash /\ UNCHANGED chain
    BY DEF Transact
  <1>2. from[c] = NoServer /\ routes[c] = <<>> /\ answers[c] = {} /\ asked[c] = {}
    <2>1. /\ from[c] = NoServer /\ asked[c] = {}
          /\ answers[c] \subseteq AnswersIn("idle")
      BY <1>1 DEF Shape
    <2>2. routes[c] = <<>>
      BY <1>1 DEF TypeOK
    <2>3. answers[c] = {}
      BY <2>1 DEF AnswersIn
    <2> QED BY <2>1, <2>2, <2>3
  <1>3. CASE UNCHANGED <<pc, nonce, from, rpc>>
    <2>1. RPCTyped /\ OthersKeepRPC(c)
      BY <1>3 DEF rpc, Shape, RPCTyped, OthersKeepRPC
    <2>2. CallerTyped /\ OthersKeep(c)
      BY <1>1, <1>3, <2>1 DEF TypeOK, CallerTyped, OthersKeep
    <2>3. GoesOn(c) /\ NonceFrom(c) /\ HashGrows(c)
      BY <1>1, <1>2, <1>3 DEF rpc, TypeOK, GoesOn, NonceFrom, HashGrows
    <2> QED BY <1>1, <2>2, <2>3 DEF CallerStep
  <1>4. CASE /\ pc' = [pc EXCEPT ![c] = "nonce"]
             /\ BeginRPC(c)
             /\ UNCHANGED <<nonce, from>>
    <2>1. /\ RPCTyped /\ OthersKeepRPC(c)
          /\ routes'[c] # <<>> /\ asked'[c] = {} /\ answers'[c] = {}
      BY <1>4, BeginRPCStep
    <2>2. CallerTyped /\ OthersKeep(c)
      BY <1>1, <1>4, <2>1 DEF TypeOK, CallerTyped, OthersKeep
    <2>3. GoesOn(c) /\ NonceFrom(c) /\ HashGrows(c)
      BY <1>1, <1>2, <1>4, <2>1 DEF TypeOK, GoesOn, NonceFrom, HashGrows
    <2> QED BY <1>1, <2>2, <2>3 DEF CallerStep
  <1>5. CASE /\ pc' = [pc EXCEPT ![c] = "build"]
             /\ nonce' \in {[nonce EXCEPT ![c] = k] : k \in 0..MaxNonce}
             /\ UNCHANGED <<from, rpc>>
    <2>1. RPCTyped /\ OthersKeepRPC(c)
      BY <1>5 DEF rpc, Shape, RPCTyped, OthersKeepRPC
    <2>2. PICK k \in 0..MaxNonce : nonce' = [nonce EXCEPT ![c] = k]
      BY <1>5
    <2>3. CallerTyped /\ OthersKeep(c)
      BY <1>1, <1>5, <2>1, <2>2 DEF TypeOK, CallerTyped, OthersKeep
    <2>4. GoesOn(c) /\ NonceFrom(c) /\ HashGrows(c)
      BY <1>1, <1>2, <1>5 DEF rpc, TypeOK, GoesOn, NonceFrom, HashGrows
    <2> QED BY <1>1, <2>3, <2>4 DEF CallerStep
  <1> QED BY <1>3, <1>4, <1>5 DEF Transact

(* GetNonce returns an answer's nonce. *)
LEMMA NonceReturnsStep ==
  ASSUME IndInv, NEW c \in Callers, NonceReturns(c)
  PROVE  CallerStep(c)
  <1> USE IndInvParts
  <1>1. /\ RPCTyped /\ OthersKeepRPC(c)
        /\ routes'[c] = <<>> /\ asked'[c] = {} /\ answers'[c] = {}
    BY EndRPCStep DEF NonceReturns
  <1>2. PICK a \in answers[c] : /\ nonce' = [nonce EXCEPT ![c] = NonceOf(a)]
                               /\ from' = [from EXCEPT ![c] = a.server]
    BY DEF NonceReturns
  <1>3. a \in NonceAnswer
    <2>1. answers[c] \subseteq AnswersIn("nonce")
      BY DEF NonceReturns, Shape
    <2> QED BY <2>1 DEF AnswersIn
  <1>4. NonceOf(a) \in Nat /\ a.server \in Servers
    BY <1>3, NonceOfType DEF NonceAnswer
  <1>5. /\ pc[c] = "nonce" /\ pc' = [pc EXCEPT ![c] = "build"] /\ cur' = cur
        /\ left' = left /\ hash' = hash /\ UNCHANGED chain
    BY DEF NonceReturns
  <1>6. CallerTyped
    BY <1>1, <1>2, <1>4, <1>5 DEF TypeOK, CallerTyped
  <1>7. OthersKeep(c)
    BY <1>1, <1>2, <1>5 DEF TypeOK, OthersKeep
  <1>8. GoesOn(c) /\ HashGrows(c)
    BY <1>1, <1>5 DEF TypeOK, Shape, GoesOn, HashGrows
  <1>9. NonceFrom(c)
    BY <1>2, <1>5 DEF TypeOK, NonceFrom
  <1> QED BY <1>5, <1>6, <1>7, <1>8, <1>9 DEF CallerStep

(* So does a part of an answer; it counts as no server's. *)
LEMMA NonceReturnsPartStep ==
  ASSUME IndInv, NEW c \in Callers, NonceReturnsPart(c)
  PROVE  CallerStep(c)
  <1> USE IndInvParts
  <1>1. /\ RPCTyped /\ OthersKeepRPC(c)
        /\ routes'[c] = <<>> /\ asked'[c] = {} /\ answers'[c] = {}
    BY EndRPCStep DEF NonceReturnsPart
  <1>2. PICK a \in answers[c] : \E k \in {0, a.nonce, a.nonceInTxPool} :
          nonce' = [nonce EXCEPT ![c] = k]
    BY DEF NonceReturnsPart
  <1>3. a.nonce \in Nat /\ a.nonceInTxPool \in Nat
    <2>1. answers[c] \subseteq AnswersIn("nonce")
      BY DEF NonceReturnsPart, Shape
    <2> QED BY <2>1 DEF AnswersIn, NonceAnswer
  <1>4. PICK k \in Nat : nonce' = [nonce EXCEPT ![c] = k]
    BY <1>2, <1>3
  <1>5. /\ pc[c] = "nonce" /\ pc' = [pc EXCEPT ![c] = "build"] /\ cur' = cur
        /\ left' = left /\ from' = from /\ hash' = hash /\ UNCHANGED chain
    BY DEF NonceReturnsPart
  <1>6. CallerTyped /\ OthersKeep(c)
    BY <1>1, <1>4, <1>5 DEF TypeOK, CallerTyped, OthersKeep
  <1>7. GoesOn(c) /\ HashGrows(c)
    BY <1>1, <1>5 DEF TypeOK, Shape, GoesOn, HashGrows
  <1>8. NonceFrom(c)
    BY <1>5 DEF Shape, NonceFrom
  <1> QED BY <1>5, <1>6, <1>7, <1>8 DEF CallerStep

(* SendRawTransaction begins. *)
LEMMA BuildAndSignStep ==
  ASSUME IndInv, NEW c \in Callers, BuildAndSign(c)
  PROVE  CallerStep(c)
  <1> USE IndInvParts
  <1>1. /\ RPCTyped /\ OthersKeepRPC(c)
        /\ routes'[c] # <<>> /\ asked'[c] = {} /\ answers'[c] = {}
    BY BeginRPCStep DEF BuildAndSign
  <1>2. CallerTyped /\ OthersKeep(c)
    BY <1>1 DEF BuildAndSign, TypeOK, CallerTyped, OthersKeep
  <1>3. GoesOn(c) /\ NonceFrom(c) /\ HashGrows(c)
    BY <1>1 DEF BuildAndSign, TypeOK, Shape, GoesOn, NonceFrom, HashGrows
  <1> QED BY <1>2, <1>3 DEF BuildAndSign, CallerStep

(* SendRawTransaction returns the hash of what a server accepted. *)
LEMMA SendReturnsStep ==
  ASSUME IndInv, NEW c \in Callers, SendReturns(c)
  PROVE  CallerStep(c)
  <1> USE IndInvParts
  <1>1. PICK a \in answers[c] :
          a.accepted /\ hash' = hash \cup {[tx |-> Tx(c), by |-> a.server]}
    BY DEF SendReturns
  <1>2. pc[c] = "send" /\ Tx(c) \in SignedTx /\ Tx(c).id[1] = c
    BY TxType DEF SendReturns
  <1>3. a.server \in Servers
    BY DEF TypeOK
  <1>4. TakenBy(Tx(c), a.server)
    BY <1>1, <1>2 DEF TakenStays
  <1>5. pc'[c] = "idle"
    BY DEF SendReturns, EndCall, TypeOK
  <1>6. HashGrows(c)
    <2> DEFINE h == [tx |-> Tx(c), by |-> a.server]
    <2>1. h \in [tx : SignedTx, by : Servers] /\ h.tx = Tx(c) /\ h.by = a.server
      BY <1>2, <1>3
    <2> QED BY <1>1, <1>2, <1>4, <1>5, <2>1 DEF HashGrows
  <1> QED BY <1>6, EndCallStep DEF SendReturns

(* The next servers are asked with the same transaction, or the call ends. *)
LEMMA RPCFailsStep ==
  ASSUME IndInv, NEW c \in Callers, RPCFails(c)
  PROVE  CallerStep(c)
  <1> USE IndInvParts
  <1>1. CASE Len(routes[c]) > 1
    <2>1. /\ NextRoute(c) /\ UNCHANGED <<pc, nonce, from, cur, left, hash, chain>>
          /\ pc[c] \in {"query", "nonce", "send"}
      BY <1>1 DEF RPCFails
    <2>2. /\ RPCTyped /\ OthersKeepRPC(c)
          /\ routes'[c] # <<>> /\ Len(routes'[c]) < Len(routes[c])
          /\ asked'[c] = {} /\ answers'[c] = {}
      BY <1>1, <2>1, NextRouteStep
    <2>3. CallerTyped /\ OthersKeep(c)
      BY <2>1, <2>2 DEF TypeOK, CallerTyped, OthersKeep
    <2>4. GoesOn(c) /\ NonceFrom(c) /\ HashGrows(c)
      BY <2>1, <2>2 DEF TypeOK, Shape, GoesOn, NonceFrom, HashGrows
    <2> QED BY <2>1, <2>3, <2>4 DEF CallerStep
  <1>2. CASE ~(Len(routes[c]) > 1)
    BY <1>2, EndCallStep DEF RPCFails, HashGrows
  <1> QED BY <1>1, <1>2

-----------------------------------------------------------------------------
(* The steps of the requests and of the servers. *)

(* What does not depend on where the copies are. *)
LEMMA CopiesKept ==
  ASSUME SignedBefore, SignedOnce, UNCHANGED <<pc, cur, nonce>>,
         Copies' \subseteq Copies
  PROVE  SignedBefore' /\ SignedOnce'
  BY DEF SignedBefore, SignedOnce

(* A pool takes the next transaction only. *)
LEMMA PoolAdds ==
  ASSUME TypeOK, PoolTop, NEW s \in Servers, NEW tx \in SignedTx,
         Acceptable(s, tx), pool' = [pool EXCEPT ![s] = pool[s] \cup {tx}]
  PROVE  /\ pool' \in [Servers -> SUBSET SignedTx]
         /\ PoolTop'
         /\ \A r \in Servers : pool[r] \subseteq pool'[r]
         /\ \A r \in Servers : pool'[r] \subseteq pool[r] \cup {tx}
         /\ tx \in pool'[s]
  <1>1. /\ pool' \in [Servers -> SUBSET SignedTx]
        /\ \A r \in Servers : pool[r] \subseteq pool'[r]
        /\ \A r \in Servers : pool'[r] \subseteq pool[r] \cup {tx}
        /\ tx \in pool'[s] /\ pool'[s] = pool[s] \cup {tx}
        /\ \A r \in Servers : r # s => pool'[r] = pool[r]
    BY DEF TypeOK
  <1>2. tx.nonce \in Nat
    BY SignedParts
  <1>3. \A u \in pool[s] : u.nonce < tx.nonce
    <2>1. CASE pool[s] = {}
      BY <2>1
    <2>2. CASE pool[s] # {}
      BY <2>2, NonceInTxPoolAbove DEF Acceptable
    <2> QED BY <2>1, <2>2
  <1>4. \A u \in pool[s] : u.nonce \in Nat
    BY SignedParts DEF TypeOK
  <1>5. \A u \in pool'[s] : u.nonce <= tx.nonce
    BY <1>1, <1>2, <1>3, <1>4
  <1>6. PoolTop'
    BY <1>1, <1>5 DEF PoolTop
  <1> QED BY <1>1, <1>6

(* A request of SendRawTransaction leaves. *)
LEMMA PostStep ==
  ASSUME IndInv, NEW c \in Callers, NEW s \in Servers, Post(c, s)
  PROVE  IndInv'
  <1> USE IndInvParts
  <1> DEFINE m == [server |-> s, tx |-> Tx(c), attempt |-> Len(routes[c])]
  <1>1. /\ pc[c] = "send" /\ s \in Head(routes[c])
        /\ asked' = [asked EXCEPT ![c] = asked[c] \cup {s}]
        /\ inflight' = inflight \cup {m}
        /\ pc' = pc /\ cur' = cur /\ left' = left /\ nonce' = nonce /\ from' = from
        /\ routes' = routes /\ answers' = answers /\ hash' = hash /\ pool' = pool
        /\ ledger' = ledger
    BY DEF Post
  <1>2. /\ Tx(c) \in SignedTx
        /\ Tx(c).id[1] = c /\ Tx(c).id[2] = cur[c] /\ Tx(c).nonce = nonce[c]
    BY <1>1, TxType
  <1>3. m \in [server : Servers, tx : SignedTx, attempt : Nat]
    <2>1. Len(routes[c]) \in Nat
      BY LenProperties DEF Shape
    <2> QED BY <1>2, <2>1
  <1>4. m.tx = Tx(c) /\ m.server = s /\ m.attempt = Len(routes[c])
    OBVIOUS
  <1> HIDE DEF m
  <1>5. asked' \in [Callers -> SUBSET Servers]
        /\ \A d \in Callers : asked[d] \subseteq asked'[d]
        /\ s \in asked'[c]
    BY <1>1 DEF Shape
  <1>6. TypeOK'
    <2>1. ASSUME NEW d \in Callers
          PROVE  /\ asked'[d] \subseteq Servers
                 /\ routes[d] # <<>> => asked'[d] \subseteq Head(routes[d])
                 /\ \A a \in answers[d] : a.server \in asked'[d]
      BY <1>1, <1>5 DEF TypeOK, Shape
    <2>2. \A k \in inflight' : k.server \in Servers /\ k.tx \in SignedTx
      BY <1>1, <1>3 DEF TypeOK
    <2> QED BY <1>1, <2>1, <2>2 DEF TypeOK
  <1>7. Shape'
    BY <1>1, <1>3, <1>5 DEF Shape
  <1>8. PoolTop' /\ NonceAboveTaken'
    BY <1>1 DEF PoolTop, NonceAboveTaken
  <1>9. \A t \in Copies' : t \in Copies \/ t = Tx(c)
    <2> SUFFICES ASSUME NEW t \in Copies' PROVE t \in Copies \/ t = Tx(c)
      OBVIOUS
    <2>1. \/ \E k \in inflight' : t = k.tx
          \/ \E r \in Servers : t \in pool[r]
          \/ \E i \in 1..Len(ledger) : t = ledger[i]
      BY <1>1, CopiesCases DEF Copies
    <2> QED BY <1>1, <1>4, <2>1, CopiesCases
  <1>10. SignedBefore'
    <2>1. cur[c] \in Nat
      BY DEF TypeOK
    <2> QED BY <1>1, <1>2, <1>9, <2>1 DEF SignedBefore
  <1>11. SignedOnce'
    <2>1. ASSUME NEW t \in Copies, t.id = Tx(c).id PROVE t.nonce = Tx(c).nonce
      BY <1>1, <1>2, <2>1 DEF SignedBefore
    <2> QED BY <1>9, <2>1 DEF SignedOnce
  <1>12. InflightAsked'
    <2> SUFFICES ASSUME NEW k \in inflight', pc[k.tx.id[1]] = "send",
                        k.tx.id[2] = cur[k.tx.id[1]]
                 PROVE  /\ k.attempt >= Len(routes[k.tx.id[1]])
                        /\ k.attempt = Len(routes[k.tx.id[1]])
                             => k.server \in asked'[k.tx.id[1]]
      BY <1>1 DEF InflightAsked
    <2>1. CASE k = m
      BY <1>2, <1>3, <1>4, <1>5, <2>1
    <2>2. CASE k \in inflight
      <3>1. k.tx.id[1] \in Callers
        BY <2>2, SignedParts DEF Shape
      <3> QED BY <1>5, <2>2, <3>1 DEF InflightAsked
    <2> QED BY <1>1, <2>1, <2>2
  <1>13. TakenStays' /\ AnswerAboveTaken'
    BY <1>1 DEF TakenStays, TakenBy, Tx, AnswerAboveTaken, NonceOf
  <1> QED BY <1>6, <1>7, <1>8, <1>10, <1>11, <1>12, <1>13 DEF IndInv

(* A server answers getnoncebyaddr: its answer counts what it took. *)
LEMMA ServeNonceStep ==
  ASSUME IndInv, NEW c \in Callers, NEW s \in Servers, ServeNonce(c, s)
  PROVE  IndInv'
  <1> USE IndInvParts
  <1> DEFINE b == [server |-> s, nonce |-> Len(ledger),
                   nonceInTxPool |-> NonceInTxPool(s)]
  <1>1. /\ pc[c] \in {"query", "nonce"} /\ s \in Head(routes[c])
        /\ asked' = [asked EXCEPT ![c] = asked[c] \cup {s}]
        /\ answers' = [answers EXCEPT ![c] = answers[c] \cup {b}]
        /\ pc' = pc /\ cur' = cur /\ left' = left /\ nonce' = nonce /\ from' = from
        /\ routes' = routes /\ hash' = hash /\ inflight' = inflight /\ pool' = pool
        /\ ledger' = ledger
    BY DEF ServeNonce, chain
  <1>2. /\ NonceInTxPool(s) \in Nat
        /\ \A t \in pool[s] : t.nonce < NonceInTxPool(s)
    BY NonceInTxPoolAbove
  <1>3. Len(ledger) \in Nat
    BY LenProperties DEF Shape
  <1>4. /\ b \in NonceAnswer /\ b.server = s /\ b.nonce = Len(ledger)
        /\ b.nonceInTxPool = NonceInTxPool(s)
    BY <1>2, <1>3 DEF NonceAnswer
  <1> HIDE DEF b
  <1>5. /\ asked' \in [Callers -> SUBSET Servers]
        /\ \A d \in Callers : asked[d] \subseteq asked'[d]
        /\ s \in asked'[c]
    BY <1>1 DEF Shape
  <1>6. /\ answers' \in [Callers -> SUBSET (NonceAnswer \cup SendAnswer)]
        /\ answers'[c] = answers[c] \cup {b}
        /\ \A d \in Callers : d # c => answers'[d] = answers[d]
    BY <1>1, <1>4 DEF Shape
  <1>7. TypeOK'
    <2>1. ASSUME NEW d \in Callers
          PROVE  /\ asked'[d] \subseteq Servers
                 /\ routes[d] # <<>> => asked'[d] \subseteq Head(routes[d])
                 /\ \A a \in answers'[d] : a.server \in asked'[d]
      BY <1>1, <1>4, <1>5, <1>6 DEF TypeOK, Shape
    <2> QED BY <1>1, <2>1 DEF TypeOK
  <1>8. Shape'
    <2>1. AnswersIn(pc[c]) = NonceAnswer
      BY <1>1 DEF AnswersIn
    <2>2. \A d \in Callers : answers'[d] \subseteq AnswersIn(pc[d])
      BY <1>4, <1>6, <2>1 DEF Shape
    <2>3. \A d \in Callers : pc[d] \in {"idle", "build"} => asked'[d] = {}
      BY <1>1 DEF Shape
    <2> QED BY <1>1, <1>5, <1>6, <2>2, <2>3 DEF Shape
  <1>9. PoolTop' /\ NonceAboveTaken'
    BY <1>1 DEF PoolTop, NonceAboveTaken
  <1>10. SignedBefore' /\ SignedOnce'
    <2>1. Copies' \subseteq Copies
      BY <1>1 DEF Copies
    <2> QED BY <1>1, <2>1, CopiesKept
  <1>11. InflightAsked'
    <2>1. \A k \in inflight : k.tx.id[1] \in Callers
      BY SignedParts DEF Shape
    <2> QED BY <1>1, <1>5, <2>1 DEF InflightAsked
  <1>12. TakenStays'
    <2>1. \A d \in Callers : pc[d] = "send" => answers'[d] = answers[d]
      BY <1>1, <1>6
    <2> QED BY <1>1, <2>1 DEF TakenStays, TakenBy, Tx
  <1>13. AnswerAboveTaken'
    <2>1. ASSUME NEW h \in hash, h.by = s PROVE h.tx.nonce < NonceOf(b)
      <3>1. h.tx.nonce < Len(ledger) \/ h.tx \in pool[s]
        BY <2>1 DEF TakenStays, TakenBy
      <3>2. h.tx.nonce \in Nat
        BY SignedParts DEF TypeOK
      <3>3. /\ NonceOf(b) \in Nat /\ NonceOf(b) >= Len(ledger)
            /\ NonceOf(b) >= NonceInTxPool(s)
        BY <1>4, NonceOfType
      <3> QED BY <1>2, <1>3, <3>1, <3>2, <3>3
    <2> QED BY <1>1, <1>4, <1>6, <2>1 DEF AnswerAboveTaken, NonceOf
  <1> QED BY <1>7, <1>8, <1>9, <1>10, <1>11, <1>12, <1>13 DEF IndInv

(* A server handles sendrawtransaction. *)
LEMMA ReceiveStep ==
  ASSUME IndInv, NEW m \in inflight, NEW accepted \in BOOLEAN, Receive(m, accepted)
  PROVE  IndInv'
  <1> USE IndInvParts
  <1> DEFINE c == m.tx.id[1]
             b == [server |-> m.server, accepted |-> accepted]
             waits == /\ pc[c] = "send" /\ m.tx = Tx(c)
                      /\ m.attempt = Len(routes[c])
  <1>1. /\ inflight' = inflight \ {m}
        /\ accepted => Acceptable(m.server, m.tx)
        /\ pool' = IF accepted
                     THEN [pool EXCEPT ![m.server] = pool[m.server] \cup {m.tx}]
                     ELSE pool
        /\ answers' = IF waits THEN [answers EXCEPT ![c] = answers[c] \cup {b}]
                      ELSE answers
        /\ pc' = pc /\ cur' = cur /\ left' = left /\ nonce' = nonce /\ from' = from
        /\ routes' = routes /\ asked' = asked /\ hash' = hash /\ ledger' = ledger
    BY DEF Receive
  <1>2. /\ m.server \in Servers /\ m.tx \in SignedTx /\ m.attempt \in Nat
        /\ c \in Callers
    BY SignedParts DEF Shape
  <1>3. /\ pool' \in [Servers -> SUBSET SignedTx] /\ PoolTop'
        /\ \A r \in Servers : pool[r] \subseteq pool'[r]
        /\ \A r \in Servers : pool'[r] \subseteq pool[r] \cup {m.tx}
        /\ accepted => m.tx \in pool'[m.server]
    <2>1. CASE accepted
      BY <1>1, <1>2, <2>1, PoolAdds
    <2>2. CASE ~accepted
      BY <1>1, <2>2 DEF TypeOK, PoolTop
    <2> QED BY <2>1, <2>2
  <1>4. b \in SendAnswer /\ b.server = m.server /\ b.accepted = accepted
    BY <1>2 DEF SendAnswer
  <1>5. waits => m.server \in asked[c]
    <2> SUFFICES ASSUME waits PROVE m.server \in asked[c]
      OBVIOUS
    <2>1. m.tx.id[2] = cur[c]
      BY <1>2, TxType
    <2> QED BY <2>1 DEF InflightAsked
  <1> HIDE DEF b, waits, c
  <1>6. /\ answers' \in [Callers -> SUBSET (NonceAnswer \cup SendAnswer)]
        /\ \A d \in Callers : \A a \in answers'[d] :
             a \in answers[d] \/ (a = b /\ d = c /\ waits)
    BY <1>1, <1>2, <1>4 DEF Shape
  <1>7. TypeOK'
    <2>1. \A d \in Callers : \A a \in answers'[d] : a.server \in asked[d]
      BY <1>4, <1>5, <1>6 DEF TypeOK
    <2>2. \A k \in inflight' : k.server \in Servers /\ k.tx \in SignedTx
      BY <1>1 DEF TypeOK
    <2> QED BY <1>1, <1>3, <2>1, <2>2 DEF TypeOK
  <1>8. Shape'
    <2>1. waits => AnswersIn(pc[c]) = SendAnswer
      BY DEF AnswersIn, waits
    <2>2. \A d \in Callers : answers'[d] \subseteq AnswersIn(pc[d])
      BY <1>4, <1>6, <2>1 DEF Shape
    <2> QED BY <1>1, <1>6, <2>2 DEF Shape
  <1>9. SignedBefore' /\ SignedOnce'
    <2>1. m.tx \in Copies
      BY CopiesCases
    <2>2. ASSUME NEW t \in Copies' PROVE t \in Copies
      <3>1. \/ \E k \in inflight' : t = k.tx
            \/ \E r \in Servers : t \in pool'[r]
            \/ \E i \in 1..Len(ledger) : t = ledger[i]
        BY <1>1, <2>2 DEF Copies
      <3>2. (\E r \in Servers : t \in pool[r]) => t \in Copies
        BY CopiesCases
      <3> QED BY <1>1, <1>3, <2>1, <3>1, <3>2, CopiesCases
    <2> QED BY <1>1, <2>2, CopiesKept
  <1>10. InflightAsked' /\ NonceAboveTaken'
    BY <1>1 DEF InflightAsked, NonceAboveTaken
  <1>11. TakenStays'
    <2>1. \A h \in hash : h.by \in Servers
      BY DEF TypeOK
    <2>2. \A h \in hash : TakenBy(h.tx, h.by)'
      BY <1>1, <1>3, <2>1 DEF TakenStays, TakenBy
    <2>3. ASSUME NEW d \in Callers, pc[d] = "send", NEW a \in answers'[d], a.accepted
          PROVE  nonce[d] < Len(ledger) \/ Tx(d) \in pool'[a.server]
      <3>1. CASE a \in answers[d]
        <4>1. a.server \in Servers
          BY <3>1 DEF TypeOK
        <4>2. Tx(d).nonce < Len(ledger) \/ Tx(d) \in pool[a.server]
          BY <2>3, <3>1 DEF TakenStays, TakenBy
        <4> QED BY <1>3, <4>1, <4>2 DEF Tx
      <3>2. CASE a = b /\ d = c /\ waits
        BY <1>3, <1>4, <2>3, <3>2 DEF waits
      <3> QED BY <1>6, <3>1, <3>2
    <2>4. \A d \in Callers : Tx(d)' = Tx(d) /\ Tx(d).nonce = nonce[d]
      BY <1>1 DEF Tx
    <2> QED BY <1>1, <2>2, <2>3, <2>4 DEF TakenStays, TakenBy
  <1>12. AnswerAboveTaken'
    <2>1. \A d \in Callers : pc[d] = "nonce" => answers'[d] \subseteq answers[d]
      BY <1>6 DEF waits
    <2> QED BY <1>1, <2>1 DEF AnswerAboveTaken, NonceOf
  <1> QED BY <1>3, <1>7, <1>8, <1>9, <1>10, <1>11, <1>12 DEF IndInv

(* A server gets a transaction from another one. *)
LEMMA GossipStep ==
  ASSUME IndInv, NEW r \in Servers, NEW s \in Servers, Gossip(r, s)
  PROVE  IndInv'
  <1> USE IndInvParts
  <1>1. PICK tx \in pool[r] :
          Acceptable(s, tx) /\ pool' = [pool EXCEPT ![s] = pool[s] \cup {tx}]
    BY DEF Gossip
  <1>2. /\ pc' = pc /\ cur' = cur /\ left' = left /\ nonce' = nonce /\ from' = from
        /\ routes' = routes /\ asked' = asked /\ answers' = answers /\ hash' = hash
        /\ inflight' = inflight /\ ledger' = ledger
    BY DEF Gossip, rpc
  <1>3. tx \in SignedTx
    BY DEF TypeOK
  <1>4. /\ pool' \in [Servers -> SUBSET SignedTx] /\ PoolTop'
        /\ \A q \in Servers : pool[q] \subseteq pool'[q]
        /\ \A q \in Servers : pool'[q] \subseteq pool[q] \cup {tx}
    BY <1>1, <1>3, PoolAdds
  <1>5. TypeOK'
    BY <1>2, <1>4 DEF TypeOK
  <1>6. Shape' /\ InflightAsked' /\ NonceAboveTaken' /\ AnswerAboveTaken'
    BY <1>2 DEF Shape, InflightAsked, NonceAboveTaken, AnswerAboveTaken, NonceOf
  <1>7. SignedBefore' /\ SignedOnce'
    <2>1. ASSUME NEW t \in Copies' PROVE t \in Copies
      <3>1. \/ \E k \in inflight : t = k.tx
            \/ \E q \in Servers : t \in pool'[q]
            \/ \E i \in 1..Len(ledger) : t = ledger[i]
        BY <1>2, <2>1 DEF Copies
      <3>2. (\E q \in Servers : t \in pool'[q]) => \E q \in Servers : t \in pool[q]
        BY <1>1, <1>4
      <3> QED BY <3>1, <3>2, CopiesCases
    <2> QED BY <1>2, <2>1, CopiesKept
  <1>8. TakenStays'
    <2>1. \A h \in hash : h.by \in Servers
      BY DEF TypeOK
    <2>2. \A d \in Callers : \A a \in answers[d] : a.server \in Servers
      BY DEF TypeOK
    <2>3. \A d \in Callers : Tx(d)' = Tx(d)
      BY <1>2 DEF Tx
    <2> QED BY <1>2, <1>4, <2>1, <2>2, <2>3 DEF TakenStays, TakenBy
  <1> QED BY <1>4, <1>5, <1>6, <1>7, <1>8 DEF IndInv

(* A block takes the next transaction; its nonce is used up. *)
LEMMA BlockStep ==
  ASSUME IndInv, NEW s \in Servers, Block(s)
  PROVE  IndInv'
  <1> USE IndInvParts
  <1>1. PICK tx \in pool[s] :
          /\ tx.nonce = Len(ledger) /\ ledger' = Append(ledger, tx)
          /\ pool' = [r \in Servers |-> {u \in pool[r] : u.nonce > tx.nonce}]
    BY DEF Block
  <1>2. /\ pc' = pc /\ cur' = cur /\ left' = left /\ nonce' = nonce /\ from' = from
        /\ routes' = routes /\ asked' = asked /\ answers' = answers /\ hash' = hash
        /\ inflight' = inflight
    BY DEF Block, rpc
  <1>3. tx \in SignedTx
    BY DEF TypeOK
  <1>4. /\ ledger' \in Seq(SignedTx) /\ Len(ledger) \in Nat
        /\ Len(ledger') = Len(ledger) + 1
        /\ \A i \in 1..Len(ledger) : ledger'[i] = ledger[i]
        /\ ledger'[Len(ledger) + 1] = tx
    BY <1>1, <1>3, AppendProperties, LenProperties DEF Shape
  <1>5. /\ pool' \in [Servers -> SUBSET SignedTx]
        /\ \A r \in Servers : pool'[r] \subseteq pool[r]
        /\ \A r \in Servers : \A u \in pool[r] : u.nonce > tx.nonce => u \in pool'[r]
        /\ \A r \in Servers : \A u \in pool'[r] : u.nonce > tx.nonce
    BY <1>1 DEF TypeOK
  <1>6. \A r \in Servers : \A u \in pool[r] : u.nonce \in Nat
    BY SignedParts DEF TypeOK
  <1>7. \A i \in 1..Len(ledger') : i \in 1..Len(ledger) \/ i = Len(ledger) + 1
    BY <1>4
  <1>8. TypeOK'
    <2>1. \A i \in 1..Len(ledger') : ledger'[i] \in SignedTx /\ ledger'[i].nonce = i - 1
      BY <1>1, <1>3, <1>4, <1>7 DEF TypeOK
    <2> QED BY <1>2, <1>5, <2>1 DEF TypeOK
  <1>9. Shape' /\ InflightAsked' /\ NonceAboveTaken' /\ AnswerAboveTaken'
    BY <1>2, <1>4 DEF Shape, InflightAsked, NonceAboveTaken, AnswerAboveTaken, NonceOf
  <1>10. PoolTop'
    <2> SUFFICES ASSUME NEW r \in Servers, pool'[r] # {}
                 PROVE  \E t \in pool'[r] : \A u \in pool'[r] : u.nonce <= t.nonce
      BY DEF PoolTop
    <2>1. PICK v \in pool'[r] : TRUE
      OBVIOUS
    <2>2. v \in pool[r] /\ v.nonce > tx.nonce
      BY <1>5, <2>1
    <2>3. PICK t \in pool[r] : \A u \in pool[r] : u.nonce <= t.nonce
      BY <2>2 DEF PoolTop
    <2>4. t.nonce > tx.nonce
      BY <1>1, <1>4, <1>6, <2>2, <2>3
    <2> QED BY <1>5, <2>3, <2>4
  <1>11. SignedBefore' /\ SignedOnce'
    <2>1. ASSUME NEW t \in Copies' PROVE t \in Copies
      <3>1. \/ \E k \in inflight : t = k.tx
            \/ \E r \in Servers : t \in pool'[r]
            \/ \E i \in 1..Len(ledger') : t = ledger'[i]
        BY <1>2, <2>1 DEF Copies
      <3>2. (\E r \in Servers : t \in pool'[r]) => \E r \in Servers : t \in pool[r]
        BY <1>5
      <3>3. (\E i \in 1..Len(ledger') : t = ledger'[i]) =>
              (\E i \in 1..Len(ledger) : t = ledger[i]) \/ t \in pool[s]
        BY <1>4, <1>7
      <3> QED BY <3>1, <3>2, <3>3, CopiesCases
    <2> QED BY <1>2, <2>1, CopiesKept
  <1>12. TakenStays'
    <2>1. ASSUME NEW t \in SignedTx, NEW r \in Servers, TakenBy(t, r)
          PROVE  t.nonce < Len(ledger') \/ t \in pool'[r]
      <3>1. t.nonce \in Nat
        BY SignedParts
      <3> QED BY <1>1, <1>4, <1>5, <2>1, <3>1 DEF TakenBy
    <2>2. \A h \in hash : h.tx \in SignedTx /\ h.by \in Servers
      BY DEF TypeOK
    <2>3. \A d \in Callers : pc[d] = "send" => Tx(d) \in SignedTx
      BY TxType
    <2>4. \A d \in Callers : \A a \in answers[d] : a.server \in Servers
      BY DEF TypeOK
    <2>5. \A d \in Callers : Tx(d)' = Tx(d)
      BY <1>2 DEF Tx
    <2>6. \A h \in hash' : TakenBy(h.tx, h.by)'
      BY <1>2, <2>1, <2>2 DEF TakenStays, TakenBy
    <2>7. ASSUME NEW d \in Callers, pc[d] = "send", NEW a \in answers[d], a.accepted
          PROVE  TakenBy(Tx(d), a.server)'
      <3>1. TakenBy(Tx(d), a.server)
        BY <2>7 DEF TakenStays
      <3>2. Tx(d).nonce < Len(ledger') \/ Tx(d) \in pool'[a.server]
        BY <2>1, <2>3, <2>4, <2>7, <3>1
      <3> QED BY <2>5, <3>2 DEF TakenBy
    <2> QED BY <1>2, <2>6, <2>7 DEF TakenStays
  <1> QED BY <1>8, <1>9, <1>10, <1>11, <1>12 DEF IndInv

-----------------------------------------------------------------------------
(* Nothing is on its way in the beginning. *)
LEMMA InitInv == Init => IndInv
  <1> SUFFICES ASSUME Init PROVE IndInv
    OBVIOUS
  <1> USE TransactionsAssumption
  <1>1. TypeOK
    BY DEF Init, TypeOK
  <1>2. Shape
    BY DEF Init, Shape
  <1>3. Copies = {}
    BY DEF Init, Copies
  <1>4. PoolTop /\ SignedBefore /\ SignedOnce /\ InflightAsked
    BY <1>3 DEF Init, PoolTop, SignedBefore, SignedOnce, InflightAsked
  <1>5. TakenStays /\ AnswerAboveTaken /\ NonceAboveTaken
    BY DEF Init, TakenStays, AnswerAboveTaken, NonceAboveTaken
  <1> QED BY <1>1, <1>2, <1>4, <1>5 DEF IndInv

(* Every behaviour keeps the inductive invariant. *)
THEOREM Invariance == Spec => []IndInv
  <1>1. IndInv /\ [Next]_vars => IndInv'
    <2> SUFFICES ASSUME IndInv, [Next]_vars PROVE IndInv'
      OBVIOUS
    <2>1. CASE UNCHANGED vars
      <3> USE <2>1, IndInvParts DEF vars, rpc, chain
      <3>1. TypeOK' /\ Shape'
        BY DEF TypeOK, Shape
      <3>2. PoolTop' /\ InflightAsked' /\ TakenStays'
        BY DEF PoolTop, InflightAsked, TakenStays, TakenBy, Tx
      <3>3. SignedBefore' /\ SignedOnce'
        BY CopiesKept DEF Copies
      <3>4. AnswerAboveTaken' /\ NonceAboveTaken'
        BY DEF AnswerAboveTaken, NonceAboveTaken, NonceOf
      <3> QED BY <3>1, <3>2, <3>3, <3>4 DEF IndInv
    <2>2. ASSUME NEW c \in Callers, Start(c) PROVE IndInv'
      <3>1. Query(c) \/ \E checks : Transact(c, checks)
        BY <2>2 DEF Start, TransferContext, RegisterNameContext, TransferNameContext,
                    DeleteNameContext, SubscribeContext, UnsubscribeContext
      <3> QED BY <3>1, QueryStep, TransactStep, CallerStepInv
    <2>3. ASSUME NEW c \in Callers, Proceed(c) PROVE IndInv'
      <3>1. CASE QueryReturns(c) \/ BuildFails(c) \/ SendReturnsEmpty(c)
        BY <3>1, EndCallStep, CallerStepInv
        DEF QueryReturns, BuildFails, SendReturnsEmpty, HashGrows
      <3>2. CASE \/ NonceReturns(c) \/ NonceReturnsPart(c) \/ BuildAndSign(c)
                 \/ SendReturns(c) \/ RPCFails(c)
        BY <3>2, NonceReturnsStep, NonceReturnsPartStep, BuildAndSignStep, SendReturnsStep, RPCFailsStep,
           CallerStepInv
      <3> QED BY <2>3, <3>1, <3>2 DEF Proceed
    <2> QED BY <2>1, <2>2, <2>3, PostStep, ServeNonceStep, ReceiveStep, GossipStep,
               BlockStep DEF Next
  <1> QED BY <1>1, InitInv, PTL DEF Spec

(* The types of the variables. *)
THEOREM TypeCorrect == Spec => []TypeOK
  <1>1. IndInv => TypeOK
    BY DEF IndInv
  <1> QED BY <1>1, Invariance, PTL

(* However often a transaction is sent, and whoever takes it when, it is   *)
(* in the chain at most once.                                              *)
THEOREM IsPaidAtMostOnce == Spec => []PaidAtMostOnce
  <1>1. IndInv => PaidAtMostOnce
    <2> SUFFICES ASSUME IndInv, NEW i \in 1..Len(ledger), NEW j \in 1..Len(ledger),
                        ledger[i].id = ledger[j].id
                 PROVE  i = j
      BY DEF PaidAtMostOnce
    <2>1. ledger[i] \in Copies /\ ledger[j] \in Copies
      BY CopiesCases
    <2>2. ledger[i].nonce = ledger[j].nonce
      BY <2>1 DEF IndInv, SignedOnce
    <2>3. ledger[i].nonce = i - 1 /\ ledger[j].nonce = j - 1
      BY DEF IndInv, TypeOK
    <2>4. Len(ledger) \in Nat
      BY LenProperties DEF IndInv, Shape
    <2>5. i - 1 = j - 1
      BY <2>2, <2>3
    <2>6. i \in Int /\ j \in Int
      BY <2>4
    <2> QED BY <2>5, <2>6
  <1> QED BY <1>1, Invariance, PTL

(* A hash that SendRawTransaction returned is of a transaction that is in  *)
(* some server's pool, or whose nonce the chain has used up.               *)
THEOREM HashIsOfTaken == Spec => []HashMeansTaken
  <1>1. IndInv => HashMeansTaken
    <2> SUFFICES ASSUME IndInv, NEW h \in hash
                 PROVE  h.tx.nonce < Len(ledger) \/ \E s \in Servers : h.tx \in pool[s]
      BY DEF HashMeansTaken
    <2>1. TakenBy(h.tx, h.by) /\ h.by \in Servers
      BY DEF IndInv, TakenStays, TypeOK
    <2> QED BY <2>1 DEF TakenBy
  <1> QED BY <1>1, Invariance, PTL

(* GetNonce counts what the server that answered took from the caller. *)
THEOREM NonceIsAboveTaken == Spec => []NonceAboveTaken
  <1>1. IndInv => NonceAboveTaken
    BY DEF IndInv
  <1> QED BY <1>1, Invariance, PTL
=============================================================================
