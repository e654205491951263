---------------------------- MODULE Transactions ----------------------------
(***************************************************************************)
(* rpc.go, and the wrappers of client.go, multiclient.go and wallet.go:    *)
(* clients, multiclients and wallets of ONE account send transactions.  A  *)
(* transaction gets a nonce from a server, is signed, and is given to the  *)
(* connected nodes and then to the seed servers, until one takes it.  The  *)
(* queries (height, balance, subscribers, names) take the same way.        *)
(*                                                                         *)
(* An RPC is what RPCPromise says of RPCCall: any server of the list may   *)
(* handle the request, also after the call returned; one answer ends the   *)
(* call, or it fails.  The answer may lack fields, and is a success all    *)
(* the same.  A server that gives a hash has taken the transaction.  Left  *)
(* to RPCCall: a body that is null, and calls that never return.           *)
(***************************************************************************)
EXTENDS Integers, Sequences

CONSTANTS
  Servers,
  Seeds,      \* SeedRPCServerAddr of every caller
  Clients, MultiClients, Wallets,
  Nodes,      \* the nodes whose RPC address a caller's clients may hold
  MaxClients, \* bound: clients of a multiclient that have a node
  Workloads,  \* bound: how many calls the callers make
  MaxNonce,   \* bound: nonces the application sets itself
  NoServer

Callers == Clients \cup MultiClients \cup Wallets

ASSUME TransactionsAssumption ==
  /\ Seeds \subseteq Servers /\ NoServer \notin Servers
  /\ Nodes \in [Clients \cup MultiClients -> SUBSET Servers]
  /\ Workloads \subseteq [Callers -> Nat]
  /\ MaxClients \in Nat /\ MaxNonce \in Nat

VARIABLES
  pc,        \* idle, query, nonce (GetNonce), build, send
  cur,       \* the caller's transactions, counted
  left,      \* calls the caller has yet to make
  nonce,     \* the nonce of the current one
  from,      \* the server whose whole answer it came from
  routes,    \* the server lists that are left: the first one is being asked
  asked,     \* servers the current RPC was sent to
  answers,   \* what they answered
  hash,      \* transactions whose hash was returned, and by which server
  inflight,  \* transactions on their way to a server
  pool,      \* the servers' transaction pools
  ledger     \* the account's transactions in the chain

rpc   == <<routes, asked, answers>>
chain == <<inflight, pool, ledger>>
vars  == <<pc, cur, left, nonce, from, rpc, hash, chain>>

Init ==
  /\ pc = [c \in Callers |-> "idle"]
  /\ cur = [c \in Callers |-> 0]
  /\ left \in Workloads
  /\ nonce = [c \in Callers |-> 0]
  /\ from = [c \in Callers |-> NoServer]
  /\ routes = [c \in Callers |-> <<>>]
  /\ asked = [c \in Callers |-> {}]
  /\ answers = [c \in Callers |-> {}]
  /\ hash = {} /\ inflight = {}
  /\ pool = [s \in Servers |-> {}]
  /\ ledger = <<>>

-----------------------------------------------------------------------------
(* Where a caller's RPCs go. *)

WalletRoutes == {<<Seeds>>}

(* The connected node first, if its RPC address is known. *)
ClientRoutes(c) == {<<Seeds>>} \cup {<<{s}, Seeds>> : s \in Nodes[c]}

(* The nodes of all clients, in the order in which the range over the map  *)
(* of clients yields them; several clients may have the same node.         *)
MultiClientRoutes(c) ==
  {[i \in 1..Len(o) |-> {o[i]}] \o <<Seeds>> :
     o \in UNION {[1..k -> Nodes[c]] : k \in 0..MaxClients}}

Routes(c) ==
  CASE c \in Wallets -> WalletRoutes
    [] c \in Clients -> ClientRoutes(c)
    [] c \in MultiClients -> MultiClientRoutes(c)

BeginRPC(c) ==
  /\ routes' \in {[routes EXCEPT ![c] = r] : r \in Routes(c)}
  /\ asked' = [asked EXCEPT ![c] = {}]
  /\ answers' = [answers EXCEPT ![c] = {}]

(* Mutant: the answers of the previous servers are still around. *)
NextRouteKeepsAnswers(c) ==
  /\ routes' = [routes EXCEPT ![c] = Tail(@)]
  /\ UNCHANGED <<asked, answers>>

NextRoute(c) ==
  /\ routes' = [routes EXCEPT ![c] = Tail(@)]
  /\ asked' = [asked EXCEPT ![c] = {}]
  /\ answers' = [answers EXCEPT ![c] = {}]

EndRPC(c) ==
  /\ routes' = [routes EXCEPT ![c] = <<>>]
  /\ asked' = [asked EXCEPT ![c] = {}]
  /\ answers' = [answers EXCEPT ![c] = {}]

(* A call returns, and its locals are gone. *)
EndCall(c) ==
  /\ pc' = [pc EXCEPT ![c] = "idle"]
  /\ nonce' = [nonce EXCEPT ![c] = 0]
  /\ from' = [from EXCEPT ![c] = NoServer]
  /\ EndRPC(c)

-----------------------------------------------------------------------------
(* The queries: one RPC each. *)

Query(c) ==
  /\ pc[c] = "idle" /\ left[c] > 0
  /\ left' = [left EXCEPT ![c] = @ - 1]
  /\ pc' = [pc EXCEPT ![c] = "query"]
  /\ BeginRPC(c)
  /\ UNCHANGED <<cur, nonce, from, hash, chain>>

QueryReturns(c) ==
  /\ pc[c] = "query" /\ answers[c] # {}
  /\ EndCall(c)
  /\ UNCHANGED <<cur, left, hash, chain>>

-----------------------------------------------------------------------------
(* A transaction, up to its nonce.  checks names what is validated before  *)
(* a server is asked for anything.                                         *)

Transact(c, checks) ==
  /\ pc[c] = "idle" /\ left[c] > 0
  /\ left' = [left EXCEPT ![c] = @ - 1]
  /\ cur' = [cur EXCEPT ![c] = @ + 1]
  /\ \/ /\ checks # {}                                     \* one fails
        /\ UNCHANGED <<pc, nonce, from, rpc>>
     \/ /\ pc' = [pc EXCEPT ![c] = "nonce"]
        /\ BeginRPC(c)
        /\ UNCHANGED <<nonce, from>>
     \/ /\ pc' = [pc EXCEPT ![c] = "build"]    \* config.Nonce or FixNonce
        /\ nonce' \in {[nonce EXCEPT ![c] = k] : k \in 0..MaxNonce}
        /\ UNCHANGED <<from, rpc>>
  /\ UNCHANGED <<hash, chain>>

TransferContext(c) ==
  Transact(c, {"config", "sender", "amount", "recipient", "fee"})
RegisterNameContext(c) == Transact(c, {"config", "fee"})
TransferNameContext(c) == Transact(c, {"config", "fee"})
DeleteNameContext(c)   == Transact(c, {"config", "fee"})
SubscribeContext(c)    == Transact(c, {"config", "fee"})
UnsubscribeContext(c)  == Transact(c, {"config", "fee"})

(* Mutant: transactions in the pool are not counted. *)
NonceOfLedger(a) == a.nonce

(* GetNonceContext with txPool. *)
NonceOf(a) == IF a.nonceInTxPool > a.nonce THEN a.nonceInTxPool ELSE a.nonce

(* GetNonce has an answer. *)
NonceReturns(c) ==
  /\ pc[c] = "nonce"
  /\ \E a \in answers[c] :
       /\ nonce' = [nonce EXCEPT ![c] = NonceOf(a)]
       /\ from' = [from EXCEPT ![c] = a.server]
  /\ pc' = [pc EXCEPT ![c] = "build"]
  /\ EndRPC(c)
  /\ UNCHANGED <<cur, left, hash, chain>>

(* The answer lacks a field, or both: a field that no answer had is 0, one *)
(* that a refused answer had may be left over.                             *)
NonceReturnsPart(c) ==
  /\ pc[c] = "nonce"
  /\ \E a \in answers[c] : \E k \in {0, a.nonce, a.nonceInTxPool} :
       nonce' = [nonce EXCEPT ![c] = k]
  /\ pc' = [pc EXCEPT ![c] = "build"]
  /\ EndRPC(c)
  /\ UNCHANGED <<cur, left, from, hash, chain>>

(* The transaction is made and signed, and SendRawTransaction begins. *)
BuildAndSign(c) ==
  /\ pc[c] = "build"
  /\ pc' = [pc EXCEPT ![c] = "send"]
  /\ BeginRPC(c)
  /\ UNCHANGED <<cur, left, nonce, from, hash, chain>>

(* New...Transaction, SignTransaction or Marshal fails. *)
BuildFails(c) ==
  /\ pc[c] = "build"
  /\ EndCall(c)
  /\ UNCHANGED <<cur, left, hash, chain>>

-----------------------------------------------------------------------------
(* The RPCs. *)

Tx(c) == [id |-> <<c, cur[c]>>, nonce |-> nonce[c]]

(* The request of SendRawTransaction leaves for a server of the list. *)
Post(c, s) ==
  /\ pc[c] = "send" /\ s \in Head(routes[c]) \ asked[c]
  /\ asked' = [asked EXCEPT ![c] = @ \cup {s}]
  /\ inflight' = inflight \cup
       {[server |-> s, tx |-> Tx(c), attempt |-> Len(routes[c])]}
  /\ UNCHANGED <<pc, cur, left, nonce, from, routes, answers, hash, pool, ledger>>

(* Mutant: the error object of an answer is ignored. *)
SendReturnsAnyway(c) ==
  /\ pc[c] = "send"
  /\ \E a \in answers[c] : hash' = hash \cup {[tx |-> Tx(c), by |-> a.server]}
  /\ EndCall(c)
  /\ UNCHANGED <<cur, left, chain>>

(* SendRawTransaction has the hash. *)
SendReturns(c) ==
  /\ pc[c] = "send"
  /\ \E a \in answers[c] :
       /\ a.accepted
       /\ hash' = hash \cup {[tx |-> Tx(c), by |-> a.server]}
  /\ EndCall(c)
  /\ UNCHANGED <<cur, left, chain>>

(* The answer has neither an error nor a hash: SendRawTransaction returns  *)
(* an empty hash and no error, whether or not the transaction was taken.   *)
SendReturnsEmpty(c) ==
  /\ pc[c] = "send" /\ answers[c] # {}
  /\ EndCall(c)
  /\ UNCHANGED <<cur, left, hash, chain>>

(* Mutant: the next servers get the transaction with a fresh nonce. *)
RPCFailsRenumbers(c) ==
  /\ pc[c] \in {"query", "nonce", "send"}
  /\ IF Len(routes[c]) > 1
       THEN /\ NextRoute(c)
            /\ nonce' = [nonce EXCEPT ![c] =
                           IF pc[c] = "send" THEN Len(ledger) ELSE @]
            /\ UNCHANGED <<pc, from>>
       ELSE EndCall(c)
  /\ UNCHANGED <<cur, left, hash, chain>>

(* An RPC fails: no server answers in time, or an answer is an error.  The *)
(* next servers are asked with the same transaction; after the last list   *)
(* the call fails.                                                         *)
RPCFails(c) ==
  /\ pc[c] \in {"query", "nonce", "send"}
  /\ IF Len(routes[c]) > 1
       THEN NextRoute(c) /\ UNCHANGED <<pc, nonce, from>>
       ELSE EndCall(c)
  /\ UNCHANGED <<cur, left, hash, chain>>

-----------------------------------------------------------------------------
(* The servers. *)

(* The nonce after the last transaction in the pool, 0 if there is none. *)
NonceInTxPool(s) ==
  IF pool[s] = {} THEN 0
  ELSE 1 + (CHOOSE k \in {t.nonce : t \in pool[s]} :
              \A t \in pool[s] : t.nonce <= k)

(* A server answers getnoncebyaddr, or a query; of its state the model has *)
(* the nonces.                                                             *)
ServeNonce(c, s) ==
  /\ pc[c] \in {"query", "nonce"} /\ s \in Head(routes[c]) \ asked[c]
  /\ asked' = [asked EXCEPT ![c] = @ \cup {s}]
  /\ answers' = [answers EXCEPT ![c] = @ \cup
       {[server |-> s, nonce |-> Len(ledger),
         nonceInTxPool |-> NonceInTxPool(s)]}]
  /\ UNCHANGED <<pc, cur, left, nonce, from, routes, hash, chain>>

Acceptable(s, tx) ==
  /\ tx.nonce >= Len(ledger)
  /\ tx.nonce = IF pool[s] = {} THEN Len(ledger) ELSE NonceInTxPool(s)

(* A server handles sendrawtransaction: it may take the transaction if the *)
(* nonce is the next one.  Its answer reaches the caller if that RPC is    *)
(* still going on.                                                         *)
Receive(m, accepted) ==
  LET c == m.tx.id[1]
      waits == /\ pc[c] = "send" /\ m.tx = Tx(c)
               /\ m.attempt = Len(routes[c])
  IN
  /\ inflight' = inflight \ {m}
  /\ accepted => Acceptable(m.server, m.tx)
  /\ pool' = IF accepted THEN [pool EXCEPT ![m.server] = @ \cup {m.tx}] ELSE pool
  /\ answers' = IF waits
                  THEN [answers EXCEPT ![c] = @ \cup
                          {[server |-> m.server, accepted |-> accepted]}]
                  ELSE answers
  /\ UNCHANGED <<pc, cur, left, nonce, from, routes, asked, hash, ledger>>

(* Servers exchange transactions. *)
Gossip(s, t) ==
  /\ \E tx \in pool[s] :
       /\ Acceptable(t, tx)
       /\ pool' = [pool EXCEPT ![t] = @ \cup {tx}]
  /\ UNCHANGED <<pc, cur, left, nonce, from, rpc, hash, inflight, ledger>>

(* A block takes the next transaction of a pool. *)
Block(s) ==
  /\ \E tx \in pool[s] :
       /\ tx.nonce = Len(ledger)
       /\ ledger' = Append(ledger, tx)
       /\ pool' = [t \in Servers |-> {u \in pool[t] : u.nonce > tx.nonce}]
  /\ UNCHANGED <<pc, cur, left, nonce, from, rpc, hash, inflight>>

Start(c) ==
  \/ Query(c)
  \/ TransferContext(c) \/ RegisterNameContext(c) \/ TransferNameContext(c)
  \/ DeleteNameContext(c) \/ SubscribeContext(c) \/ UnsubscribeContext(c)

Proceed(c) ==
  \/ QueryReturns(c) \/ NonceReturns(c) \/ NonceReturnsPart(c)
  \/ BuildAndSign(c) \/ BuildFails(c)
  \/ SendReturns(c) \/ SendReturnsEmpty(c) \/ RPCFails(c)

Next ==
  \/ \E c \in Callers : Start(c) \/ Proceed(c)
  \/ \E c \in Callers, s \in Servers : Post(c, s) \/ ServeNonce(c, s)
  \/ \E m \in inflight, accepted \in BOOLEAN : Receive(m, accepted)
  \/ \E s, t \in Servers : Gossip(s, t)
  \/ \E s \in Servers : Block(s)

Spec == Init /\ [][Next]_vars

-----------------------------------------------------------------------------
(* Properties. *)

SignedTx == [id : Callers \X (Nat \ {0}), nonce : Nat]

(* The variables keep their types; a caller in an RPC has servers to ask. *)
TypeOK ==
  /\ pc \in [Callers -> {"idle", "query", "nonce", "build", "send"}]
  /\ cur \in [Callers -> Nat]
  /\ left \in [Callers -> Nat]
  /\ nonce \in [Callers -> Nat]
  /\ from \in [Callers -> Servers \cup {NoServer}]
  /\ \A c \in Callers :
       /\ pc[c] \in {"query", "nonce", "send"} <=> routes[c] # <<>>
       /\ asked[c] \subseteq Servers
       /\ routes[c] # <<>> => asked[c] \subseteq Head(routes[c])
       /\ \A a \in answers[c] : a.server \in asked[c]
  /\ hash \subseteq [tx : SignedTx, by : Servers]
  /\ \A m \in inflight : m.server \in Servers /\ m.tx \in SignedTx
  /\ pool \in [Servers -> SUBSET SignedTx]
  /\ \A i \in 1..Len(ledger) : ledger[i] \in SignedTx /\ ledger[i].nonce = i - 1

(* One call of Transfer (or of another of the six) never counts twice in   *)
(* the chain, although its transaction is given to several servers, an     *)
(* answer that is lost makes the client give it to the next ones, and      *)
(* servers handle requests after the call has returned.                    *)
PaidAtMostOnce ==
  \A i, j \in 1..Len(ledger) : ledger[i].id = ledger[j].id => i = j

(* A returned hash, if it is not empty, is that of a transaction that a    *)
(* server really took: it is in a pool or in the chain, or another         *)
(* transaction got its nonce.                                              *)
HashMeansTaken ==
  \A h \in hash : h.tx.nonce < Len(ledger) \/ \E s \in Servers : h.tx \in pool[s]

(* A nonce that a server's whole answer gives a caller is above those of   *)
(* the caller's transactions that this server took before: without the     *)
(* pool's nonce the second of two transfers in a row would fail.  Between  *)
(* two servers this does not hold: the second may not know the first       *)
(* transfer yet.                                                           *)
NonceAboveTaken ==
  \A c \in Callers :
    pc[c] \in {"build", "send"} /\ from[c] # NoServer =>
      \A h \in hash : h.tx.id[1] = c /\ h.by = from[c] => h.tx.nonce < nonce[c]
=============================================================================
