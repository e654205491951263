# nkn-sdk-go in TLA+

TLA+ models of the stateful parts of nkn-sdk-go, checked with TLC on small
instances and proved about with TLAPS. `PROJECT.json` lists the runs, the
mutants that show each property can fail, the source lines behind every
definition, the hazards and the theorems.

## 1. Inventory

| component | state | operations | what makes it correct |
|---|---|---|---|
| **Client connection** (`client.go`) | `isClosed`, `State`, `conn`, `node`, `Stats`, `reconnectChan`, `chChallengeSignature`, three goroutines per connection | `NewClient`, `connect`, `connectToNode`, text messages of `handleMessage`, `Reconnect`, `handleReconnect`, `writeMessage`, `Close` | a closed client never looks connected; one `connect` at a time; no websocket is forgotten; everything ends after `Close` |
| **NanoPay payer** (`nanopay.go`) | id, expiration, amount under `np.lock` | `IncrementAmount` | transactions of different NanoPays are never mixed up |
| **NanoPay claimer** (`nanopay.go`) | current and flushed amount, id, pending transaction, a background goroutine | `Claim`, `Flush`, `Amount`, `Close` | nothing accepted is lost beyond `minFlushAmount`; `Amount` never goes down |
| **MultiClient** (`multiclient.go`) | map of sub-clients, `createDone`, `isClosed`, `msgCache` | `NewMultiClient`, receive loops, `Close` | first success creates the client; a message is delivered once; everything ends |
| **MultiClient send** | per-sub-client response channels | `Send`, `send`, `SendWithClient`, policy and score | a reply reaches the caller once; an error means that no line could send |
| **Sessions** | `sessions`, `acceptSession`, `acceptAddrs`, `sessionLock` | `handleSessionMsg`, `Dial`, `AcceptSession`, `Listen`, `Close` | one session per remote address and id; accepted or refused, never both |
| **Client send and replies** | `responseChannels` | `Send`, binary messages of `handleMessage`, `sendReceipt` | a reply finds its caller |
| **Publish**, **batching**, **encryption** | shared keys | `publish`, `sendTimeout`, `encryptPayload`, `decryptPayload` | it ends; batches partition the destinations within the size limit; every receiver can decrypt |
| **Resolver** | none | `ResolveDest`, `ResolveDestN`, `ResolveDests` | chains are followed to their end, circles end |
| **RPC**, **transactions** (`rpc.go`) | channels and a lock per call; the nonce at the node | `RPCCall`, `GetNonce`, `SendRawTransaction`, `Transfer` and five others | the deciding answer is the result; every call returns; a call pays once |
| Wallet files, wire encoding, configuration, gomobile types | no protocol state | | |

Interactions. The application calls everything from any goroutine. A `Client`
gets its node from the RPC servers, its events from a websocket, and hands
messages to a channel; a `MultiClient` owns several clients, merges what they
receive and sends through some of them; sessions run over the multiclient. A
payer and a claimer share nothing but the transactions the application carries
between them, and the chain.

What is hard here: three goroutines per connection that outlive it and share
`c.State`, `c.conn`, `reconnectChan` and `chChallengeSignature` with those of
the next connection; values read before a lock and used under it (heights,
`IsClosed`); channels that `Close` closes under their senders; remote calls
that fail half-way or succeed without an answer; transactions that arrive late,
twice, or not at all. The hazards in `PROJECT.json` give the lines.

## 2. Modules

| module | models |
|---|---|
| `Client` | one `nkn.Client` with all its goroutines |
| `ConnState` | what `GetAllSubConnStates` shows of a client; implemented by `Client` |
| `BlockHeight` | the block height, as payer and claimer read it |
| `NanoPay` | goroutines in `IncrementAmount` of one payer; extends `BlockHeight` |
| `NanoPayClaimer` | one claimer, goroutines in `Claim`, its background goroutine, what the chain has paid; extends `BlockHeight` |
| `MultiClient` | creation of the sub-clients, their receive loops and the message cache, `Close` with its linger timer |
| `Sessions` | sessions of a `MultiClient`: `handleSessionMsg`, `Dial`, `AcceptSession`, `Listen`, `Close` |
| `RPCPromise` | what a caller of `RPCCall` is promised; implemented by `RPCCall` |
| `RPCCall` | one call of `RPCCall` with its goroutines |
| `Transactions` | callers of one account, their RPCs (as `RPCPromise` has them), servers, pools, chain |
| `Resolver` | `resolver.go` as operators |
| `Outbound` | one message from `Send` or `Publish` to the websocket; uses `Resolver` |
| `Messaging` | one message over the lines of a multiclient, and its replies |
| `ClientProofs`, `NanoPayProofs` (payer and claimer), `MultiClientProofs`, `SessionsProofs`, `RPCCallProofs`, `TransactionsProofs`, `OutboundProofs` (with `Resolver`), `MessagingProofs` | theorems |
| `MCClient`, `MCNanoPay`, `MCNanoPayClaimer`, `MCMultiClient`, `MCSessions`, `MCRPCCall`, `MCTransactions`, `MCOutbound`, `MCMessaging` | instances for TLC |

### Client

Every goroutine has a program counter `pc[p]`; `Reader(k)`, `Pinger(k)`,
`Auth(k)` and `Redirect(k)` are those of connection `k` (`Redirect` is the
`go c.Reconnect(&node)` of a WRONG_NODE answer), `Main` the caller of
`NewClient`, `Handler` is `handleReconnect`, `Writer` some caller of
`writeMessage`, `User` the application. One step is one critical section of
`c.lock`, one channel operation or one websocket operation. `IsClosed` is
merged into a neighbouring step: if the client is closed by the end of the
step before the call, the call says so there; else the step after the call has
both outcomes when it finds the client closed (the call saw it, or `Close` came
after it). `link[k]` is the websocket: `up`, `down` (broken, not yet noticed:
writes are lost or fail, reads fail at the deadline) or `closed` by us.
`inbox[k]` is what the node sent. `reconnectChan` is unbuffered, so a send
succeeds exactly when `Handler` waits at its `range`; otherwise the request is
dropped. `chChallengeSignature` is a buffer of one, shared by all connections.
`isClosed` also stands for all the channels that `Close` closes; a send on one
of them sets `panicked` and the behaviour ends there.

A client can reconnect for ever, because closing the previous connection makes
its reader ask for another reconnection. `Conns` is therefore a set of slots: a
slot is reused when nothing refers to it (`Free`), which keeps the state finite
without bounding the number of reconnections. The node's behaviour is external:
it answers `setClient` depending on the signature (`Answers`); a signature for
another connection's challenge is refused.

`connect` is `FindNode`/`FindNodeFails` (GetWsAddr), `DialFails`,
`ConnectToNode` (handshake and installation under `c.lock`), `StartConn`
(close of `prevConn`, three goroutines) and `GiveUp`.

Left out: payloads, binary messages, the `updateSigChainBlockHash` message
(it stores a hash nothing else here depends on), timestamps, sleeps, and writes
that block.

### NanoPay and NanoPayClaimer

`np.lock` and `npc.lock` make the code under them one step; `GetHeight` is
called before, in a step of its own, so a caller may hold an old height
(`BlockHeight`). The payer's definitions carry the prefix `Payer` where the claimer has
one of the same name. An
error path keeps what was assigned before the error. Ids are random in the code
and numbered here. The claimer is not fed by a model of the payer but by any
transaction of a constant set `Txns`, in any order, repeatedly or never, which
is more than any payer can produce. The chain takes a transaction that has not
expired and claims more than before; the answer of `SendRawTransaction` may be
lost after the chain took it (`"lost"`). `closeWithError` of the background
goroutine and of the first checks of `Claim` runs without `npc.lock`, so a
concurrent `Close` can close `closeChan` twice (`panicked`). Fees, what the
sender spends elsewhere (the balance check is a free choice) and the clock of
the claim interval (it may or may not have passed) are left out.

### MultiClient

`pc[i]` is the goroutine of sub-client `i`, which creates the client, registers
it and then becomes its receive loop; `connPc[i]` its OnConnect loop; `waiter`
the goroutine at `wg.Wait`; `result` what the caller of `NewMultiClient` got;
`toClose` the function of `time.AfterFunc` in `Close`. A critical section of
`m.lock` is one step (the nesting of `m.lock` and `sessionLock` is the subject
of `Sessions`). `msgCache.Get` and `msgCache.Set` are two steps, since the code
makes two calls; taking a message from the sub-client and
`OnMessageEvent.receive` are one, since nothing else touches the message
between them. `success` and `fail` are channels of capacity one. Sub-clients
are known only by what `Client` promises: they are created or not, get
messages, and may close themselves. Left out: expiration of the cache (a
behaviour is shorter than `MsgCacheExpiration`), `clientErrors`, the contents
of events, and session messages.

### Sessions

`m.lock` and `sessionLock` are variables that name their holder. A receive loop
in `handleSessionMsg` takes `sessionLock`, then reads under `m.lock` inside
`newSession`; `Dial` takes the locks one after the other; `Listen` writes
`acceptAddrs` under `m.lock`; `Close` holds `m.lock` while it waits for
`sessionLock`. `shouldAcceptAddr` reads `acceptAddrs` without a lock: while
`Listen` writes it, the read finds the old value, the new one, or a torn slice
header (`LookupPanics`). Sessions are numbered as they are created; `sessions`
gives the number that `m.sessions` holds for a key (remote address and id).
`Dial` picks a random id, hence a key of its own. The ncp protocol is external:
a session is open or closed; a closed one refuses every call, an open one may.
Which sub-client carries a packet, the contents of packets, and deadlines are
left out.

### RPCPromise and RPCCall

The caller hands addresses over the unbuffered `rpcAddrChan` (`Feed`: the send
and the receive are one step), skips the rest when `ctx` is cancelled (the
`break` only leaves the `select`), closes the channel and waits for the
goroutines. A goroutine posts, takes `respLock`, looks at `ctx`, decodes into
the caller's one `result` and puts its verdict into `respErrChan`. `result` is
kept per field, with the server each field came from, because `json.Unmarshal`
merges (`Merge`): it fills the fields that an answer has, also those of an
answer that it then refuses, and leaves the others. An accepted answer may have
any of the fields; which ones is chosen when it is decoded, which happens once,
and remembered in `carried`. A body that is `null` sets `resp` to nil, and the
goroutine panics (`UnmarshalNull`), which ends the behaviour. A config is an
`RPCConcurrency`, which may be 0 (one goroutine per address) or negative (none),
and whether it has `RPCGetHttpDialContext`: a goroutine without it returns with
the address it took (`NoDialContext`), and `ctx` is not cancelled. Left out:
`RPCTimeout` = 0, with which a request may never end. `RPCPromise` leaves only which
servers were asked, what they answered, and what the caller got: a success or
an error of a server that was asked, a network error only when all of them were
tried, a cancellation only when the caller cancelled.

### Transactions

Clients, multiclients and wallets are callers of one account. `routes` is the
sequence of server lists that an RPC is sent to: the connected node or nodes
first, then the seed servers. Within a list an RPC is `RPCPromise`: any server
of the list may handle the request, whether or not the answer is used, also
after the call has returned; `RPCFails` may happen at any time and moves on to
the next list with the same transaction. A nonce is read in one RPC and used in
another. A server accepts a transaction if its nonce is the next one in its pool;
pools exchange transactions and empty into the chain. An answer without a hash is
a success too (`SendReturnsEmpty`), and so is one that lacks a nonce
(`NonceReturnsPart`): the nonce is then 0, or the one field that is there, or
left over from a refused answer, and counts as no server's. The clients of a
multiclient may have the same node, which is then asked again. A transaction is known by
caller and count; amounts, names and topics are left out, as is what a query
answers beyond the nonces.

### Resolver and Outbound

A destination is an address, a name, something that is no address, or empty.
`ProcessDest`, `Pack` and `WriteMessage` are one round each of the code's loops;
those of `resolver.go`, which change nothing outside, are recursive functions;
sizes are small numbers. Keys are symbolic: a ciphertext opens with the same
key and nonce. `Page` is `GetSubscribers`, over a list of subscribers that may
change between pages. `ClientResolvers` is empty as in the code, whose loop runs
over the slice it is to fill, so chains are checked on the package's
`ResolveDests`. Left out: signatures, compression, `sigChainBlockHash`, and
`c.node`, which `newOutboundMessage` reads without `c.lock`.

### Messaging

One message, sent by `MultiClient.Send` (`"multi"`), `MultiClient.send`
(`"send"`), `SendWithClient` (`"with"`) or `Client.Send` (`"client"`). The
policy looks at one line per step, in any order, as the range over the map
does. A line sends, fails before its first write, or fails with some batches
out. `reached` says which remote lines a local line's message went to; a remote
`MultiClient` replies to all lines, a remote `Client`, which has the plain
address, to the line it heard from. Reading a reply is two steps, `Get` and then
`Delete` with `receive`, because two readers of a line overlap while a
connection replaces another. `Expire` is the cache.

## 3. Runs

| run | bounds | shows |
|---|---|---|
| `client_safety` | 2 slots, 2 nodes, 1 disturbance, pings | `TypeOK`, `ClosedNotConnected`, `ConnectExclusive`, `OpenConnsAccounted`, `ConnStateSpec` hold (657k states) |
| `client_liveness` | 2 slots, 1 node, 1 disturbance | `ClosedQuiesces` |
| `nanopay_payer` | 2 goroutines, 3 NanoPays | `PayerTypeOK`, `PaymentsOrdered` |
| `nanopay_claimer` | 2 goroutines, 2 ids, amounts 1..3, minimum flush 2 | `TypeOK`, `Books`, `LossBounded`, `AmountMonotone`, `WorkerEnds` |
| `multiclient` | the original client and one sub-client, 1 message id | `TypeOK`, `DefaultSmallest`, `DedupLosesNothing`, `ClientsFrozen`, `CloseClosesClients` |
| `sessions` | 2 receive loops, 2 remote sessions, 1 `Dial`, accept queue of 1 | `TypeOK`, `OfferedOnce`, `OfferedAllowed`, `OneSessionPerKey` |
| `sessions_close_deadlock` | 1 receive loop, 1 remote session, 1 `Dial` | **violated**: `CloseEnds` |
| `rpc_call` | 3 servers, 1, 2 or no goroutines that can dial, 1 or 3 that cannot, 2 result fields | `TypeOK`, `ResultOfDecider`, `ReturnsOnlyConfigured`, `ResultKept`, `KeepsPromise`, `CallReturns` (342k states) |
| `transactions` | a client, a multiclient and a wallet, a node and a seed server, up to 2 calls | `TypeOK`, `PaidAtMostOnce`, `HashMeansTaken`, `NonceAboveTaken` (430k states) |
| `outbound` | lists of up to 3 of 7 destinations, 4 resolver tables, depth 2, pages of 2 | `TypeOK`, `BatchesRight`, `Readable`, `ResolvedFully` (221k states) |
| `publish_never_returns` | the same | **violated**: `PublishReturns` |
| `messaging` | 2 lines, all policies, 2 replies | `TypeOK`, `OneReply`, `SendReports`, `ReplyReachesCaller` (629k states) |

Why the bounds are enough. Two slots are a connection and its predecessor,
which is all the code can hold: a third connection needs the goroutines of the
first to have ended, or waits for that (the proofs lift this restriction). One
disturbance (a broken link, a redirection, a failed write or a call of
`Reconnect`) starts an endless sequence of reconnections. Two nodes let the
client change its node. `MaxCount` saturates the statistics. Payer: duration 6
against `senderExpirationDelta` 5 and heights 10 to 13 make the first NanoPay
usable at one height and expired at the next. Claimer: transactions expire at
16, the heights are 10 (long before) and 17 (after); amounts are below, at and
above the minimum flush of 2; `MaxClaimed` bounds how often NanoPays are
switched. MultiClient: two sub-clients are two receive loops with the same
message, two candidates for the default client, and one that fails or comes
late; the proofs hold for any number. Sessions: two loops race for one key, two
keys fill a queue of one; the loops and the remote sessions are interchangeable
(`SYMMETRY`, used without liveness properties). RPCCall: three servers and two
goroutines make a goroutine come back for another address while the other
decodes; two fields are one that an answer has and one that it lacks. Transactions: two calls are a nonce read by one while the other's
transaction is in a pool, in the chain or on its way; two servers are a node and
a seed that know different things. Outbound: two of the destinations fit into
one batch, one fills a batch, one fits nowhere; two share a key; the tables have
chains as long as the depth, longer ones, a circle, and a resolver that fails.
Messaging: line -1 and line 0, of which one may be closed, unstable, slow to
send or the only one that is heard; two replies are a duplicate, and one for
each line.

`CHECK_DEADLOCK FALSE` everywhere: a closed client, a client `NewClient` gave up
on, a closed multiclient and a program that panicked do stop, `Close` and
`handleSessionMsg` can block each other, and the bounds stop the payers.

Fairness. A goroutine that can go on goes on: the Go scheduler, timers, and read
deadlines give weak fairness of `ConnSteps` (reader, pinger, setClient,
Reconnect) and `HandlerSteps`, and of the claimer's background goroutine with
its linger timer. Nothing is assumed of the application, of the network, or of a
node that is down. `HandlerSteps` includes finding and reaching a node only as
far as that node is up (`FaultyNode` empty in `client_liveness`): GetWsAddr and
a dial of a node that is up are assumed to succeed eventually. In `MultiClient`
every goroutine and the linger timer are weakly fair; that includes the return
of `NewClient`, whose retries are limited. In `Sessions` whoever waits for a lock
is strongly fair, because Go's locks starve nobody. In `RPCCall` every goroutine
and the caller are weakly fair: a request ends at `RPCTimeout`. `CallReturns` is
about configs that can dial and start a goroutine, or have one per address
(`Configured`): those of clients, wallets and `RPCConfig` unless `RPCConcurrency`
is negative. With others a call does not return unless it is cancelled
(`ReturnsOnlyConfigured`). In `Outbound` the
caller goes on; `GetSubscribers` answers or fails at its timeout. In `Messaging`
the goroutine of `Send`, its caller and a reader that has found the response
channel go on; a write ends at `WsWriteTimeout`.

### What the violations show

- **`Close` and a receive loop deadlock** (`sessions_close_deadlock`). `Close`
  holds `m.lock` and waits for `sessionLock`; `handleSessionMsg` holds
  `sessionLock` and waits for `m.lock` in `newSession`.
- **`Publish` never returns** (`publish_never_returns`). The loop that fetches
  the pages tests the length of the first one. When that page is full, `Publish`
  asks for page after page and never sends, although it "sends bytes or string
  data to all subscribers of a topic".

### Further behaviours the models show

No run is kept for these; the states are reachable in the models named.

- `Close` during the dial of a reconnection leaves an open websocket in a
  closed client: `connectToNode` does not test `c.isClosed` (`Client`).
- `connect` keeps a node it found or was redirected to after a failed dial, and
  `handleReconnect` sets no limit: a node that stays down is dialled for ever
  (`Client` with a node in `FaultyNode`).
- `Claim` switches to another NanoPay without sending less than
  `minFlushAmount` of the previous one, although its comment says "flushed and
  sent to chain"; `LossBounded` says what this can cost (`NanoPayClaimer`).
- `NewMultiClient` may return an error although a sub-client was created: the
  goroutine at `wg.Wait` always sends on `fail`, and the select may take it
  (`MultiClient`).
- Two receive loops may hand over the same message, because they both miss it
  in the cache (`MultiClient`). The converse cannot happen (`DedupLosesNothing`).
- `Client.Send` and `SendWithClient` register the response channel after the
  message was sent: a fast reply is dropped (`Messaging`). `MultiClient.Send`
  registers first.
- Under a cross-send policy only the lines that send register, while a remote
  `MultiClient` replies to all lines: a reply that reaches only the others is
  dropped (`Messaging`; `ReplyReachesCaller` speaks of the lines that sent).
- A preferred line -1 is taken for "none", and all lines send (`Messaging`).
- The resolvers of a configuration are never used (`Outbound`).
- `RPCConfigInterface` is "the config interface for making rpc call", but
  `RPCCall` also needs `RPCGetHttpDialContext`, and a goroutine whose config lacks
  it just returns. With fewer goroutines than servers (the default is one) the
  caller waits for ever for somebody to take the next address, and `RPCTimeout`
  does not help. The configs of this package have the method; a negative
  `RPCConcurrency` has the same effect (`RPCCall`, `ReturnsOnlyConfigured`).
- A field that the deciding answer of an RPC lacks keeps what an earlier answer
  left there that was refused for another field's type: the result is then of two
  servers (`RPCCall`; `ResultOfDecider` says which fields can be concerned).
- A server's body `null` makes a goroutine of `RPCCall` panic (`RPCCall`).
- `SendRawTransaction` may return an empty hash without an error, and `GetNonce`
  a nonce of 0, when the answer has no result (`Transactions`).
- A transfer that falls back from the node to a seed may get a nonce from a
  server that does not know the caller's previous transfer yet, and is refused
  (`Transactions`; `NonceAboveTaken` speaks of one server).

## 4. Proofs

For all values of the constants, under the named assumption of each module
(`ClientAssumption`, `HeightAssumption`, `NanoPayAssumption`, `ClaimerAssumption`,
`MultiClientAssumption`, `SessionsAssumption`, `RPCCallAssumption`,
`TransactionsAssumption`, `ResolverAssumption`, `OutboundAssumption`,
`MessagingAssumption`). They give the types of the constants, say that "nil"
values differ from real ones and from each other, and that what is chosen at
random (the key of a `Dial`) is chosen by nobody else; a page of subscribers has a positive limit, and no topic
has more subscribers than the bound on offsets. Every proof has one lemma or step
per action, TLC has checked each inductive invariant on the instance of the
module's run, and each module proves its own `TypeOK` (`TypeCorrect`). Every
invariant, action property and refinement that a run checks is stated by a
theorem.

- `ClientProofs`: `Spec => []IndInv`, where `IndInv` is `TypeOK`,
  `ClosedNotConnected`, `OnlyCloseDisconnects`, `MainFirst`, `NodeKnown` and
  `OpenConnsAccounted`. `ClosedNotConnected` is inductive alone;
  `ConnectExclusive` follows from `MainFirst` (until `NewClient` has its
  connection no other goroutine can ask the handler for one), and
  `OpenConnsAccounted` needs it, because two running `connectToNode` would each
  forget the other's connection. `NodeKnown` and `OnlyCloseDisconnects` are what
  the refinement needs: an acknowledgement always finds a node, and the reported
  state leaves Disconnected never. `ImplementsConnState`: Init implies ConnState's
  Init and every step is a step of ConnState or leaves the reported state alone.
  `ClosedStaysQuiet`, which no run checks as such: the state that
  `ClosedQuiesces` leads to is for ever. It needs `ClosedAfterMain`, that nobody
  closes a client before `NewClient` is out of connect (by `MainFirst`): a connect
  that still runs would start goroutines again.
- `NanoPayProofs`, payer: `PaymentsOrdered` from an invariant that relates everything
  sent to the current NanoPay (`SentBehindNP`: an older id expires earlier,
  the same id has the same expiration) and says that nothing was sent before the
  first one (`NotStarted`).
- `NanoPayProofs`, claimer: `IndInv` is `TypeOK`, `Books`, `LossBounded` and
  `CurrentCounted`. `LossBounded` speaks of the NanoPays given up; when one is
  given up, `CurrentCounted` says that the amount the claimer worked with is the
  highest accepted one (or that the NanoPay was settled before) and `Books` that
  what a skipped flush keeps back is all that the chain has not paid.
  `AmountMonotone` follows from the same invariant.
- `MultiClientProofs`: `IndInv` is `TypeOK`, `WgCounts`, `SuccessMeans`,
  `DefaultInClients` and `DedupLosesNothing`. `SuccessMeans` and
  `DefaultInClients` give `DefaultSmallest`: only a registration lets
  `NewMultiClient` return a multiclient.
  `ClientsFrozen` follows from `WgCounts`: while `createDone` is set no goroutine
  is before its registration, so none can write `m.clients`.
  `CloseForgetsNone` is the part of `CloseClosesClients` that needs no fairness:
  after `Close`, a sub-client that has not ended has a goroutine that waits for
  nothing, or the linger timer ahead of it. It follows from `ToBeClosed`: an open
  sub-client is before its registration, which finds `isClosed`, or in
  `m.clients`, which the timer reads after `isClosed` has stopped registrations.
- `SessionsProofs`: `IndInv` is `TypeOK` and six facts. `LoopKnows`: a loop that
  is creating a session is the only one, holds `sessionLock`, and its key has no
  session yet. `DialerKnows`: neither has the key of a `Dial` before the session
  is put into the map. These two give `OneSessionPerKey`; without the lock in
  `LoopKnows` two loops create a session for one key. `PendingApart` says that a
  session that a loop may still offer is offered by no other loop, was not
  offered before and was not dialled; `OfferedApart` and `DialledApart` say the
  same of those in the channel and those taken from it, and give `OfferedOnce`.
  `CreatedAllowed` follows the address from `acceptAddrs` or `newAddrs`, whichever
  part an unlocked read finds, to the map, and gives `OfferedAllowed`.
  Two more theorems are about the deadlock of `sessions_close_deadlock`, from
  `LockHolders` (who has which lock). `OnlyCloseDeadlocks`: in every state but
  that one whoever waits for `m.lock` or `sessionLock` waits for somebody who can
  go on, however many loops and dials there are. `DeadlockStays`: no step leads
  out of it.
- `RPCCallProofs`: `IndInv` is `TypeOK`, `LockHeld` (the goroutine that decodes
  has `respLock`), `WorkerKnows`, `Leftovers`, `DecodedWhole`, `DecidedWhole`,
  `CtxDoneWhy`, `FedInOrder` and `ReturnedLast`. Until an answer is accepted, all
  that is in the result is of refused answers (`Leftovers`); a goroutine that has
  decoded an answer and still holds the lock finds its own fields on top of them
  (`DecodedWhole`), and once a verdict is in `respErrChan`, `ctx` is cancelled and
  nobody decodes any more (`DecidedWhole`): hence `ResultOfDecider`. `Leftovers`
  cannot speak of all states: after a cancellation the result may hold an accepted
  answer that no one reports. `ResultKept` needs `ReturnedLast`: when the call has
  returned, all goroutines have. The refinement `KeepsPromise` needs `FedInOrder`
  (before a cancellation no address is skipped) for the network error and
  `CtxDoneWhy` for the cancellation. `CallNeverStuck` is the part of `CallReturns`
  that needs no fairness: the caller or a goroutine has a step that waits for
  nobody, or a goroutine has panicked, or they have abandoned the caller
  (`Abandoned`), which is possible only when there are fewer of them than servers
  and there are none or they cannot dial. Whoever has `respLock` can give it back,
  because an empty `respErrChan` goes with a lock that is held (`DecidedWhole`); a
  goroutine ends before the addresses do only when `ctx` is done, in which case the
  caller skips them, or with an address that it cannot dial (`DoneWhy`); since no
  two goroutines have the same address (`AddrsApart`), as many goroutines as servers
  take all addresses before they end, by counting (`FewerThanFed`).
  `ReturnsIsConfigured` is the converse: goroutines that cannot dial keep the one
  address they took (`NoDialKeeps`), so a list that was handed over completely has
  at least as many of them (`AsManyAsFed`).
- `TransactionsProofs`: `Copies` are the transactions on their way, in pools and
  in the chain. `SignedOnce`: all copies of one carry one nonce; since the chain
  has each nonce once, `PaidAtMostOnce` follows. It is kept because a caller signs
  with a new count (`SignedBefore`) and fallbacks send the same bytes.
  `TakenStays`: what a server took stays in its pool until the nonce is used up,
  which gives `HashMeansTaken`. `NonceAboveTaken` needs this for answers that still
  wait (`AnswerAboveTaken`), that a pool has a highest nonce (`PoolTop`), and
  `InflightAsked`: a request of the current RPC is at a server that was asked.
- `OutboundProofs`: the inductive invariant `IInv`. `Shape` has the types.
  `Packing` says that the finished batches and the batch at hand, one after the
  other, are the destinations up to the loop's index, and that `totalSize` is the
  size of the batch at hand: without the first no batch could be shown to miss a
  destination, without the second the size test would test nothing. `Paired`
  keeps destinations and payloads of a batch in step; `Finished` says of each
  finished batch that it is within the size and that every destination opens its
  payload; `Writing` relates what is written to what was packed. They give
  `BatchesRight` and `Readable`. `ResolvedFully` holds because `ResolveDests` is
  right (`ResolveDestsRight`, from `ResolveSound` and `ResolveComplete` for one
  destination: the loop finds the end of a chain and only that, whether the
  resolvers fail, form a circle or have longer chains). What sums, `FlattenSeq`
  and the loops of `resolver.go` compute is proved by induction over the natural
  numbers. `SetInduction` states it for a set in the place of a predicate, from the
  library's `WFMin` and `NatLessThanWellFounded`; the `...Defined` lemmas show
  that the function a recursive definition chooses exists, and `...Unfold` that it
  satisfies its equation.
  `FullPageSendsNothing` is `publish_never_returns` for every topic and limit:
  once the first page is full, nothing is ever written, and the only way out of
  the loop is an error of `GetSubscribers`.
- `MessagingProofs`: `IndInv` is `TypeOK`, `CfgOK`, `Bounds`, `ForwardedLast`,
  `ChannelsTell`, `OutcomeTells`, `WaitsForReply` and `ReplyNotLost`.
  `ForwardedLast` gives `OneReply`. `ChannelsTell` says what `success` and `fail`
  mean about the lines while `Send` still runs; what the caller reads from them is
  `SendReports`. `WaitsForReply` says that a line whose message is out has its
  response channel or the reply was received, also when another line's reader
  deleted the entry; from it `ReplyNotLost`, which no run checks as such, is the
  part of `ReplyReachesCaller` that needs no fairness.

Only model-checked: the liveness properties (`ClosedQuiesces`, `WorkerEnds`,
`CloseClosesClients`, `CallReturns`, `ReplyReachesCaller`), and that the two
violated ones fail. TLAPS has no support for fairness and ENABLED.
`ClosedStaysQuiet`, `CloseForgetsNone`, `CallNeverStuck`, `ReplyIsNotLost`,
`DeadlockStays` and `FullPageSendsNothing` are what can be said of them without
it; their "can go on" is the condition of a step, written out.

## 5. Not modelled, and what is left

Not modelled: wallet files, the wire encoding (generated code), configuration,
gomobile types (no behaviour over time), the ncp session protocol (another
repository), `MeasureSeedRPCServer` (a filter over independent RPCs), the WebRTC
variant of `connectToNode` (one more dial that succeeds or fails), and the examples.

What is left: the safety half of `WorkerEnds`; the hazards in `PROJECT.json`
that have no property, each with its reason there.
