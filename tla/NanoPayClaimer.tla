-------------------------- MODULE NanoPayClaimer ----------------------------
(***************************************************************************)
(* nanopay.go, the recipient: a NanoPayClaimer with its background         *)
(* goroutine, goroutines that call Claim, and the blockchain as those see  *)
(* it.                                                                     *)
(*                                                                         *)
(* The transactions are carried by the application: any of them may be     *)
(* claimed at any time, in any order, again or never, and whoever signed   *)
(* them.  Fees and the clock of the claim interval are left out; heights   *)
(* are block heights.  npc.lock makes the code under it one step, whose    *)
(* remote calls may fail.                                                  *)
(***************************************************************************)
EXTENDS BlockHeight

CONSTANTS
  Claimers,   \* goroutines that call Claim
  Txns,       \* valid NanoPay transactions for the recipient
  Ids,        \* the ids of NanoPays
  NoId,       \* a nil npc.id
  NoTx,       \* a nil npc.tx
  MinFlush,   \* npc.minFlushAmount
  MaxClaimed  \* bound: what the claimer counts for earlier NanoPays

forceFlushDelta         == 2
receiverExpirationDelta == 3

ASSUME ClaimerAssumption ==
  /\ Txns \subseteq [id : Ids, amount : Nat \ {0}, expiration : Nat]
  /\ NoId \notin Ids
  /\ NoTx \notin Txns
  /\ MinFlush \in Nat
  /\ MaxClaimed \in Nat

VARIABLES
  paid,      \* the chain: what it paid out for each NanoPay
  npc,       \* the claimer's fields
  call,      \* the goroutines in Claim
  worker,    \* the claimer's background goroutine
  accepted,  \* the highest amount of each NanoPay that Claim accepted
  panicked   \* closeChan was closed twice

vars == <<height, paid, npc, call, worker, accepted, panicked>>

Init ==
  /\ height = FirstHeight
  /\ paid = [i \in Ids |-> 0]
  /\ npc = [closed |-> FALSE, id |-> NoId, tx |-> NoTx, expiration |-> 0,
            amount |-> 0, prevFlushAmount |-> 0, prevClaimedAmount |-> 0]
  /\ call = [c \in Claimers |-> [pc |-> "idle", height |-> 0, tx |-> NoTx]]
  /\ worker = "sleep"
  /\ accepted = [i \in Ids |-> 0]
  /\ panicked = FALSE

Tick ==
  /\ NewBlocks
  /\ UNCHANGED <<paid, npc, call, worker, accepted, panicked>>

-----------------------------------------------------------------------------
(* The claimer: flush and close. *)

(* flush(false) has something to send, and enough of it. *)
Due(n) == n.amount - n.prevFlushAmount >= MinFlush /\ n.tx # NoTx

(* The chain takes a transaction that has not expired and that claims more *)
(* than before.                                                            *)
ChainAccepts(t) == height <= t.expiration /\ t.amount > paid[t.id]

(* flush(false) by the holder of npc.lock: nothing is sent, SendRaw-       *)
(* Transaction succeeds, it fails, or its answer is lost after the chain   *)
(* took the transaction.                                                   *)
FlushOutcome == {"skip", "ok", "error", "lost"}
SendRawTransaction(o, n) ==
  /\ (o = "skip") <=> ~Due(n)
  /\ o \in {"ok", "lost"} => ChainAccepts(n.tx)
  /\ paid' = IF o \in {"ok", "lost"} THEN [paid EXCEPT ![n.tx.id] = n.tx.amount]
             ELSE paid

Failed(o) == o \in {"error", "lost"}

(* Mutant: flush forgets the transaction although it was not sent. *)
FlushedAnyway(o, n) ==
  IF o # "skip" THEN [n EXCEPT !.tx = NoTx, !.expiration = 0,
                               !.prevFlushAmount = n.tx.amount]
  ELSE n

(* npc after flush. *)
Flushed(o, n) ==
  IF o = "ok" THEN [n EXCEPT !.tx = NoTx, !.expiration = 0,
                             !.prevFlushAmount = n.tx.amount]
  ELSE n

Closed(n) == [n EXCEPT !.closed = TRUE]

(* Second half of close() by a goroutine without npc.lock, which had found *)
(* npc.closed false: closing closeChan again panics.                       *)
CloseUnlocked ==
  IF npc.closed THEN panicked' = TRUE /\ UNCHANGED npc
  ELSE npc' = Closed(npc) /\ UNCHANGED panicked

(* Close and Flush called by the application. *)
Close ==
  /\ ~npc.closed
  /\ npc' = Closed(npc)
  /\ UNCHANGED <<height, paid, call, worker, accepted, panicked>>

Flush ==
  /\ \E o \in FlushOutcome :
       SendRawTransaction(o, npc) /\ npc' = Flushed(o, npc)
  /\ UNCHANGED <<height, call, worker, accepted, panicked>>

-----------------------------------------------------------------------------
(* The claimer: Claim. *)

(* GetHeight and the checks of the transaction itself, before npc.lock. *)
ClaimGetHeight(c, t) ==
  /\ call[c].pc = "idle"
  /\ call' = [call EXCEPT ![c] = [pc |-> "lock", height |-> height, tx |-> t]]
  /\ UNCHANGED <<height, paid, npc, worker, accepted, panicked>>

(* A transaction that is no valid NanoPay for this recipient closes the    *)
(* claimer, without npc.lock.                                              *)
ClaimInvalid(c) ==
  /\ call[c].pc = "idle"
  /\ ~npc.closed
  /\ call' = [call EXCEPT ![c].pc = "close"]
  /\ UNCHANGED <<height, paid, npc, worker, accepted, panicked>>

ClaimInvalidCloses(c) ==
  /\ call[c].pc = "close"
  /\ CloseUnlocked
  /\ call' = [call EXCEPT ![c].pc = "idle"]
  /\ UNCHANGED <<height, paid, worker, accepted>>

(* Under npc.lock. *)
SameId(t)    == npc.id = t.id
Switching(t) == npc.id # NoId /\ npc.id # t.id

ClaimReturn(c) ==
  /\ call[c].pc = "lock"
  /\ call' = [call EXCEPT ![c] = [pc |-> "idle", height |-> 0, tx |-> NoTx]]

ClaimWhenClosed(c) ==
  /\ npc.closed
  /\ ClaimReturn(c)
  /\ UNCHANGED <<height, paid, npc, worker, accepted, panicked>>

(* The amount of the same NanoPay did not grow: ErrInvalidAmount. *)
ClaimStale(c) ==
  LET t == call[c].tx IN
  /\ ~npc.closed
  /\ ClaimReturn(c)
  /\ SameId(t) /\ npc.amount >= t.amount
  /\ npc' = Closed(npc)
  /\ UNCHANGED <<height, paid, worker, accepted, panicked>>

(* The flush of the previous NanoPay fails. *)
ClaimFlushFails(c) ==
  /\ ~npc.closed
  /\ ClaimReturn(c)
  /\ Switching(call[c].tx)
  /\ \E o \in FlushOutcome : Failed(o) /\ SendRawTransaction(o, npc)
  /\ npc' = Closed(npc)
  /\ UNCHANGED <<height, worker, accepted, panicked>>

(* Mutants: the flushed amount is kept, the claimed amount is not added,   *)
(* and it is subtracted.                                                   *)
SwitchedKeepsFlush(n) ==
  [n EXCEPT !.id = NoId, !.prevClaimedAmount = @ + n.amount, !.amount = 0]
SwitchedForgets(n) ==
  [n EXCEPT !.id = NoId, !.prevFlushAmount = 0, !.amount = 0]
SwitchedSubtracts(n) ==
  [n EXCEPT !.id = NoId, !.prevClaimedAmount = @ - n.amount,
            !.prevFlushAmount = 0, !.amount = 0]

(* The state for another NanoPay. *)
Switched(n) ==
  [n EXCEPT !.id = NoId, !.prevClaimedAmount = @ + n.amount,
            !.prevFlushAmount = 0, !.amount = 0]

(* npc when Claim gets past the test of the id, o being the outcome of the *)
(* flush of the previous NanoPay if there is one.                          *)
Prepared(t, o) == IF Switching(t) THEN Switched(Flushed(o, npc)) ELSE npc

ExpiresSoon(t, h) == t.expiration <= h + receiverExpirationDelta

Accept(n, t) ==
  [n EXCEPT !.tx = t, !.id = t.id, !.expiration = t.expiration, !.amount = t.amount]

(* The rest of Claim.  outcome "rpc": BalanceByAddress fails and Claim     *)
(* returns, keeping what was assigned before; "poor": the sender cannot    *)
(* pay (what else it spends is not modelled); "fine": it can.              *)
Claim(c, outcome) ==
  LET t == call[c].tx
      late == ExpiresSoon(t, call[c].height)
  IN
  /\ ~npc.closed
  /\ ClaimReturn(c)
  /\ ~(SameId(t) /\ npc.amount >= t.amount)
  /\ Switching(t) => npc.prevClaimedAmount + npc.amount <= MaxClaimed
  /\ \E o \in {"skip", "ok"} :
       /\ IF Switching(t) THEN SendRawTransaction(o, npc)
          ELSE o = "skip" /\ UNCHANGED paid
       /\ npc' = CASE outcome = "rpc" -> Prepared(t, o)
                   [] outcome = "poor" \/ (outcome = "fine" /\ late)
                        -> Closed(Prepared(t, o))
                   [] OTHER -> Accept(Prepared(t, o), t)
  /\ accepted' = IF outcome = "fine" /\ ~late /\ accepted[t.id] < t.amount
                   THEN [accepted EXCEPT ![t.id] = t.amount]
                   ELSE accepted
  /\ UNCHANGED <<height, worker, panicked>>

ClaimNext(c) ==
  \/ \E t \in Txns : ClaimGetHeight(c, t)
  \/ ClaimInvalid(c)
  \/ ClaimInvalidCloses(c)
  \/ ClaimWhenClosed(c)
  \/ ClaimStale(c)
  \/ ClaimFlushFails(c)
  \/ \E outcome \in {"rpc", "poor", "fine"} : Claim(c, outcome)

-----------------------------------------------------------------------------
(* The claimer's background goroutine. *)

workerRest == <<height, call, accepted>>

(* Mutant: only the long sleep ends when the claimer is closed. *)
WorkerClosedNapping ==
  /\ worker = "nap" /\ npc.closed
  /\ worker' = "final"
  /\ UNCHANGED <<workerRest, paid, npc, panicked>>

(* It wakes up and finds the claimer closed. *)
WorkerClosed ==
  /\ worker \in {"sleep", "nap"} /\ npc.closed
  /\ worker' = "final"
  /\ UNCHANGED <<workerRest, paid, npc, panicked>>

(* Something is due.  The claim interval has passed, or the NanoPay is     *)
(* about to expire.  (If not, or if GetHeight fails, it goes on sleeping.) *)
WorkerDue ==
  /\ worker = "sleep" /\ ~npc.closed
  /\ Due(npc)
  /\ worker' = "flush"
  /\ UNCHANGED <<workerRest, paid, npc, panicked>>

(* The claim interval has not passed: sleep, but not into the last blocks. *)
WorkerNaps ==
  /\ worker = "sleep" /\ ~npc.closed
  /\ Due(npc)
  /\ npc.expiration > height + forceFlushDelta
  /\ worker' = "nap"
  /\ UNCHANGED <<workerRest, paid, npc, panicked>>

WorkerNapEnds ==
  /\ worker = "nap"
  /\ worker' = "sleep"
  /\ UNCHANGED <<workerRest, paid, npc, panicked>>

WorkerFlush ==
  /\ worker = "flush"
  /\ \E o \in FlushOutcome :
       /\ SendRawTransaction(o, npc)
       /\ npc' = Flushed(o, npc)
       /\ worker' = IF Failed(o) THEN "close" ELSE "sleep"
  /\ UNCHANGED <<workerRest, panicked>>

(* closeWithError without npc.lock: test, then close. *)
WorkerCloseTest ==
  /\ worker = "close"
  /\ worker' = IF npc.closed THEN "final" ELSE "closing"
  /\ UNCHANGED <<workerRest, paid, npc, panicked>>

WorkerCloses ==
  /\ worker = "closing"
  /\ CloseUnlocked
  /\ worker' = "final"
  /\ UNCHANGED <<workerRest, paid>>

(* The deferred function: Flush until it succeeds or lingerMs have passed. *)
WorkerFinalFlush ==
  /\ worker = "final"
  /\ \E o \in FlushOutcome :
       /\ SendRawTransaction(o, npc)
       /\ npc' = Flushed(o, npc)
       /\ worker' = IF Failed(o) THEN "final" ELSE "done"
  /\ UNCHANGED <<workerRest, panicked>>

LingerEnds ==
  /\ worker = "final"
  /\ \E o \in FlushOutcome : Failed(o) /\ SendRawTransaction(o, npc)
  /\ worker' = "done"
  /\ UNCHANGED <<workerRest, npc, panicked>>

WorkerNext ==
  \/ WorkerClosed \/ WorkerDue \/ WorkerNaps \/ WorkerNapEnds
  \/ WorkerFlush \/ WorkerCloseTest \/ WorkerCloses \/ WorkerFinalFlush
  \/ LingerEnds

-----------------------------------------------------------------------------
Next ==
  /\ ~panicked
  /\ \/ Tick
     \/ \E c \in Claimers : ClaimNext(c)
     \/ WorkerNext
     \/ Close
     \/ Flush

Spec == Init /\ [][Next]_vars

(* The background goroutine keeps running, and its linger time passes. *)
FairSpec ==
  /\ Spec
  /\ WF_vars(~panicked /\ WorkerNext)
  /\ WF_vars(~panicked /\ LingerEnds)

-----------------------------------------------------------------------------
(* Properties. *)

Claimer == [closed : BOOLEAN, id : Ids \cup {NoId}, tx : Txns \cup {NoTx},
            expiration : Nat, amount : Nat, prevFlushAmount : Nat,
            prevClaimedAmount : Nat]

(* The fields keep their types; a call that waits for npc.lock has a       *)
(* transaction.                                                            *)
TypeOK ==
  /\ height \in Heights
  /\ paid \in [Ids -> Nat]
  /\ npc \in Claimer
  /\ call \in [Claimers -> [pc : {"idle", "lock", "close"}, height : Nat,
                            tx : Txns \cup {NoTx}]]
  /\ \A c \in Claimers : call[c].pc = "lock" => call[c].tx \in Txns
  /\ worker \in {"sleep", "nap", "flush", "close", "closing", "final", "done"}
  /\ accepted \in [Ids -> Nat]
  /\ panicked \in BOOLEAN

(* The claimer's books.  What it counts as flushed is part of its amount   *)
(* and was paid out by the chain; what it has to flush is its current      *)
(* amount, except after a Claim that failed between two NanoPays.          *)
Books ==
  /\ npc.prevFlushAmount <= npc.amount
  /\ npc.id = NoId => npc.amount = 0
  /\ npc.id # NoId => npc.prevFlushAmount <= paid[npc.id]
  /\ npc.tx # NoTx =>
       \/ npc.tx.id = npc.id /\ npc.tx.amount = npc.amount
       \/ npc.id = NoId /\ npc.amount = 0 /\ MinFlush > 0
  /\ npc.tx = NoTx => npc.prevFlushAmount = npc.amount

(* What the claimer loses: of a NanoPay it gave up for another one, less   *)
(* than minFlushAmount of what it accepted was not paid out, whatever      *)
(* calls failed and however the transactions arrived.                      *)
Settled(i) == accepted[i] <= paid[i] \/ accepted[i] - paid[i] < MinFlush
LossBounded == \A i \in Ids : i # npc.id => Settled(i)

(* Its strengthening: of the current NanoPay, the claimer works with the   *)
(* highest amount it ever accepted, or with an old transaction of a        *)
(* NanoPay that was settled before.                                        *)
CurrentCounted ==
  npc.id # NoId => accepted[npc.id] = npc.amount \/ Settled(npc.id)

IndInv == TypeOK /\ Books /\ LossBounded /\ CurrentCounted

(* Amount() never decreases. *)
Amount == npc.prevClaimedAmount + npc.amount
AmountMonotone == [][Amount' >= Amount]_vars

(* After Close the background goroutine ends.                              *)
WorkerEnds == npc.closed ~> (worker = "done" \/ panicked)
=============================================================================
