--------------------------- MODULE NanoPayProofs ----------------------------
(* Proofs about the two sides of nanopay.go: the claimer of                *)
(* NanoPayClaimer.tla, and then the payer of NanoPay.tla.                  *)
EXTENDS NanoPayClaimer, NanoPay, TLAPS

-----------------------------------------------------------------------------
(* The claimer. *)

(* What the invariant says of the fields. *)
LEMMA Fields ==
  ASSUME IndInv
  PROVE  /\ npc \in Claimer
         /\ npc.id \in Ids \cup {NoId}
         /\ npc.tx \in Txns \cup {NoTx}
         /\ npc.amount \in Nat /\ npc.prevFlushAmount \in Nat
         /\ npc.prevClaimedAmount \in Nat /\ npc.expiration \in Nat
         /\ npc.closed \in BOOLEAN
         /\ paid \in [Ids -> Nat] /\ accepted \in [Ids -> Nat]
         /\ MinFlush \in Nat
         /\ \A t \in Txns : t.id \in Ids /\ t.amount \in Nat \ {0} /\ t.expiration \in Nat
         /\ NoId \notin Ids /\ NoTx \notin Txns
  BY ClaimerAssumption DEF IndInv, TypeOK, Claimer

(* flush(false): it leaves the claimer alone, or what the claimer counts   *)
(* has been paid out.                                                      *)
LEMMA FlushFacts ==
  ASSUME IndInv, NEW o \in FlushOutcome, SendRawTransaction(o, npc)
  PROVE  /\ paid' \in [Ids -> Nat]
         /\ \A i \in Ids : paid'[i] >= paid[i]
         /\ o = "ok" => npc.id \in Ids /\ npc.tx # NoTx /\ npc.tx.amount = npc.amount
                        /\ paid'[npc.id] = npc.amount
         /\ o # "ok" => Flushed(o, npc) = npc
         /\ o = "skip" => ~Due(npc)
  <1>0. USE Fields
  <1>1. CASE o \in {"ok", "lost"}
    <2>1. Due(npc) /\ ChainAccepts(npc.tx) /\ paid' = [paid EXCEPT ![npc.tx.id] = npc.tx.amount]
      BY <1>1 DEF SendRawTransaction
    <2>2. npc.tx \in Txns /\ npc.tx.amount > paid[npc.tx.id]
      BY <2>1 DEF Due, ChainAccepts
    <2>3. npc.tx.id = npc.id /\ npc.tx.amount = npc.amount
      BY <2>1, <2>2 DEF IndInv, Books, Due
    <2> QED BY <1>1, <2>1, <2>2, <2>3 DEF Flushed
  <1>2. CASE o \notin {"ok", "lost"}
    BY <1>2 DEF SendRawTransaction, Flushed
  <1> QED BY <1>1, <1>2

(* A step that keeps the NanoPay and its amount, and flushes it or not,    *)
(* keeps the books.                                                        *)
LEMMA SameNanoPay ==
  ASSUME IndInv, npc' \in Claimer, accepted' = accepted,
         paid' \in [Ids -> Nat], \A i \in Ids : paid'[i] >= paid[i],
         npc'.id = npc.id, npc'.amount = npc.amount,
         \/ npc'.tx = npc.tx /\ npc'.prevFlushAmount = npc.prevFlushAmount
         \/ /\ npc'.tx = NoTx /\ npc'.prevFlushAmount = npc.amount
            /\ npc.id \in Ids /\ paid'[npc.id] = npc.amount
  PROVE  Books' /\ LossBounded' /\ CurrentCounted'
  <1>0. USE Fields
  <1>1. \A i \in Ids : Settled(i) => Settled(i)'
    BY DEF Settled
  <1>2. Books'
    <2>1. CASE npc'.tx = npc.tx /\ npc'.prevFlushAmount = npc.prevFlushAmount
      BY <2>1 DEF IndInv, Books
    <2>2. CASE /\ npc'.tx = NoTx /\ npc'.prevFlushAmount = npc.amount
               /\ npc.id \in Ids /\ paid'[npc.id] = npc.amount
      BY <2>2 DEF Books
    <2> QED BY <2>1, <2>2
  <1>3. LossBounded'
    BY <1>1 DEF IndInv, LossBounded
  <1>4. CurrentCounted'
    BY <1>1 DEF IndInv, CurrentCounted
  <1> QED BY <1>2, <1>3, <1>4

(* The record after a flush that was sent, one field at a time. *)
LEMMA FlushedRecord ==
  ASSUME NEW n \in Claimer, n.tx.amount \in Nat
  PROVE  LET m == Flushed("ok", n) IN
         /\ m \in Claimer
         /\ m.id = n.id /\ m.amount = n.amount /\ m.tx = NoTx
         /\ m.prevFlushAmount = n.tx.amount /\ m.prevClaimedAmount = n.prevClaimedAmount
  <1> DEFINE m1 == [n EXCEPT !.tx = NoTx]
             m2 == [m1 EXCEPT !.expiration = 0]
             m3 == [m2 EXCEPT !.prevFlushAmount = n.tx.amount]
  <1>1. /\ m1 \in Claimer
        /\ m1.id = n.id /\ m1.amount = n.amount /\ m1.tx = NoTx
        /\ m1.prevClaimedAmount = n.prevClaimedAmount
    BY DEF Claimer
  <1> HIDE DEF m1
  <1>2. /\ m2 \in Claimer
        /\ m2.id = m1.id /\ m2.amount = m1.amount /\ m2.tx = m1.tx
        /\ m2.prevClaimedAmount = m1.prevClaimedAmount
    BY <1>1 DEF Claimer
  <1> HIDE DEF m2
  <1>3. /\ m3 \in Claimer
        /\ m3.id = m2.id /\ m3.amount = m2.amount /\ m3.tx = m2.tx
        /\ m3.prevFlushAmount = n.tx.amount /\ m3.prevClaimedAmount = m2.prevClaimedAmount
    BY <1>2 DEF Claimer
  <1>4. m3 = Flushed("ok", n)
    BY DEF m1, m2, Flushed
  <1> HIDE DEF m3
  <1> QED BY <1>1, <1>2, <1>3, <1>4

(* The record for another NanoPay, one field at a time. *)
LEMMA SwitchedRecord ==
  ASSUME NEW n \in Claimer
  PROVE  /\ Switched(n) \in Claimer
         /\ Switched(n).id = NoId /\ Switched(n).amount = 0
         /\ Switched(n).prevFlushAmount = 0 /\ Switched(n).tx = n.tx
         /\ Switched(n).prevClaimedAmount = n.prevClaimedAmount + n.amount
  <1> DEFINE m1 == [n EXCEPT !.id = NoId]
             m2 == [m1 EXCEPT !.prevClaimedAmount = n.prevClaimedAmount + n.amount]
             m3 == [m2 EXCEPT !.prevFlushAmount = 0]
             m4 == [m3 EXCEPT !.amount = 0]
  <1>1. /\ m1 \in Claimer
        /\ m1.id = NoId /\ m1.tx = n.tx
        /\ m1.prevClaimedAmount = n.prevClaimedAmount
    BY DEF Claimer
  <1>2. m1.amount = n.amount
    BY DEF Claimer
  <1> HIDE DEF m1
  <1>3. m2 \in Claimer /\ m2.id = m1.id /\ m2.tx = m1.tx
        /\ m2.prevClaimedAmount = n.prevClaimedAmount + n.amount
    BY <1>1, <1>2 DEF Claimer
  <1> HIDE DEF m2
  <1>4. m3 \in Claimer /\ m3.id = m2.id /\ m3.tx = m2.tx
        /\ m3.prevFlushAmount = 0 /\ m3.prevClaimedAmount = m2.prevClaimedAmount
    BY <1>3 DEF Claimer
  <1> HIDE DEF m3
  <1>5. m4 \in Claimer /\ m4.id = m3.id /\ m4.tx = m3.tx /\ m4.amount = 0
        /\ m4.prevFlushAmount = m3.prevFlushAmount
        /\ m4.prevClaimedAmount = m3.prevClaimedAmount
    BY <1>4 DEF Claimer
  <1>6. m4 = Switched(n)
    BY DEF m1, m2, m3, Switched
  <1> HIDE DEF m4
  <1> QED BY <1>1, <1>3, <1>4, <1>5, <1>6

(* A flush, by whichever goroutine. *)
LEMMA FlushStep ==
  ASSUME IndInv, NEW o \in FlushOutcome, SendRawTransaction(o, npc),
         npc' = Flushed(o, npc), accepted' = accepted
  PROVE  /\ npc' \in Claimer /\ paid' \in [Ids -> Nat]
         /\ Books' /\ LossBounded' /\ CurrentCounted'
  <1>1. CASE o = "ok"
    <2>1. npc' = Flushed("ok", npc)
      BY <1>1
    <2>2. npc.tx.amount = npc.amount /\ npc.amount \in Nat /\ npc \in Claimer
      BY <1>1, Fields, FlushFacts
    <2>3. npc' \in Claimer /\ npc'.id = npc.id /\ npc'.amount = npc.amount
          /\ npc'.tx = NoTx /\ npc'.prevFlushAmount = npc.amount
      BY <2>1, <2>2, FlushedRecord
    <2> QED BY <1>1, <2>3, FlushFacts, SameNanoPay
  <1>2. CASE o # "ok"
    BY <1>2, Fields, FlushFacts, SameNanoPay
  <1> QED BY <1>1, <1>2

(* Nothing but npc.closed changes in the claimer. *)
LEMMA CloseStep ==
  ASSUME IndInv, npc' = npc \/ npc' = Closed(npc), accepted' = accepted,
         paid' \in [Ids -> Nat], \A i \in Ids : paid'[i] >= paid[i]
  PROVE  /\ npc' \in Claimer
         /\ Books' /\ LossBounded' /\ CurrentCounted'
  <1>1. npc' \in Claimer /\ npc'.id = npc.id /\ npc'.amount = npc.amount
        /\ npc'.tx = npc.tx /\ npc'.prevFlushAmount = npc.prevFlushAmount
    BY Fields DEF Closed, Claimer
  <1> QED BY <1>1, SameNanoPay

(* The claimer when Claim gets past the test of the id. *)
LEMMA PreparedFacts ==
  ASSUME IndInv, NEW t \in Txns, NEW o \in {"skip", "ok"},
         IF Switching(t) THEN SendRawTransaction(o, npc)
         ELSE o = "skip" /\ UNCHANGED paid
  PROVE  LET n == Prepared(t, o) IN
         /\ n \in Claimer
         /\ n.prevClaimedAmount + n.amount = npc.prevClaimedAmount + npc.amount
         /\ paid' \in [Ids -> Nat]
         /\ \/ n = npc /\ paid' = paid /\ npc.id \in {t.id, NoId}
            \/ /\ n.id = NoId /\ n.amount = 0 /\ n.prevFlushAmount = 0
               /\ n.tx # NoTx => MinFlush > 0
               /\ \A i \in Ids :
                    accepted[i] <= paid'[i] \/ accepted[i] - paid'[i] < MinFlush
  <1>0. USE Fields
  <1>1. CASE ~Switching(t)
    BY <1>1 DEF Prepared, Switching
  <1>2. CASE Switching(t)
    <2> DEFINE f == Flushed(o, npc)
    <2>1. SendRawTransaction(o, npc) /\ o \in FlushOutcome /\ npc.id \in Ids
      BY <1>2 DEF FlushOutcome, Switching
    <2>2. /\ paid' \in [Ids -> Nat] /\ \A i \in Ids : paid'[i] >= paid[i]
          /\ o = "ok" => npc.tx # NoTx /\ npc.tx.amount = npc.amount
                         /\ paid'[npc.id] = npc.amount
          /\ o # "ok" => f = npc /\ ~Due(npc)
      BY <2>1, FlushFacts
    <2>3. /\ f \in Claimer /\ f.amount = npc.amount
          /\ f.prevClaimedAmount = npc.prevClaimedAmount
          /\ f.tx = NoTx \/ (f = npc /\ ~Due(npc))
      <3>1. CASE o = "ok"
        <4>1. f = Flushed("ok", npc)
          BY <3>1
        <4>2. npc.tx.amount \in Nat BY <3>1, <2>2
        <4> QED BY <4>1, <4>2, FlushedRecord
      <3>2. CASE o # "ok"
        BY <3>2, <2>2
      <3> QED BY <3>1, <3>2
    <2>4. /\ Switched(f) \in Claimer /\ Switched(f).id = NoId
          /\ Switched(f).amount = 0 /\ Switched(f).prevFlushAmount = 0
          /\ Switched(f).prevClaimedAmount = npc.prevClaimedAmount + npc.amount
          /\ Switched(f).tx = f.tx
      <3> HIDE DEF f
      <3> QED BY <2>3, SwitchedRecord
    <2>5. f.tx # NoTx => MinFlush > 0
      BY <2>3 DEF IndInv, Books, Due
    <2>6. npc.amount <= paid'[npc.id] \/ npc.amount - paid'[npc.id] < MinFlush
      <3>1. CASE o = "ok"
        BY <3>1, <2>1, <2>2
      <3>2. CASE o # "ok"
        <4>1. npc.prevFlushAmount <= paid[npc.id] /\ paid[npc.id] <= paid'[npc.id]
          BY <2>1, <2>2 DEF IndInv, Books
        <4>2. npc.tx = NoTx => npc.prevFlushAmount = npc.amount
          BY DEF IndInv, Books
        <4>3. npc.tx = NoTx \/ npc.amount - npc.prevFlushAmount < MinFlush
          BY <3>2, <2>2 DEF Due
        <4> QED BY <4>1, <4>2, <4>3, <2>1, <2>2
      <3> QED BY <3>1, <3>2
    <2>7. ASSUME NEW i \in Ids
          PROVE  accepted[i] <= paid'[i] \/ accepted[i] - paid'[i] < MinFlush
      <3>1. CASE i = npc.id /\ accepted[i] = npc.amount
        BY <3>1, <2>6
      <3>2. CASE Settled(i)
        BY <3>2, <2>2 DEF Settled
      <3> QED BY <3>1, <3>2, <2>1 DEF IndInv, LossBounded, CurrentCounted
    <2>8. Prepared(t, o) = Switched(f)
      BY <1>2 DEF Prepared
    <2> HIDE DEF f
    <2> QED BY <2>2, <2>4, <2>5, <2>7, <2>8
  <1> QED BY <1>1, <1>2

(* Claim under npc.lock, with every outcome of its remote calls. *)
LEMMA ClaimStep ==
  ASSUME IndInv, NEW c \in Claimers, NEW outcome \in {"rpc", "poor", "fine"},
         Claim(c, outcome)
  PROVE  /\ npc' \in Claimer /\ paid' \in [Ids -> Nat]
         /\ accepted' \in [Ids -> Nat]
         /\ Books' /\ LossBounded' /\ CurrentCounted'
         /\ Amount' >= Amount
  <1>0. USE Fields
  <1> DEFINE t == call[c].tx
             late == ExpiresSoon(t, call[c].height)
             ok == outcome = "fine" /\ ~late
  <1>1. t \in Txns
    BY DEF Claim, ClaimReturn, IndInv, TypeOK
  <1>2. PICK o \in {"skip", "ok"} :
          /\ IF Switching(t) THEN SendRawTransaction(o, npc)
             ELSE o = "skip" /\ UNCHANGED paid
          /\ npc' = CASE outcome = "rpc" -> Prepared(t, o)
                      [] outcome = "poor" \/ (outcome = "fine" /\ late)
                           -> Closed(Prepared(t, o))
                      [] OTHER -> Accept(Prepared(t, o), t)
    BY DEF Claim
  <1>3. /\ ~(SameId(t) /\ npc.amount >= t.amount)
        /\ accepted' = IF ok /\ accepted[t.id] < t.amount
                         THEN [accepted EXCEPT ![t.id] = t.amount]
                         ELSE accepted
    BY DEF Claim
  <1> DEFINE n == Prepared(t, o)
  <1>4. /\ n \in Claimer
        /\ n.prevClaimedAmount + n.amount = npc.prevClaimedAmount + npc.amount
        /\ paid' \in [Ids -> Nat]
        /\ \/ n = npc /\ paid' = paid /\ npc.id \in {t.id, NoId}
           \/ /\ n.id = NoId /\ n.amount = 0 /\ n.prevFlushAmount = 0
              /\ n.tx # NoTx => MinFlush > 0
              /\ \A i \in Ids :
                   accepted[i] <= paid'[i] \/ accepted[i] - paid'[i] < MinFlush
    BY <1>1, <1>2, PreparedFacts
  <1>5. accepted' \in [Ids -> Nat]
    BY <1>1, <1>3
  <1>6. \/ ok /\ npc' = Accept(n, t)
        \/ ~ok /\ npc' \in {n, Closed(n)}
    BY <1>2
  <1> HIDE DEF n, late
  <1>7. CASE ~ok
    <2>1. npc' \in {n, Closed(n)} /\ accepted' = accepted
      BY <1>3, <1>6, <1>7
    <2>2. /\ npc' \in Claimer /\ npc'.id = n.id /\ npc'.amount = n.amount
          /\ npc'.tx = n.tx /\ npc'.prevFlushAmount = n.prevFlushAmount
          /\ npc'.prevClaimedAmount = n.prevClaimedAmount
      BY <2>1, <1>4 DEF Closed, Claimer
    <2>3. Amount' >= Amount
      BY <2>2, <1>4 DEF Amount
    <2>4. CASE n = npc /\ paid' = paid
      BY <2>1, <2>2, <2>3, <2>4, <1>4, <1>5, SameNanoPay
    <2>5. CASE /\ n.id = NoId /\ n.amount = 0 /\ n.prevFlushAmount = 0
               /\ n.tx # NoTx => MinFlush > 0
               /\ \A i \in Ids :
                    accepted[i] <= paid'[i] \/ accepted[i] - paid'[i] < MinFlush
      <3>1. Books'
        BY <2>2, <2>5 DEF Books
      <3>2. LossBounded' /\ CurrentCounted'
        BY <2>1, <2>2, <2>5 DEF LossBounded, CurrentCounted, Settled
      <3> QED BY <3>1, <3>2, <2>2, <2>3, <1>4, <1>5
    <2> QED BY <2>4, <2>5, <1>4
  <1>8. CASE ok
    <2>1. npc' = Accept(n, t)
      BY <1>6, <1>8
    <2>2. /\ npc' \in Claimer /\ npc'.id = t.id /\ npc'.amount = t.amount
          /\ npc'.tx = t /\ npc'.prevFlushAmount = n.prevFlushAmount
          /\ npc'.prevClaimedAmount = n.prevClaimedAmount
      <3> HIDE DEF t
      <3> QED BY <2>1, <1>1, <1>4 DEF Accept, Claimer
    <2>3. t.id \in Ids /\ t.amount \in Nat /\ t # NoTx
      BY <1>1
    <2>4. n.amount < t.amount /\ n.prevFlushAmount <= n.amount
          /\ n.prevFlushAmount <= paid'[t.id]
      <3>1. CASE n = npc /\ paid' = paid /\ npc.id = t.id
        BY <3>1, <2>3, <1>3 DEF SameId, IndInv, Books
      <3>2. CASE n = npc /\ paid' = paid /\ npc.id = NoId
        BY <3>2, <2>3, <1>1 DEF IndInv, Books
      <3>3. CASE n.amount = 0 /\ n.prevFlushAmount = 0
        BY <3>3, <2>3, <1>1, <1>4
      <3> QED BY <3>1, <3>2, <3>3, <1>4
    <2>5. Amount' >= Amount
      <3>1. n.amount \in Nat /\ n.prevClaimedAmount \in Nat
        BY <1>4 DEF Claimer
      <3> QED BY <3>1, <2>2, <2>3, <2>4, <1>4 DEF Amount
    <2>6. Books'
      BY <2>2, <2>3, <2>4, <1>4 DEF Books, Claimer
    <2>7. \A i \in Ids : i # t.id => accepted'[i] = accepted[i]
      BY <1>3, <2>3
    <2>8. /\ accepted[t.id] < t.amount => accepted'[t.id] = t.amount
          /\ ~(accepted[t.id] < t.amount) => accepted'[t.id] = accepted[t.id]
      BY <1>3, <1>8, <2>3
    <2>9. LossBounded'
      <3>1. ASSUME NEW i \in Ids, i # t.id
            PROVE  accepted[i] <= paid'[i] \/ accepted[i] - paid'[i] < MinFlush
        BY <3>1, <1>4 DEF IndInv, LossBounded, Settled
      <3> QED BY <3>1, <2>2, <2>7 DEF LossBounded, Settled
    <2>10. CurrentCounted'
      <3>1. CASE accepted[t.id] <= t.amount
        <4>1. accepted'[t.id] = t.amount BY <3>1, <2>3, <2>8
        <4> QED BY <4>1, <2>2 DEF CurrentCounted
      <3>2. CASE accepted[t.id] > t.amount
        <4>1. accepted'[t.id] = accepted[t.id] BY <3>2, <2>3, <2>8
        <4>2. accepted[t.id] <= paid'[t.id] \/ accepted[t.id] - paid'[t.id] < MinFlush
          <5>1. CASE n = npc /\ paid' = paid /\ npc.id = t.id
            <6>1. accepted[t.id] # npc.amount BY <5>1, <3>2, <2>3, <2>4
            <6> QED BY <5>1, <6>1, <2>3 DEF IndInv, CurrentCounted, Settled
          <5>2. CASE n = npc /\ paid' = paid /\ npc.id = NoId
            BY <5>2, <2>3 DEF IndInv, LossBounded, Settled
          <5> QED BY <5>1, <5>2, <1>4, <2>3
        <4> QED BY <4>1, <4>2, <2>2 DEF CurrentCounted, Settled
      <3> QED BY <3>1, <3>2, <2>3
    <2> QED BY <2>2, <2>5, <2>6, <2>9, <2>10, <1>4, <1>5
  <1> QED BY <1>7, <1>8

(* The types of what the steps outside npc.lock change. *)
LEMMA TypeStep ==
  ASSUME IndInv, Next, npc' \in Claimer, paid' \in [Ids -> Nat],
         accepted' \in [Ids -> Nat]
  PROVE  TypeOK'
  <1> DEFINE CallType == [pc : {"idle", "lock", "close"}, height : Nat,
                          tx : Txns \cup {NoTx}]
             Stages == {"sleep", "nap", "flush", "close", "closing", "final", "done"}
  <1>1. height \in Nat /\ call \in [Claimers -> CallType] /\ worker \in Stages
        /\ \A c \in Claimers : call[c].pc = "lock" => call[c].tx \in Txns
    BY HeightAssumption DEF IndInv, TypeOK
  <1>2. /\ call' \in [Claimers -> CallType]
        /\ \A c \in Claimers : call'[c].pc = "lock" => call'[c].tx \in Txns
    <2>1. CASE UNCHANGED call
      BY <2>1, <1>1
    <2>2. ASSUME NEW c \in Claimers, NEW t \in Txns, ClaimGetHeight(c, t)
          PROVE  <1>2
      BY <2>2, <1>1 DEF ClaimGetHeight
    <2>3. ASSUME NEW c \in Claimers, ClaimReturn(c)
          PROVE  <1>2
      BY <2>3, <1>1 DEF ClaimReturn
    <2>4. ASSUME NEW c \in Claimers, ClaimInvalid(c) \/ ClaimInvalidCloses(c)
          PROVE  <1>2
      BY <2>4, <1>1 DEF ClaimInvalid, ClaimInvalidCloses
    <2> QED BY <2>1, <2>2, <2>3, <2>4
        DEF Next, Tick, ClaimNext, ClaimWhenClosed, ClaimStale, ClaimFlushFails, Claim,
            WorkerNext, workerRest, WorkerClosed, WorkerDue, WorkerNaps, WorkerNapEnds,
            WorkerFlush, WorkerCloseTest, WorkerCloses, WorkerFinalFlush, LingerEnds,
            Close, Flush
  <1>3. worker' \in Stages
    BY <1>1
    DEF Next, Tick, ClaimNext, ClaimGetHeight, ClaimInvalid, ClaimInvalidCloses,
        ClaimWhenClosed, ClaimStale, ClaimFlushFails, Claim,
        WorkerNext, WorkerClosed, WorkerDue, WorkerNaps, WorkerNapEnds,
        WorkerFlush, WorkerCloseTest, WorkerCloses, WorkerFinalFlush, LingerEnds,
        Close, Flush
  <1>4. height' \in Heights
    BY DEF IndInv, TypeOK, Next, Tick, NewBlocks, ClaimNext, ClaimGetHeight, ClaimInvalid,
        ClaimInvalidCloses, ClaimWhenClosed, ClaimStale, ClaimFlushFails, Claim,
        WorkerNext, workerRest, WorkerClosed, WorkerDue, WorkerNaps, WorkerNapEnds,
        WorkerFlush, WorkerCloseTest, WorkerCloses, WorkerFinalFlush, LingerEnds,
        Close, Flush
  <1>5. panicked' \in BOOLEAN
    BY DEF IndInv, TypeOK, Next, Tick, ClaimNext, ClaimGetHeight, ClaimInvalid,
        ClaimInvalidCloses, ClaimWhenClosed, ClaimStale, ClaimFlushFails, Claim,
        WorkerNext, workerRest, WorkerClosed, WorkerDue, WorkerNaps, WorkerNapEnds,
        WorkerFlush, WorkerCloseTest, WorkerCloses, WorkerFinalFlush, LingerEnds,
        Close, Flush, CloseUnlocked
  <1> QED BY <1>2, <1>3, <1>4, <1>5 DEF TypeOK

(* Every step, sorted by what it does to the claimer's books. *)
LEMMA NextCases ==
  ASSUME Next
  PROVE  \/ UNCHANGED <<paid, npc, accepted>>
         \/ UNCHANGED <<paid, accepted>> /\ npc' = Closed(npc)
         \/ /\ \E o \in FlushOutcome : SendRawTransaction(o, npc) /\ npc' = Flushed(o, npc)
            /\ UNCHANGED accepted
         \/ /\ \E o \in FlushOutcome : Failed(o) /\ SendRawTransaction(o, npc)
            /\ npc' \in {npc, Closed(npc)} /\ UNCHANGED accepted
         \/ \E c \in Claimers, outcome \in {"rpc", "poor", "fine"} : Claim(c, outcome)
  <1>1. CASE Tick
    BY <1>1 DEF Tick
  <1>2. ASSUME NEW c \in Claimers, ClaimNext(c),
               ~(\E outcome \in {"rpc", "poor", "fine"} : Claim(c, outcome))
        PROVE  \/ UNCHANGED <<paid, npc, accepted>>
               \/ UNCHANGED <<paid, accepted>> /\ npc' = Closed(npc)
               \/ /\ \E o \in FlushOutcome : Failed(o) /\ SendRawTransaction(o, npc)
                  /\ npc' = Closed(npc) /\ UNCHANGED accepted
    BY <1>2 DEF ClaimNext, ClaimGetHeight, ClaimInvalid, ClaimInvalidCloses, CloseUnlocked,
                ClaimWhenClosed, ClaimStale, ClaimFlushFails
  <1>3. CASE WorkerNext
    BY <1>3 DEF WorkerNext, workerRest, WorkerClosed, WorkerDue, WorkerNaps, WorkerNapEnds,
                WorkerFlush, WorkerCloseTest, WorkerCloses, CloseUnlocked,
                WorkerFinalFlush, LingerEnds
  <1>4. CASE Close
    BY <1>4 DEF Close
  <1>5. CASE Flush
    BY <1>5 DEF Flush
  <1> QED BY <1>1, <1>2, <1>3, <1>4, <1>5 DEF Next

(* One step keeps the invariant, and Amount() does not go down. *)
LEMMA Step ==
  ASSUME IndInv, [Next]_vars
  PROVE  IndInv' /\ Amount' >= Amount
  <1>1. CASE UNCHANGED vars
    BY <1>1, Fields
    DEF vars, IndInv, TypeOK, Books, LossBounded, CurrentCounted, Settled, Amount, Due
  <1>2. CASE Next
    <2> DEFINE Kept == /\ npc' \in Claimer /\ paid' \in [Ids -> Nat]
                       /\ accepted' \in [Ids -> Nat]
                       /\ Books' /\ LossBounded' /\ CurrentCounted'
                       /\ Amount' >= Amount
    <2>1. ASSUME npc' = npc \/ npc' = Closed(npc)
          PROVE  Amount' >= Amount
      <3>1. npc'.amount = npc.amount /\ npc'.prevClaimedAmount = npc.prevClaimedAmount
        BY <2>1, Fields DEF Closed, Claimer
      <3> QED BY <3>1, Fields DEF Amount
    <2>2. ASSUME UNCHANGED <<paid, accepted>>, npc' \in {npc, Closed(npc)}
          PROVE  Kept
      <3>1. \A i \in Ids : paid'[i] >= paid[i]
        BY <2>2, Fields
      <3> QED BY <3>1, <2>1, <2>2, Fields, CloseStep
    <2>3. ASSUME NEW o \in FlushOutcome, SendRawTransaction(o, npc),
                 npc' = Flushed(o, npc), UNCHANGED accepted
          PROVE  Kept
      <3>1. npc'.amount = npc.amount /\ npc'.prevClaimedAmount = npc.prevClaimedAmount
        <4>1. CASE o = "ok"
          <5>1. npc.tx.amount \in Nat /\ npc \in Claimer
            BY <4>1, <2>3, Fields, FlushFacts
          <5>2. npc' = Flushed("ok", npc)
            BY <4>1, <2>3
          <5> QED BY <5>1, <5>2, FlushedRecord
        <4>2. CASE o # "ok"
          BY <4>2, <2>3, FlushFacts
        <4> QED BY <4>1, <4>2
      <3>2. Amount' >= Amount
        BY <3>1, Fields DEF Amount
      <3> QED BY <3>2, <2>3, Fields, FlushStep
    <2>4. ASSUME NEW o \in FlushOutcome, SendRawTransaction(o, npc),
                 npc' \in {npc, Closed(npc)}, UNCHANGED accepted
          PROVE  Kept
      <3>1. paid' \in [Ids -> Nat] /\ \A i \in Ids : paid'[i] >= paid[i]
        BY <2>4, FlushFacts
      <3> QED BY <3>1, <2>1, <2>4, Fields, CloseStep
    <2>5. ASSUME NEW c \in Claimers, NEW outcome \in {"rpc", "poor", "fine"},
                 Claim(c, outcome)
          PROVE  Kept
      BY <2>5, ClaimStep
    <2>6. Kept
      BY <1>2, <2>2, <2>3, <2>4, <2>5, NextCases
    <2>7. TypeOK'
      BY <1>2, <2>6, TypeStep
    <2> QED BY <2>6, <2>7 DEF IndInv
  <1> QED BY <1>1, <1>2

(* Every behaviour of the claimer keeps the inductive invariant. *)
THEOREM Invariance == Spec => []IndInv
  <1>1. Init => IndInv
    <2> SUFFICES ASSUME Init PROVE IndInv
      OBVIOUS
    <2>1. TypeOK
      <3>1. npc \in Claimer
        BY DEF Init, Claimer
      <3> QED BY <3>1, ClaimerAssumption, HeightAssumption DEF Init, TypeOK
    <2>2. Books
      BY DEF Init, Books
    <2>3. LossBounded /\ CurrentCounted
      BY DEF Init, LossBounded, CurrentCounted, Settled
    <2> QED BY <2>1, <2>2, <2>3 DEF IndInv
  <1>2. IndInv /\ [Next]_vars => IndInv'
    BY Step
  <1> QED BY <1>1, <1>2, PTL DEF Spec

(* Types: no amount of the claimer is negative, and a call of Claim that   *)
(* waits for npc.lock has a transaction.                                   *)
THEOREM TypeCorrect == Spec => []TypeOK
  <1>1. IndInv => TypeOK
    BY DEF IndInv
  <1> QED BY <1>1, Invariance, PTL

(* The claimer's counts agree with what the chain paid out. *)
THEOREM BooksAreKept == Spec => []Books
  <1>1. IndInv => Books
    BY DEF IndInv
  <1> QED BY <1>1, Invariance, PTL

(* Of a NanoPay that the claimer gave up for another one it lost less than *)
(* minFlushAmount, in whatever order transactions came and calls failed.   *)
THEOREM LossIsBounded == Spec => []LossBounded
  <1>1. IndInv => LossBounded
    BY DEF IndInv
  <1> QED BY <1>1, Invariance, PTL

(* Amount() never goes down. *)
THEOREM AmountNeverDecreases == Spec => AmountMonotone
  <1>1. IndInv /\ [Next]_vars => [Amount' >= Amount]_vars
    BY Step
  <1> QED BY <1>1, Invariance, PTL DEF Spec, AmountMonotone

-----------------------------------------------------------------------------
(* The payer. *)

(* What was signed, compared with the NanoPay the payer works on now. *)
SentBehindNP ==
  \A t \in sent :
    /\ t.id <= np.id
    /\ t.id = np.id => t.expiration = np.expiration
    /\ Duration > senderExpirationDelta /\ t.id < np.id
         => t.expiration < np.expiration

(* Before the first NanoPay there is no expiration. *)
NotStarted == np.id = NoneYet => np.expiration = 0

PayerInv == PayerTypeOK /\ PaymentsOrdered /\ SentBehindNP /\ NotStarted

(* The NanoPay that a call works on, before it adds delta: it is the       *)
(* current one, or a new one that expires later.                           *)
LEMMA CurrentCases ==
  ASSUME PayerTypeOK, NotStarted, NEW p \in Payers
  PROVE  LET m == Current(payer[p].height) IN
         /\ m \in [id : Nat \ {0}, expiration : Nat, amount : 0..MaxAmount]
         /\ \/ m = np
            \/ /\ m.id = np.id + 1
               /\ Duration > senderExpirationDelta => m.expiration > np.expiration
  <1> DEFINE h == payer[p].height
  <1>1. h \in Nat /\ np.expiration \in Nat /\ np.id \in Nat /\ np \in Payment
    BY NanoPayAssumption DEF PayerTypeOK, Payment, NoneYet, Id
  <1>2. CASE Expired(h)
    <2>1. Current(h) = [id |-> np.id + 1, expiration |-> h + Duration, amount |-> 0]
      BY <1>2 DEF Current
    <2>2. np.expiration <= h + senderExpirationDelta
      BY <1>1, <1>2 DEF Expired, senderExpirationDelta
    <2> QED BY <1>1, <2>1, <2>2, NanoPayAssumption DEF senderExpirationDelta
  <1>3. CASE ~Expired(h)
    <2>1. Current(h) = np /\ np.expiration # 0
      BY <1>3 DEF Current, Expired
    <2> QED BY <1>1, <2>1, NanoPayAssumption DEF NotStarted, Payment, Id, NoneYet
  <1> QED BY <1>2, <1>3

(* What IncrementAmount does, whatever its outcome: np moves on to m or to *)
(* n, and at most n is signed.                                             *)
LEMMA IncrementStep ==
  ASSUME PayerInv, NEW p \in Payers, NEW delta \in Delta,
         NEW outcome \in {"ok", "delta", "fee"},
         IncrementAmount(p, delta, outcome)
  PROVE  PayerInv'
  <1> DEFINE m == Current(payer[p].height)
             n == [m EXCEPT !.amount = @ + delta]
  <1>1. /\ m.id <= MaxId /\ n.amount <= MaxAmount
        /\ payer' = [payer EXCEPT ![p] = Idle]
        /\ np' = m \/ np' = n
        /\ sent' = sent \/ (np' = n /\ sent' = sent \cup {n})
        /\ height' = height
    BY DEF IncrementAmount
  <1>2. /\ m \in [id : Nat \ {0}, expiration : Nat, amount : 0..MaxAmount]
        /\ \/ m = np
           \/ /\ m.id = np.id + 1
              /\ Duration > senderExpirationDelta => m.expiration > np.expiration
    BY <1>1, CurrentCases DEF PayerInv
  <1>3. delta \in Nat \ {0} /\ MaxAmount \in Nat /\ MaxId \in Nat /\ Duration \in Nat
    BY NanoPayAssumption
  <1>4. /\ n \in [id : Nat \ {0}, expiration : Nat, amount : 1..MaxAmount]
        /\ n.id = m.id /\ n.expiration = m.expiration
    <2>1. m.amount + delta \in 1..MaxAmount
      <3>1. n.amount = m.amount + delta BY <1>2
      <3> QED BY <3>1, <1>1, <1>2, <1>3
    <2> HIDE DEF m
    <2> QED BY <1>2, <2>1
  <1> HIDE DEF m, n
  <1>5. np \in Payment /\ np.id \in Nat /\ np.expiration \in Nat
    BY <1>3 DEF PayerInv, PayerTypeOK, Payment, Id, NoneYet
  <1>6. np.id <= np'.id /\ np'.id \in Nat /\ np'.expiration \in Nat
    BY <1>1, <1>2, <1>4, <1>5
  <1>7. \/ np'.id = np.id /\ np'.expiration = np.expiration
        \/ /\ np'.id = np.id + 1
           /\ Duration > senderExpirationDelta => np'.expiration > np.expiration
    BY <1>1, <1>2, <1>4
  <1>8. \A t \in sent : t.id \in Nat /\ t.expiration \in Nat
    BY <1>3 DEF PayerInv, PayerTypeOK, Id
  <1>9. PayerTypeOK'
    <2>1. np' \in Payment
      <3>1. m.id \in Id \cup {NoneYet} /\ n.id \in Id \cup {NoneYet}
        BY <1>1, <1>2, <1>3, <1>4 DEF Id, NoneYet
      <3> QED BY <3>1, <1>1, <1>2, <1>3, <1>4 DEF Payment
    <2>2. sent' \subseteq [id : Id, expiration : Nat, amount : 1..MaxAmount]
      <3>1. CASE np' = n /\ sent' = sent \cup {n}
        <4>1. n.id \in Id
          BY <1>1, <1>3, <1>4 DEF Id
        <4> QED BY <4>1, <3>1, <1>4 DEF PayerInv, PayerTypeOK
      <3>2. CASE sent' = sent
        BY <3>2 DEF PayerInv, PayerTypeOK
      <3> QED BY <3>1, <3>2, <1>1
    <2>3. payer' \in [Payers -> [pc : {"idle", "lock"}, height : Nat, err : BOOLEAN]]
      BY <1>1 DEF PayerInv, PayerTypeOK, Idle
    <2> QED BY <1>1, <2>1, <2>2, <2>3 DEF PayerInv, PayerTypeOK
  <1>10. NotStarted'
    BY <1>1, <1>2, <1>4 DEF NotStarted, NoneYet
  <1>11. SentBehindNP'
    <2> SUFFICES ASSUME NEW t \in sent'
                 PROVE  /\ t.id <= np'.id
                        /\ t.id = np'.id => t.expiration = np'.expiration
                        /\ Duration > senderExpirationDelta /\ t.id < np'.id
                             => t.expiration < np'.expiration
      BY DEF SentBehindNP
    <2>1. CASE t \in sent
      <3>1. /\ t.id <= np.id
            /\ t.id = np.id => t.expiration = np.expiration
            /\ Duration > senderExpirationDelta /\ t.id < np.id
                 => t.expiration < np.expiration
        BY <2>1 DEF PayerInv, SentBehindNP
      <3> QED BY <3>1, <2>1, <1>3, <1>5, <1>6, <1>7, <1>8 DEF senderExpirationDelta
    <2>2. CASE t = np'
      BY <2>2, <1>6
    <2> QED BY <2>1, <2>2, <1>1
  <1>12. PaymentsOrdered'
    <2>1. \A t \in sent' : t.id \in Nat /\ t.expiration \in Nat
      BY <1>1, <1>6, <1>8
    <2>2. \A s \in sent' : s \in sent \/ s = np'
      BY <1>1
    <2> SUFFICES ASSUME NEW s \in sent', NEW t \in sent'
                 PROVE  /\ s.id = t.id => s.expiration = t.expiration
                        /\ Duration > senderExpirationDelta /\ s.id < t.id
                             => s.expiration < t.expiration
      BY DEF PaymentsOrdered
    <2>3. CASE s \in sent /\ t \in sent
      BY <2>3 DEF PayerInv, PaymentsOrdered
    <2>4. CASE t = np'
      BY <1>11, <2>4 DEF SentBehindNP
    <2>5. CASE s = np'
      <3>1. t.id <= np'.id /\ (t.id = np'.id => t.expiration = np'.expiration)
        BY <1>11 DEF SentBehindNP
      <3> QED BY <3>1, <2>1, <2>5, <1>6
    <2> QED BY <2>2, <2>3, <2>4, <2>5
  <1> QED BY <1>9, <1>10, <1>11, <1>12 DEF PayerInv

(* Every behaviour of the payer keeps the inductive invariant. *)
THEOREM PayerInvariance == PayerSpec => []PayerInv
  <1>1. PayerInit => PayerInv
    BY NanoPayAssumption, HeightAssumption
    DEF PayerInit, PayerInv, PayerTypeOK, PaymentsOrdered, SentBehindNP, NotStarted, Payment, Idle, Id, NoneYet
  <1>2. PayerInv /\ [PayerNext]_payerVars => PayerInv'
    <2> SUFFICES ASSUME PayerInv, [PayerNext]_payerVars PROVE PayerInv'
      OBVIOUS
    <2>1. CASE PayerTick
      BY <2>1 DEF PayerTick, NewBlocks, PayerInv, PayerTypeOK, PaymentsOrdered, SentBehindNP, NotStarted
    <2>2. ASSUME NEW p \in Payers, NEW err \in BOOLEAN, GetHeight(p, err)
          PROVE  PayerInv'
      <3>1. height \in Nat /\ payer \in [Payers -> [pc : {"idle", "lock"}, height : Nat, err : BOOLEAN]]
        BY HeightAssumption DEF PayerInv, PayerTypeOK
      <3>2. payer' \in [Payers -> [pc : {"idle", "lock"}, height : Nat, err : BOOLEAN]]
        BY <3>1, <2>2 DEF GetHeight
      <3> QED BY <3>2, <2>2 DEF GetHeight, PayerInv, PayerTypeOK, PaymentsOrdered, SentBehindNP, NotStarted
    <2>3. ASSUME NEW p \in Payers, NEW delta \in Delta,
                 NEW outcome \in {"ok", "delta", "fee"},
                 IncrementAmount(p, delta, outcome)
          PROVE  PayerInv'
      BY <2>3, IncrementStep
    <2>4. ASSUME NEW p \in Payers, IncrementFails(p)
          PROVE  PayerInv'
      BY <2>4 DEF IncrementFails, Idle, PayerInv, PayerTypeOK, PaymentsOrdered, SentBehindNP, NotStarted
    <2>5. CASE UNCHANGED payerVars
      BY <2>5 DEF payerVars, PayerInv, PayerTypeOK, PaymentsOrdered, SentBehindNP, NotStarted
    <2> QED BY <2>1, <2>2, <2>3, <2>4, <2>5 DEF PayerNext
  <1> QED BY <1>1, <1>2, PTL DEF PayerSpec

(* What IncrementAmount returned is a transaction over a positive amount,  *)
(* within MaxAmount, of a NanoPay that was started.                        *)
THEOREM PayerTypeCorrect == PayerSpec => []PayerTypeOK
  <1>1. PayerInv => PayerTypeOK
    BY DEF PayerInv
  <1> QED BY <1>1, PayerInvariance, PTL

(* Whatever order the calls of IncrementAmount get np.lock in and whatever *)
(* heights they read, transactions of one NanoPay share its expiration and *)
(* a later NanoPay expires later.                                          *)
THEOREM PaymentsAreOrdered == PayerSpec => []PaymentsOrdered
  <1>1. PayerInv => PaymentsOrdered
    BY DEF PayerInv
  <1> QED BY <1>1, PayerInvariance, PTL
=============================================================================
