--------------------------- MODULE SessionsProofs ---------------------------
(* Proofs about Sessions.tla: for any number of receive loops, of calls of *)
(* Dial, of remote sessions, and any capacity of m.acceptSession.          *)
EXTENDS Sessions, TLAPS, SequenceTheorems

(* A receive loop that creates a session holds m.sessionLock, alone, and   *)
(* its key has no session yet; one that has looked up a session has one.   *)
LoopKnows ==
  /\ \A i \in Loops :
       /\ loop[i].pc \in {"receive", "offer"} => loop[i].s \in Sess
       /\ loop[i].pc = "offer" => loop[i].new
       /\ loop[i].pc = "newSession" =>
            /\ sessionLock = "loop"
            /\ loop[i].key \in RemoteKey /\ sessions[loop[i].key] = NoSess
  /\ \A i, j \in Loops :
       loop[i].pc = "newSession" /\ loop[j].pc = "newSession" => i = j

(* Until Dial puts its session into the map, there is none with its key. *)
DialerKnows ==
  \A d \in Dialers :
    /\ dialer[d].pc = "put" => dialer[d].s \in Sess
    /\ dialer[d].pc \in {"idle", "put"} => sessions[d] = NoSess

(* Sessions of remotes, and those that a loop is about to create, are of   *)
(* addresses that a Listen allowed.                                        *)
CreatedAllowed ==
  /\ acceptAddrs \subseteq allowed /\ newAddrs \subseteq allowed
  /\ \A k \in RemoteKey : sessions[k] # NoSess => Addr[k] \in allowed
  /\ \A i \in Loops : loop[i].pc = "newSession" => Addr[loop[i].key] \in allowed

Once(q) == \A m, n \in DOMAIN q : q[m] = q[n] => m = n

(* The session is in acceptSession or was received from it. *)
InAccept(s) == \E n \in DOMAIN acceptSession : acceptSession[n] = s
InTaken(s)  == \E n \in DOMAIN taken : taken[n] = s

OfferedApart ==
  /\ Once(acceptSession) /\ Once(taken)
  /\ \A s \in Sess : ~(InAccept(s) /\ InTaken(s))

(* A loop has created a session that it may still offer. *)
Pending(i) == loop[i].pc \in {"receive", "offer"} /\ loop[i].new

(* Such a session is offered by no other loop, and was not offered yet. *)
PendingApart ==
  \A i \in Loops : Pending(i) =>
    /\ ~InAccept(loop[i].s) /\ ~InTaken(loop[i].s)
    /\ \A j \in Loops : Pending(j) /\ loop[j].s = loop[i].s => j = i
    /\ \A d \in Dialers : dialer[d].s # loop[i].s

DialledApart ==
  \A d \in Dialers : ~InAccept(dialer[d].s) /\ ~InTaken(dialer[d].s)

IndInv ==
  /\ TypeOK /\ LoopKnows /\ DialerKnows /\ CreatedAllowed
  /\ OfferedApart /\ PendingApart /\ DialledApart

(* Who holds the locks: Close between its first step and its last one has  *)
(* m.lock, and sessionLock is taken only by a loop in newSession.          *)
Creating(i) == loop[i].pc = "newSession"

LockHolders ==
  /\ mLock = "close" <=> closer \in {"sessions", "closing"}
  /\ sessionLock = "loop" => \E i \in Loops : Creating(i)

(* Close waits for sessionLock, and the loop that has it for m.lock. *)
Deadlocked == closer = "sessions" /\ \E i \in Loops : Creating(i)

(* The steps by which m.lock and sessionLock are released, or Close comes  *)
(* to releasing m.lock, wait for nothing.                                  *)
MLockMoves == \/ mLock = "listen"
              \/ closer = "closing"
              \/ closer = "sessions" /\ sessionLock = "free"
SessionLockMoves == \E i \in Loops : Creating(i) /\ (mLock = "free" \/ MLockMoves)

(* Whoever waits for a lock waits for somebody who can go on, unless Close *)
(* and a receive loop wait for each other.                                 *)
LocksMove ==
  Deadlocked \/ /\ mLock # "free" => MLockMoves
                /\ sessionLock # "free" => SessionLockMoves

(* The parts of the invariant. *)
LEMMA IndInvParts ==
  ASSUME IndInv
  PROVE  /\ TypeOK /\ LoopKnows /\ DialerKnows /\ CreatedAllowed
         /\ OfferedApart /\ PendingApart /\ DialledApart
  BY DEF IndInv

(* The sessions are numbered. *)
LEMMA SessNumbers ==
  ASSUME TypeOK
  PROVE  Len(sess) \in Nat /\ Sess = 1..Len(sess) /\ NoSess \notin Sess
  BY SessionsAssumption, LenProperties DEF TypeOK, Sess

(* A new session has the next number. *)
LEMMA NewSessionType ==
  ASSUME TypeOK, sess' = NewSession
  PROVE  /\ sess' \in Seq({"open", "closed"})
         /\ Sess' = Sess \cup {Fresh} /\ Fresh \notin Sess /\ Fresh # NoSess
  <1>1. Len(sess) \in Nat /\ Sess = 1..Len(sess)
    BY SessNumbers
  <1>2. sess' \in Seq({"open", "closed"}) /\ Len(sess') = Len(sess) + 1
    BY AppendProperties DEF NewSession, TypeOK
  <1>3. Sess' = 1..(Len(sess) + 1)
    BY <1>2, LenProperties DEF Sess
  <1> QED BY <1>1, <1>2, <1>3, SessionsAssumption DEF Fresh

(* What was offered exists. *)
LEMMA OfferedExists ==
  ASSUME TypeOK, NEW s, InAccept(s) \/ InTaken(s)
  PROVE  s \in Sess
  BY ElementOfSeq, LenProperties DEF TypeOK, InAccept, InTaken

(* Nobody knows a session before it is created. *)
LEMMA FreshIsNew ==
  ASSUME TypeOK
  PROVE  /\ ~InAccept(Fresh) /\ ~InTaken(Fresh) /\ Fresh # NoSess
         /\ \A i \in Loops : loop[i].s # Fresh
         /\ \A d \in Dialers : dialer[d].s # Fresh
  <1>1. Fresh \notin Sess /\ Fresh # NoSess
    BY SessNumbers, SessionsAssumption DEF Fresh
  <1>2. \A i \in Loops : loop[i].s \in Sess \cup {NoSess}
    BY DEF TypeOK
  <1>3. \A d \in Dialers : dialer[d].s \in Sess \cup {NoSess}
    BY DEF TypeOK
  <1> QED BY <1>1, <1>2, <1>3, OfferedExists

LoopRec == [pc : {"select", "newSession", "receive", "offer", "done"},
            key : Key \cup {NoKey}, s : Sess \cup {NoSess}, new : BOOLEAN]

(* A packet finds its session, or makes a loop take sessionLock to create  *)
(* one for an address that was allowed, or is ignored.                     *)
LEMMA LookupCases ==
  ASSUME IndInv, NEW i \in Loops, NEW k \in Key, Lookup(i, k)
  PROVE  /\ loop[i].pc = "select" /\ sessionLock = "free"
         /\ loop' \in [Loops -> LoopRec]
         /\ \A j \in Loops : j # i => loop'[j] = loop[j]
         /\ \/ /\ loop'[i].pc = "receive" /\ loop'[i].s \in Sess
               /\ ~loop'[i].new /\ sessionLock' = "free"
            \/ /\ loop'[i].pc = "newSession" /\ loop'[i].key = k
               /\ k \in RemoteKey /\ sessions[k] = NoSess /\ sessionLock' = "loop"
               /\ Addr[k] \in acceptAddrs \cup newAddrs
            \/ loop' = loop /\ sessionLock' = "free"
  <1> USE IndInvParts, SessionsAssumption
  <1>1. loop[i].pc = "select" /\ sessionLock = "free" /\ loop \in [Loops -> LoopRec]
    BY DEF Lookup, TypeOK, LoopRec
  <1>2. CASE sessions[k] # NoSess
    <2> DEFINE r == [pc |-> "receive", key |-> NoKey, s |-> sessions[k], new |-> FALSE]
    <2>1. loop' = [loop EXCEPT ![i] = r] /\ sessionLock' = sessionLock
      BY <1>2 DEF Lookup
    <2>2. sessions[k] \in Sess
      BY <1>2 DEF TypeOK
    <2>3. r \in LoopRec /\ r.pc = "receive" /\ r.s \in Sess /\ ~r.new
      BY <2>2 DEF LoopRec
    <2> HIDE DEF r
    <2> QED BY <1>1, <2>1, <2>3
  <1>3. CASE sessions[k] = NoSess
    <2>1. k \in RemoteKey
      BY <1>3 DEF Lookup
    <2>2. PICK yes \in ShouldAccept(Addr[k]) :
            IF yes THEN /\ loop' = [loop EXCEPT ![i].pc = "newSession", ![i].key = k]
                        /\ sessionLock' = "loop"
            ELSE UNCHANGED <<loop, sessionLock>>
      BY <1>3 DEF Lookup
    <2>3. CASE yes
      <3> DEFINE r == [loop[i] EXCEPT !.pc = "newSession", !.key = k]
      <3>1. Addr[k] \in acceptAddrs \cup newAddrs
        BY <2>2, <2>3 DEF ShouldAccept
      <3>2. loop' = [loop EXCEPT ![i] = r] /\ sessionLock' = "loop"
        BY <1>1, <2>2, <2>3
      <3>3. r \in LoopRec /\ r.pc = "newSession" /\ r.key = k
        BY <1>1, <2>1 DEF LoopRec
      <3> HIDE DEF r
      <3> QED BY <1>1, <1>3, <2>1, <3>1, <3>2, <3>3
    <2>4. CASE ~yes
      BY <1>1, <2>2, <2>4
    <2> QED BY <2>3, <2>4
  <1> QED BY <1>2, <1>3

(* A packet arrives: its session is looked up. *)
LEMMA LookupStep ==
  ASSUME IndInv, NEW i \in Loops, NEW k \in Key, Lookup(i, k)
  PROVE  IndInv'
  <1> USE IndInvParts, SessionsAssumption
  <1>1. /\ loop[i].pc = "select" /\ sessionLock = "free"
        /\ loop' \in [Loops -> LoopRec]
        /\ \A j \in Loops : j # i => loop'[j] = loop[j]
        /\ \/ /\ loop'[i].pc = "receive" /\ loop'[i].s \in Sess
              /\ ~loop'[i].new /\ sessionLock' = "free"
           \/ /\ loop'[i].pc = "newSession" /\ loop'[i].key = k
              /\ k \in RemoteKey /\ sessions[k] = NoSess /\ sessionLock' = "loop"
              /\ Addr[k] \in acceptAddrs \cup newAddrs
           \/ loop' = loop /\ sessionLock' = "free"
    BY LookupCases
  <1>2. /\ sess' = sess /\ sessions' = sessions /\ acceptAddrs' = acceptAddrs
        /\ newAddrs' = newAddrs /\ allowed' = allowed /\ mLock' = mLock
        /\ isClosed' = isClosed /\ dialer' = dialer /\ acceptor' = acceptor
        /\ acceptSession' = acceptSession /\ taken' = taken
        /\ closer' = closer /\ panicked' = panicked
    BY DEF Lookup, listen, accept
  <1>3. TypeOK'
    BY <1>1, <1>2 DEF TypeOK, Sess, LoopRec
  <1>4. LoopKnows'
    <2>1. \A j \in Loops : loop[j].pc # "newSession"
      BY <1>1 DEF LoopKnows
    <2> QED BY <1>1, <1>2, <2>1 DEF LoopKnows, Sess
  <1>5. DialerKnows'
    BY <1>2 DEF DialerKnows, Sess
  <1>6. CreatedAllowed'
    BY <1>1, <1>2 DEF CreatedAllowed
  <1>7. OfferedApart'
    BY <1>2 DEF OfferedApart, Sess, Once, InAccept, InTaken
  <1>8. PendingApart'
    <2>1. \A j \in Loops : Pending(j)' => Pending(j) /\ loop'[j] = loop[j]
      BY <1>1 DEF Pending
    <2> QED BY <1>2, <2>1 DEF PendingApart, InAccept, InTaken
  <1>9. DialledApart'
    BY <1>2 DEF DialledApart, InAccept, InTaken
  <1> QED BY <1>3, <1>4, <1>5, <1>6, <1>7, <1>8, <1>9 DEF IndInv

(* The read of m.acceptAddrs is torn. *)
LEMMA LookupPanicsStep ==
  ASSUME IndInv, NEW i \in Loops, NEW k \in Key, LookupPanics(i, k)
  PROVE  IndInv'
  <1> USE IndInvParts, SessionsAssumption
  <1>1. TypeOK'
    BY DEF LookupPanics, listen, locks, accept, TypeOK, Sess, Idle
  <1>2. LoopKnows'
    BY DEF TypeOK, LookupPanics, listen, locks, accept, LoopKnows, Sess, Idle
  <1>3. DialerKnows'
    BY DEF TypeOK, LookupPanics, listen, locks, accept, DialerKnows, Sess
  <1>4. CreatedAllowed'
    BY DEF TypeOK, LookupPanics, listen, locks, accept, CreatedAllowed, Idle
  <1>5. OfferedApart'
    BY DEF TypeOK, LookupPanics, listen, locks, accept, OfferedApart, Sess, Once, InAccept, InTaken
  <1>6. PendingApart'
    BY DEF TypeOK, LookupPanics, listen, locks, accept, PendingApart, Pending, InAccept, InTaken, Idle
  <1>7. DialledApart'
    BY DEF TypeOK, LookupPanics, listen, locks, accept, DialledApart, InAccept, InTaken
  <1> QED BY <1>1, <1>2, <1>3, <1>4, <1>5, <1>6, <1>7 DEF IndInv

(* The session is created and put into the map. *)
LEMMA CreateSessionStep ==
  ASSUME IndInv, NEW i \in Loops, CreateSession(i)
  PROVE  IndInv'
  <1> USE IndInvParts, SessionsAssumption
  <1>1. /\ loop[i].pc = "newSession" /\ sess' = NewSession
        /\ sessions' = [sessions EXCEPT ![loop[i].key] = Fresh]
        /\ sessionLock' = "free"
        /\ acceptAddrs' = acceptAddrs /\ newAddrs' = newAddrs /\ allowed' = allowed
        /\ mLock' = mLock /\ isClosed' = isClosed /\ dialer' = dialer
        /\ acceptor' = acceptor /\ acceptSession' = acceptSession /\ taken' = taken
        /\ closer' = closer /\ panicked' = panicked
    BY DEF CreateSession, listen, accept
  <1>2. loop[i].key \in RemoteKey /\ sessions[loop[i].key] = NoSess
    BY <1>1 DEF LoopKnows
  <1>3. /\ sess' \in Seq({"open", "closed"})
        /\ Sess' = Sess \cup {Fresh} /\ Fresh \notin Sess
    BY <1>1, NewSessionType
  <1>4. /\ ~InAccept(Fresh) /\ ~InTaken(Fresh) /\ Fresh # NoSess
        /\ \A j \in Loops : loop[j].s # Fresh
        /\ \A d \in Dialers : dialer[d].s # Fresh
    BY FreshIsNew
  <1>5. /\ loop' \in [Loops -> LoopRec']
        /\ \A j \in Loops : j # i => loop'[j] = loop[j] /\ loop[j].pc # "newSession"
        /\ loop'[i].pc = "receive" /\ loop'[i].s = Fresh /\ loop'[i].new
    <2> DEFINE r == [pc |-> "receive", key |-> NoKey, s |-> Fresh, new |-> TRUE]
    <2>1. loop' = [loop EXCEPT ![i] = r]
      BY DEF CreateSession
    <2>2. r \in LoopRec' /\ r.pc = "receive" /\ r.s = Fresh /\ r.new
      BY <1>3 DEF LoopRec
    <2>3. loop \in [Loops -> LoopRec]
      BY DEF TypeOK, LoopRec
    <2>4. loop \in [Loops -> LoopRec']
      BY <1>3, <2>3 DEF LoopRec
    <2>5. \A j \in Loops : loop[j].pc = "newSession" => j = i
      BY <1>1 DEF LoopKnows
    <2> HIDE DEF r
    <2> QED BY <2>1, <2>2, <2>4, <2>5
  <1>6. TypeOK'
    <2>1. acceptSession \in Seq(Sess') /\ taken \in Seq(Sess')
      BY <1>3, SeqMonotonic DEF TypeOK
    <2>2. sessions' \in [Key -> Sess' \cup {NoSess}]
      BY <1>1, <1>2, <1>3 DEF TypeOK, Key
    <2>3. dialer \in [Dialers -> [pc : {"idle", "put", "dial", "done"},
                                  s : Sess' \cup {NoSess}]]
      BY <1>3 DEF TypeOK
    <2> QED BY <1>1, <1>3, <1>5, <2>1, <2>2, <2>3 DEF TypeOK, LoopRec
  <1>7. LoopKnows'
    BY <1>3, <1>5 DEF LoopKnows
  <1>8. DialerKnows'
    <2>1. \A d \in Dialers : sessions'[d] = sessions[d]
      BY <1>1, <1>2 DEF TypeOK, Key
    <2> QED BY <1>1, <1>3, <2>1 DEF DialerKnows
  <1>9. CreatedAllowed'
    <2>1. Addr[loop[i].key] \in allowed
      BY <1>1 DEF CreatedAllowed
    <2>2. \A k \in RemoteKey : k # loop[i].key => sessions'[k] = sessions[k]
      BY <1>1, <1>2 DEF TypeOK, Key
    <2> QED BY <1>1, <1>5, <2>1, <2>2 DEF CreatedAllowed
  <1>10. OfferedApart'
    <2>1. \A s : InAccept(s)' = InAccept(s) /\ InTaken(s)' = InTaken(s)
      BY <1>1 DEF InAccept, InTaken
    <2> QED BY <1>1, <1>3, <1>4, <2>1 DEF OfferedApart, Once
  <1>11. PendingApart'
    <2>1. \A s : InAccept(s)' = InAccept(s) /\ InTaken(s)' = InTaken(s)
      BY <1>1 DEF InAccept, InTaken
    <2>2. \A j \in Loops : j # i => loop'[j] = loop[j] /\ (Pending(j)' <=> Pending(j))
      BY <1>5 DEF Pending
    <2> QED BY <1>1, <1>4, <1>5, <2>1, <2>2 DEF PendingApart
  <1>12. DialledApart'
    BY <1>1 DEF DialledApart, InAccept, InTaken
  <1> QED BY <1>6, <1>7, <1>8, <1>9, <1>10, <1>11, <1>12 DEF IndInv

(* It cannot be created. *)
LEMMA CreateSessionFailsStep ==
  ASSUME IndInv, NEW i \in Loops, CreateSessionFails(i)
  PROVE  IndInv'
  <1> USE IndInvParts, SessionsAssumption
  <1>1. TypeOK'
    BY DEF CreateSessionFails, listen, accept, TypeOK, Sess, Idle
  <1>2. LoopKnows'
    BY DEF TypeOK, CreateSessionFails, listen, accept, LoopKnows, Sess, Idle
  <1>3. DialerKnows'
    BY DEF TypeOK, CreateSessionFails, listen, accept, DialerKnows, Sess
  <1>4. CreatedAllowed'
    BY DEF TypeOK, CreateSessionFails, listen, accept, CreatedAllowed, Idle
  <1>5. OfferedApart'
    BY DEF TypeOK, CreateSessionFails, listen, accept, OfferedApart, Sess, Once, InAccept, InTaken
  <1>6. PendingApart'
    BY DEF TypeOK, CreateSessionFails, listen, accept, PendingApart, Pending, InAccept, InTaken, Idle
  <1>7. DialledApart'
    BY DEF TypeOK, CreateSessionFails, listen, accept, DialledApart, InAccept, InTaken
  <1> QED BY <1>1, <1>2, <1>3, <1>4, <1>5, <1>6, <1>7 DEF IndInv

(* The session takes the packet. *)
LEMMA ReceiveStep ==
  ASSUME IndInv, NEW i \in Loops, Receive(i)
  PROVE  IndInv'
  <1> USE IndInvParts, SessionsAssumption
  <1>1. TypeOK'
    BY SMTT(30) DEF Receive, listen, locks, accept, TypeOK, Sess, Idle
  <1>2. LoopKnows'
    BY DEF TypeOK, Receive, listen, locks, accept, LoopKnows, Sess, Idle
  <1>3. DialerKnows'
    BY DEF TypeOK, Receive, listen, locks, accept, DialerKnows, Sess
  <1>4. CreatedAllowed'
    BY DEF TypeOK, Receive, listen, locks, accept, CreatedAllowed, Idle
  <1>5. OfferedApart'
    BY DEF TypeOK, Receive, listen, locks, accept, OfferedApart, Sess, Once, InAccept, InTaken
  <1>6. PendingApart'
    BY DEF TypeOK, Receive, listen, locks, accept, PendingApart, Pending, InAccept, InTaken, Idle
  <1>7. DialledApart'
    BY DEF TypeOK, Receive, listen, locks, accept, DialledApart, InAccept, InTaken
  <1> QED BY <1>1, <1>2, <1>3, <1>4, <1>5, <1>6, <1>7 DEF IndInv

(* It refuses the packet, or the packet closes it. *)
LEMMA ReceiveFailsStep ==
  ASSUME IndInv, NEW i \in Loops, ReceiveFails(i)
  PROVE  IndInv'
  <1> USE IndInvParts, SessionsAssumption
  <1>1. TypeOK'
    <2>1. loop[i].s \in Sess
      BY DEF ReceiveFails, LoopKnows
    <2>2. PICK to \in {sess[loop[i].s], "closed"} : sess' = [sess EXCEPT ![loop[i].s] = to]
      BY DEF ReceiveFails
    <2>3. loop[i].s \in 1..Len(sess) /\ sess[loop[i].s] \in {"open", "closed"}
      BY <2>1, SessNumbers, ElementOfSeq DEF TypeOK
    <2>4. sess' \in Seq({"open", "closed"}) /\ Sess' = Sess
      BY <2>2, <2>3, ExceptSeq DEF TypeOK, Sess
    <2> QED BY <2>4 DEF ReceiveFails, listen, locks, accept, TypeOK, Idle
  <1>2. LoopKnows'
    BY DEF TypeOK, ReceiveFails, listen, locks, accept, LoopKnows, Sess, Idle
  <1>3. DialerKnows'
    BY DEF TypeOK, ReceiveFails, listen, locks, accept, DialerKnows, Sess
  <1>4. CreatedAllowed'
    BY DEF TypeOK, ReceiveFails, listen, locks, accept, CreatedAllowed, Idle
  <1>5. OfferedApart'
    BY DEF TypeOK, ReceiveFails, listen, locks, accept, OfferedApart, Sess, Once, InAccept, InTaken
  <1>6. PendingApart'
    BY DEF TypeOK, ReceiveFails, listen, locks, accept, PendingApart, Pending, InAccept, InTaken, Idle
  <1>7. DialledApart'
    BY DEF TypeOK, ReceiveFails, listen, locks, accept, DialledApart, InAccept, InTaken
  <1> QED BY <1>1, <1>2, <1>3, <1>4, <1>5, <1>6, <1>7 DEF IndInv

(* A new session is offered, or dropped. *)
LEMMA OfferStep ==
  ASSUME IndInv, NEW i \in Loops, Offer(i)
  PROVE  IndInv'
  <1> USE IndInvParts, SessionsAssumption
  <1>1. /\ loop[i].pc = "offer" /\ loop[i].s \in Sess /\ Pending(i)
        /\ acceptSession \in Seq(Sess) /\ taken \in Seq(Sess) /\ taken' = taken
        /\ dialer' = dialer /\ sess' = sess /\ sessions' = sessions
        /\ loop' = [loop EXCEPT ![i] = Idle]
    BY DEF Offer, LoopKnows, Pending, TypeOK
  <1>2. /\ \A j \in Loops : j # i => loop'[j] = loop[j]
        /\ loop'[i] = Idle /\ ~Pending(i)'
    BY <1>1 DEF TypeOK, Idle, Pending
  <1>3. /\ acceptSession' \in Seq(Sess) /\ Len(acceptSession') <= AcceptBuf
        /\ Once(acceptSession)'
        /\ \A s : InAccept(s)' => InAccept(s) \/ s = loop[i].s
    <2>1. CASE acceptSession' = acceptSession
      BY <1>1, <2>1 DEF TypeOK, OfferedApart, InAccept, Once
    <2>2. CASE /\ Len(acceptSession) < AcceptBuf
               /\ acceptSession' = Append(acceptSession, loop[i].s)
      <3>1. /\ acceptSession' \in Seq(Sess) /\ Len(acceptSession) \in Nat
            /\ Len(acceptSession') = Len(acceptSession) + 1
            /\ \A n \in 1..Len(acceptSession) : acceptSession'[n] = acceptSession[n]
            /\ acceptSession'[Len(acceptSession) + 1] = loop[i].s
            /\ DOMAIN acceptSession = 1..Len(acceptSession)
        BY <1>1, <2>2, AppendProperties, LenProperties
      <3>2. DOMAIN acceptSession' = 1..(Len(acceptSession) + 1)
        BY <3>1, LenProperties
      <3>3. \A n \in DOMAIN acceptSession' :
              n \in DOMAIN acceptSession \/ n = Len(acceptSession) + 1
        BY <3>1, <3>2
      <3>4. \A n \in DOMAIN acceptSession : acceptSession[n] # loop[i].s
        BY <1>1 DEF PendingApart, InAccept
      <3>5. Once(acceptSession)'
        BY <3>1, <3>3, <3>4 DEF OfferedApart, Once
      <3>6. \A s : InAccept(s)' => InAccept(s) \/ s = loop[i].s
        BY <3>1, <3>3 DEF InAccept
      <3>7. Len(acceptSession') <= AcceptBuf
        BY <2>2, <3>1, SessionsAssumption
      <3> QED BY <3>1, <3>5, <3>6, <3>7
    <2> QED BY <2>1, <2>2 DEF Offer
  <1>4. \A s : InTaken(s)' = InTaken(s)
    BY <1>1 DEF InTaken
  <1>5. TypeOK'
    BY <1>1, <1>3 DEF Offer, listen, locks, TypeOK, Sess, Idle
  <1>6. LoopKnows'
    BY <1>1, <1>2 DEF Offer, locks, LoopKnows, Sess, Idle
  <1>7. DialerKnows'
    BY <1>1 DEF DialerKnows, Sess
  <1>8. CreatedAllowed'
    BY <1>2 DEF Offer, listen, CreatedAllowed, Idle
  <1>9. OfferedApart'
    <2>1. Once(taken)'
      BY <1>1 DEF OfferedApart, Once
    <2>2. ~InTaken(loop[i].s)
      BY <1>1 DEF PendingApart
    <2> QED BY <1>1, <1>3, <1>4, <2>1, <2>2 DEF OfferedApart, Sess
  <1>10. PendingApart'
    <2>1. \A j \in Loops : Pending(j)' => j # i /\ Pending(j) /\ loop'[j] = loop[j]
      BY <1>2 DEF Pending
    <2>2. \A j \in Loops : j # i /\ Pending(j) => loop[j].s # loop[i].s
      BY <1>1 DEF PendingApart
    <2> QED BY <1>1, <1>3, <1>4, <2>1, <2>2 DEF PendingApart
  <1>11. DialledApart'
    <2>1. \A d \in Dialers : dialer[d].s # loop[i].s
      BY <1>1 DEF PendingApart
    <2> QED BY <1>1, <1>3, <1>4, <2>1 DEF DialledApart
  <1> QED BY <1>5, <1>6, <1>7, <1>8, <1>9, <1>10, <1>11 DEF IndInv

(* The loop ends. *)
LEMMA LoopEndsStep ==
  ASSUME IndInv, NEW i \in Loops, LoopEnds(i)
  PROVE  IndInv'
  <1> USE IndInvParts, SessionsAssumption
  <1>1. TypeOK'
    <2>1. loop \in [Loops -> LoopRec]
      BY DEF TypeOK, LoopRec
    <2>2. loop' \in [Loops -> LoopRec]
      BY <2>1 DEF LoopEnds, LoopRec
    <2> QED BY <2>2 DEF LoopEnds, listen, locks, accept, TypeOK, Sess, LoopRec
  <1>2. LoopKnows'
    BY DEF TypeOK, LoopEnds, listen, locks, accept, LoopKnows, Sess, Idle
  <1>3. DialerKnows'
    BY DEF TypeOK, LoopEnds, listen, locks, accept, DialerKnows, Sess
  <1>4. CreatedAllowed'
    BY DEF TypeOK, LoopEnds, listen, locks, accept, CreatedAllowed, Idle
  <1>5. OfferedApart'
    BY DEF TypeOK, LoopEnds, listen, locks, accept, OfferedApart, Sess, Once, InAccept, InTaken
  <1>6. PendingApart'
    BY DEF TypeOK, LoopEnds, listen, locks, accept, PendingApart, Pending, InAccept, InTaken, Idle
  <1>7. DialledApart'
    BY DEF TypeOK, LoopEnds, listen, locks, accept, DialledApart, InAccept, InTaken
  <1> QED BY <1>1, <1>2, <1>3, <1>4, <1>5, <1>6, <1>7 DEF IndInv

(* Dial creates a session. *)
LEMMA DialNewSessionStep ==
  ASSUME IndInv, NEW d \in Dialers, DialNewSession(d)
  PROVE  IndInv'
  <1> USE IndInvParts, SessionsAssumption
  <1>1. /\ dialer[d].pc = "idle" /\ sess' = NewSession
        /\ dialer' = [dialer EXCEPT ![d] = [pc |-> "put", s |-> Fresh]]
        /\ sessions' = sessions /\ loop' = loop /\ sessionLock' = sessionLock
        /\ acceptSession' = acceptSession /\ taken' = taken
    BY DEF DialNewSession, locks, accept
  <1>2. /\ sess' \in Seq({"open", "closed"})
        /\ Sess' = Sess \cup {Fresh} /\ Fresh \notin Sess
    BY <1>1, NewSessionType
  <1>3. /\ ~InAccept(Fresh) /\ ~InTaken(Fresh)
        /\ \A j \in Loops : loop[j].s # Fresh
    BY FreshIsNew
  <1>4. /\ dialer'[d].pc = "put" /\ dialer'[d].s = Fresh
        /\ \A e \in Dialers : e # d => dialer'[e] = dialer[e]
    BY <1>1 DEF TypeOK
  <1>5. \A s : InAccept(s)' = InAccept(s) /\ InTaken(s)' = InTaken(s)
    BY <1>1 DEF InAccept, InTaken
  <1>6. TypeOK'
    <2>1. acceptSession \in Seq(Sess') /\ taken \in Seq(Sess')
      BY <1>2, SeqMonotonic DEF TypeOK
    <2>2. dialer' \in [Dialers -> [pc : {"idle", "put", "dial", "done"},
                                   s : Sess' \cup {NoSess}]]
      BY <1>1, <1>2 DEF TypeOK
    <2>3. loop \in [Loops -> LoopRec]
      BY DEF TypeOK, LoopRec
    <2>4. loop \in [Loops -> LoopRec']
      BY <1>2, <2>3 DEF LoopRec
    <2>5. sessions \in [Key -> Sess' \cup {NoSess}]
      BY <1>2 DEF TypeOK
    <2> QED BY <1>1, <1>2, <2>1, <2>2, <2>4, <2>5
         DEF DialNewSession, listen, locks, accept, TypeOK, LoopRec
  <1>7. LoopKnows'
    BY <1>1, <1>2 DEF LoopKnows
  <1>8. DialerKnows'
    BY <1>1, <1>2, <1>4 DEF DialerKnows
  <1>9. CreatedAllowed'
    BY <1>1, <1>2, <1>3, <1>4, <1>5 DEF TypeOK, DialNewSession, listen, locks, accept, CreatedAllowed, Idle
  <1>10. OfferedApart'
    BY <1>1, <1>2, <1>3, <1>5 DEF OfferedApart, Once
  <1>11. PendingApart'
    <2>1. \A j \in Loops : Pending(j)' = Pending(j)
      BY <1>1 DEF Pending
    <2> QED BY <1>1, <1>3, <1>4, <1>5, <2>1 DEF PendingApart
  <1>12. DialledApart'
    BY <1>3, <1>4, <1>5 DEF DialledApart
  <1> QED BY <1>6, <1>7, <1>8, <1>9, <1>10, <1>11, <1>12 DEF IndInv

(* Dial puts it into the map. *)
LEMMA DialPutStep ==
  ASSUME IndInv, NEW d \in Dialers, DialPut(d)
  PROVE  IndInv'
  <1> USE IndInvParts, SessionsAssumption
  <1>1. TypeOK'
    BY ZenonT(40) DEF DialPut, listen, locks, accept, TypeOK, Sess, Idle
  <1>2. LoopKnows'
    BY DEF TypeOK, DialPut, listen, locks, accept, LoopKnows, Sess, Idle
  <1>3. DialerKnows'
    BY DEF TypeOK, DialPut, listen, locks, accept, DialerKnows, Sess
  <1>4. CreatedAllowed'
    BY DEF TypeOK, DialPut, listen, locks, accept, CreatedAllowed, Idle
  <1>5. OfferedApart'
    BY DEF TypeOK, DialPut, listen, locks, accept, OfferedApart, Sess, Once, InAccept, InTaken
  <1>6. PendingApart'
    BY DEF TypeOK, DialPut, listen, locks, accept, PendingApart, Pending, InAccept, InTaken, Idle
  <1>7. DialledApart'
    BY DEF TypeOK, DialPut, listen, locks, accept, DialledApart, InAccept, InTaken
  <1> QED BY <1>1, <1>2, <1>3, <1>4, <1>5, <1>6, <1>7 DEF IndInv

(* Dial returns. *)
LEMMA DialReturnsStep ==
  ASSUME IndInv, NEW d \in Dialers, DialReturns(d)
  PROVE  IndInv'
  <1> USE IndInvParts, SessionsAssumption
  <1>1. TypeOK'
    BY ZenonT(40) DEF DialReturns, listen, locks, accept, TypeOK, Sess, Idle
  <1>2. LoopKnows'
    BY DEF TypeOK, DialReturns, listen, locks, accept, LoopKnows, Sess, Idle
  <1>3. DialerKnows'
    BY DEF TypeOK, DialReturns, listen, locks, accept, DialerKnows, Sess
  <1>4. CreatedAllowed'
    BY DEF TypeOK, DialReturns, listen, locks, accept, CreatedAllowed, Idle
  <1>5. OfferedApart'
    BY DEF TypeOK, DialReturns, listen, locks, accept, OfferedApart, Sess, Once, InAccept, InTaken
  <1>6. PendingApart'
    BY DEF TypeOK, DialReturns, listen, locks, accept, PendingApart, Pending, InAccept, InTaken, Idle
  <1>7. DialledApart'
    BY DEF TypeOK, DialReturns, listen, locks, accept, DialledApart, InAccept, InTaken
  <1> QED BY <1>1, <1>2, <1>3, <1>4, <1>5, <1>6, <1>7 DEF IndInv

(* AcceptSession is called. *)
LEMMA AcceptCalledStep ==
  ASSUME IndInv, AcceptCalled
  PROVE  IndInv'
  <1> USE IndInvParts, SessionsAssumption
  <1>1. TypeOK'
    BY DEF AcceptCalled, listen, locks, TypeOK, Sess, Idle
  <1>2. LoopKnows'
    BY DEF TypeOK, AcceptCalled, listen, locks, LoopKnows, Sess, Idle
  <1>3. DialerKnows'
    BY DEF TypeOK, AcceptCalled, listen, locks, DialerKnows, Sess
  <1>4. CreatedAllowed'
    BY DEF TypeOK, AcceptCalled, listen, locks, CreatedAllowed, Idle
  <1>5. OfferedApart'
    BY DEF TypeOK, AcceptCalled, listen, locks, OfferedApart, Sess, Once, InAccept, InTaken
  <1>6. PendingApart'
    BY DEF TypeOK, AcceptCalled, listen, locks, PendingApart, Pending, InAccept, InTaken, Idle
  <1>7. DialledApart'
    BY DEF TypeOK, AcceptCalled, listen, locks, DialledApart, InAccept, InTaken
  <1> QED BY <1>1, <1>2, <1>3, <1>4, <1>5, <1>6, <1>7 DEF IndInv

(* AcceptSession receives a session. *)
LEMMA AcceptTakeStep ==
  ASSUME IndInv, NEW to \in {"idle", "select"}, AcceptTake(to)
  PROVE  IndInv'
  <1> USE IndInvParts, SessionsAssumption
  <1>1. TypeOK'
    BY DEF AcceptTake, listen, locks, TypeOK, Sess, Idle
  <1>2. LoopKnows'
    BY DEF TypeOK, AcceptTake, listen, locks, LoopKnows, Sess, Idle
  <1>3. DialerKnows'
    BY DEF TypeOK, AcceptTake, listen, locks, DialerKnows, Sess
  <1>4. CreatedAllowed'
    BY DEF TypeOK, AcceptTake, listen, locks, CreatedAllowed, Idle
  <1>5. OfferedApart'
    <2> DEFINE h == Head(acceptSession)
    <2>1. /\ acceptSession # <<>> /\ acceptSession \in Seq(Sess) /\ taken \in Seq(Sess)
          /\ taken' = Append(taken, h) /\ acceptSession' = Tail(acceptSession)
          /\ sess' = sess
      BY DEF AcceptTake, TypeOK
    <2>2. /\ Len(acceptSession) \in Nat /\ Len(taken) \in Nat
          /\ DOMAIN acceptSession = 1..Len(acceptSession)
          /\ DOMAIN taken = 1..Len(taken) /\ Len(acceptSession) # 0
      BY <2>1, LenProperties, EmptySeq
    <2>3. /\ h \in Sess /\ h = acceptSession[1]
          /\ acceptSession' \in Seq(Sess) /\ Len(acceptSession') = Len(acceptSession) - 1
          /\ \A n \in 1..Len(acceptSession') : acceptSession'[n] = acceptSession[n + 1]
      BY <2>1, HeadTailProperties
    <2>4. DOMAIN acceptSession' = 1..(Len(acceptSession) - 1)
      BY <2>3, LenProperties
    <2>5. /\ taken' \in Seq(Sess) /\ Len(taken') = Len(taken) + 1
          /\ \A n \in 1..Len(taken) : taken'[n] = taken[n]
          /\ taken'[Len(taken) + 1] = h
      BY <2>1, <2>3, AppendProperties
    <2>6. DOMAIN taken' = 1..(Len(taken) + 1)
      BY <2>5, LenProperties
    <2> HIDE DEF h
    <2>7. Once(acceptSession) /\ Once(taken) /\ InAccept(h)
      <3>1. 1 \in DOMAIN acceptSession
        BY <2>2
      <3> QED BY <2>3, <3>1 DEF OfferedApart, InAccept
    <2>8. ~InTaken(h)
      BY <2>3, <2>7 DEF OfferedApart
    <2>9. \A n \in DOMAIN acceptSession' :
            /\ n + 1 \in DOMAIN acceptSession /\ n + 1 # 1 /\ n \in Int
            /\ acceptSession'[n] = acceptSession[n + 1]
      BY <2>2, <2>3, <2>4
    <2>10. Once(acceptSession)'
      <3> SUFFICES ASSUME NEW m \in DOMAIN acceptSession', NEW n \in DOMAIN acceptSession',
                          acceptSession'[m] = acceptSession'[n]
                   PROVE  m = n
        BY DEF Once
      <3>1. m + 1 = n + 1
        BY <2>7, <2>9 DEF Once
      <3> QED BY <2>9, <3>1
    <2>11. \A s : InAccept(s)' => InAccept(s) /\ s # h
      <3> SUFFICES ASSUME NEW n \in DOMAIN acceptSession'
                   PROVE  /\ InAccept(acceptSession'[n])
                          /\ acceptSession'[n] # h
        BY DEF InAccept
      <3>1. 1 \in DOMAIN acceptSession
        BY <2>2
      <3> QED BY <2>3, <2>7, <2>9, <3>1 DEF Once, InAccept
    <2>12. \A n \in DOMAIN taken' :
             \/ n \in DOMAIN taken /\ taken'[n] = taken[n] /\ taken[n] # h
             \/ n = Len(taken) + 1 /\ taken'[n] = h
      <3>1. \A n \in DOMAIN taken : taken[n] # h
        BY <2>8 DEF InTaken
      <3> QED BY <2>2, <2>5, <2>6, <3>1
    <2>13. Once(taken)'
      BY <2>7, <2>12 DEF Once
    <2>14. \A s : InTaken(s)' => InTaken(s) \/ s = h
      BY <2>12 DEF InTaken
    <2>15. Sess' = Sess
      BY <2>1 DEF Sess
    <2> QED BY <2>10, <2>11, <2>13, <2>14, <2>15 DEF OfferedApart
  <1>6. PendingApart'
    BY DEF TypeOK, AcceptTake, listen, locks, PendingApart, Pending, InAccept, InTaken, Idle
  <1>7. DialledApart'
    BY DEF TypeOK, AcceptTake, listen, locks, DialledApart, InAccept, InTaken
  <1> QED BY <1>1, <1>2, <1>3, <1>4, <1>5, <1>6, <1>7 DEF IndInv

(* AcceptSession returns ErrClosed. *)
LEMMA AcceptClosedStep ==
  ASSUME IndInv, AcceptClosed
  PROVE  IndInv'
  <1> USE IndInvParts, SessionsAssumption
  <1>1. TypeOK'
    BY DEF AcceptClosed, listen, locks, TypeOK, Sess, Idle
  <1>2. LoopKnows'
    BY DEF TypeOK, AcceptClosed, listen, locks, LoopKnows, Sess, Idle
  <1>3. DialerKnows'
    BY DEF TypeOK, AcceptClosed, listen, locks, DialerKnows, Sess
  <1>4. CreatedAllowed'
    BY DEF TypeOK, AcceptClosed, listen, locks, CreatedAllowed, Idle
  <1>5. OfferedApart'
    BY DEF TypeOK, AcceptClosed, listen, locks, OfferedApart, Sess, Once, InAccept, InTaken
  <1>6. PendingApart'
    BY DEF TypeOK, AcceptClosed, listen, locks, PendingApart, Pending, InAccept, InTaken, Idle
  <1>7. DialledApart'
    BY DEF TypeOK, AcceptClosed, listen, locks, DialledApart, InAccept, InTaken
  <1> QED BY <1>1, <1>2, <1>3, <1>4, <1>5, <1>6, <1>7 DEF IndInv

(* Listen writes m.acceptAddrs. *)
LEMMA ListenWritesStep ==
  ASSUME IndInv, NEW addrs \in SUBSET Remote, ListenWrites(addrs)
  PROVE  IndInv'
  <1> USE IndInvParts, SessionsAssumption
  <1>1. TypeOK'
    BY DEF ListenWrites, accept, TypeOK, Sess, Idle
  <1>2. LoopKnows'
    BY DEF TypeOK, ListenWrites, accept, LoopKnows, Sess, Idle
  <1>3. DialerKnows'
    BY DEF TypeOK, ListenWrites, accept, DialerKnows, Sess
  <1>4. CreatedAllowed'
    BY DEF TypeOK, ListenWrites, accept, CreatedAllowed, Idle
  <1>5. OfferedApart'
    BY DEF TypeOK, ListenWrites, accept, OfferedApart, Sess, Once, InAccept, InTaken
  <1>6. PendingApart'
    BY DEF TypeOK, ListenWrites, accept, PendingApart, Pending, InAccept, InTaken, Idle
  <1>7. DialledApart'
    BY DEF TypeOK, ListenWrites, accept, DialledApart, InAccept, InTaken
  <1> QED BY <1>1, <1>2, <1>3, <1>4, <1>5, <1>6, <1>7 DEF IndInv

(* Listen returns. *)
LEMMA ListenReturnsStep ==
  ASSUME IndInv, ListenReturns
  PROVE  IndInv'
  <1> USE IndInvParts, SessionsAssumption
  <1>1. TypeOK'
    BY DEF ListenReturns, accept, TypeOK, Sess, Idle
  <1>2. LoopKnows'
    BY DEF TypeOK, ListenReturns, accept, LoopKnows, Sess, Idle
  <1>3. DialerKnows'
    BY DEF TypeOK, ListenReturns, accept, DialerKnows, Sess
  <1>4. CreatedAllowed'
    BY DEF TypeOK, ListenReturns, accept, CreatedAllowed, Idle
  <1>5. OfferedApart'
    BY DEF TypeOK, ListenReturns, accept, OfferedApart, Sess, Once, InAccept, InTaken
  <1>6. PendingApart'
    BY DEF TypeOK, ListenReturns, accept, PendingApart, Pending, InAccept, InTaken, Idle
  <1>7. DialledApart'
    BY DEF TypeOK, ListenReturns, accept, DialledApart, InAccept, InTaken
  <1> QED BY <1>1, <1>2, <1>3, <1>4, <1>5, <1>6, <1>7 DEF IndInv

(* Close takes m.lock. *)
LEMMA CloseLocksStep ==
  ASSUME IndInv, CloseLocks
  PROVE  IndInv'
  <1> USE IndInvParts, SessionsAssumption
  <1>1. TypeOK'
    BY DEF CloseLocks, listen, accept, TypeOK, Sess, Idle
  <1>2. LoopKnows'
    BY DEF TypeOK, CloseLocks, listen, accept, LoopKnows, Sess, Idle
  <1>3. DialerKnows'
    BY DEF TypeOK, CloseLocks, listen, accept, DialerKnows, Sess
  <1>4. CreatedAllowed'
    BY DEF TypeOK, CloseLocks, listen, accept, CreatedAllowed, Idle
  <1>5. OfferedApart'
    BY DEF TypeOK, CloseLocks, listen, accept, OfferedApart, Sess, Once, InAccept, InTaken
  <1>6. PendingApart'
    BY DEF TypeOK, CloseLocks, listen, accept, PendingApart, Pending, InAccept, InTaken, Idle
  <1>7. DialledApart'
    BY DEF TypeOK, CloseLocks, listen, accept, DialledApart, InAccept, InTaken
  <1> QED BY <1>1, <1>2, <1>3, <1>4, <1>5, <1>6, <1>7 DEF IndInv

(* Close closes the sessions of the map. *)
LEMMA CloseSessionsStep ==
  ASSUME IndInv, CloseSessions
  PROVE  IndInv'
  <1> USE IndInvParts, SessionsAssumption
  <1>1. TypeOK'
    <2>1. Len(sess) \in Nat /\ DOMAIN sess = 1..Len(sess)
          /\ \A s \in 1..Len(sess) : sess[s] \in {"open", "closed"}
      BY LenProperties DEF TypeOK
    <2>2. sess' = [s \in 1..Len(sess) |-> IF s \in InMap THEN "closed" ELSE sess[s]]
      BY <2>1 DEF CloseSessions
    <2>3. sess' \in [1..Len(sess) -> {"open", "closed"}]
      BY <2>1, <2>2
    <2>4. sess' \in Seq({"open", "closed"}) /\ Sess' = Sess
      BY <2>1, <2>2, <2>3, SeqDef DEF Sess
    <2> QED BY <2>4 DEF CloseSessions, listen, locks, accept, TypeOK
  <1>2. LoopKnows'
    BY DEF TypeOK, CloseSessions, listen, locks, accept, LoopKnows, Sess, Idle
  <1>3. DialerKnows'
    BY DEF TypeOK, CloseSessions, listen, locks, accept, DialerKnows, Sess
  <1>4. CreatedAllowed'
    BY DEF TypeOK, CloseSessions, listen, locks, accept, CreatedAllowed, Idle
  <1>5. OfferedApart'
    BY DEF TypeOK, CloseSessions, listen, locks, accept, OfferedApart, Sess, Once, InAccept, InTaken
  <1>6. PendingApart'
    BY DEF TypeOK, CloseSessions, listen, locks, accept, PendingApart, Pending, InAccept, InTaken, Idle
  <1>7. DialledApart'
    BY DEF TypeOK, CloseSessions, listen, locks, accept, DialledApart, InAccept, InTaken
  <1> QED BY <1>1, <1>2, <1>3, <1>4, <1>5, <1>6, <1>7 DEF IndInv

(* Close returns. *)
LEMMA CloseReturnsStep ==
  ASSUME IndInv, CloseReturns
  PROVE  IndInv'
  <1> USE IndInvParts, SessionsAssumption
  <1>1. TypeOK'
    BY DEF CloseReturns, listen, accept, TypeOK, Sess, Idle
  <1>2. LoopKnows'
    BY DEF TypeOK, CloseReturns, listen, accept, LoopKnows, Sess, Idle
  <1>3. DialerKnows'
    BY DEF TypeOK, CloseReturns, listen, accept, DialerKnows, Sess
  <1>4. CreatedAllowed'
    BY DEF TypeOK, CloseReturns, listen, accept, CreatedAllowed, Idle
  <1>5. OfferedApart'
    BY DEF TypeOK, CloseReturns, listen, accept, OfferedApart, Sess, Once, InAccept, InTaken
  <1>6. PendingApart'
    BY DEF TypeOK, CloseReturns, listen, accept, PendingApart, Pending, InAccept, InTaken, Idle
  <1>7. DialledApart'
    BY DEF TypeOK, CloseReturns, listen, accept, DialledApart, InAccept, InTaken
  <1> QED BY <1>1, <1>2, <1>3, <1>4, <1>5, <1>6, <1>7 DEF IndInv

(* In the initial states there are no sessions. *)
LEMMA InitInv == Init => IndInv
  <1> SUFFICES ASSUME Init PROVE IndInv
    OBVIOUS
  <1>1. /\ sess \in Seq({"open", "closed"}) /\ Sess = {}
        /\ acceptSession \in Seq(Sess) /\ taken \in Seq(Sess)
        /\ Len(acceptSession) = 0 /\ DOMAIN acceptSession = {} /\ DOMAIN taken = {}
    BY EmptySeq DEF Init, Sess
  <1>2. TypeOK
    <2>1. sessions \in [Key -> Sess \cup {NoSess}]
      BY DEF Init
    <2>2. Idle \in LoopRec
      BY DEF LoopRec, Idle
    <2>3. loop \in [Loops -> LoopRec]
      BY <2>2 DEF Init
    <2>4. dialer \in [Dialers -> [pc : {"idle", "put", "dial", "done"},
                                  s : Sess \cup {NoSess}]]
      BY DEF Init
    <2>5. Len(acceptSession) <= AcceptBuf
      BY <1>1, SessionsAssumption
    <2>6. /\ acceptAddrs \subseteq Remote /\ newAddrs \subseteq Remote
          /\ allowed \subseteq Remote
      BY DEF Init
    <2>7. /\ mLock = "free" /\ sessionLock = "free" /\ isClosed = FALSE
          /\ acceptor = "idle" /\ closer = "idle" /\ panicked = FALSE
      BY DEF Init
    <2> QED BY <1>1, <2>1, <2>3, <2>4, <2>5, <2>6, <2>7 DEF TypeOK, LoopRec
  <1>3. LoopKnows /\ DialerKnows /\ CreatedAllowed
    BY SessionsAssumption DEF Init, LoopKnows, DialerKnows, CreatedAllowed, Idle, Key
  <1>4. OfferedApart
    BY <1>1 DEF OfferedApart, Once, InAccept, InTaken
  <1>5. PendingApart
    BY DEF Init, PendingApart, Pending, Idle
  <1>6. DialledApart
    BY <1>1 DEF DialledApart, InAccept, InTaken
  <1> QED BY <1>2, <1>3, <1>4, <1>5, <1>6 DEF IndInv

(* Every step keeps the invariant. *)
LEMMA NextInv == IndInv /\ [Next]_vars => IndInv'
  <1> SUFFICES ASSUME IndInv, [Next]_vars PROVE IndInv'
    OBVIOUS
  <1>1. CASE UNCHANGED vars
    <2>1. /\ TypeOK' /\ LoopKnows' /\ DialerKnows' /\ CreatedAllowed'
      BY <1>1, IndInvParts
      DEF vars, TypeOK, LoopKnows, DialerKnows, CreatedAllowed, Sess
    <2>2. OfferedApart' /\ PendingApart' /\ DialledApart'
      BY <1>1, IndInvParts
      DEF vars, OfferedApart, PendingApart, DialledApart, Once, InAccept, InTaken, Pending, Sess
    <2> QED BY <2>1, <2>2 DEF IndInv
  <1>2. ASSUME NEW i \in Loops, NEW k \in Key, Lookup(i, k) \/ LookupPanics(i, k)
        PROVE  IndInv'
    BY <1>2, LookupStep, LookupPanicsStep
  <1>3. ASSUME NEW i \in Loops, HandleSessionMsg(i) \/ LoopEnds(i)
        PROVE  IndInv'
    BY <1>3, CreateSessionStep, CreateSessionFailsStep, ReceiveStep, ReceiveFailsStep,
       OfferStep, LoopEndsStep DEF HandleSessionMsg
  <1>4. ASSUME NEW d \in Dialers, Dial(d)
        PROVE  IndInv'
    BY <1>4, DialNewSessionStep, DialPutStep, DialReturnsStep DEF Dial
  <1>5. CASE AcceptCalled
    BY <1>5, AcceptCalledStep
  <1>6. CASE AcceptSession
    BY <1>6, AcceptTakeStep, AcceptClosedStep DEF AcceptSession
  <1>7. ASSUME NEW addrs \in SUBSET Remote, ListenWrites(addrs)
        PROVE  IndInv'
    BY <1>7, ListenWritesStep
  <1>8. CASE ListenReturns
    BY <1>8, ListenReturnsStep
  <1>9. CASE Close
    BY <1>9, CloseLocksStep, CloseSessionsStep, CloseReturnsStep DEF Close
  <1> QED BY <1>1, <1>2, <1>3, <1>4, <1>5, <1>6, <1>7, <1>8, <1>9 DEF Next

(* The invariant holds in every state. *)
THEOREM Invariance == Spec => []IndInv
  BY InitInv, NextInv, PTL DEF Spec

(* Every session that a receive loop, a call of Dial, the map, the channel *)
(* or the result of AcceptSession refers to exists; the channel holds at   *)
(* most its capacity.                                                      *)
THEOREM TypeCorrect == Spec => []TypeOK
  <1>1. IndInv => TypeOK
    BY DEF IndInv
  <1> QED BY <1>1, Invariance, PTL

(* What was offered is in the channel, or was received from it. *)
LEMMA OfferedWhere ==
  ASSUME TypeOK, NEW n \in DOMAIN Offered
  PROVE  /\ n \in Nat /\ Offered[n] \in Sess
         /\ \/ n \in DOMAIN acceptSession /\ Offered[n] = acceptSession[n]
            \/ /\ n > Len(acceptSession) /\ n - Len(acceptSession) \in DOMAIN taken
               /\ Offered[n] = taken[n - Len(acceptSession)]
  <1>1. acceptSession \in Seq(Sess) /\ taken \in Seq(Sess)
    BY DEF TypeOK
  <1>2. /\ Len(acceptSession) \in Nat /\ DOMAIN acceptSession = 1..Len(acceptSession)
        /\ Len(taken) \in Nat /\ DOMAIN taken = 1..Len(taken)
    BY <1>1, LenProperties
  <1>3. /\ Offered \in Seq(Sess) /\ Len(Offered) = Len(acceptSession) + Len(taken)
        /\ \A m \in 1 .. Len(acceptSession) + Len(taken) :
             Offered[m] = IF m <= Len(acceptSession) THEN acceptSession[m]
                                                     ELSE taken[m - Len(acceptSession)]
    BY <1>1, ConcatProperties DEF Offered
  <1>4. DOMAIN Offered = 1 .. Len(acceptSession) + Len(taken)
    BY <1>3, LenProperties
  <1>5. Offered[n] \in Sess
    BY <1>3, <1>4, ElementOfSeq
  <1> QED BY <1>2, <1>3, <1>4, <1>5

(* AcceptSession gets a session at most once, and none that was dialled    *)
(* from here, whatever the receive loops and Dial do at the same time.     *)
THEOREM IsOfferedOnce == Spec => []OfferedOnce
  <1>1. IndInv => OfferedOnce
    <2> SUFFICES ASSUME IndInv PROVE OfferedOnce
      OBVIOUS
    <2> USE IndInvParts
    <2>1. ASSUME NEW m \in DOMAIN Offered, NEW n \in DOMAIN Offered,
                 Offered[m] = Offered[n]
          PROVE  m = n
      <3> DEFINE a == Len(acceptSession)
      <3>1. a \in Nat
        BY LenProperties DEF TypeOK
      <3>2. CASE m \in DOMAIN acceptSession /\ Offered[m] = acceptSession[m]
        <4>1. InAccept(Offered[m]) /\ Offered[m] \in Sess
          BY <3>2, OfferedWhere DEF InAccept
        <4>2. ~InTaken(Offered[n])
          BY <4>1, <2>1 DEF OfferedApart
        <4>3. n \in DOMAIN acceptSession /\ Offered[n] = acceptSession[n]
          BY <4>2, OfferedWhere DEF InTaken
        <4> QED BY <3>2, <4>3, <2>1 DEF OfferedApart, Once
      <3>3. CASE m - a \in DOMAIN taken /\ Offered[m] = taken[m - a]
        <4>1. InTaken(Offered[m]) /\ Offered[m] \in Sess
          BY <3>3, OfferedWhere DEF InTaken
        <4>2. ~InAccept(Offered[n])
          BY <4>1, <2>1 DEF OfferedApart
        <4>3. n - a \in DOMAIN taken /\ Offered[n] = taken[n - a]
          BY <4>2, OfferedWhere DEF InAccept
        <4>4. m - a = n - a
          BY <3>3, <4>3, <2>1 DEF OfferedApart, Once
        <4>5. m \in Nat /\ n \in Nat
          BY OfferedWhere
        <4> QED BY <3>1, <4>4, <4>5
      <3> QED BY <3>2, <3>3, OfferedWhere
    <2>2. ASSUME NEW d \in Dialers, NEW n \in DOMAIN Offered
          PROVE  Offered[n] # dialer[d].s
      <3>1. InAccept(Offered[n]) \/ InTaken(Offered[n])
        BY OfferedWhere DEF InAccept, InTaken
      <3> QED BY <3>1 DEF DialledApart
    <2> QED BY <2>1, <2>2 DEF OfferedOnce
  <1> QED BY <1>1, Invariance, PTL

(* A session that AcceptSession gets is of an address that some Listen     *)
(* allowed, although m.acceptAddrs is read without its lock.               *)
THEOREM IsOfferedAllowed == Spec => []OfferedAllowed
  <1>1. IndInv => OfferedAllowed
    <2> SUFFICES ASSUME IndInv, NEW k \in RemoteKey, NEW n \in DOMAIN Offered,
                        Offered[n] = sessions[k]
                 PROVE  Addr[k] \in allowed
      BY DEF OfferedAllowed
    <2>1. Offered[n] \in Sess /\ NoSess \notin Sess
      BY IndInvParts, OfferedWhere, SessNumbers
    <2> QED BY <2>1, IndInvParts DEF CreatedAllowed
  <1> QED BY <1>1, Invariance, PTL

(* A session that was created for a key is never replaced by another one:  *)
(* a loop creates one under the sessionLock that it looked the key up      *)
(* with, and the key of a call of Dial is its own.                         *)
THEOREM IsOneSessionPerKey == Spec => OneSessionPerKey
  <1> DEFINE Kept == \A k \in Key : sessions[k] # NoSess => sessions'[k] = sessions[k]
  <1>1. IndInv /\ [Next]_vars => [Kept]_vars
    <2> SUFFICES ASSUME IndInv, Next PROVE Kept
      OBVIOUS
    <2>1. ASSUME NEW i \in Loops, CreateSession(i)
          PROVE  Kept
      <3>1. sessions[loop[i].key] = NoSess
        BY <2>1, IndInvParts DEF CreateSession, LoopKnows
      <3>2. sessions' = [sessions EXCEPT ![loop[i].key] = Fresh]
        BY <2>1 DEF CreateSession
      <3>3. DOMAIN sessions = Key
        BY IndInvParts DEF TypeOK
      <3> QED BY <3>1, <3>2, <3>3
    <2>2. ASSUME NEW d \in Dialers, DialPut(d)
          PROVE  Kept
      <3>1. sessions[d] = NoSess
        BY <2>2, IndInvParts DEF DialPut, DialerKnows
      <3>2. sessions' = [sessions EXCEPT ![d] = dialer[d].s]
        BY <2>2 DEF DialPut
      <3>3. DOMAIN sessions = Key
        BY IndInvParts DEF TypeOK
      <3> QED BY <3>1, <3>2, <3>3
    <2>3. CASE sessions' = sessions
      BY <2>3
    <2>4. ASSUME NEW i \in Loops, HandleSessionMsg(i) \/ LoopEnds(i)
          PROVE  CreateSession(i) \/ sessions' = sessions
      BY <2>4 DEF HandleSessionMsg, CreateSessionFails, Receive, ReceiveFails, Offer, LoopEnds
    <2>5. ASSUME NEW d \in Dialers, Dial(d)
          PROVE  DialPut(d) \/ sessions' = sessions
      BY <2>5 DEF Dial, DialNewSession, DialReturns
    <2>6. ASSUME NEW i \in Loops, NEW k \in Key, Lookup(i, k) \/ LookupPanics(i, k)
          PROVE  sessions' = sessions
      BY <2>6 DEF Lookup, LookupPanics
    <2>7. AcceptCalled \/ AcceptSession \/ Close \/ ListenReturns => sessions' = sessions
      BY DEF AcceptCalled, AcceptSession, AcceptTake, AcceptClosed, ListenReturns,
             Close, CloseLocks, CloseSessions, CloseReturns
    <2>8. ASSUME NEW addrs \in SUBSET Remote, ListenWrites(addrs)
          PROVE  sessions' = sessions
      BY <2>8 DEF ListenWrites
    <2> HIDE DEF Kept
    <2> QED BY <2>1, <2>2, <2>3, <2>4, <2>5, <2>6, <2>7, <2>8 DEF Next
  <1> QED BY <1>1, Invariance, PTL DEF Spec, OneSessionPerKey

-----------------------------------------------------------------------------
(* The deadlock of Close and a receive loop. *)

(* A step of a receive loop leaves m.lock and Close alone; only a lookup   *)
(* that takes sessionLock lets a loop create a session, and only while     *)
(* m.lock is free does one stop creating.                                  *)
LEMMA LoopLocks ==
  ASSUME IndInv, NEW i \in Loops,
         \/ \E k \in Key : Lookup(i, k) \/ LookupPanics(i, k)
         \/ HandleSessionMsg(i) \/ LoopEnds(i)
  PROVE  /\ mLock' = mLock /\ closer' = closer
         /\ \A j \in Loops : j # i => loop'[j] = loop[j]
         /\ \/ sessionLock' = sessionLock /\ Creating(i)' /\ Creating(i)
            \/ sessionLock' = sessionLock /\ ~Creating(i)' /\ ~Creating(i)
            \/ sessionLock' = "loop" /\ Creating(i)' /\ ~Creating(i)
            \/ sessionLock' = "free" /\ Creating(i) /\ mLock = "free"
  <1> USE IndInvParts
  <1>1. loop \in [Loops -> LoopRec]
    BY DEF TypeOK, LoopRec
  <1>2. ASSUME NEW k \in Key, Lookup(i, k)
        PROVE  /\ mLock' = mLock /\ closer' = closer
               /\ \A j \in Loops : j # i => loop'[j] = loop[j]
               /\ ~Creating(i)
               /\ \/ sessionLock' = sessionLock /\ ~Creating(i)'
                  \/ sessionLock' = "loop" /\ Creating(i)'
    BY <1>2, LookupCases DEF Lookup, Creating
  <1>3. ASSUME NEW k \in Key, LookupPanics(i, k)
        PROVE  UNCHANGED <<mLock, sessionLock, closer, loop>> /\ ~Creating(i)
    BY <1>3 DEF LookupPanics, locks, Creating
  <1>4. ASSUME CreateSession(i) \/ CreateSessionFails(i)
        PROVE  /\ mLock' = mLock /\ closer' = closer
               /\ \A j \in Loops : j # i => loop'[j] = loop[j]
               /\ sessionLock' = "free" /\ Creating(i) /\ mLock = "free"
    BY <1>1, <1>4 DEF CreateSession, CreateSessionFails, Creating
  <1>5. ASSUME Receive(i) \/ ReceiveFails(i) \/ Offer(i) \/ LoopEnds(i)
        PROVE  /\ mLock' = mLock /\ closer' = closer /\ sessionLock' = sessionLock
               /\ \A j \in Loops : j # i => loop'[j] = loop[j]
               /\ ~Creating(i)' /\ ~Creating(i)
    BY <1>1, <1>5 DEF Receive, ReceiveFails, Offer, LoopEnds, locks, Creating, Idle, LoopRec
  <1> QED BY <1>2, <1>3, <1>4, <1>5 DEF HandleSessionMsg, Creating

(* Every step keeps LockHolders, and none leads out of the deadlock. *)
LEMMA LocksStep ==
  ASSUME IndInv, LockHolders, [Next]_vars
  PROVE  LockHolders' /\ (Deadlocked => Deadlocked')
  <1> USE IndInvParts
  <1>1. CASE UNCHANGED <<mLock, sessionLock, closer, loop>>
    BY <1>1 DEF LockHolders, Deadlocked, Creating
  <1>2. ASSUME NEW i \in Loops,
               \/ \E k \in Key : Lookup(i, k) \/ LookupPanics(i, k)
               \/ HandleSessionMsg(i) \/ LoopEnds(i)
        PROVE  LockHolders' /\ (Deadlocked => Deadlocked')
    <2>1. /\ mLock' = mLock /\ closer' = closer
          /\ \A j \in Loops : j # i => loop'[j] = loop[j]
          /\ \/ sessionLock' = sessionLock /\ Creating(i)' /\ Creating(i)
             \/ sessionLock' = sessionLock /\ ~Creating(i)' /\ ~Creating(i)
             \/ sessionLock' = "loop" /\ Creating(i)' /\ ~Creating(i)
             \/ sessionLock' = "free" /\ Creating(i) /\ mLock = "free"
      BY <1>2, LoopLocks
    <2>2. \A j \in Loops : j # i => (Creating(j)' <=> Creating(j))
      BY <2>1 DEF Creating
    <2>3. LockHolders'
      BY <2>1, <2>2 DEF LockHolders
    <2>4. Deadlocked => Deadlocked'
      BY <2>1, <2>2 DEF LockHolders, Deadlocked
    <2> QED BY <2>3, <2>4
  <1>3. ASSUME NEW d \in Dialers, Dial(d)
        PROVE  UNCHANGED <<mLock, sessionLock, closer, loop>>
    BY <1>3 DEF Dial, DialNewSession, DialPut, DialReturns, locks
  <1>4. ASSUME AcceptCalled \/ AcceptSession
        PROVE  UNCHANGED <<mLock, sessionLock, closer, loop>>
    BY <1>4 DEF AcceptCalled, AcceptSession, AcceptTake, AcceptClosed, locks
  <1>5. ASSUME NEW addrs \in SUBSET Remote, ListenWrites(addrs)
        PROVE  LockHolders' /\ (Deadlocked => Deadlocked')
    BY <1>5 DEF ListenWrites, LockHolders, Deadlocked, Creating
  <1>6. CASE ListenReturns
    BY <1>6 DEF ListenReturns, LockHolders, Deadlocked, Creating
  <1>7. CASE CloseLocks
    BY <1>7 DEF CloseLocks, LockHolders, Deadlocked, Creating
  <1>8. CASE CloseSessions
    <2>1. ~Deadlocked
      BY <1>8 DEF CloseSessions, Deadlocked, LoopKnows, Creating
    <2>2. LockHolders'
      BY <1>8 DEF CloseSessions, LockHolders, Creating, locks
    <2> QED BY <2>1, <2>2
  <1>9. CASE CloseReturns
    BY <1>9 DEF CloseReturns, LockHolders, Deadlocked, Creating
  <1> QED
    BY <1>1, <1>2, <1>3, <1>4, <1>5, <1>6, <1>7, <1>8, <1>9 DEF Next, Close, vars

(* Who holds the locks, in every state. *)
LEMMA LocksAreHeld == Spec => []LockHolders
  <1>1. Init => LockHolders
    BY DEF Init, LockHolders
  <1>2. IndInv /\ LockHolders /\ [Next]_vars => LockHolders'
    BY LocksStep
  <1> QED BY <1>1, <1>2, Invariance, PTL DEF Spec

(* Close holding m.lock against a loop that holds m.sessionLock is the     *)
(* only deadlock of the two locks: in every other state whoever has one of *)
(* them, in Listen, Close or handleSessionMsg, waits for nobody, or for    *)
(* somebody who waits for nobody.                                          *)
THEOREM OnlyCloseDeadlocks == Spec => []LocksMove
  <1>1. IndInv /\ LockHolders => LocksMove
    BY IndInvParts
    DEF TypeOK, LockHolders, LoopKnows, LocksMove, MLockMoves, SessionLockMoves,
        Deadlocked, Creating
  <1> QED BY <1>1, LocksAreHeld, Invariance, PTL

(* Nothing resolves that deadlock: neither another receive loop, nor Dial, *)
(* AcceptSession or Listen lets Close or the loop go on.                   *)
THEOREM DeadlockStays == Spec => [][Deadlocked => Deadlocked']_vars
  <1>1. IndInv /\ LockHolders /\ [Next]_vars => [Deadlocked => Deadlocked']_vars
    BY LocksStep
  <1> QED BY <1>1, LocksAreHeld, Invariance, PTL DEF Spec
=============================================================================
