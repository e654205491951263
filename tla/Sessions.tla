------------------------------ MODULE Sessions ------------------------------
(***************************************************************************)
(* multiclient.go: the sessions of a MultiClient.  Receive loops in        *)
(* handleSessionMsg, goroutines in Dial and in AcceptSession, Listen and   *)
(* Close, with m.lock and m.sessionLock as locks of their own, because     *)
(* they are nested.  Reads under m.lock (GetClients) are one step.         *)
(*                                                                         *)
(* The ncp protocol is external: a session is open or closed, a closed one *)
(* refuses every call, and an open one may refuse it.                      *)
(***************************************************************************)
EXTENDS Integers, Sequences

CONSTANTS
  Loops,      \* the receive loops
  Remote,     \* remote addresses
  RemoteKey,  \* the keys (address and id) of the sessions that remotes start
  Addr,       \* the address in each of them
  Dialers,    \* calls of Dial; each has a random id, hence a key of its own
  AcceptBuf,  \* the capacity of m.acceptSession
  NoKey, NoSess

Key == RemoteKey \cup Dialers

ASSUME SessionsAssumption ==
  /\ RemoteKey \cap Dialers = {}
  /\ NoKey \notin Key
  /\ Addr \in [RemoteKey -> Remote]
  /\ AcceptBuf \in Nat
  /\ NoSess \notin Nat

VARIABLES
  sess,           \* the sessions, in the order of their creation
  sessions,       \* m.sessions: a number of a session for each key
  acceptSession,  \* the channel
  acceptAddrs,    \* the remote addresses that m.acceptAddrs matches
  newAddrs,       \* those that Listen is writing
  allowed,        \* every address that a Listen allowed
  mLock,          \* who holds m.lock for writing
  sessionLock,    \* who holds m.sessionLock
  isClosed,       \* m.isClosed, and: m.onClose is closed
  loop,           \* the receive loops
  dialer,         \* the calls of Dial
  acceptor,       \* a goroutine that calls AcceptSession
  closer,         \* the caller of Close
  taken,          \* the sessions received from acceptSession, in that order
  panicked        \* a torn read of m.acceptAddrs

vars == <<sess, sessions, acceptSession, acceptAddrs, newAddrs, allowed, mLock,
          sessionLock, isClosed, loop, dialer, acceptor, closer, taken, panicked>>

Idle == [pc |-> "select", key |-> NoKey, s |-> NoSess, new |-> FALSE]

Init ==
  /\ sess = <<>>
  /\ sessions = [k \in Key |-> NoSess]
  /\ acceptSession = <<>>
  /\ acceptAddrs = {} /\ newAddrs = {} /\ allowed = {}
  /\ mLock = "free"
  /\ sessionLock = "free"
  /\ isClosed = FALSE
  /\ loop = [i \in Loops |-> Idle]
  /\ dialer = [d \in Dialers |-> [pc |-> "idle", s |-> NoSess]]
  /\ acceptor = "idle"
  /\ closer = "idle"
  /\ taken = <<>>
  /\ panicked = FALSE

locks  == <<mLock, sessionLock>>
listen == <<acceptAddrs, newAddrs, allowed>>
accept == <<acceptSession, acceptor, taken>>

(* ncp.NewSession: the next session. *)
NewSession == Append(sess, "open")
Fresh      == Len(sess) + 1

-----------------------------------------------------------------------------
(* handleSessionMsg, in a receive loop. *)

(* shouldAcceptAddr reads m.acceptAddrs without m.lock.  While Listen      *)
(* writes it, the read may see a part of either list, or fail.             *)
ShouldAcceptAll(addr) == {TRUE}  \* a mutant

ShouldAccept(addr) ==
  IF mLock = "listen"
    THEN IF addr \in acceptAddrs \cup newAddrs THEN BOOLEAN ELSE {FALSE}
    ELSE {addr \in acceptAddrs}

(* Mutant: sessionLock is not held until the new session is in the map. *)
LookupUnlocks(i, k) ==
  /\ loop[i].pc = "select" /\ sessionLock = "free"
  /\ IF sessions[k] # NoSess
       THEN loop' = [loop EXCEPT ![i] =
                       [pc |-> "receive", key |-> NoKey, s |-> sessions[k], new |-> FALSE]]
       ELSE /\ k \in RemoteKey
            /\ \E yes \in ShouldAccept(Addr[k]) :
                 loop' = IF yes THEN [loop EXCEPT ![i].pc = "newSession", ![i].key = k]
                         ELSE loop
  /\ UNCHANGED <<sess, sessions, listen, mLock, sessionLock, isClosed, dialer,
                 accept, closer, panicked>>

(* A packet for session k arrives; nobody sends one of a session that is   *)
(* not dialled yet.  sessionLock is kept if the session has to be created; *)
(* a packet from an address that is not allowed is ignored.                *)
Lookup(i, k) ==
  /\ loop[i].pc = "select" /\ sessionLock = "free"
  /\ IF sessions[k] # NoSess
       THEN /\ loop' = [loop EXCEPT ![i] =
                 [pc |-> "receive", key |-> NoKey, s |-> sessions[k], new |-> FALSE]]
            /\ UNCHANGED sessionLock
       ELSE /\ k \in RemoteKey
            /\ \E yes \in ShouldAccept(Addr[k]) :
                 IF yes THEN /\ loop' = [loop EXCEPT ![i].pc = "newSession",
                                                     ![i].key = k]
                             /\ sessionLock' = "loop"
                 ELSE UNCHANGED <<loop, sessionLock>>
  /\ UNCHANGED <<sess, sessions, listen, mLock, isClosed, dialer, accept, closer,
                 panicked>>

LookupPanics(i, k) ==
  /\ loop[i].pc = "select" /\ sessionLock = "free"
  /\ k \in RemoteKey /\ sessions[k] = NoSess
  /\ mLock = "listen"
  /\ panicked' = TRUE
  /\ UNCHANGED <<sess, sessions, listen, locks, isClosed, loop, dialer, accept, closer>>

(* newSession, whose GetClients needs m.lock; the session goes into the    *)
(* map and sessionLock is released.                                        *)
CreateSession(i) ==
  /\ loop[i].pc = "newSession" /\ mLock = "free"
  /\ sess' = NewSession
  /\ sessions' = [sessions EXCEPT ![loop[i].key] = Fresh]
  /\ loop' = [loop EXCEPT ![i] =
                [pc |-> "receive", key |-> NoKey, s |-> Fresh, new |-> TRUE]]
  /\ sessionLock' = "free"
  /\ UNCHANGED <<listen, mLock, isClosed, dialer, accept, closer, panicked>>

CreateSessionFails(i) ==
  /\ loop[i].pc = "newSession" /\ mLock = "free"
  /\ loop' = [loop EXCEPT ![i] = Idle]
  /\ sessionLock' = "free"
  /\ UNCHANGED <<sess, sessions, listen, mLock, isClosed, dialer, accept, closer,
                 panicked>>

(* Mutant: every packet's session is offered, not only a new one's. *)
ReceiveOffersAll(i) ==
  /\ loop[i].pc = "receive"
  /\ sess[loop[i].s] = "open"
  /\ loop' = [loop EXCEPT ![i].pc = "offer"]
  /\ UNCHANGED <<sess, sessions, listen, locks, isClosed, dialer, accept, closer,
                 panicked>>

(* session.ReceiveWith, without a lock. *)
Receive(i) ==
  /\ loop[i].pc = "receive"
  /\ sess[loop[i].s] = "open"
  /\ loop' = [loop EXCEPT ![i] = IF loop[i].new THEN [@ EXCEPT !.pc = "offer"] ELSE Idle]
  /\ UNCHANGED <<sess, sessions, listen, locks, isClosed, dialer, accept, closer,
                 panicked>>

(* The packet is no good, or the session is closed; a packet may also      *)
(* close it.                                                               *)
ReceiveFails(i) ==
  /\ loop[i].pc = "receive"
  /\ loop' = [loop EXCEPT ![i] = Idle]
  /\ \E to \in {sess[loop[i].s], "closed"} : sess' = [sess EXCEPT ![loop[i].s] = to]
  /\ UNCHANGED <<sessions, listen, locks, isClosed, dialer, accept, closer, panicked>>

(* Mutant: the channel's capacity is not respected. *)
OfferUnbounded(i) ==
  /\ loop[i].pc = "offer"
  /\ acceptSession' = Append(acceptSession, loop[i].s)
  /\ loop' = [loop EXCEPT ![i] = Idle]
  /\ UNCHANGED <<sess, sessions, listen, locks, isClosed, dialer, acceptor, taken,
                 closer, panicked>>

(* The new session is offered to AcceptSession, or dropped. *)
Offer(i) ==
  /\ loop[i].pc = "offer"
  /\ acceptSession' = IF Len(acceptSession) < AcceptBuf
                        THEN Append(acceptSession, loop[i].s) ELSE acceptSession
  /\ loop' = [loop EXCEPT ![i] = Idle]
  /\ UNCHANGED <<sess, sessions, listen, locks, isClosed, dialer, acceptor, taken,
                 closer, panicked>>

(* m.onClose ends the loop. *)
LoopEnds(i) ==
  /\ isClosed
  /\ loop[i].pc = "select"
  /\ loop' = [loop EXCEPT ![i].pc = "done"]
  /\ UNCHANGED <<sess, sessions, listen, locks, isClosed, dialer, accept, closer,
                 panicked>>

HandleSessionMsg(i) ==
  \/ CreateSession(i) \/ CreateSessionFails(i)
  \/ Receive(i) \/ ReceiveFails(i) \/ Offer(i)

-----------------------------------------------------------------------------
(* DialWithConfig. *)

DialNewSession(d) ==
  /\ dialer[d].pc = "idle" /\ mLock = "free"
  /\ sess' = NewSession
  /\ dialer' = [dialer EXCEPT ![d] = [pc |-> "put", s |-> Fresh]]
  /\ UNCHANGED <<sessions, listen, locks, isClosed, loop, accept, closer, panicked>>

DialPut(d) ==
  /\ dialer[d].pc = "put" /\ sessionLock = "free"
  /\ sessions' = [sessions EXCEPT ![d] = dialer[d].s]
  /\ dialer' = [dialer EXCEPT ![d].pc = "dial"]
  /\ UNCHANGED <<sess, listen, locks, isClosed, loop, accept, closer, panicked>>

(* session.Dial succeeds, fails or times out; the session stays in the map. *)
DialReturns(d) ==
  /\ dialer[d].pc = "dial"
  /\ dialer' = [dialer EXCEPT ![d].pc = "done"]
  /\ UNCHANGED <<sess, sessions, listen, locks, isClosed, loop, accept, closer, panicked>>

Dial(d) == DialNewSession(d) \/ DialPut(d) \/ DialReturns(d)

-----------------------------------------------------------------------------
(* AcceptSession. *)

AcceptCalled ==
  /\ acceptor = "idle"
  /\ acceptor' = "select"
  /\ UNCHANGED <<sess, sessions, listen, locks, isClosed, loop, dialer,
                 acceptSession, taken, closer, panicked>>

(* session.Accept fails for a closed session, and AcceptSession goes on. *)
AcceptTake(to) ==
  /\ acceptor = "select" /\ acceptSession # <<>>
  /\ to = "idle" => sess[Head(acceptSession)] = "open"
  /\ taken' = Append(taken, Head(acceptSession))
  /\ acceptSession' = Tail(acceptSession)
  /\ acceptor' = to
  /\ UNCHANGED <<sess, sessions, listen, locks, isClosed, loop, dialer, closer, panicked>>

(* m.onClose: ErrClosed. *)
AcceptClosed ==
  /\ acceptor = "select" /\ isClosed
  /\ acceptor' = "idle"
  /\ UNCHANGED <<sess, sessions, listen, locks, isClosed, loop, dialer,
                 acceptSession, taken, closer, panicked>>

AcceptSession == AcceptTake("idle") \/ AcceptTake("select") \/ AcceptClosed

-----------------------------------------------------------------------------
(* Listen: m.acceptAddrs is written under m.lock, in more than one store. *)

ListenWrites(addrs) ==
  /\ mLock = "free"
  /\ mLock' = "listen"
  /\ newAddrs' = addrs
  /\ allowed' = allowed \cup addrs
  /\ UNCHANGED <<sess, sessions, acceptAddrs, sessionLock, isClosed, loop, dialer,
                 accept, closer, panicked>>

ListenReturns ==
  /\ mLock = "listen"
  /\ mLock' = "free"
  /\ acceptAddrs' = newAddrs
  /\ newAddrs' = {}
  /\ UNCHANGED <<sess, sessions, allowed, sessionLock, isClosed, loop, dialer,
                 accept, closer, panicked>>

-----------------------------------------------------------------------------
(* Close. *)

CloseLocks ==
  /\ closer = "idle" /\ mLock = "free"
  /\ mLock' = "close"
  /\ closer' = "sessions"
  /\ UNCHANGED <<sess, sessions, listen, sessionLock, isClosed, loop, dialer,
                 accept, panicked>>

(* The sessions in the map are closed, under sessionLock. *)
InMap == {sessions[k] : k \in Key} \ {NoSess}

CloseSessions ==
  /\ closer = "sessions" /\ sessionLock = "free"
  /\ sess' = [s \in DOMAIN sess |-> IF s \in InMap THEN "closed" ELSE sess[s]]
  /\ closer' = "closing"
  /\ UNCHANGED <<sessions, listen, locks, isClosed, loop, dialer, accept, panicked>>

(* m.isClosed, m.onClose; m.lock is released. *)
CloseReturns ==
  /\ closer = "closing"
  /\ isClosed' = TRUE
  /\ mLock' = "free"
  /\ closer' = "done"
  /\ UNCHANGED <<sess, sessions, listen, sessionLock, loop, dialer, accept, panicked>>

Close == CloseLocks \/ CloseSessions \/ CloseReturns

-----------------------------------------------------------------------------
Next ==
  /\ ~panicked
  /\ \/ \E i \in Loops, k \in Key : Lookup(i, k) \/ LookupPanics(i, k)
     \/ \E i \in Loops : HandleSessionMsg(i) \/ LoopEnds(i)
     \/ \E d \in Dialers : Dial(d)
     \/ AcceptCalled \/ AcceptSession
     \/ \E addrs \in SUBSET Remote : ListenWrites(addrs)
     \/ ListenReturns
     \/ Close

Spec == Init /\ [][Next]_vars

(* Goroutines go on, and Go's locks starve nobody: whoever waits for one   *)
(* that is free again and again gets it.  Packets need not arrive, and     *)
(* nobody has to call anything.                                            *)
FairSpec ==
  /\ Spec
  /\ \A i \in Loops : /\ SF_vars(~panicked /\ HandleSessionMsg(i))
                      /\ WF_vars(~panicked /\ LoopEnds(i))
  /\ WF_vars(~panicked /\ AcceptSession)
  /\ WF_vars(~panicked /\ ListenReturns)
  /\ SF_vars(~panicked /\ (CloseSessions \/ CloseReturns))

-----------------------------------------------------------------------------
(* Properties. *)

Sess == DOMAIN sess

(* Types; and a session that somebody refers to exists. *)
TypeOK ==
  /\ sess \in Seq({"open", "closed"})
  /\ sessions \in [Key -> Sess \cup {NoSess}]
  /\ acceptSession \in Seq(Sess) /\ Len(acceptSession) <= AcceptBuf
  /\ acceptAddrs \subseteq Remote /\ newAddrs \subseteq Remote /\ allowed \subseteq Remote
  /\ mLock \in {"free", "listen", "close"}
  /\ sessionLock \in {"free", "loop"}
  /\ isClosed \in BOOLEAN
  /\ loop \in [Loops -> [pc : {"select", "newSession", "receive", "offer", "done"},
                         key : Key \cup {NoKey}, s : Sess \cup {NoSess},
                         new : BOOLEAN]]
  /\ dialer \in [Dialers -> [pc : {"idle", "put", "dial", "done"},
                             s : Sess \cup {NoSess}]]
  /\ acceptor \in {"idle", "select"}
  /\ closer \in {"idle", "sessions", "closing", "done"}
  /\ taken \in Seq(Sess)
  /\ panicked \in BOOLEAN

(* One session per remote address and id: whatever packets of it the       *)
(* receive loops of several sub-clients get at the same time, a session    *)
(* that was created for a key is never replaced by another one.            *)
OneSessionPerKey ==
  [][\A k \in Key : sessions[k] # NoSess => sessions'[k] = sessions[k]]_vars

(* AcceptSession gets a session at most once, and none that was dialled    *)
(* from here.                                                              *)
Offered == acceptSession \o taken
OfferedOnce ==
  /\ \A m, n \in DOMAIN Offered : Offered[m] = Offered[n] => m = n
  /\ \A d \in Dialers, n \in DOMAIN Offered : Offered[n] # dialer[d].s

(* AcceptSession returns sessions "from allowed remote addresses", although *)
(* m.acceptAddrs is read without its lock: some Listen allowed the address. *)
OfferedAllowed ==
  \A k \in RemoteKey, n \in DOMAIN Offered :
    Offered[n] = sessions[k] => Addr[k] \in allowed

(* Close "closes the multiclient, including ... all sessions dialed and     *)
(* accepted": it comes to its end.                                          *)
CloseEnds == closer = "sessions" ~> closer = "done" \/ panicked
=============================================================================
