----------------------------- MODULE Messaging ------------------------------
(***************************************************************************)
(* multiclient.go and client.go: one message that the application sends    *)
(* and the replies to it.  cfg.kind says how it is sent: "multi" by        *)
(* MultiClient.Send, "send" by MultiClient.send (Publish, and replies),    *)
(* "with" by SendWithClient, "client" by Client.Send.  The sub-clients are *)
(* the lines; line -1 is the original client, which has the plain address. *)
(*                                                                         *)
(* Two readers of a line run at once while a connection replaces another.  *)
(* How a line sends is Outbound, its connection is Client.  What the       *)
(* policy reads of a line it reads once, so state and stats are what it    *)
(* finds there, and only differ where it does.  Left out: message events,  *)
(* and messages that cannot be decoded.                                    *)
(***************************************************************************)
EXTENDS Integers

CONSTANTS
  NumSubClients, OriginalClient,
  Lines,        \* m.clients: the sub-clients that could be created
  Kinds, Policies,
  StatsValues,  \* what the statistics of a line may be
  MaxReplies    \* bound: replies that arrive

(* All sub-clients NewMultiClient tries to create. *)
AllClientIDs == (IF OriginalClient THEN -1 ELSE 0)..(NumSubClients - 1)

ASSUME MessagingAssumption ==
  /\ NumSubClients \in Nat /\ OriginalClient \in BOOLEAN
  /\ Lines # {} /\ Lines \subseteq AllClientIDs
  /\ Kinds \subseteq {"multi", "send", "with", "client"}
  /\ Policies \subseteq {"none", "any", "all", "stable"}
  /\ MaxReplies \in Nat

None == -2   \* no line, or an index without one

VARIABLES
  cfg,       \* kind, noReply, policy, target (of "with" and "client"), and
             \* what the remote side is: a "client" or a "multi"
  pc,        \* the goroutine of Send
  state,     \* Client.State of the lines, as the policy finds it
  stats,     \* their Client.Stats
  todo,      \* lines getClientsByPolicy has not looked at yet
  best,      \* the best of the others
  lines,     \* the lines that are left to send with
  cur,       \* the line that is sending
  success, fail,  \* the channels of size 1
  errs,      \* an error was appended
  outcome,   \* what the call returned
  sentBy,    \* lines that have sent the message
  reached,   \* <<i, k>>: the message of line i went to remote line k
  registered,\* lines whose responseChannels hold the message's id
  expired,   \* the cache has dropped one
  answers,   \* replies that have arrived
  reader,    \* how many readers of a line have found the response channel
  raw,       \* messages in onRawReply
  onReply,   \* messages in onReply
  emitted,   \* messages that were put there
  heard      \* a line the message went out on has read a reply

send == <<pc, todo, best, lines, cur, success, fail, errs, outcome>>
wire == <<sentBy, reached>>
recv == <<registered, expired, answers, reader, heard>>
chan == <<raw, onReply, emitted>>
vars == <<cfg, state, stats, send, wire, recv, chan>>

Many == cfg.kind \in {"multi", "send"}

(* A line that has not connected yet. *)
NoStats == [connectTime |-> 0, hours |-> 0, reconnects |-> 0, failures |-> 0]

Init ==
  /\ cfg \in [kind : Kinds, noReply : BOOLEAN, policy : Policies,
              target : AllClientIDs \cup {None},
              remote : {"client", "multi"}]
  /\ cfg.kind = "send" => cfg.noReply
  /\ cfg.kind = "client" => cfg.target \in Lines /\ cfg.policy = "none"
  /\ Many => cfg.target = 0
  /\ pc = "start"
  /\ state \in [Lines -> {"connected", "closed"} \cup
                   IF cfg.policy # "none" /\ Many THEN {"connecting"} ELSE {}]
  /\ stats \in [Lines -> IF cfg.policy = "stable" /\ Many THEN StatsValues
                          ELSE {NoStats}]
  /\ todo = {} /\ best = None /\ lines = {} /\ cur = None
  /\ success = FALSE /\ fail = FALSE /\ errs = FALSE /\ outcome = "pending"
  /\ sentBy = {} /\ reached = {}
  /\ registered = {} /\ expired = FALSE
  /\ answers = 0
  /\ reader = [i \in Lines |-> 0]
  /\ raw = 0 /\ onReply = 0 /\ emitted = 0 /\ heard = FALSE

-----------------------------------------------------------------------------
(* getClientsByPolicy. *)

AtMost(x, y) == IF x > y THEN y ELSE x

(* The score in hundredths. *)
CalculateClientScore(st) ==
  IF st.connectTime = 0 THEN 50
  ELSE 50 + 40 * AtMost(st.hours, 1) - AtMost(2 * st.reconnects, 10)
          - AtMost(st.failures, 10)

Begin ==
  /\ pc = "start" /\ Many
  /\ IF cfg.policy = "none"
       THEN pc' = "lines" /\ lines' = Lines /\ UNCHANGED todo
       ELSE pc' = "policy" /\ todo' = Lines /\ UNCHANGED lines
  /\ UNCHANGED <<cfg, state, stats, best, cur, success, fail, errs, outcome,
                 wire, recv, chan>>

(* The range over m.clients looks at the next line, in any order. *)
Look(i) ==
  /\ pc = "policy" /\ i \in todo
  /\ todo' = IF cfg.policy = "any" /\ state[i] = "connected" THEN {}
             ELSE todo \ {i}
  /\ IF state[i] # "connected" THEN UNCHANGED <<pc, lines, best>>
     ELSE CASE cfg.policy = "any" ->
                 pc' = "lines" /\ lines' = {i} /\ UNCHANGED best
            [] cfg.policy = "all" ->
                 lines' = lines \cup {i} /\ UNCHANGED <<pc, best>>
            [] cfg.policy = "stable" ->
                 /\ best' = IF \/ best = None
                               \/ CalculateClientScore(stats[i])
                                    > CalculateClientScore(stats[best])
                            THEN i ELSE best
                 /\ UNCHANGED <<pc, lines>>
  /\ UNCHANGED <<cfg, state, stats, cur, success, fail, errs, outcome, wire,
                 recv, chan>>

(* Without a connected line all of them are tried.  So they are if the     *)
(* best one is line -1, which the code uses for "none".                    *)
PolicyEnds ==
  /\ pc = "policy" /\ todo = {}
  /\ pc' = "lines"
  /\ lines' = CASE cfg.policy = "stable" /\ best >= 0 -> {best}
                [] cfg.policy # "stable" /\ lines # {} -> lines
                [] OTHER -> Lines
  /\ best' = None
  /\ UNCHANGED <<cfg, state, stats, todo, cur, success, fail, errs,
                 outcome, wire, recv, chan>>

-----------------------------------------------------------------------------
(* The goroutine of MultiClient.Send and MultiClient.send. *)

(* Mutant: the response channel is not registered before the send. *)
NextLineUnregistered(i) ==
  /\ pc = "lines" /\ i \in lines
  /\ lines' = lines \ {i}
  /\ cur' = i
  /\ pc' = "sending"
  /\ UNCHANGED <<cfg, state, stats, todo, best, success, fail, errs, outcome,
                 wire, recv, chan>>

(* The next line; Send registers the response channel with it. *)
NextLine(i) ==
  /\ pc = "lines" /\ i \in lines
  /\ lines' = lines \ {i}
  /\ cur' = i
  /\ pc' = "sending"
  /\ registered' = IF cfg.noReply THEN registered ELSE registered \cup {i}
  /\ UNCHANGED <<cfg, state, stats, todo, best, success, fail, errs, outcome,
                 wire, expired, answers, reader, heard, chan>>

(* The remote lines that the message of line i is addressed to. *)
FinalDests(i) ==
  CASE cfg.kind = "client"   -> {-1}
    [] cfg.policy # "none"   -> AllClientIDs
    [] OTHER                 -> {i}

(* Client.send of a line succeeds. *)
LineSends ==
  /\ pc = "sending" /\ state[cur] # "closed"
  /\ sentBy' = sentBy \cup {cur}
  /\ reached' = reached \cup ({cur} \X FinalDests(cur))
  /\ success' = Many
  /\ pc' = IF Many THEN "lines" ELSE "sent"
  /\ UNCHANGED <<cfg, state, stats, todo, best, lines, cur, fail, errs,
                 outcome, recv, chan>>

(* It fails before it writes, or a write fails: this is counted, and some  *)
(* of the batches may have gone out.                                       *)
Fail ==
  \/ UNCHANGED <<stats, reached>>
  \/ \E part \in SUBSET FinalDests(cur) :
       /\ state[cur] = "closed" => part = {}
       /\ reached' = reached \cup ({cur} \X part)
       /\ stats' = [stats EXCEPT ![cur].failures = @ + 1]

(* Mutant: every send that fails is signalled. *)
LineFailsSignals ==
  /\ pc = "sending" /\ Fail
  /\ errs' = TRUE
  /\ fail' = TRUE
  /\ pc' = IF Many THEN "lines" ELSE "end"
  /\ outcome' = IF Many THEN outcome ELSE "error"
  /\ UNCHANGED <<cfg, state, todo, best, lines, cur, success, sentBy, recv,
                 chan>>

(* The error is appended; Client.Send and SendWithClient return it. *)
LineFails ==
  /\ pc = "sending" /\ Fail
  /\ errs' = TRUE
  /\ pc' = IF Many THEN "lines" ELSE "end"
  /\ outcome' = IF Many THEN outcome ELSE "error"
  /\ UNCHANGED <<cfg, state, todo, best, lines, cur, success, fail, sentBy,
                 recv, chan>>

(* After the last line. *)
LinesEnd ==
  /\ pc = "lines" /\ lines = {}
  /\ fail' = (sentBy = {})
  /\ pc' = IF cfg.noReply THEN "end" ELSE "await"
  /\ UNCHANGED <<cfg, state, stats, todo, best, lines, cur, success, errs,
                 outcome, wire, recv, chan>>

(* Mutant: a message is put into a full channel. *)
PutOverfills(n) == n + 1

(* OnMessage.receive: a full channel drops the message. *)
Put(n) == IF n = 0 THEN 1 ELSE n

(* Mutant: replies are forwarded as long as they come. *)
ForwardAll ==
  /\ pc = "await" /\ raw > 0
  /\ raw' = raw - 1
  /\ onReply' = Put(onReply)
  /\ emitted' = emitted + (Put(onReply) - onReply)
  /\ UNCHANGED <<cfg, state, stats, send, wire, recv>>

(* <-onRawReply.C: the reply goes to the caller's channel. *)
Forward ==
  /\ pc = "await" /\ raw > 0
  /\ raw' = raw - 1
  /\ onReply' = Put(onReply)
  /\ emitted' = emitted + (Put(onReply) - onReply)
  /\ pc' = "end"
  /\ UNCHANGED <<cfg, state, stats, todo, best, lines, cur, success, fail,
                 errs, outcome, wire, recv>>

(* The select of the caller. *)
SendReturns ==
  /\ outcome = "pending" /\ Many
  /\ \/ success /\ outcome' = "ok"
     \/ fail /\ outcome' = IF errs THEN "error" ELSE "nil"
  /\ UNCHANGED <<cfg, state, stats, pc, todo, best, lines, cur, success, fail,
                 errs, wire, recv, chan>>

-----------------------------------------------------------------------------
(* SendWithClient, with any index, and Client.Send. *)

BeginWithClient ==
  /\ pc = "start" /\ ~Many
  /\ IF cfg.target \in Lines
       THEN pc' = "sending" /\ cur' = cfg.target /\ UNCHANGED outcome
       ELSE pc' = "end" /\ outcome' = "error" /\ UNCHANGED cur  \* ErrNilClient
  /\ UNCHANGED <<cfg, state, stats, todo, best, lines, success, fail, errs,
                 wire, recv, chan>>

(* The response channel is registered after the message was sent. *)
Register ==
  /\ pc = "sent"
  /\ registered' = IF cfg.noReply THEN registered ELSE registered \cup {cur}
  /\ pc' = "end"
  /\ outcome' = "ok"
  /\ UNCHANGED <<cfg, state, stats, todo, best, lines, cur, success, fail,
                 errs, wire, expired, answers, reader, heard, chan>>

-----------------------------------------------------------------------------
(* The reader goroutines: handleMessage for a reply or an ACK. *)

(* The network may bring a reply to line i.  A MultiClient replies to all  *)
(* lines, whichever one the message came from; a Client has the plain      *)
(* address and replies to the sender.                                      *)
Answered(i) ==
  /\ ~cfg.noReply
  /\ IF cfg.remote = "multi" THEN reached # {} ELSE <<i, -1>> \in reached

(* A reply arrives: responseChannels.Get.  It is dropped if nobody waits   *)
(* for it.                                                                 *)
ReaderGet(i) ==
  /\ Answered(i) /\ answers < MaxReplies
  /\ answers' = answers + 1
  /\ reader' = IF i \in registered THEN [reader EXCEPT ![i] = @ + 1] ELSE reader
  /\ heard' = (heard \/ \E p \in reached : p[1] = i)
  /\ UNCHANGED <<cfg, state, stats, send, wire, registered, expired, chan>>

(* responseChannels.Delete, and receive into the channel that was found:   *)
(* onRawReply for MultiClient.Send, onReply for the others.                *)
ReaderReceive(i) ==
  /\ reader[i] > 0
  /\ reader' = [reader EXCEPT ![i] = @ - 1]
  /\ registered' = registered \ {i}
  /\ IF cfg.kind = "multi"
       THEN raw' = Put(raw) /\ UNCHANGED <<onReply, emitted>>
       ELSE /\ onReply' = Put(onReply)
            /\ emitted' = emitted + (Put(onReply) - onReply)
            /\ UNCHANGED raw
  /\ UNCHANGED <<cfg, state, stats, send, wire, expired, answers, heard>>

-----------------------------------------------------------------------------
(* The environment. *)

(* The cache drops an entry after MsgCacheExpiration. *)
Expire(i) ==
  /\ i \in registered
  /\ registered' = registered \ {i}
  /\ expired' = TRUE
  /\ UNCHANGED <<cfg, state, stats, send, wire, answers, reader, heard,
                 chan>>

(* The application takes a message from onReply: OnMessage.Next. *)
Take ==
  /\ outcome = "ok" /\ onReply > 0
  /\ onReply' = onReply - 1
  /\ UNCHANGED <<cfg, state, stats, send, wire, recv, raw, emitted>>

-----------------------------------------------------------------------------
Sender ==
  \/ Begin \/ PolicyEnds \/ LinesEnd \/ LineSends \/ LineFails
  \/ BeginWithClient \/ Register
  \/ \E i \in Lines : Look(i) \/ NextLine(i)

Readers == \E i \in Lines : ReaderReceive(i)

Environment ==
  \/ Take
  \/ \E i \in Lines : Expire(i) \/ ReaderGet(i)

Next == Sender \/ Forward \/ SendReturns \/ Readers \/ Environment

Spec == Init /\ [][Next]_vars

(* Goroutines go on, and a write ends at WsWriteTimeout.  Nothing is       *)
(* assumed of the application and of the network.                          *)
FairSpec ==
  /\ Spec
  /\ WF_vars(Sender) /\ WF_vars(Forward) /\ WF_vars(SendReturns)
  /\ WF_vars(Readers)

-----------------------------------------------------------------------------
(* The values the variables have; the channels hold one message. *)
TypeOK ==
  /\ pc \in {"start", "policy", "lines", "sending", "sent", "await", "end"}
  /\ state \in [Lines -> {"connected", "connecting", "closed"}]
  /\ todo \subseteq Lines /\ lines \subseteq Lines
  /\ best \in Lines \cup {None} /\ cur \in Lines \cup {None}
  /\ {success, fail, errs, expired, heard} \subseteq BOOLEAN
  /\ outcome \in {"pending", "ok", "error", "nil"}
  /\ sentBy \subseteq Lines /\ registered \subseteq Lines
  /\ reached \subseteq Lines \X (AllClientIDs \cup {-1})
  /\ answers \in 0..MaxReplies
  /\ reader \in [Lines -> 0..MaxReplies]
  /\ raw \in 0..1 /\ onReply \in 0..1 /\ emitted \in Nat

(* MultiClient.Send: the reply channel emits at most once, whatever the    *)
(* number of lines the message was sent with and of replies that come      *)
(* back, and although two readers of a line may both find the response     *)
(* channel before one of them deletes it.                                  *)
OneReply == cfg.kind = "multi" => emitted <= 1

(* Send and send return an error only when every line was tried and none   *)
(* could send, and then there is one; they return success only when a line *)
(* has sent.                                                               *)
SendReports ==
  /\ outcome = "error" /\ Many => sentBy = {} /\ lines = {}
  /\ outcome = "ok" => sentBy # {}
  /\ outcome # "nil"

(* MultiClient.Send: when a line the message went out on reads a reply,    *)
(* the reply channel emits, unless the cache had dropped the entry: the    *)
(* reply may come before the other lines have sent, and before Send        *)
(* returns.                                                                *)
ReplyReachesCaller ==
  cfg.kind = "multi" /\ heard ~> emitted > 0 \/ expired
=============================================================================
