-------------------------- MODULE MessagingProofs ---------------------------
(* Proofs about Messaging.tla: for any set of lines, any way to send, any  *)
(* policy and any number of replies.                                       *)
EXTENDS Messaging, TLAPS

(* What the call was made with, and what getClientsByPolicy is asked. *)
CfgOK ==
  /\ cfg \in [kind : Kinds, noReply : BOOLEAN, policy : Policies,
              target : AllClientIDs \cup {None}, remote : {"client", "multi"}]
  /\ pc = "policy" => cfg.policy # "none"

(* A line that sends is one; and no more readers hold the response channel *)
(* than replies have arrived.                                              *)
Bounds ==
  /\ pc \in {"sending", "sent"} => cur \in Lines
  /\ \A i \in Lines : reader[i] <= answers

(* Send forwards one reply and ends. *)
ForwardedLast ==
  cfg.kind = "multi" =>
    /\ emitted = 0 \/ (emitted = 1 /\ pc = "end")
    /\ onReply <= emitted

(* What the channels of Send say about its lines: success after a line has *)
(* sent, fail after the last line when none has and an error is there.     *)
ChannelsTell ==
  /\ success => sentBy # {}
  /\ pc = "sent" => sentBy # {}
  /\ pc = "lines" => lines # {} \/ sentBy # {} \/ errs
  /\ fail => sentBy = {} /\ lines = {} /\ errs /\ pc \in {"await", "end"}

(* What the caller got. *)
OutcomeTells ==
  /\ outcome = "error" /\ Many => fail
  /\ outcome = "ok" => sentBy # {}
  /\ outcome # "nil"

(* The reply is in onRawReply or was handed to the caller. *)
Received == raw > 0 \/ emitted > 0

(* A line that a message goes out on can receive the reply: its entry is   *)
(* there unless the cache dropped it or a reply has come.                  *)
WaitsForReply ==
  cfg.kind = "multi" /\ ~cfg.noReply /\ ~expired =>
    /\ pc = "sending" => cur \in registered \/ Received
    /\ \A p \in reached : p[1] \in registered \/ Received

(* MultiClient.Send: a reply that a line of the message has read is on its *)
(* way to the caller, or was handed over, unless the cache had dropped the *)
(* entry: whatever the order of the lines' sends, of the readers and of    *)
(* the return of Send.                                                     *)
ReplyNotLost ==
  cfg.kind = "multi" /\ heard /\ ~expired =>
    Received \/ \E i \in Lines : reader[i] > 0

IndInv ==
  /\ TypeOK /\ CfgOK /\ Bounds /\ ForwardedLast /\ ChannelsTell /\ OutcomeTells
  /\ WaitsForReply /\ ReplyNotLost

(* The parts of the invariant. *)
LEMMA IndInvParts ==
  ASSUME IndInv
  PROVE  /\ TypeOK /\ CfgOK /\ Bounds /\ ForwardedLast /\ ChannelsTell
         /\ OutcomeTells /\ WaitsForReply /\ ReplyNotLost
  BY DEF IndInv

(* A line's message goes to lines of the remote side, or to its plain      *)
(* address.                                                                *)
LEMMA FinalDestsType ==
  ASSUME NEW i \in Lines
  PROVE  FinalDests(i) \subseteq AllClientIDs \cup {-1}
  BY MessagingAssumption DEF FinalDests

(* A channel of size 1. *)
LEMMA PutType ==
  ASSUME NEW k \in 0..1
  PROVE  Put(k) = 1
  BY DEF Put

(* The call begins with nothing sent. *)
LEMMA InitInv == Init => IndInv
  <1> SUFFICES ASSUME Init PROVE IndInv
    OBVIOUS
  <1> USE MessagingAssumption
  <1>1. TypeOK
    <2>1. state \in [Lines -> {"connected", "connecting", "closed"}]
      BY DEF Init
    <2>2. {success, fail, errs, expired, heard} \subseteq BOOLEAN
      BY DEF Init
    <2>3. /\ answers \in 0..MaxReplies /\ reader \in [Lines -> 0..MaxReplies]
          /\ raw \in 0..1 /\ onReply \in 0..1 /\ emitted \in Nat
      BY DEF Init
    <2> QED BY <2>1, <2>2, <2>3 DEF Init, TypeOK
  <1>2. CfgOK /\ Bounds /\ ForwardedLast /\ ChannelsTell
    BY DEF Init, CfgOK, Bounds, ForwardedLast, ChannelsTell
  <1>3. OutcomeTells /\ WaitsForReply /\ ReplyNotLost
    BY DEF Init, OutcomeTells, WaitsForReply, ReplyNotLost
  <1> QED BY <1>1, <1>2, <1>3 DEF IndInv

(* Send and send begin with all lines or with the policy. *)
LEMMA BeginStep ==
  ASSUME IndInv, Begin
  PROVE  IndInv'
  <1> USE IndInvParts, MessagingAssumption
  <1>1. TypeOK'
    BY DEF Begin, wire, recv, chan, TypeOK
  <1>2. CfgOK'
    BY DEF TypeOK, Begin, wire, recv, chan, CfgOK
  <1>3. Bounds'
    BY DEF TypeOK, Begin, wire, recv, chan, Bounds
  <1>4. ForwardedLast'
    BY DEF TypeOK, Begin, wire, recv, chan, ForwardedLast
  <1>5. ChannelsTell'
    BY DEF TypeOK, Begin, wire, recv, chan, ChannelsTell
  <1>6. OutcomeTells'
    BY DEF TypeOK, Begin, wire, recv, chan, OutcomeTells, Many
  <1>7. WaitsForReply'
    BY DEF TypeOK, Begin, wire, recv, chan, WaitsForReply, Received
  <1>8. ReplyNotLost'
    BY DEF TypeOK, Begin, wire, recv, chan, ReplyNotLost, Received
  <1> QED BY <1>1, <1>2, <1>3, <1>4, <1>5, <1>6, <1>7, <1>8 DEF IndInv

(* getClientsByPolicy keeps to the lines, and ends with one it has found. *)
LEMMA LookLines ==
  ASSUME IndInv, NEW i \in Lines, Look(i)
  PROVE  /\ pc' = "policy" \/ (pc' = "lines" /\ lines' # {})
         /\ lines' \subseteq Lines /\ best' \in Lines \cup {None}
         /\ todo' \subseteq Lines
  <1> USE IndInvParts, MessagingAssumption
  <1>1. pc = "policy" /\ cfg.policy \in {"any", "all", "stable"}
    BY DEF Look, CfgOK
  <1>2. lines \subseteq Lines /\ best \in Lines \cup {None} /\ todo \subseteq Lines
    BY DEF TypeOK
  <1>3. todo' \subseteq Lines
    BY <1>2 DEF Look
  <1>4. CASE state[i] # "connected"
    BY <1>1, <1>2, <1>3, <1>4 DEF Look
  <1>5. CASE state[i] = "connected" /\ cfg.policy = "any"
    BY <1>1, <1>2, <1>3, <1>5 DEF Look
  <1>6. CASE state[i] = "connected" /\ cfg.policy = "all"
    BY <1>1, <1>2, <1>3, <1>6 DEF Look
  <1>7. CASE state[i] = "connected" /\ cfg.policy = "stable"
    <2>1. pc' = pc /\ lines' = lines /\ best' \in {i, best}
      BY <1>7 DEF Look
    <2> QED BY <1>1, <1>2, <1>3, <2>1
  <1> QED BY <1>1, <1>4, <1>5, <1>6, <1>7

(* It looks at a line. *)
LEMMA LookStep ==
  ASSUME IndInv, NEW i \in Lines, Look(i)
  PROVE  IndInv'
  <1> USE IndInvParts, MessagingAssumption
  <1>1. TypeOK'
    BY LookLines DEF Look, wire, recv, chan, TypeOK
  <1>2. CfgOK'
    BY DEF TypeOK, Look, wire, recv, chan, CfgOK
  <1>3. Bounds'
    BY LookLines DEF Look, wire, recv, chan, TypeOK, Bounds
  <1>4. ForwardedLast'
    BY DEF TypeOK, Look, wire, recv, chan, ForwardedLast
  <1>5. ChannelsTell'
    BY LookLines DEF Look, wire, recv, chan, TypeOK, ChannelsTell
  <1>6. OutcomeTells'
    BY LookLines DEF Look, wire, recv, chan, TypeOK, OutcomeTells, Many
  <1>7. WaitsForReply'
    BY LookLines DEF Look, wire, recv, chan, TypeOK, WaitsForReply, Received
  <1>8. ReplyNotLost'
    BY DEF TypeOK, Look, wire, recv, chan, ReplyNotLost, Received
  <1> QED BY <1>1, <1>2, <1>3, <1>4, <1>5, <1>6, <1>7, <1>8 DEF IndInv

(* It returns: there is a line to send with. *)
LEMMA PolicyEndsStep ==
  ASSUME IndInv, PolicyEnds
  PROVE  IndInv'
  <1> USE IndInvParts, MessagingAssumption
  <1>1. TypeOK'
    <2>1. lines' \subseteq Lines
      BY DEF PolicyEnds, TypeOK, None
    <2> QED BY <2>1 DEF PolicyEnds, wire, recv, chan, TypeOK
  <1>2. CfgOK'
    BY DEF TypeOK, PolicyEnds, wire, recv, chan, CfgOK
  <1>3. Bounds'
    BY DEF TypeOK, PolicyEnds, wire, recv, chan, Bounds
  <1>4. ForwardedLast'
    BY DEF TypeOK, PolicyEnds, wire, recv, chan, ForwardedLast
  <1>5. ChannelsTell'
    BY DEF TypeOK, PolicyEnds, wire, recv, chan, ChannelsTell
  <1>6. OutcomeTells'
    BY DEF TypeOK, PolicyEnds, wire, recv, chan, OutcomeTells, Many
  <1>7. WaitsForReply'
    BY DEF TypeOK, PolicyEnds, wire, recv, chan, WaitsForReply, Received
  <1>8. ReplyNotLost'
    BY DEF TypeOK, PolicyEnds, wire, recv, chan, ReplyNotLost, Received
  <1> QED BY <1>1, <1>2, <1>3, <1>4, <1>5, <1>6, <1>7, <1>8 DEF IndInv

(* The response channel is registered, then the line sends. *)
LEMMA NextLineStep ==
  ASSUME IndInv, NEW i \in Lines, NextLine(i)
  PROVE  IndInv'
  <1> USE IndInvParts, MessagingAssumption
  <1>1. TypeOK'
    BY DEF NextLine, wire, chan, TypeOK
  <1>2. CfgOK'
    BY DEF TypeOK, NextLine, wire, chan, CfgOK
  <1>3. Bounds'
    BY DEF TypeOK, NextLine, wire, chan, Bounds
  <1>4. ForwardedLast'
    BY DEF TypeOK, NextLine, wire, chan, ForwardedLast
  <1>5. ChannelsTell'
    BY DEF TypeOK, NextLine, wire, chan, ChannelsTell
  <1>6. OutcomeTells'
    BY DEF TypeOK, NextLine, wire, chan, OutcomeTells, Many
  <1>7. WaitsForReply'
    BY DEF TypeOK, NextLine, wire, chan, WaitsForReply, Received
  <1>8. ReplyNotLost'
    BY DEF TypeOK, NextLine, wire, chan, ReplyNotLost, Received
  <1> QED BY <1>1, <1>2, <1>3, <1>4, <1>5, <1>6, <1>7, <1>8 DEF IndInv

(* A line has sent. *)
LEMMA LineSendsStep ==
  ASSUME IndInv, LineSends
  PROVE  IndInv'
  <1> USE IndInvParts, MessagingAssumption
  <1>1. TypeOK'
    <2>1. cur \in Lines
      BY DEF LineSends, Bounds
    <2>2. reached' \subseteq Lines \X (AllClientIDs \cup {-1})
      BY <2>1, FinalDestsType DEF LineSends, TypeOK
    <2>3. success' \in BOOLEAN
      BY DEF LineSends, Many
    <2> QED BY <2>1, <2>2, <2>3 DEF LineSends, recv, chan, TypeOK
  <1>2. CfgOK'
    BY DEF TypeOK, LineSends, recv, chan, CfgOK
  <1>3. Bounds'
    BY DEF TypeOK, LineSends, recv, chan, Bounds
  <1>4. ForwardedLast'
    BY DEF TypeOK, LineSends, recv, chan, ForwardedLast
  <1>5. ChannelsTell'
    BY DEF TypeOK, LineSends, recv, chan, ChannelsTell
  <1>6. OutcomeTells'
    BY DEF TypeOK, LineSends, recv, chan, OutcomeTells, Many
  <1>7. WaitsForReply'
    BY DEF TypeOK, LineSends, recv, chan, WaitsForReply, Received
  <1>8. ReplyNotLost'
    BY DEF TypeOK, LineSends, recv, chan, ReplyNotLost, Received
  <1> QED BY <1>1, <1>2, <1>3, <1>4, <1>5, <1>6, <1>7, <1>8 DEF IndInv

(* A line has failed. *)
LEMMA LineFailsStep ==
  ASSUME IndInv, LineFails
  PROVE  IndInv'
  <1> USE IndInvParts, MessagingAssumption
  <1>1. TypeOK'
    <2>1. cur \in Lines
      BY DEF LineFails, Bounds
    <2>2. reached' \subseteq Lines \X (AllClientIDs \cup {-1})
      BY <2>1, FinalDestsType DEF LineFails, Fail, TypeOK
    <2> QED BY <2>1, <2>2 DEF LineFails, recv, chan, TypeOK
  <1>2. CfgOK'
    BY DEF TypeOK, LineFails, Fail, recv, chan, CfgOK
  <1>3. Bounds'
    BY DEF TypeOK, LineFails, Fail, recv, chan, Bounds
  <1>4. ForwardedLast'
    BY DEF TypeOK, LineFails, Fail, recv, chan, ForwardedLast
  <1>5. ChannelsTell'
    BY DEF TypeOK, LineFails, Fail, recv, chan, ChannelsTell
  <1>6. OutcomeTells'
    BY DEF TypeOK, LineFails, Fail, recv, chan, OutcomeTells, Many
  <1>7. WaitsForReply'
    BY DEF TypeOK, LineFails, Fail, recv, chan, WaitsForReply, Received
  <1>8. ReplyNotLost'
    BY DEF TypeOK, LineFails, Fail, recv, chan, ReplyNotLost, Received
  <1> QED BY <1>1, <1>2, <1>3, <1>4, <1>5, <1>6, <1>7, <1>8 DEF IndInv

(* After the last line. *)
LEMMA LinesEndStep ==
  ASSUME IndInv, LinesEnd
  PROVE  IndInv'
  <1> USE IndInvParts, MessagingAssumption
  <1>1. TypeOK'
    BY DEF LinesEnd, wire, recv, chan, TypeOK
  <1>2. CfgOK'
    BY DEF TypeOK, LinesEnd, wire, recv, chan, CfgOK
  <1>3. Bounds'
    BY DEF TypeOK, LinesEnd, wire, recv, chan, Bounds
  <1>4. ForwardedLast'
    BY DEF TypeOK, LinesEnd, wire, recv, chan, ForwardedLast
  <1>5. ChannelsTell'
    BY DEF TypeOK, LinesEnd, wire, recv, chan, ChannelsTell
  <1>6. OutcomeTells'
    BY DEF LinesEnd, wire, OutcomeTells, ChannelsTell, Many
  <1>7. WaitsForReply'
    BY DEF TypeOK, LinesEnd, wire, recv, chan, WaitsForReply, Received
  <1>8. ReplyNotLost'
    BY DEF TypeOK, LinesEnd, wire, recv, chan, ReplyNotLost, Received
  <1> QED BY <1>1, <1>2, <1>3, <1>4, <1>5, <1>6, <1>7, <1>8 DEF IndInv

(* The first reply goes to the caller. *)
LEMMA ForwardStep ==
  ASSUME IndInv, Forward
  PROVE  IndInv'
  <1> USE IndInvParts, MessagingAssumption
  <1>1. TypeOK'
    <2>1. Put(onReply) = 1
      BY PutType DEF TypeOK
    <2>2. raw' \in 0..1 /\ onReply' \in 0..1 /\ emitted' \in Nat
      BY <2>1 DEF Forward, TypeOK
    <2> QED BY <2>2 DEF Forward, wire, recv, TypeOK
  <1>2. CfgOK'
    BY DEF TypeOK, Forward, wire, recv, CfgOK
  <1>3. Bounds'
    BY DEF TypeOK, Forward, wire, recv, Bounds
  <1>4. ForwardedLast'
    <2>1. Put(onReply) = 1
      BY PutType DEF TypeOK
    <2> QED BY <2>1 DEF Forward, ForwardedLast, TypeOK
  <1>5. ChannelsTell'
    BY DEF TypeOK, Forward, wire, recv, ChannelsTell
  <1>6. OutcomeTells'
    BY DEF TypeOK, Forward, wire, recv, OutcomeTells, Many
  <1>7. WaitsForReply'
    <2>1. Put(onReply) = 1
      BY PutType DEF TypeOK
    <2>2. cfg.kind = "multi" => emitted' > 0
      BY <2>1 DEF Forward, ForwardedLast, TypeOK
    <2> QED BY <2>2 DEF Forward, wire, recv, WaitsForReply, Received
  <1>8. ReplyNotLost'
    <2>1. Put(onReply) = 1
      BY PutType DEF TypeOK
    <2>2. cfg.kind = "multi" => emitted' > 0
      BY <2>1 DEF Forward, ForwardedLast, TypeOK
    <2> QED BY <2>2 DEF Forward, ReplyNotLost, Received
  <1> QED BY <1>1, <1>2, <1>3, <1>4, <1>5, <1>6, <1>7, <1>8 DEF IndInv

(* The caller's select. *)
LEMMA SendReturnsStep ==
  ASSUME IndInv, SendReturns
  PROVE  IndInv'
  <1> USE IndInvParts, MessagingAssumption
  <1>1. TypeOK'
    BY DEF SendReturns, wire, recv, chan, TypeOK
  <1>2. CfgOK'
    BY DEF TypeOK, SendReturns, wire, recv, chan, CfgOK
  <1>3. Bounds'
    BY DEF TypeOK, SendReturns, wire, recv, chan, Bounds
  <1>4. ForwardedLast'
    BY DEF TypeOK, SendReturns, wire, recv, chan, ForwardedLast
  <1>5. ChannelsTell'
    BY DEF TypeOK, SendReturns, wire, recv, chan, ChannelsTell
  <1>6. OutcomeTells'
    BY DEF TypeOK, SendReturns, wire, OutcomeTells, ChannelsTell, Many
  <1>7. WaitsForReply'
    BY DEF TypeOK, SendReturns, wire, recv, chan, WaitsForReply, Received
  <1>8. ReplyNotLost'
    BY DEF TypeOK, SendReturns, wire, recv, chan, ReplyNotLost, Received
  <1> QED BY <1>1, <1>2, <1>3, <1>4, <1>5, <1>6, <1>7, <1>8 DEF IndInv

(* SendWithClient and Client.Send begin. *)
LEMMA BeginWithClientStep ==
  ASSUME IndInv, BeginWithClient
  PROVE  IndInv'
  <1> USE IndInvParts, MessagingAssumption
  <1>1. TypeOK'
    BY DEF BeginWithClient, wire, recv, chan, TypeOK
  <1>2. CfgOK'
    BY DEF TypeOK, BeginWithClient, wire, recv, chan, CfgOK
  <1>3. Bounds'
    BY DEF TypeOK, BeginWithClient, wire, recv, chan, Bounds
  <1>4. ForwardedLast'
    BY DEF TypeOK, BeginWithClient, wire, recv, chan, ForwardedLast
  <1>5. ChannelsTell'
    BY DEF TypeOK, BeginWithClient, wire, recv, chan, ChannelsTell
  <1>6. OutcomeTells'
    BY DEF TypeOK, BeginWithClient, wire, recv, chan, OutcomeTells, Many
  <1>7. WaitsForReply'
    BY DEF BeginWithClient, wire, recv, chan, WaitsForReply, Received, Many
  <1>8. ReplyNotLost'
    BY DEF TypeOK, BeginWithClient, wire, recv, chan, ReplyNotLost, Received
  <1> QED BY <1>1, <1>2, <1>3, <1>4, <1>5, <1>6, <1>7, <1>8 DEF IndInv

(* They register the response channel. *)
LEMMA RegisterStep ==
  ASSUME IndInv, Register
  PROVE  IndInv'
  <1> USE IndInvParts, MessagingAssumption
  <1>1. TypeOK'
    BY DEF Register, wire, chan, TypeOK, Bounds
  <1>2. CfgOK'
    BY DEF TypeOK, Register, wire, chan, CfgOK
  <1>3. Bounds'
    BY DEF TypeOK, Register, wire, chan, Bounds
  <1>4. ForwardedLast'
    BY DEF TypeOK, Register, wire, chan, ForwardedLast
  <1>5. ChannelsTell'
    BY DEF TypeOK, Register, wire, chan, ChannelsTell
  <1>6. OutcomeTells'
    BY DEF TypeOK, Register, wire, OutcomeTells, ChannelsTell, Many
  <1>7. WaitsForReply'
    BY DEF TypeOK, Register, wire, chan, WaitsForReply, Received
  <1>8. ReplyNotLost'
    BY DEF TypeOK, Register, wire, chan, ReplyNotLost, Received
  <1> QED BY <1>1, <1>2, <1>3, <1>4, <1>5, <1>6, <1>7, <1>8 DEF IndInv

(* A reply arrives. *)
LEMMA ReaderGetStep ==
  ASSUME IndInv, NEW i \in Lines, ReaderGet(i)
  PROVE  IndInv'
  <1> USE IndInvParts, MessagingAssumption
  <1>1. TypeOK'
    <2>1. answers' \in 0..MaxReplies /\ reader' \in [Lines -> 0..MaxReplies]
      BY DEF ReaderGet, TypeOK, Bounds
    <2>2. heard' \in BOOLEAN
      BY DEF ReaderGet
    <2> QED BY <2>1, <2>2 DEF ReaderGet, send, wire, chan, TypeOK
  <1>2. CfgOK'
    BY DEF TypeOK, ReaderGet, send, wire, chan, CfgOK
  <1>3. Bounds'
    BY DEF TypeOK, ReaderGet, send, wire, chan, Bounds
  <1>4. ForwardedLast'
    BY DEF TypeOK, ReaderGet, send, wire, chan, ForwardedLast
  <1>5. ChannelsTell'
    BY DEF TypeOK, ReaderGet, send, wire, chan, ChannelsTell
  <1>6. OutcomeTells'
    BY DEF TypeOK, ReaderGet, send, wire, chan, OutcomeTells, Many
  <1>7. WaitsForReply'
    BY DEF TypeOK, ReaderGet, send, wire, chan, WaitsForReply, Received
  <1>8. ReplyNotLost'
    <2>1. \A j \in Lines : reader[j] > 0 => reader'[j] > 0
      BY DEF ReaderGet, TypeOK
    <2>2. i \in registered => reader'[i] > 0
      BY DEF ReaderGet, TypeOK
    <2>3. ~cfg.noReply /\ Received' = Received
      BY DEF ReaderGet, Answered, chan, Received
    <2> QED BY <2>1, <2>2, <2>3 DEF ReaderGet, ReplyNotLost, WaitsForReply
  <1> QED BY <1>1, <1>2, <1>3, <1>4, <1>5, <1>6, <1>7, <1>8 DEF IndInv

(* A reader puts it into the channel it found. *)
LEMMA ReaderReceiveStep ==
  ASSUME IndInv, NEW i \in Lines, ReaderReceive(i)
  PROVE  IndInv'
  <1> USE IndInvParts, MessagingAssumption
  <1>1. TypeOK'
    <2>1. Put(onReply) = 1 /\ Put(raw) = 1
      BY PutType DEF TypeOK
    <2>2. raw' \in 0..1 /\ onReply' \in 0..1 /\ emitted' \in Nat
      BY <2>1 DEF ReaderReceive, TypeOK
    <2> QED BY <2>2 DEF ReaderReceive, send, wire, TypeOK
  <1>2. CfgOK'
    BY DEF TypeOK, ReaderReceive, send, wire, CfgOK
  <1>3. Bounds'
    BY DEF TypeOK, ReaderReceive, send, wire, Bounds
  <1>4. ForwardedLast'
    BY DEF TypeOK, ReaderReceive, send, wire, ForwardedLast
  <1>5. ChannelsTell'
    BY DEF TypeOK, ReaderReceive, send, wire, ChannelsTell
  <1>6. OutcomeTells'
    BY DEF TypeOK, ReaderReceive, send, wire, OutcomeTells, Many
  <1>7. WaitsForReply'
    <2>1. cfg.kind = "multi" => raw' > 0
      BY PutType DEF ReaderReceive, TypeOK
    <2> QED BY <2>1 DEF ReaderReceive, send, wire, WaitsForReply, Received
  <1>8. ReplyNotLost'
    <2>1. cfg.kind = "multi" => raw' > 0
      BY PutType DEF ReaderReceive, TypeOK
    <2> QED BY <2>1 DEF ReaderReceive, ReplyNotLost, Received
  <1> QED BY <1>1, <1>2, <1>3, <1>4, <1>5, <1>6, <1>7, <1>8 DEF IndInv

(* The cache drops an entry. *)
LEMMA ExpireStep ==
  ASSUME IndInv, NEW i \in Lines, Expire(i)
  PROVE  IndInv'
  <1> USE IndInvParts, MessagingAssumption
  <1>1. TypeOK'
    BY DEF Expire, send, wire, chan, TypeOK
  <1>2. CfgOK'
    BY DEF TypeOK, Expire, send, wire, chan, CfgOK
  <1>3. Bounds'
    BY DEF TypeOK, Expire, send, wire, chan, Bounds
  <1>4. ForwardedLast'
    BY DEF TypeOK, Expire, send, wire, chan, ForwardedLast
  <1>5. ChannelsTell'
    BY DEF TypeOK, Expire, send, wire, chan, ChannelsTell
  <1>6. OutcomeTells'
    BY DEF TypeOK, Expire, send, wire, chan, OutcomeTells, Many
  <1>7. WaitsForReply'
    BY DEF TypeOK, Expire, send, wire, chan, WaitsForReply, Received
  <1>8. ReplyNotLost'
    BY DEF TypeOK, Expire, send, wire, chan, ReplyNotLost, Received
  <1> QED BY <1>1, <1>2, <1>3, <1>4, <1>5, <1>6, <1>7, <1>8 DEF IndInv

(* The application takes a reply. *)
LEMMA TakeStep ==
  ASSUME IndInv, Take
  PROVE  IndInv'
  <1> USE IndInvParts, MessagingAssumption
  <1>1. TypeOK'
    BY DEF Take, send, wire, recv, TypeOK
  <1>2. CfgOK'
    BY DEF TypeOK, Take, send, wire, recv, CfgOK
  <1>3. Bounds'
    BY DEF TypeOK, Take, send, wire, recv, Bounds
  <1>4. ForwardedLast'
    BY DEF TypeOK, Take, send, wire, recv, ForwardedLast
  <1>5. ChannelsTell'
    BY DEF TypeOK, Take, send, wire, recv, ChannelsTell
  <1>6. OutcomeTells'
    BY DEF TypeOK, Take, send, wire, recv, OutcomeTells, Many
  <1>7. WaitsForReply'
    BY DEF TypeOK, Take, send, wire, recv, WaitsForReply, Received
  <1>8. ReplyNotLost'
    BY DEF TypeOK, Take, send, wire, recv, ReplyNotLost, Received
  <1> QED BY <1>1, <1>2, <1>3, <1>4, <1>5, <1>6, <1>7, <1>8 DEF IndInv

(* The actions of a step. *)
LEMMA NextCases ==
  ASSUME Next
  PROVE  \/ Begin \/ PolicyEnds \/ LineSends \/ LineFails \/ LinesEnd \/ Forward
         \/ SendReturns \/ BeginWithClient \/ Register \/ Take
         \/ \E i \in Lines : \/ Look(i) \/ NextLine(i) \/ ReaderGet(i)
                             \/ ReaderReceive(i) \/ Expire(i)
  BY DEF Next, Sender, Readers, Environment

(* Every behaviour of a send keeps the inductive invariant. *)
THEOREM Invariance == Spec => []IndInv
  <1>1. IndInv /\ [Next]_vars => IndInv'
    <2> SUFFICES ASSUME IndInv, [Next]_vars PROVE IndInv'
      OBVIOUS
    <2>1. CASE UNCHANGED vars
      <3> USE <2>1, IndInvParts DEF vars, send, wire, recv, chan
      <3>1. TypeOK' /\ CfgOK' /\ Bounds'
        BY DEF TypeOK, CfgOK, Bounds
      <3>2. ForwardedLast' /\ ChannelsTell' /\ OutcomeTells'
        BY DEF ForwardedLast, ChannelsTell, OutcomeTells, Many
      <3>3. WaitsForReply' /\ ReplyNotLost'
        BY DEF WaitsForReply, ReplyNotLost, Received
      <3> QED BY <3>1, <3>2, <3>3 DEF IndInv
    <2>2. CASE Next
      BY <2>2, NextCases, BeginStep, PolicyEndsStep, LineSendsStep, LineFailsStep,
         LinesEndStep, ForwardStep, SendReturnsStep, BeginWithClientStep,
         RegisterStep, TakeStep, LookStep, NextLineStep, ReaderGetStep,
         ReaderReceiveStep, ExpireStep
    <2> QED BY <2>1, <2>2
  <1> QED BY <1>1, InitInv, PTL DEF Spec

(* The types of the variables; the channels of size 1 hold at most one. *)
THEOREM TypeCorrect == Spec => []TypeOK
  <1>1. IndInv => TypeOK
    BY DEF IndInv
  <1> QED BY <1>1, Invariance, PTL

(* MultiClient.Send hands at most one reply to its caller, for any number  *)
(* of lines and of replies.                                                *)
THEOREM AtMostOneReply == Spec => []OneReply
  <1>1. IndInv => OneReply
    BY DEF IndInv, ForwardedLast, OneReply
  <1> QED BY <1>1, Invariance, PTL

(* What Send and send return is what their lines did. *)
THEOREM SendReportsRight == Spec => []SendReports
  <1>1. IndInv => SendReports
    BY DEF IndInv, OutcomeTells, ChannelsTell, SendReports
  <1> QED BY <1>1, Invariance, PTL

(* A reply that a line of the message has read is not dropped on its way   *)
(* to the caller of MultiClient.Send.                                      *)
THEOREM ReplyIsNotLost == Spec => []ReplyNotLost
  <1>1. IndInv => ReplyNotLost
    BY DEF IndInv
  <1> QED BY <1>1, Invariance, PTL
=============================================================================
