------------------------------ MODULE Outbound ------------------------------
(***************************************************************************)
(* client.go and resolver.go: the way of one message from Send or Publish  *)
(* to the websocket.  Destinations are resolved, names are looked up, the  *)
(* payload is encrypted for every destination, the destinations are packed *)
(* into client messages of limited size, and these are written one by one. *)
(*                                                                         *)
(* Keys, nonces and ciphertexts are symbolic, sizes small numbers.  Left   *)
(* out: signatures, compression, and the node the signatures are made for. *)
(***************************************************************************)
EXTENDS Resolver, SequencesExt

CONSTANTS
  KindOf,     \* Dests -> "addr", "bad" (not an address), "name" or "empty"
  Registrant, \* names -> the address with the name's owner
  KeyOf,      \* Dests -> public key
  Self,       \* our public key
  PldSize,    \* length of a payload
  DestSize,   \* Dests -> length of the destination and of a signature
  MaxSize,    \* maxClientMessageSize
  Inputs,     \* the destination lists the application sends to
  Tables,     \* the resolver lists the application has
  Depth,      \* ResolverDepth
  Topics,     \* what the list of a topic's subscribers may be
  Limit,      \* MessageConfig.Limit
  MaxOffset   \* bound: offsets from here on are all the same

ASSUME OutboundAssumption ==
  /\ PldSize \in Nat /\ DestSize \in [Dests -> Nat] /\ MaxSize \in Nat
  /\ Depth \in Nat /\ Limit \in Nat \ {0} /\ MaxOffset \in Nat
  /\ KindOf \in [Dests -> {"addr", "bad", "name", "empty"}]
  /\ \A d \in Dests : KindOf[d] = "name" => Registrant[d] \in Dests
  /\ \A ds \in Inputs : ds \in Seq(Dests)
  /\ \A t \in Tables : t \in Seq(Resolvers)
  /\ \A t \in Topics : t \in Seq(Dests) /\ Len(t) <= MaxOffset

VARIABLES
  pc,
  encrypted,  \* ~cfg.Unencrypted
  table,      \* the application's resolvers
  asked,      \* the list it gave to ResolveDests
  dests,      \* the destinations of the message
  i,          \* index of the loops
  processed,  \* what processDests has made of them
  plds,       \* the payloads
  batch,      \* destList and pldList
  total,      \* totalSize
  batches,    \* outboundMsgs
  written,    \* how many of them are on the websocket
  outcome,    \* what Send or Publish returned
  subs,       \* the subscribers of the topic, as the servers know them
  offset,
  first,      \* len(subscribers), of the first page; -1 for Send
  inPool      \* subscribersInTxPool, of the first page

topic == <<subs, offset, first, inPool>>
vars == <<pc, encrypted, table, asked, dests, i, processed, plds, batch,
          total, batches, written, outcome, topic>>

Empty == [dests |-> <<>>, plds |-> <<>>]

Init ==
  /\ pc = "idle"
  /\ encrypted \in BOOLEAN
  /\ table \in Tables
  /\ i = 1 /\ asked = <<>> /\ dests = <<>> /\ processed = <<>> /\ plds = <<>>
  /\ batch = Empty /\ total = 0 /\ batches = <<>> /\ written = 0
  /\ outcome = "pending"
  /\ subs \in Topics
  /\ offset = 0 /\ first = -1 /\ inPool = <<>>

Finish(how) == pc' = "done" /\ outcome' = how

-----------------------------------------------------------------------------
(* message.go and encryptPayload, decryptPayload. *)

Msg == {"message"}
Seal(m, k, n) == [m |-> m, k |-> k, n |-> n]
Open(c, k, n) == IF c.k = k /\ c.n = n THEN c.m ELSE {}

SharedKey(a, b) == {a, b}

(* Mutant: the nonces of the key and of the message change places. *)
EncryptPayloadSwapped(m, ds) ==
  IF Len(ds) > 1
    THEN [j \in 1..Len(ds) |->
           [payload |-> Seal(m, {"random"}, 0), nonce |-> <<0, j>>,
            encryptedKey |-> <<Seal({"random"}, SharedKey(Self, KeyOf[ds[j]]), j)>>]]
    ELSE <<[payload |-> Seal(m, SharedKey(Self, KeyOf[ds[1]]), 0),
            nonce |-> <<0>>, encryptedKey |-> <<>>]>>

(* With several destinations the message is encrypted once with a random   *)
(* key, and the key for each of them.  Nonce 0 is the message's.           *)
EncryptPayload(m, ds) ==
  IF Len(ds) > 1
    THEN [j \in 1..Len(ds) |->
           [payload |-> Seal(m, {"random"}, 0), nonce |-> <<j, 0>>,
            encryptedKey |-> <<Seal({"random"}, SharedKey(Self, KeyOf[ds[j]]), j)>>]]
    ELSE <<[payload |-> Seal(m, SharedKey(Self, KeyOf[ds[1]]), 0),
            nonce |-> <<0>>, encryptedKey |-> <<>>]>>

DecryptPayload(msg, me, src) ==
  IF Len(msg.encryptedKey) > 0
    THEN LET k == Open(msg.encryptedKey[1], SharedKey(me, src), msg.nonce[1])
         IN Open(msg.payload, k, msg.nonce[2])
    ELSE Open(msg.payload, SharedKey(me, src), msg.nonce[1])

-----------------------------------------------------------------------------
(* Send: the destinations. *)

(* The application calls the package's ResolveDests. *)
Resolve(ds) ==
  /\ pc = "idle"
  /\ asked' = ds
  /\ dests' = ResolveDests(ds, table, Depth)
  /\ pc' = "resolved"
  /\ UNCHANGED <<encrypted, table, i, processed, plds, batch, total, batches,
                 written, outcome, topic>>

(* NewClient fills resolvers in a loop over its length, which is 0. *)
ClientResolvers ==
  LET resolvers == <<>> IN [k \in 1..Len(resolvers) |-> table[k]]

(* Send resolves with the client's resolvers. *)
Send(ds) ==
  LET r == ResolveDests(ds, ClientResolvers, Depth) IN
  /\ \/ pc = "idle"
     \/ pc = "resolved" /\ ds = dests
  /\ IF ds # <<>> /\ r = <<>>
       THEN Finish("invalid") /\ UNCHANGED dests
       ELSE /\ pc' = "process" /\ dests' = r
            /\ UNCHANGED outcome
  /\ UNCHANGED <<encrypted, table, asked, i, processed, plds, batch, total,
                 batches, written, topic>>

-----------------------------------------------------------------------------
(* Publish: the subscribers, page by page. *)

(* GetSubscribers. *)
Page(from) ==
  LET rest == Len(subs) - from IN
  [k \in 1..(IF rest > Limit THEN Limit ELSE rest) |-> subs[from + k]]

PublishFirst ==
  /\ pc = "idle"
  /\ pc' = "pages"
  /\ dests' = Page(0)
  /\ first' = Len(Page(0))
  /\ inPool' \in Topics
  /\ UNCHANGED <<encrypted, table, asked, i, processed, plds, batch, total,
                 batches, written, outcome, subs, offset>>

(* The first page was full: GetSubscribers for the next one. *)
PublishAsk ==
  /\ pc = "pages" /\ first >= Limit
  /\ pc' = "query"
  /\ offset' = IF offset + Limit > MaxOffset THEN MaxOffset ELSE offset + Limit
  /\ UNCHANGED <<encrypted, table, asked, dests, i, processed, plds, batch,
                 total, batches, written, outcome, subs, first, inPool>>

(* The loop tests the first page again. *)
PublishMore ==
  /\ pc = "query"
  /\ pc' = "pages"
  /\ dests' = dests \o Page(offset)
  /\ UNCHANGED <<encrypted, table, asked, i, processed, plds, batch, total,
                 batches, written, outcome, topic>>

PublishSend ==
  /\ pc = "pages" /\ first < Limit
  /\ pc' = "process"
  /\ dests' = dests \o inPool
  /\ UNCHANGED <<encrypted, table, asked, i, processed, plds, batch, total,
                 batches, written, outcome, topic>>

(* GetSubscribers fails. *)
PublishFails ==
  /\ pc \in {"idle", "query"}
  /\ Finish("error")
  /\ UNCHANGED <<encrypted, table, asked, dests, i, processed, plds, batch, total,
                 batches, written, topic>>

(* Subscriptions begin and end. *)
SubscribersChange ==
  /\ pc \in {"pages", "query"}
  /\ subs' \in Topics
  /\ UNCHANGED <<pc, encrypted, table, asked, dests, i, processed, plds, batch,
                 total, batches, written, outcome, offset, first, inPool>>

-----------------------------------------------------------------------------
(* sendTimeout: names, payloads, batches. *)

(* processDests: what has no address is left out. *)
ProcessDest ==
  /\ pc = "process" /\ i <= Len(dests)
  /\ \/ /\ KindOf[dests[i]] \in {"addr", "bad"}
        /\ processed' = Append(processed, dests[i])
     \/ /\ KindOf[dests[i]] = "name"
        /\ processed' = Append(processed, Registrant[dests[i]])
     \/ /\ KindOf[dests[i]] \in {"name", "empty"}   \* GetRegistrant fails
        /\ UNCHANGED processed
  /\ i' = i + 1
  /\ UNCHANGED <<pc, encrypted, table, asked, dests, plds, batch, total,
                 batches, written, outcome, topic>>

HasBad == \E d \in Range(processed) : KindOf[d] = "bad"

Plain == [payload |-> Seal(Msg, {}, 0), nonce |-> <<>>, encryptedKey |-> <<>>]

(* newPayloads, unless there is nothing to send to. *)
NewPayloads ==
  /\ pc = "process" /\ i = Len(dests) + 1
  /\ CASE dests = <<>> -> Finish("ok") /\ UNCHANGED plds
       [] dests # <<>> /\ processed = <<>> -> Finish("invalid") /\ UNCHANGED plds
       [] processed # <<>> /\ encrypted /\ HasBad ->
            Finish("error") /\ UNCHANGED plds
       [] OTHER -> /\ pc' = "pack"
                   /\ plds' = IF encrypted THEN EncryptPayload(Msg, processed)
                                           ELSE <<Plain>>
                   /\ UNCHANGED outcome
  /\ i' = 1
  /\ UNCHANGED <<encrypted, table, asked, dests, processed, batch, total,
                 batches, written, topic>>

Size(d) == PldSize + DestSize[d]

(* The sum of size over the destinations ds. *)
SumOf(size, ds) ==
  LET sum[k \in 0..Len(ds)] == IF k = 0 THEN 0 ELSE sum[k - 1] + size[ds[k]]
  IN sum[Len(ds)]

Add(b, k) == [dests |-> Append(b.dests, processed[k]),
              plds  |-> Append(b.plds, plds[k])]

(* Mutant: totalSize is not reset. *)
PackKeepsTotal ==
  LET size == Size(processed[i])
      full == total + size > MaxSize
  IN
  /\ pc = "pack" /\ Len(plds) > 1 /\ i <= Len(plds)
  /\ size <= MaxSize
  /\ batches' = IF full THEN Append(batches, batch) ELSE batches
  /\ batch' = Add(IF full THEN Empty ELSE batch, i)
  /\ total' = total + size
  /\ i' = i + 1
  /\ UNCHANGED <<pc, encrypted, table, asked, dests, processed, plds, written,
                 outcome, topic>>

(* Mutant: the destination that does not fit is dropped. *)
PackDrops ==
  LET size == Size(processed[i])
      full == total + size > MaxSize
  IN
  /\ pc = "pack" /\ Len(plds) > 1 /\ i <= Len(plds)
  /\ size <= MaxSize
  /\ batches' = IF full THEN Append(batches, batch) ELSE batches
  /\ batch' = IF full THEN Empty ELSE Add(batch, i)
  /\ total' = IF full THEN 0 ELSE total + size
  /\ i' = i + 1
  /\ UNCHANGED <<pc, encrypted, table, asked, dests, processed, plds, written,
                 outcome, topic>>

(* The next destination, in the batch at hand or in a new one. *)
Pack ==
  LET size == Size(processed[i])
      full == total + size > MaxSize
  IN
  /\ pc = "pack" /\ Len(plds) > 1 /\ i <= Len(plds)
  /\ size <= MaxSize
  /\ batches' = IF full THEN Append(batches, batch) ELSE batches
  /\ batch' = Add(IF full THEN Empty ELSE batch, i)
  /\ total' = IF full THEN size ELSE total + size
  /\ i' = i + 1
  /\ UNCHANGED <<pc, encrypted, table, asked, dests, processed, plds, written,
                 outcome, topic>>

(* A destination that fits into no batch: nothing has been written yet. *)
PackOversize ==
  /\ pc = "pack" /\ Len(plds) > 1 /\ i <= Len(plds)
  /\ Size(processed[i]) > MaxSize
  /\ Finish("oversize")
  /\ UNCHANGED <<encrypted, table, asked, dests, i, processed, plds, batch,
                 total, batches, written, topic>>

PackEnds ==
  /\ pc = "pack" /\ Len(plds) > 1 /\ i = Len(plds) + 1
  /\ batches' = Append(batches, batch)
  /\ pc' = "write"
  /\ UNCHANGED <<encrypted, table, asked, dests, i, processed, plds, batch,
                 total, written, outcome, topic>>

WholeSize == PldSize + SumOf(DestSize, processed)

(* One payload: one batch, or none. *)
PackWhole ==
  /\ pc = "pack" /\ Len(plds) = 1
  /\ IF WholeSize > MaxSize THEN Finish("oversize") /\ UNCHANGED batches
     ELSE IF HasBad THEN Finish("error") /\ UNCHANGED batches
     ELSE /\ batches' = <<[dests |-> processed, plds |-> plds]>>
          /\ pc' = "write"
          /\ UNCHANGED outcome
  /\ UNCHANGED <<encrypted, table, asked, dests, i, processed, plds, batch,
                 total, written, topic>>

(* writeMessage, batch by batch. *)
WriteMessage ==
  /\ pc = "write"
  /\ written' = written + 1
  /\ IF written' = Len(batches) THEN Finish("ok") ELSE UNCHANGED <<pc, outcome>>
  /\ UNCHANGED <<encrypted, table, asked, dests, i, processed, plds, batch,
                 total, batches, topic>>

(* It fails: the batches before stay sent, the rest is not tried. *)
WriteFails ==
  /\ pc = "write"
  /\ Finish("write")
  /\ UNCHANGED <<encrypted, table, asked, dests, i, processed, plds, batch,
                 total, batches, written, topic>>

-----------------------------------------------------------------------------
Step ==
  \/ PublishAsk \/ PublishMore \/ PublishSend
  \/ ProcessDest \/ NewPayloads
  \/ Pack \/ PackOversize \/ PackEnds \/ PackWhole
  \/ WriteMessage \/ WriteFails

Next ==
  \/ \E ds \in Inputs : Resolve(ds) \/ Send(ds)
  \/ Send(dests)
  \/ PublishFirst \/ PublishFails \/ SubscribersChange
  \/ Step

Spec == Init /\ [][Next]_vars

(* The goroutine that called Send or Publish runs on. *)
FairSpec == Spec /\ WF_vars(Step)

-----------------------------------------------------------------------------
(* Properties. *)

(* The variables keep their types. *)
TypeOK ==
  /\ pc \in {"idle", "resolved", "pages", "query", "process", "pack", "write", "done"}
  /\ outcome \in {"pending", "ok", "invalid", "error", "oversize", "write"}
  /\ (pc = "done") <=> (outcome # "pending")
  /\ \A s \in {asked, dests, processed} : Range(s) \subseteq Dests
  /\ Len(batch.dests) = Len(batch.plds)
  /\ total \in 0..MaxSize /\ written \in 0..Len(batches)
  /\ offset \in 0..MaxOffset /\ first \in -1..Limit

Sent == FlattenSeq([k \in 1..written |-> batches[k].dests])

BatchSize(b) ==
  IF Len(b.plds) > 1 THEN SumOf([d \in Dests |-> Size(d)], b.dests)
                     ELSE PldSize + SumOf(DestSize, b.dests)

(* sendTimeout packs every destination into exactly one batch, in order;   *)
(* no batch is empty or larger than maxClientMessageSize; an error before  *)
(* the first write means that nothing was sent, one in the middle that a   *)
(* prefix was, and success that every destination was.                     *)
BatchesRight ==
  /\ IsPrefix(Sent, processed)
  /\ outcome = "ok" => Sent = processed
  /\ outcome \in {"invalid", "error", "oversize"} => Sent = <<>>
  /\ \A k \in 1..Len(batches) :
       batches[k].dests # <<>> /\ BatchSize(batches[k]) <= MaxSize

(* Whoever gets an encrypted message can read it: payload and destination  *)
(* stay together through the batches, and decryptPayload finds the nonces  *)
(* where encryptPayload puts them, with one destination and with several.  *)
Readable ==
  \A k \in 1..Len(batches) : \A j \in 1..Len(batches[k].dests) :
    LET b   == batches[k]
        pld == IF Len(b.plds) > 1 THEN b.plds[j] ELSE b.plds[1]
    IN encrypted => DecryptPayload(pld, KeyOf[b.dests[j]], Self) = Msg

(* ResolveDests gives for every destination, in order, where it leads to   *)
(* in fewer than depth hops, and leaves out exactly the ones that lead     *)
(* nowhere: chains of depth hops, circles, and what a resolver fails on.   *)
ResolvedFully ==
  pc = "resolved" =>
    \E from \in [1..Len(dests) -> 1..Len(asked)] :
      /\ \A k, l \in 1..Len(dests) : k < l => from[k] < from[l]
      /\ \A k \in 1..Len(dests) : LeadsTo(asked[from[k]], dests[k], table, Depth)
      /\ \A j \in 1..Len(asked), e \in Dests :
           LeadsTo(asked[j], e, table, Depth) => \E k \in 1..Len(dests) : from[k] = j

(* Publish returns, however many subscribers the topic has. *)
PublishReturns == pc = "pages" ~> pc = "done"
=============================================================================
