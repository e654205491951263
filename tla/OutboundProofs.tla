--------------------------- MODULE OutboundProofs ---------------------------
(* Proofs about Outbound.tla and Resolver.tla: for any destinations, any   *)
(* lists of them, any sizes, any resolvers and any depth.                  *)
EXTENDS Outbound, TLAPS, SequenceTheorems, WellFoundedInduction

-----------------------------------------------------------------------------
(* What the invariant is about. *)

(* What newPayloads makes: for a message without encryption, for one of    *)
(* several destinations, and for a single one.                             *)
PldFor(d, j) ==
  [payload |-> Seal(Msg, {"random"}, 0), nonce |-> <<j, 0>>,
   encryptedKey |-> <<Seal({"random"}, SharedKey(Self, KeyOf[d]), j)>>]
PldOnly(d) ==
  [payload |-> Seal(Msg, SharedKey(Self, KeyOf[d]), 0),
   nonce |-> <<0>>, encryptedKey |-> <<>>]
Payloads ==
  {Plain} \cup {PldFor(d, j) : d \in Dests, j \in Nat} \cup {PldOnly(d) : d \in Dests}

BatchSet == [dests : Seq(Dests), plds : Seq(Payloads)]

DestsOf(bs, n) == [k \in 1..n |-> bs[k].dests]
Flat(bs, n) == FlattenSeq(DestsOf(bs, n))

(* What decryptPayload of the destination d makes of a payload. *)
Opens(pld, d) == DecryptPayload(pld, KeyOf[d], Self) = Msg

(* The payloads of ps, one by one, are for the destinations of ds. *)
OpenAll(ps, ds) ==
  /\ Len(ps) = Len(ds)
  /\ \A j \in 1..Len(ds) : Opens(ps[j], ds[j])

SizeFn == [d \in Dests |-> Size(d)]

GoodBatch(b) ==
  /\ b.dests # <<>>
  /\ BatchSize(b) <= MaxSize
  /\ encrypted => OpenAll(b.plds, b.dests)

-----------------------------------------------------------------------------
(* The inductive invariant. *)

Early == {"idle", "resolved", "pages", "query"}

(* The sets the variables are in. *)
Shape ==
  /\ pc \in Early \cup {"process", "pack", "write", "done"}
  /\ outcome \in {"pending", "ok", "invalid", "error", "oversize", "write"}
  /\ (pc = "done") <=> (outcome # "pending")
  /\ encrypted \in BOOLEAN
  /\ table \in Tables /\ subs \in Topics
  /\ asked \in Seq(Dests) /\ dests \in Seq(Dests) /\ inPool \in Seq(Dests)
  /\ processed \in Seq(Dests) /\ plds \in Seq(Payloads)
  /\ batch \in BatchSet /\ batches \in Seq(BatchSet)
  /\ i \in Nat \ {0} /\ total \in 0..MaxSize
  /\ offset \in 0..MaxOffset /\ first \in -1..Limit
  /\ written \in 0..Len(batches)

(* Before the packing. *)
Stages ==
  /\ pc \in Early => i = 1 /\ processed = <<>>
  /\ pc \in Early \cup {"process"} => batches = <<>> /\ batch = Empty /\ total = 0
  /\ pc = "process" => i <= Len(dests) + 1 /\ Len(processed) < i

(* The packing: what is in the batches so far is the list up to i, and     *)
(* totalSize is the size of the batch at hand.                             *)
Packing ==
  pc = "pack" =>
    /\ processed # <<>> /\ plds # <<>> /\ written = 0
    /\ encrypted => OpenAll(plds, processed)
    /\ ~encrypted => Len(plds) = 1
    /\ i <= Len(plds) + 1
    /\ Flat(batches, Len(batches)) \o batch.dests = SubSeq(processed, 1, i - 1)
    /\ total = SumOf(SizeFn, batch.dests)
    /\ i > 1 => batch.dests # <<>>
    /\ encrypted => OpenAll(batch.plds, batch.dests)

(* The batch at hand keeps its two lists together. *)
Paired == Len(batch.dests) = Len(batch.plds)

(* Every finished batch is right. *)
Finished == \A k \in 1..Len(batches) : GoodBatch(batches[k])

(* From the first write on, and after a Send that sent nothing. *)
Writing ==
  /\ pc = "write" => written < Len(batches)
  /\ pc = "write" \/ written > 0 => Flat(batches, Len(batches)) = processed
  /\ outcome = "ok" => Flat(batches, written) = processed
  /\ outcome \in {"invalid", "error", "oversize"} => written = 0

IInv == Shape /\ Stages /\ Packing /\ Paired /\ Finished /\ Writing /\ ResolvedFully

(* A full first page, which Publish tests again and again, and never more: *)
(* as long as GetSubscribers does not fail it goes on, and nothing is sent. *)
FullPageNeverSends ==
  first >= Limit =>
    written = 0 /\ (pc \in {"pages", "query"} \/ (pc = "done" /\ outcome = "error"))

(* Only Publish has a first page. *)
NoPageYet == pc \in {"idle", "resolved"} => first = -1

-----------------------------------------------------------------------------
(* Induction over natural numbers, with sets in the place of predicates.   *)

(* Every set of natural numbers that is not empty has a least one. *)
LEMMA LeastNumber ==
  ASSUME NEW T, T \subseteq Nat, T # {}
  PROVE  \E x \in T : \A y \in T : x <= y
  <1> DEFINE R == OpToRel(<, Nat)
  <1>1. IsWellFoundedOn(R, Nat)
    BY NatLessThanWellFounded
  <1>2. \A a, b \in Nat : a < b => <<a, b>> \in R
    BY DEF OpToRel
  <1> HIDE DEF R
  <1>3. PICK x \in T : \A y \in T : ~(<<y, x>> \in R)
    BY <1>1, WFMin
  <1>4. ASSUME NEW y \in T PROVE x <= y
    <2>1. x \in Nat /\ y \in Nat
      OBVIOUS
    <2>2. ~(y < x)
      BY <1>2, <1>3, <2>1, Zenon
    <2> QED BY <2>1, <2>2
  <1> QED BY <1>4

(* A set with 0 and with the successors of its elements has all numbers. *)
LEMMA SetInduction ==
  ASSUME NEW S, 0 \in S, \A n \in Nat : n \in S => n + 1 \in S
  PROVE  \A n \in Nat : n \in S
  <1> SUFFICES ASSUME Nat \ S # {} PROVE FALSE
    OBVIOUS
  <1>1. PICK x \in Nat \ S : \A y \in Nat \ S : x <= y
    BY LeastNumber
  <1>2. x # 0 /\ x - 1 \in Nat /\ ~(x <= x - 1)
    BY <1>1
  <1>3. x - 1 \in S
    BY <1>1, <1>2
  <1> QED BY <1>1, <1>2, <1>3

-----------------------------------------------------------------------------
(* SumOf. *)

(* g solves the recursion of SumOf up to n. *)
Sums(g, size, ds, n) ==
  g = [k \in 0..n |-> IF k = 0 THEN 0 ELSE g[k - 1] + size[ds[k]]]

(* The recursion has a solution. *)
LEMMA SumDefined ==
  ASSUME NEW size, NEW ds
  PROVE  \A n \in Nat : \E g : Sums(g, size, ds, n)
  <1> DEFINE S == {m \in Nat : \E g : Sums(g, size, ds, m)}
  <1>1. 0 \in S
    <2> DEFINE g == [k \in 0..0 |-> 0]
    <2>1. Sums(g, size, ds, 0)
      BY DEF Sums
    <2> QED BY <2>1
  <1>2. ASSUME NEW m \in Nat, m \in S PROVE m + 1 \in S
    <2>1. PICK g : Sums(g, size, ds, m)
      BY <1>2
    <2> DEFINE h == [k \in 0..m+1 |-> IF k = m + 1 THEN g[m] + size[ds[k]] ELSE g[k]]
    <2>2. Sums(h, size, ds, m + 1)
      BY <2>1 DEF Sums
    <2> HIDE DEF h
    <2> QED BY <2>2
  <1> HIDE DEF S
  <1>3. \A n \in Nat : n \in S
    BY <1>1, <1>2, SetInduction
  <1> QED BY <1>3 DEF S

(* SumOf is its last value. *)
LEMMA SumUnfold ==
  ASSUME NEW size, NEW D, NEW ds \in Seq(D)
  PROVE  \E g : Sums(g, size, ds, Len(ds)) /\ SumOf(size, ds) = g[Len(ds)]
  <1>1. Len(ds) \in Nat
    BY LenProperties
  <1>2. \E g : Sums(g, size, ds, Len(ds))
    BY <1>1, SumDefined
  <1> QED BY <1>2 DEF SumOf, Sums

(* The sum of nothing, and of one destination more. *)
LEMMA SumAppend ==
  ASSUME NEW D, NEW size \in [D -> Nat], NEW ds \in Seq(D)
  PROVE  /\ SumOf(size, <<>>) = 0
         /\ SumOf(size, ds) \in Nat
         /\ \A d \in D : SumOf(size, Append(ds, d)) = SumOf(size, ds) + size[d]
  <1>1. Len(ds) \in Nat /\ \A k \in 1..Len(ds) : ds[k] \in D
    BY LenProperties, ElementOfSeq
  <1>2. PICK g : Sums(g, size, ds, Len(ds)) /\ SumOf(size, ds) = g[Len(ds)]
    BY SumUnfold
  <1>3. SumOf(size, <<>>) = 0
    <2>1. PICK h : Sums(h, size, <<>>, 0) /\ SumOf(size, <<>>) = h[0]
      BY EmptySeq, SumUnfold
    <2> QED BY <2>1 DEF Sums
  <1>4. \A k \in 0..Len(ds) : g[k] \in Nat
    <2> DEFINE S == {k \in Nat : k <= Len(ds) => g[k] \in Nat}
    <2>1. 0 \in S
      BY <1>1, <1>2 DEF Sums
    <2>2. ASSUME NEW k \in Nat, k \in S PROVE k + 1 \in S
      <3> SUFFICES ASSUME k + 1 <= Len(ds) PROVE g[k + 1] \in Nat
        OBVIOUS
      <3>1. g[k + 1] = g[k] + size[ds[k + 1]]
        BY <1>1, <1>2 DEF Sums
      <3>2. g[k] \in Nat /\ ds[k + 1] \in D
        BY <1>1, <2>2
      <3> QED BY <3>1, <3>2
    <2> HIDE DEF S
    <2>3. \A k \in Nat : k \in S
      BY <2>1, <2>2, SetInduction
    <2> QED BY <1>1, <2>3 DEF S
  <1>5. ASSUME NEW d \in D
        PROVE  SumOf(size, Append(ds, d)) = SumOf(size, ds) + size[d]
    <2> DEFINE es == Append(ds, d)
    <2>1. /\ es \in Seq(D) /\ Len(es) = Len(ds) + 1 /\ es[Len(ds) + 1] = d
          /\ \A k \in 1..Len(ds) : es[k] = ds[k]
      BY AppendProperties
    <2> HIDE DEF es
    <2>2. PICK h : Sums(h, size, es, Len(es)) /\ SumOf(size, es) = h[Len(es)]
      BY <2>1, SumUnfold
    <2> DEFINE S == {k \in Nat : k <= Len(ds) => h[k] = g[k]}
    <2>3. 0 \in S
      BY <1>1, <1>2, <2>1, <2>2 DEF Sums
    <2>4. ASSUME NEW k \in Nat, k \in S PROVE k + 1 \in S
      <3> SUFFICES ASSUME k + 1 <= Len(ds) PROVE h[k + 1] = g[k + 1]
        OBVIOUS
      <3>1. k + 1 \in 1..Len(ds) /\ k + 1 \in 0..Len(es)
        BY <1>1, <2>1
      <3>2. g[k + 1] = g[k] + size[ds[k + 1]]
        BY <3>1, <1>2 DEF Sums
      <3>3. h[k + 1] = h[k] + size[es[k + 1]]
        BY <3>1, <2>2 DEF Sums
      <3>4. h[k] = g[k]
        BY <2>4, <1>1
      <3> QED BY <3>1, <3>2, <3>3, <3>4, <2>1
    <2> HIDE DEF S
    <2>5. Len(ds) \in S
      BY <1>1, <2>3, <2>4, SetInduction
    <2>6. h[Len(ds)] = g[Len(ds)]
      BY <1>1, <2>5 DEF S
    <2>7. h[Len(es)] = h[Len(ds)] + size[d]
      BY <1>1, <2>1, <2>2 DEF Sums
    <2> QED BY <1>2, <2>2, <2>6, <2>7 DEF es
  <1> QED BY <1>1, <1>2, <1>3, <1>4, <1>5

-----------------------------------------------------------------------------
(* FlattenSeq. *)

(* Concatenation, for the steps that do not look into it. *)
Cat(a, b) == a \o b

(* g solves the recursion of FlattenSeq up to n. *)
Flattens(g, s, n) ==
  g = [k \in 1..n |-> IF k = 1 THEN s[k] ELSE Cat(g[k - 1], s[k])]

(* The recursion has a solution. *)
LEMMA FlattenDefined ==
  ASSUME NEW s
  PROVE  \A n \in Nat : \E g : Flattens(g, s, n)
  <1> DEFINE S == {m \in Nat : \E g : Flattens(g, s, m)}
  <1>1. 0 \in S
    <2> DEFINE g == [k \in 1..0 |-> s[k]]
    <2>1. Flattens(g, s, 0)
      BY DEF Flattens
    <2> QED BY <2>1
  <1>2. ASSUME NEW m \in Nat, m \in S PROVE m + 1 \in S
    <2>1. PICK g : Flattens(g, s, m)
      BY <1>2
    <2> DEFINE h == [k \in 1..m+1 |->
                       IF k = m + 1 THEN (IF k = 1 THEN s[k] ELSE Cat(g[m], s[k])) ELSE g[k]]
    <2>2. Flattens(h, s, m + 1)
      BY <2>1 DEF Flattens
    <2> HIDE DEF h
    <2> QED BY <2>2
  <1> HIDE DEF S
  <1>3. \A n \in Nat : n \in S
    BY <1>1, <1>2, SetInduction
  <1> QED BY <1>3 DEF S

(* FlattenSeq is its last value. *)
LEMMA FlattenUnfold ==
  ASSUME NEW D, NEW s \in Seq(D), s # <<>>
  PROVE  \E g : Flattens(g, s, Len(s)) /\ FlattenSeq(s) = g[Len(s)]
  <1>1. Len(s) \in Nat /\ Len(s) # 0
    BY LenProperties, EmptySeq
  <1>2. \E g : Flattens(g, s, Len(s))
    BY <1>1, FlattenDefined
  <1> QED BY <1>1, <1>2 DEF FlattenSeq, Flattens, Cat

(* The concatenation of nothing, and of one sequence more. *)
LEMMA FlattenAppend ==
  ASSUME NEW D, NEW s \in Seq(Seq(D))
  PROVE  /\ FlattenSeq(<<>>) = <<>>
         /\ FlattenSeq(s) \in Seq(D)
         /\ \A e \in Seq(D) : FlattenSeq(Append(s, e)) = FlattenSeq(s) \o e
  <1>1. Len(s) \in Nat /\ \A k \in 1..Len(s) : s[k] \in Seq(D)
    BY LenProperties, ElementOfSeq
  <1>2. FlattenSeq(<<>>) = <<>>
    BY EmptySeq DEF FlattenSeq
  <1>3. CASE s = <<>>
    <2>1. FlattenSeq(s) \in Seq(D)
      BY <1>2, <1>3, EmptySeq
    <2>2. ASSUME NEW e \in Seq(D) PROVE FlattenSeq(Append(s, e)) = FlattenSeq(s) \o e
      <3> DEFINE t == Append(s, e)
      <3>1. t \in Seq(Seq(D)) /\ t # <<>> /\ Len(t) = 1 /\ t[1] = e
        BY <1>3, AppendProperties, EmptySeq
      <3> HIDE DEF t
      <3>2. PICK g : Flattens(g, t, Len(t)) /\ FlattenSeq(t) = g[Len(t)]
        BY <3>1, FlattenUnfold
      <3>3. FlattenSeq(t) = e
        BY <3>1, <3>2 DEF Flattens
      <3>4. FlattenSeq(s) \o e = e
        BY <1>2, <1>3, ConcatEmptySeq
      <3> QED BY <3>3, <3>4 DEF t
    <2> QED BY <1>2, <2>1, <2>2
  <1>4. CASE s # <<>>
    <2> DEFINE n == Len(s)
    <2>1. n \in Nat \ {0}
      BY <1>4, EmptySeq
    <2>2. PICK g : Flattens(g, s, n) /\ FlattenSeq(s) = g[n]
      BY <1>4, FlattenUnfold
    <2> HIDE DEF n
    <2>3. g[1] = s[1] /\ \A k \in 2..n : g[k] = Cat(g[k - 1], s[k])
      BY <2>1, <2>2 DEF Flattens
    <2> DEFINE S == {k \in Nat : k + 1 <= n => g[k + 1] \in Seq(D)}
    <2>4. 0 \in S
      BY <1>1, <2>1, <2>3 DEF n
    <2>5. ASSUME NEW k \in Nat, k \in S PROVE k + 1 \in S
      <3> SUFFICES ASSUME k + 2 <= n PROVE g[k + 2] \in Seq(D)
        OBVIOUS
      <3>1. g[k + 2] = Cat(g[k + 1], s[k + 2])
        BY <2>1, <2>3
      <3>2. g[k + 1] \in Seq(D) /\ s[k + 2] \in Seq(D)
        BY <1>1, <2>1, <2>5 DEF n
      <3> QED BY <3>1, <3>2, ConcatProperties DEF Cat
    <2> HIDE DEF S
    <2>6. n - 1 \in S
      BY <2>1, <2>4, <2>5, SetInduction
    <2>7. FlattenSeq(s) \in Seq(D)
      BY <2>1, <2>2, <2>6 DEF S
    <2>8. ASSUME NEW e \in Seq(D) PROVE FlattenSeq(Append(s, e)) = FlattenSeq(s) \o e
      <3> DEFINE t == Append(s, e)
      <3>1. /\ t \in Seq(Seq(D)) /\ t # <<>> /\ Len(t) = n + 1 /\ t[n + 1] = e
            /\ \A k \in 1..n : t[k] = s[k]
        BY AppendProperties DEF n
      <3> HIDE DEF t
      <3>2. PICK h : Flattens(h, t, n + 1) /\ FlattenSeq(t) = h[n + 1]
        BY <3>1, FlattenUnfold
      <3>3. h[1] = t[1] /\ \A k \in 2..(n + 1) : h[k] = Cat(h[k - 1], t[k])
        BY <2>1, <3>2 DEF Flattens
      <3> DEFINE T == {k \in Nat : k + 1 <= n => h[k + 1] = g[k + 1]}
      <3>4. 0 \in T
        BY <2>1, <2>3, <3>1, <3>3
      <3>5. ASSUME NEW k \in Nat, k \in T PROVE k + 1 \in T
        <4> SUFFICES ASSUME k + 2 <= n PROVE h[k + 2] = g[k + 2]
          OBVIOUS
        <4>1. g[k + 2] = Cat(g[k + 1], s[k + 2]) /\ h[k + 2] = Cat(h[k + 1], t[k + 2])
          BY <2>1, <2>3, <3>3
        <4>2. h[k + 1] = g[k + 1] /\ t[k + 2] = s[k + 2]
          BY <2>1, <3>1, <3>5
        <4> QED BY <4>1, <4>2
      <3> HIDE DEF T
      <3>6. n - 1 \in T
        BY <2>1, <3>4, <3>5, SetInduction
      <3>7. h[n] = g[n]
        BY <2>1, <3>6 DEF T
      <3>8. h[n + 1] = Cat(h[n], e)
        BY <2>1, <3>1, <3>3
      <3> QED BY <2>2, <3>2, <3>7, <3>8 DEF t, Cat
    <2> QED BY <1>2, <2>7, <2>8
  <1> QED BY <1>3, <1>4

-----------------------------------------------------------------------------
(* The destinations of the first n batches. *)

(* The lists of destinations form a sequence of sequences. *)
LEMMA DestsOfSeq ==
  ASSUME NEW bs \in Seq(BatchSet), NEW n \in Nat, n <= Len(bs)
  PROVE  /\ DestsOf(bs, n) \in Seq(Seq(Dests))
         /\ Len(DestsOf(bs, n)) = n
         /\ \A k \in 1..n : bs[k] \in BatchSet /\ bs[k].dests \in Seq(Dests)
  <1>1. Len(bs) \in Nat
    BY LenProperties
  <1>2. ASSUME NEW k \in 1..n
        PROVE  bs[k] \in BatchSet /\ bs[k].dests \in Seq(Dests)
    <2>1. k \in 1..Len(bs)
      BY <1>1
    <2>2. bs[k] \in BatchSet
      BY <2>1, ElementOfSeq
    <2> QED BY <2>2 DEF BatchSet
  <1>3. DestsOf(bs, n) \in [1..n -> Seq(Dests)]
    BY <1>2 DEF DestsOf
  <1>4. DestsOf(bs, n) \in Seq(Seq(Dests))
    BY <1>3, SeqDef
  <1>5. Len(DestsOf(bs, n)) = n
    BY <1>3, <1>4, LenProperties
  <1> QED BY <1>2, <1>4, <1>5

(* One batch more. *)
LEMMA FlatStep ==
  ASSUME NEW bs \in Seq(BatchSet)
  PROVE  /\ Flat(bs, 0) = <<>>
         /\ \A n \in 0..Len(bs) : Flat(bs, n) \in Seq(Dests)
         /\ \A n \in 0..(Len(bs) - 1) : Flat(bs, n + 1) = Flat(bs, n) \o bs[n + 1].dests
  <1>1. Len(bs) \in Nat
    BY LenProperties
  <1>2. Flat(bs, 0) = <<>>
    <2>1. DestsOf(bs, 0) = <<>>
      BY <1>1, DestsOfSeq, EmptySeq
    <2> QED BY <2>1, FlattenAppend, EmptySeq DEF Flat
  <1>3. ASSUME NEW n \in 0..Len(bs) PROVE Flat(bs, n) \in Seq(Dests)
    <2>1. DestsOf(bs, n) \in Seq(Seq(Dests))
      BY <1>1, DestsOfSeq
    <2> QED BY <2>1, FlattenAppend DEF Flat
  <1>4. ASSUME NEW n \in 0..(Len(bs) - 1)
        PROVE  Flat(bs, n + 1) = Flat(bs, n) \o bs[n + 1].dests
    <2>1. n \in Nat /\ n + 1 \in Nat /\ n <= Len(bs) /\ n + 1 <= Len(bs)
      BY <1>1
    <2> DEFINE s == DestsOf(bs, n)
               t == DestsOf(bs, n + 1)
               e == bs[n + 1].dests
    <2>2. s \in Seq(Seq(Dests)) /\ Len(s) = n
      BY <2>1, DestsOfSeq
    <2>3. t \in Seq(Seq(Dests)) /\ Len(t) = n + 1 /\ e \in Seq(Dests)
      BY <2>1, DestsOfSeq
    <2>4. t[n + 1] = e /\ \A k \in 1..n : t[k] = s[k]
      BY <2>1 DEF DestsOf
    <2> HIDE DEF s, t, e
    <2>5. /\ Append(s, e) \in Seq(Seq(Dests)) /\ Len(Append(s, e)) = n + 1
          /\ Append(s, e)[n + 1] = e /\ \A k \in 1..n : Append(s, e)[k] = s[k]
      BY <2>2, <2>3, AppendProperties
    <2>6. \A k \in 1..Len(t) : t[k] = Append(s, e)[k]
      BY <2>1, <2>3, <2>4, <2>5
    <2>7. t = Append(s, e)
      BY <2>3, <2>5, <2>6, SeqEqual
    <2>8. FlattenSeq(t) = FlattenSeq(s) \o e
      BY <2>2, <2>3, <2>7, FlattenAppend
    <2> QED BY <2>8 DEF Flat, s, t, e
  <1> QED BY <1>2, <1>3, <1>4

(* A sequence is a prefix of its continuations. *)
LEMMA ConcatPrefix ==
  ASSUME NEW D, NEW a \in Seq(D), NEW b \in Seq(D)
  PROVE  IsPrefix(a, a \o b)
  <1> DEFINE n == Len(a)
             c == a \o b
  <1>1. n \in Nat /\ Len(b) \in Nat /\ \A k \in 1..n : a[k] \in D
    BY LenProperties, ElementOfSeq
  <1>2. c \in Seq(D) /\ Len(c) = n + Len(b) /\ \A k \in 1..n : c[k] = a[k]
    BY <1>1, ConcatProperties
  <1> HIDE DEF n, c
  <1>3. /\ SubSeq(a, 1, n) \in Seq(D) /\ Len(SubSeq(a, 1, n)) = n
        /\ \A k \in 1..n : SubSeq(a, 1, n)[k] = a[k]
    BY <1>1, SubSeqProperties
  <1>4. \A k \in 1..n : c[k] \in D
    BY <1>1, <1>2
  <1>5. /\ SubSeq(c, 1, n) \in Seq(D) /\ Len(SubSeq(c, 1, n)) = n
        /\ \A k \in 1..n : SubSeq(c, 1, n)[k] = c[k]
    BY <1>1, <1>4, SubSeqProperties
  <1>6. SubSeq(a, 1, n) = SubSeq(c, 1, n)
    BY <1>2, <1>3, <1>5, SeqEqual
  <1>7. n <= Len(c)
    BY <1>1, <1>2
  <1> QED BY <1>6, <1>7 DEF IsPrefix, n, c

(* The destinations of the first batches are a prefix of those of all. *)
LEMMA FlatPrefix ==
  ASSUME NEW bs \in Seq(BatchSet), NEW n \in 0..Len(bs)
  PROVE  IsPrefix(Flat(bs, n), Flat(bs, Len(bs)))
  <1>1. Len(bs) \in Nat /\ n \in Nat
    BY LenProperties
  <1> DEFINE Q(m) == \E c \in Seq(Dests) : Flat(bs, m) = Flat(bs, n) \o c
             S == {k \in Nat : n + k <= Len(bs) => Q(n + k)}
  <1>2. 0 \in S
    <2>1. Flat(bs, n) = Flat(bs, n) \o <<>> /\ <<>> \in Seq(Dests)
      BY FlatStep, ConcatEmptySeq, EmptySeq
    <2>2. Q(n)
      BY <2>1, Zenon
    <2> HIDE DEF Q
    <2>3. n + 0 = n
      BY <1>1
    <2> QED BY <2>2, <2>3
  <1>3. ASSUME NEW k \in Nat, k \in S PROVE k + 1 \in S
    <2> SUFFICES ASSUME n + (k + 1) <= Len(bs) PROVE Q(n + (k + 1))
      OBVIOUS
    <2>1. n + k \in 0..(Len(bs) - 1) /\ n + k + 1 \in Nat /\ n + k + 1 \in 1..(n + k + 1)
          /\ n + k + 1 = n + (k + 1)
      BY <1>1
    <2>2. PICK c \in Seq(Dests) : Flat(bs, n + k) = Flat(bs, n) \o c
      BY <1>3, <2>1
    <2> DEFINE e == bs[n + k + 1].dests
    <2>3. Flat(bs, n + k + 1) = Flat(bs, n + k) \o e
      BY <2>1, FlatStep
    <2>4. e \in Seq(Dests)
      BY <2>1, <1>1, DestsOfSeq
    <2>5. Flat(bs, n) \in Seq(Dests)
      BY FlatStep
    <2> DEFINE a == Flat(bs, n)
    <2> HIDE DEF e, a
    <2>6. (a \o c) \o e = a \o (c \o e)
      <3>1. a \in Seq(Dests)
        BY <2>5 DEF a
      <3> QED BY <2>2, <2>4, <3>1, ConcatAssociative, SMTT(30)
    <2>7. c \o e \in Seq(Dests)
      BY <2>2, <2>4, ConcatProperties
    <2>8. Q(n + k + 1)
      BY <2>2, <2>3, <2>6, <2>7 DEF a
    <2> QED BY <2>1, <2>8
  <1> HIDE DEF S
  <1>4. Len(bs) - n \in S
    BY <1>1, <1>2, <1>3, SetInduction
  <1>5. PICK c \in Seq(Dests) : Flat(bs, Len(bs)) = Flat(bs, n) \o c
    BY <1>1, <1>4 DEF S
  <1>6. Flat(bs, n) \in Seq(Dests)
    BY FlatStep
  <1> QED BY <1>5, <1>6, ConcatPrefix

(* A batch that is put at the end. *)
LEMMA FlatAppend ==
  ASSUME NEW bs \in Seq(BatchSet), NEW b \in BatchSet
  PROVE  Flat(Append(bs, b), Len(bs) + 1) = Flat(bs, Len(bs)) \o b.dests
  <1> DEFINE cs == Append(bs, b)
             n == Len(bs)
  <1>1. n \in Nat
    BY LenProperties
  <1>2. /\ cs \in Seq(BatchSet) /\ Len(cs) = n + 1 /\ cs[n + 1] = b
        /\ \A k \in 1..n : cs[k] = bs[k]
    BY AppendProperties
  <1> HIDE DEF cs, n
  <1>3. DestsOf(cs, n) = DestsOf(bs, n)
    BY <1>2 DEF DestsOf
  <1>4. Flat(cs, n + 1) = Flat(cs, n) \o cs[n + 1].dests
    <2>1. n \in 0..(Len(cs) - 1)
      BY <1>1, <1>2
    <2> QED BY <1>2, <2>1, FlatStep
  <1> QED BY <1>2, <1>3, <1>4 DEF Flat, cs, n

-----------------------------------------------------------------------------
(* ResolveDest and the loop of ResolveDestN. *)

Answers == Dests \cup {Unknown, Fails}

(* A resolver's answer, or Unknown. *)
LEMMA ResolveDestType ==
  ASSUME NEW rs \in Seq(Resolvers), NEW d \in Dests
  PROVE  ResolveDest(d, rs) \in Answers
  <1> DEFINE knows == {k \in 1..Len(rs) : rs[k][d] # Unknown}
             least == CHOOSE k \in knows : \A j \in knows : k <= j
  <1>1. CASE knows = {}
    BY <1>1 DEF ResolveDest, Answers
  <1>2. CASE knows # {}
    <2>1. Len(rs) \in Nat
      BY LenProperties
    <2>2. knows \subseteq Nat
      BY <2>1
    <2> HIDE DEF knows
    <2>3. \E k \in knows : \A j \in knows : k <= j
      BY <1>2, <2>2, LeastNumber
    <2>4. least \in knows
      BY <2>3
    <2> HIDE DEF least
    <2>5. least \in 1..Len(rs)
      BY <2>4 DEF knows
    <2>6. rs[least] \in Resolvers
      BY <2>5, ElementOfSeq
    <2>7. rs[least][d] \in Answers
      BY <2>6 DEF Resolvers, Answers
    <2>8. ResolveDest(d, rs) = rs[least][d]
      BY <1>2 DEF ResolveDest, knows, least
    <2> QED BY <2>7, <2>8
  <1> QED BY <1>1, <1>2

(* The states of the loop: at a destination, and at its end. *)
At(x) == [dest |-> x, done |-> FALSE]
End(x) == [dest |-> x, done |-> TRUE]

(* One round. *)
Round(l, rs) ==
  LET d == IF l.done THEN Fails ELSE ResolveDest(l.dest, rs)
  IN IF l.done THEN l
     ELSE IF d = Fails THEN [dest |-> Fails, done |-> TRUE]
     ELSE IF d = Unknown THEN [dest |-> l.dest, done |-> TRUE]
     ELSE [dest |-> d, done |-> FALSE]

(* g solves the recursion of the loop up to n. *)
Loops(g, d, rs, n) ==
  g = [k \in 0..n |-> IF k = 0 THEN At(d) ELSE Round(g[k - 1], rs)]

(* What the loop returns after its last round, and the destination it is at. *)
Result(l) == IF l.done THEN l.dest ELSE Fails
DestOf(l) == l.dest

(* The states are told apart. *)
LEMMA StatesDiffer ==
  ASSUME NEW x, NEW y
  PROVE  /\ At(x) # End(y)
         /\ At(x) = At(y) => x = y
         /\ End(x) = End(y) => x = y
  <1>1. At(x).done = FALSE /\ At(x).dest = x /\ At(y).dest = y
    BY DEF At
  <1>2. End(y).done = TRUE /\ End(y).dest = y /\ End(x).dest = x
    BY DEF End
  <1> QED BY <1>1, <1>2

(* What the states say. *)
LEMMA StateResult ==
  ASSUME NEW x
  PROVE  Result(At(x)) = Fails /\ Result(End(x)) = x /\ DestOf(At(x)) = x
  BY DEF At, End, Result, DestOf

(* A round at the end changes nothing. *)
LEMMA RoundEnd ==
  ASSUME NEW rs, NEW x
  PROVE  Round(End(x), rs) = End(x)
  BY DEF End, Round

(* A round at a destination: a resolver fails, none knows, or one does. *)
LEMMA RoundAt ==
  ASSUME NEW rs, NEW x
  PROVE  /\ ResolveDest(x, rs) = Fails => Round(At(x), rs) = End(Fails)
         /\ ResolveDest(x, rs) # Fails /\ ResolveDest(x, rs) = Unknown
              => Round(At(x), rs) = End(x)
         /\ ResolveDest(x, rs) # Fails /\ ResolveDest(x, rs) # Unknown
              => Round(At(x), rs) = At(ResolveDest(x, rs))
  <1>1. At(x).done = FALSE /\ At(x).dest = x
    BY DEF At
  <1> QED BY <1>1 DEF Round, At, End

(* The recursion has a solution. *)
LEMMA LoopDefined ==
  ASSUME NEW d, NEW rs
  PROVE  \A n \in Nat : \E g : Loops(g, d, rs, n)
  <1> DEFINE S == {m \in Nat : \E g : Loops(g, d, rs, m)}
  <1>1. 0 \in S
    <2> DEFINE g == [k \in 0..0 |-> At(d)]
    <2>1. Loops(g, d, rs, 0)
      BY DEF Loops
    <2> QED BY <2>1
  <1>2. ASSUME NEW m \in Nat, m \in S PROVE m + 1 \in S
    <2>1. PICK g : Loops(g, d, rs, m)
      BY <1>2
    <2> DEFINE h == [k \in 0..m+1 |-> IF k = m + 1 THEN Round(g[m], rs) ELSE g[k]]
    <2>2. Loops(h, d, rs, m + 1)
      BY <2>1 DEF Loops
    <2> HIDE DEF h
    <2> QED BY <2>2
  <1> HIDE DEF S
  <1>3. \A n \in Nat : n \in S
    BY <1>1, <1>2, SetInduction
  <1> QED BY <1>3 DEF S

(* ResolveDestN looks at its last state. *)
LEMMA LoopUnfold ==
  ASSUME NEW d, NEW rs, NEW n \in Nat
  PROVE  \E g : /\ Loops(g, d, rs, n)
                /\ ResolveDestN(d, rs, n) = Result(g[n])
  <1>1. \E g : Loops(g, d, rs, n)
    BY LoopDefined
  <1> QED BY <1>1 DEF ResolveDestN, ResolveLoop, Loops, Round, At, Result

(* g goes round by round. *)
Runs(g, rs, n) == \A k \in 0..(n - 1) : g[k + 1] = Round(g[k], rs)

(* Round by round; the loop is at a destination, or at its end. *)
LEMMA LoopStates ==
  ASSUME NEW rs \in Seq(Resolvers), NEW d \in Dests, NEW n \in Nat,
         NEW g, Loops(g, d, rs, n)
  PROVE  /\ g[0] = At(d)
         /\ Runs(g, rs, n)
         /\ \A k \in 0..n : \/ \E x \in Dests : g[k] = At(x)
                            \/ \E x \in Dests \cup {Fails} : g[k] = End(x)
  <1>1. g[0] = At(d)
    BY DEF Loops
  <1>2. ASSUME NEW k \in 0..(n - 1) PROVE g[k + 1] = Round(g[k], rs)
    BY DEF Loops
  <1> DEFINE Good(l) == \/ \E x \in Dests : l = At(x)
                        \/ \E x \in Dests \cup {Fails} : l = End(x)
             S == {k \in Nat : k <= n => Good(g[k])}
  <1>3. 0 \in S
    BY <1>1
  <1>4. ASSUME NEW k \in Nat, k \in S PROVE k + 1 \in S
    <2> SUFFICES ASSUME k + 1 <= n PROVE Good(g[k + 1])
      OBVIOUS
    <2>1. g[k + 1] = Round(g[k], rs) /\ Good(g[k])
      BY <1>2, <1>4
    <2>2. CASE \E x \in Dests : g[k] = At(x)
      <3>1. PICK x \in Dests : g[k] = At(x)
        BY <2>2
      <3>2. ResolveDest(x, rs) \in Answers
        BY ResolveDestType
      <3>3. CASE ResolveDest(x, rs) = Fails
        BY <2>1, <3>1, <3>3, RoundAt
      <3>4. CASE ResolveDest(x, rs) # Fails /\ ResolveDest(x, rs) = Unknown
        BY <2>1, <3>1, <3>4, RoundAt
      <3>5. CASE ResolveDest(x, rs) # Fails /\ ResolveDest(x, rs) # Unknown
        <4>1. ResolveDest(x, rs) \in Dests
          BY <3>2, <3>5 DEF Answers
        <4>2. g[k + 1] = At(ResolveDest(x, rs))
          BY <2>1, <3>1, <3>5, RoundAt
        <4> QED BY <4>1, <4>2
      <3> QED BY <3>3, <3>4, <3>5
    <2>3. CASE \E x \in Dests \cup {Fails} : g[k] = End(x)
      BY <2>1, <2>3, RoundEnd
    <2> QED BY <2>1, <2>2, <2>3
  <1> HIDE DEF S
  <1>5. \A k \in Nat : k \in S
    BY <1>3, <1>4, SetInduction
  <1>6. \A k \in 0..n : Good(g[k])
    BY <1>5 DEF S
  <1> QED BY <1>1, <1>2, <1>6 DEF Runs

(* The loop stays at its end. *)
LEMMA LoopEnds ==
  ASSUME NEW rs, NEW n \in Nat, NEW g, Runs(g, rs, n),
         NEW m \in 0..n, NEW x, g[m] = End(x)
  PROVE  g[n] = End(x)
  <1> DEFINE S == {k \in Nat : m + k <= n => g[m + k] = End(x)}
  <1>1. 0 \in S
    OBVIOUS
  <1>2. ASSUME NEW k \in Nat, k \in S PROVE k + 1 \in S
    <2> SUFFICES ASSUME m + (k + 1) <= n PROVE g[m + (k + 1)] = End(x)
      OBVIOUS
    <2>1. m + k \in 0..(n - 1) /\ (m + k) + 1 = m + (k + 1)
      OBVIOUS
    <2>2. g[m + (k + 1)] = Round(g[m + k], rs)
      BY <2>1 DEF Runs
    <2>3. g[m + k] = End(x)
      BY <1>2, <2>1
    <2> QED BY <2>2, <2>3, RoundEnd
  <1> HIDE DEF S
  <1>3. n - m \in S
    BY <1>1, <1>2, SetInduction
  <1> QED BY <1>3 DEF S

(* What ResolveDestN returns is where the destination leads to. *)
LEMMA ResolveSound ==
  ASSUME NEW rs \in Seq(Resolvers), NEW d \in Dests, NEW n \in Nat
  PROVE  LET r == ResolveDestN(d, rs, n) IN
           r # Fails => r \in Dests /\ LeadsTo(d, r, rs, n)
  <1> DEFINE r == ResolveDestN(d, rs, n)
  <1>1. PICK g : Loops(g, d, rs, n) /\ r = Result(g[n])
    BY LoopUnfold
  <1> HIDE DEF r
  <1> SUFFICES ASSUME r # Fails PROVE r \in Dests /\ LeadsTo(d, r, rs, n)
    BY DEF r
  <1>2. /\ g[0] = At(d)
        /\ Runs(g, rs, n)
        /\ \A k \in 0..n : \/ \E x \in Dests : g[k] = At(x)
                           \/ \E x \in Dests \cup {Fails} : g[k] = End(x)
    BY <1>1, LoopStates
  <1>3. n \in 0..n
    OBVIOUS
  <1>4. g[n] = End(r) /\ r \in Dests
    BY <1>1, <1>2, <1>3, StateResult
  <1> DEFINE T == {k \in 0..n : \E x \in Dests \cup {Fails} : g[k] = End(x)}
  <1>5. PICK m \in T : \A y \in T : m <= y
    <2>1. n \in T /\ T \subseteq Nat
      BY <1>3, <1>4
    <2> HIDE DEF T
    <2> QED BY <2>1, LeastNumber
  <1>6. PICK z \in Dests \cup {Fails} : g[m] = End(z)
    BY <1>5
  <1>7. m \in 1..n
    BY <1>2, <1>5, <1>6, StatesDiffer
  <1>8. z = r
    <2>1. m \in 0..n
      BY <1>7
    <2>2. g[n] = End(z)
      BY <1>2, <1>6, <2>1, LoopEnds
    <2> QED BY <1>4, <2>2, StatesDiffer
  <1> DEFINE p == [j \in 0..(m - 1) |-> DestOf(g[j])]
  <1>9. ASSUME NEW j \in 0..(m - 1)
        PROVE  p[j] \in Dests /\ g[j] = At(p[j])
    <2>1. j \in 0..n /\ ~(m <= j)
      BY <1>7
    <2>2. PICK x \in Dests : g[j] = At(x)
      BY <1>2, <1>5, <2>1
    <2> QED BY <2>2, StateResult
  <1>10. p[0] = d
    BY <1>2, <1>7, StateResult
  <1>11. ASSUME NEW j \in 0..(m - 2)
         PROVE  ResolveDest(p[j], rs) = p[j + 1]
    <2>1. j \in 0..(m - 1) /\ j + 1 \in 0..(m - 1) /\ j \in 0..(n - 1)
      BY <1>7
    <2> HIDE DEF p
    <2>2. g[j] = At(p[j]) /\ g[j + 1] = At(p[j + 1])
      BY <1>9, <2>1
    <2>3. At(p[j + 1]) = Round(At(p[j]), rs)
      BY <1>2, <2>1, <2>2 DEF Runs
    <2> QED BY <2>3, RoundAt, StatesDiffer
  <1>12. p[m - 1] = r /\ ResolveDest(r, rs) = Unknown
    <2>1. m - 1 \in 0..(m - 1) /\ m - 1 \in 0..(n - 1) /\ (m - 1) + 1 = m
      BY <1>7
    <2> HIDE DEF p
    <2>2. g[m - 1] = At(p[m - 1])
      BY <1>9, <2>1
    <2>3. End(r) = Round(At(p[m - 1]), rs)
      <3>1. g[(m - 1) + 1] = Round(g[m - 1], rs)
        BY <1>2, <2>1 DEF Runs
      <3> QED BY <1>6, <1>8, <2>1, <2>2, <3>1
    <2> QED BY <2>3, RoundAt, StatesDiffer
  <1>13. p \in [0..(m - 1) -> Dests]
    BY <1>9
  <1> HIDE DEF p
  <1>14. m - 1 \in 0..(n - 1) /\ (m - 1) - 1 = m - 2
    BY <1>7
  <1> QED BY <1>4, <1>10, <1>11, <1>12, <1>13, <1>14 DEF LeadsTo

(* Where a destination leads to is what ResolveDestN returns. *)
LEMMA ResolveComplete ==
  ASSUME NEW rs \in Seq(Resolvers), NEW d \in Dests, NEW n \in Nat,
         NEW e \in Dests, LeadsTo(d, e, rs, n)
  PROVE  ResolveDestN(d, rs, n) = e
  <1> DEFINE r == ResolveDestN(d, rs, n)
  <1>1. PICK g : Loops(g, d, rs, n) /\ r = Result(g[n])
    BY LoopUnfold
  <1> HIDE DEF r
  <1>2. g[0] = At(d) /\ Runs(g, rs, n)
    BY <1>1, LoopStates
  <1>3. PICK k \in 0..(n - 1) : \E path \in [0..k -> Dests] :
          /\ path[0] = d /\ path[k] = e
          /\ \A j \in 0..(k - 1) : ResolveDest(path[j], rs) = path[j + 1]
          /\ ResolveDest(e, rs) = Unknown
    BY DEF LeadsTo
  <1>4. PICK path \in [0..k -> Dests] :
          /\ path[0] = d /\ path[k] = e
          /\ \A j \in 0..(k - 1) : ResolveDest(path[j], rs) = path[j + 1]
          /\ ResolveDest(e, rs) = Unknown
    BY <1>3
  <1> DEFINE S == {j \in Nat : j <= k => g[j] = At(path[j])}
  <1>5. 0 \in S
    BY <1>2, <1>4
  <1>6. ASSUME NEW j \in Nat, j \in S PROVE j + 1 \in S
    <2> SUFFICES ASSUME j + 1 <= k PROVE g[j + 1] = At(path[j + 1])
      OBVIOUS
    <2>1. j \in 0..(k - 1) /\ j \in 0..(n - 1) /\ j + 1 \in 0..k
      BY <1>3
    <2>2. ResolveDest(path[j], rs) = path[j + 1] /\ path[j + 1] \in Dests
      BY <1>4, <2>1
    <2>3. g[j + 1] = Round(At(path[j]), rs)
      BY <1>2, <1>6, <2>1 DEF Runs
    <2>4. path[j + 1] # Fails /\ path[j + 1] # Unknown
      BY <2>2, ResolverAssumption
    <2> QED BY <2>2, <2>3, <2>4, RoundAt
  <1> HIDE DEF S
  <1>7. \A j \in Nat : j \in S
    BY <1>5, <1>6, SetInduction
  <1>8. g[k] = At(e)
    BY <1>3, <1>4, <1>7 DEF S
  <1>9. g[k + 1] = End(e)
    <2>1. Unknown # Fails
      BY ResolverAssumption
    <2>2. g[k + 1] = Round(At(e), rs)
      BY <1>2, <1>3, <1>8 DEF Runs
    <2> QED BY <1>4, <2>1, <2>2, RoundAt
  <1>10. k + 1 \in 0..n
    BY <1>3
  <1>11. g[n] = End(e)
    BY <1>2, <1>9, <1>10, LoopEnds
  <1> QED BY <1>1, <1>11, StateResult DEF r

-----------------------------------------------------------------------------
(* ResolveDests. *)

(* One destination more, unless it could not be resolved. *)
Keep(s, d) == IF d = Fails THEN s ELSE Append(s, d)

(* h solves the recursion of ResolveDests up to n. *)
Resolves(h, ds, rs, depth, n) ==
  h = [k \in 0..n |->
         IF k = 0 THEN <<>> ELSE Keep(h[k - 1], ResolveDestN(ds[k], rs, depth))]

(* The recursion has a solution. *)
LEMMA ResolvesDefined ==
  ASSUME NEW ds, NEW rs, NEW depth
  PROVE  \A n \in Nat : \E h : Resolves(h, ds, rs, depth, n)
  <1> DEFINE S == {m \in Nat : \E h : Resolves(h, ds, rs, depth, m)}
  <1>1. 0 \in S
    <2> DEFINE h == [k \in 0..0 |-> <<>>]
    <2>1. Resolves(h, ds, rs, depth, 0)
      BY DEF Resolves
    <2> QED BY <2>1
  <1>2. ASSUME NEW m \in Nat, m \in S PROVE m + 1 \in S
    <2>1. PICK g : Resolves(g, ds, rs, depth, m)
      BY <1>2
    <2> DEFINE h == [k \in 0..m+1 |->
                       IF k = m + 1 THEN Keep(g[m], ResolveDestN(ds[k], rs, depth))
                                    ELSE g[k]]
    <2>2. Resolves(h, ds, rs, depth, m + 1)
      BY <2>1 DEF Resolves
    <2> HIDE DEF h
    <2> QED BY <2>2
  <1> HIDE DEF S
  <1>3. \A n \in Nat : n \in S
    BY <1>1, <1>2, SetInduction
  <1> QED BY <1>3 DEF S

(* ResolveDests is its last value. *)
LEMMA ResolvesUnfold ==
  ASSUME NEW D, NEW ds \in Seq(D), NEW rs, NEW depth
  PROVE  \E h : /\ Resolves(h, ds, rs, depth, Len(ds))
                /\ ResolveDests(ds, rs, depth) = h[Len(ds)]
  <1>1. Len(ds) \in Nat
    BY LenProperties
  <1>2. \E h : Resolves(h, ds, rs, depth, Len(ds))
    BY <1>1, ResolvesDefined
  <1> QED BY <1>2 DEF ResolveDests, Resolves, Keep

(* s is what the first n destinations of ds resolve to: from says where    *)
(* each of them comes from.                                                *)
Selects(s, from, ds, rs, depth, n) ==
  /\ from \in [1..Len(s) -> 1..n]
  /\ \A k, l \in 1..Len(s) : k < l => from[k] < from[l]
  /\ \A k \in 1..Len(s) : s[k] = ResolveDestN(ds[from[k]], rs, depth)
  /\ \A j \in 1..n : ResolveDestN(ds[j], rs, depth) # Fails
                       => \E k \in 1..Len(s) : from[k] = j

(* One destination more. *)
LEMMA SelectsStep ==
  ASSUME NEW ds \in Seq(Dests), NEW rs \in Seq(Resolvers), NEW depth \in Nat,
         NEW n \in Nat, n + 1 <= Len(ds), NEW s \in Seq(Dests),
         NEW from, Selects(s, from, ds, rs, depth, n)
  PROVE  LET t == Keep(s, ResolveDestN(ds[n + 1], rs, depth))
         IN t \in Seq(Dests) /\ \E f : Selects(t, f, ds, rs, depth, n + 1)
  <1> DEFINE d == ResolveDestN(ds[n + 1], rs, depth)
             N(j) == ResolveDestN(ds[j], rs, depth)
  <1>1. Len(s) \in Nat
    BY LenProperties
  <1>2. d # Fails => d \in Dests
    <2>1. Len(ds) \in Nat
      BY LenProperties
    <2>2. n + 1 \in 1..Len(ds)
      BY <2>1
    <2>3. ds[n + 1] \in Dests
      BY <2>2, ElementOfSeq
    <2> QED BY <2>3, ResolveSound
  <1>3. d = N(n + 1)
    OBVIOUS
  <1>4. /\ from \in [1..Len(s) -> 1..n]
        /\ \A k, l \in 1..Len(s) : k < l => from[k] < from[l]
        /\ \A k \in 1..Len(s) : s[k] = N(from[k])
        /\ \A j \in 1..n : N(j) # Fails => \E k \in 1..Len(s) : from[k] = j
    BY DEF Selects
  <1> SUFFICES
        /\ Keep(s, d) \in Seq(Dests)
        /\ \E f :
             /\ f \in [1..Len(Keep(s, d)) -> 1..(n + 1)]
             /\ \A k, l \in 1..Len(Keep(s, d)) : k < l => f[k] < f[l]
             /\ \A k \in 1..Len(Keep(s, d)) : Keep(s, d)[k] = N(f[k])
             /\ \A j \in 1..(n + 1) : N(j) # Fails
                  => \E k \in 1..Len(Keep(s, d)) : f[k] = j
    BY DEF Selects
  <1> HIDE DEF d, N
  <1>5. CASE d = Fails
    <2>1. Keep(s, d) = s
      BY <1>5 DEF Keep
    <2>2. from \in [1..Len(s) -> 1..(n + 1)]
      BY <1>4
    <2>3. ASSUME NEW j \in 1..(n + 1), N(j) # Fails
          PROVE  \E k \in 1..Len(s) : from[k] = j
      <3>1. j \in 1..n
        BY <1>3, <1>5, <2>3
      <3> QED BY <1>4, <2>3, <3>1
    <2> QED BY <1>4, <2>1, <2>2, <2>3
  <1>6. CASE d # Fails
    <2> DEFINE t == Append(s, d)
               f == [k \in 1..(Len(s) + 1) |-> IF k = Len(s) + 1 THEN n + 1 ELSE from[k]]
    <2>1. Keep(s, d) = t
      BY <1>6 DEF Keep
    <2>2. /\ t \in Seq(Dests) /\ Len(t) = Len(s) + 1 /\ t[Len(s) + 1] = d
          /\ \A k \in 1..Len(s) : t[k] = s[k]
      BY <1>2, <1>6, AppendProperties
    <2> HIDE DEF t
    <2>3. f[Len(s) + 1] = n + 1 /\ \A k \in 1..Len(s) : f[k] = from[k]
      BY <1>1
    <2>4. f \in [1..(Len(s) + 1) -> 1..(n + 1)]
      BY <1>1, <1>4
    <2> HIDE DEF f
    <2>5. ASSUME NEW k \in 1..Len(t), NEW l \in 1..Len(t), k < l
          PROVE  f[k] < f[l]
      <3>1. k \in 1..Len(s) /\ from[k] \in 1..n /\ f[k] = from[k]
        BY <1>1, <1>4, <2>2, <2>3, <2>5
      <3>2. CASE l = Len(s) + 1
        BY <2>3, <3>1, <3>2
      <3>3. CASE l # Len(s) + 1
        <4>1. l \in 1..Len(s) /\ f[l] = from[l]
          BY <1>1, <2>2, <2>3, <3>3
        <4> QED BY <1>4, <2>5, <3>1, <4>1
      <3> QED BY <3>2, <3>3
    <2>6. ASSUME NEW k \in 1..Len(t) PROVE t[k] = N(f[k])
      <3>1. CASE k = Len(s) + 1
        BY <1>3, <2>2, <2>3, <3>1
      <3>2. CASE k # Len(s) + 1
        <4>1. k \in 1..Len(s)
          BY <1>1, <2>2, <3>2
        <4> QED BY <1>4, <2>2, <2>3, <4>1
      <3> QED BY <3>1, <3>2
    <2>7. ASSUME NEW j \in 1..(n + 1), N(j) # Fails
          PROVE  \E k \in 1..Len(t) : f[k] = j
      <3>1. CASE j = n + 1
        BY <1>1, <2>2, <2>3, <3>1
      <3>2. CASE j # n + 1
        <4>1. j \in 1..n
          BY <3>2
        <4>2. PICK k \in 1..Len(s) : from[k] = j
          BY <1>4, <2>7, <4>1
        <4>3. k \in 1..Len(t)
          BY <1>1, <2>2, <4>2
        <4>4. f[k] = j
          BY <2>3, <4>2
        <4> QED BY <4>3, <4>4
      <3> QED BY <3>1, <3>2
    <2> QED BY <2>1, <2>2, <2>4, <2>5, <2>6, <2>7
  <1> QED BY <1>5, <1>6

(* ResolveDests selects from its list what can be resolved. *)
LEMMA ResolvesSelects ==
  ASSUME NEW ds \in Seq(Dests), NEW rs \in Seq(Resolvers), NEW depth \in Nat
  PROVE  LET s == ResolveDests(ds, rs, depth)
         IN s \in Seq(Dests) /\ \E f : Selects(s, f, ds, rs, depth, Len(ds))
  <1>1. Len(ds) \in Nat
    BY LenProperties
  <1>2. PICK h : /\ Resolves(h, ds, rs, depth, Len(ds))
                 /\ ResolveDests(ds, rs, depth) = h[Len(ds)]
    BY ResolvesUnfold
  <1> DEFINE S == {k \in Nat : k <= Len(ds) =>
                     h[k] \in Seq(Dests) /\ \E f : Selects(h[k], f, ds, rs, depth, k)}
  <1>3. 0 \in S
    <2>1. h[0] = <<>>
      BY <1>1, <1>2 DEF Resolves
    <2>2. <<>> \in Seq(Dests) /\ Len(<<>>) = 0
      BY EmptySeq
    <2>3. Selects(<<>>, [k \in 1..0 |-> 0], ds, rs, depth, 0)
      BY <2>2 DEF Selects
    <2>4. \E f : Selects(h[0], f, ds, rs, depth, 0)
      BY <2>1, <2>3
    <2> QED BY <2>1, <2>2, <2>4
  <1>4. ASSUME NEW k \in Nat, k \in S PROVE k + 1 \in S
    <2> SUFFICES ASSUME k + 1 <= Len(ds)
                 PROVE  /\ h[k + 1] \in Seq(Dests)
                        /\ \E f : Selects(h[k + 1], f, ds, rs, depth, k + 1)
      OBVIOUS
    <2>1. h[k + 1] = Keep(h[k], ResolveDestN(ds[k + 1], rs, depth))
      BY <1>1, <1>2 DEF Resolves
    <2>2. h[k] \in Seq(Dests) /\ \E f : Selects(h[k], f, ds, rs, depth, k)
      BY <1>1, <1>4
    <2>3. PICK f : Selects(h[k], f, ds, rs, depth, k)
      BY <2>2
    <2> QED BY <2>1, <2>2, <2>3, SelectsStep
  <1> HIDE DEF S
  <1>5. \A k \in Nat : k \in S
    BY <1>3, <1>4, SetInduction
  <1> QED BY <1>1, <1>2, <1>5 DEF S

(* ResolveDests in the words of ResolvedFully: in order, each destination  *)
(* is where its origin leads to, and nothing that leads somewhere is lost. *)
LEMMA ResolveDestsRight ==
  ASSUME NEW ds \in Seq(Dests), NEW rs \in Seq(Resolvers), NEW depth \in Nat
  PROVE  LET s == ResolveDests(ds, rs, depth) IN
         /\ s \in Seq(Dests)
         /\ \E from \in [1..Len(s) -> 1..Len(ds)] :
              /\ \A k, l \in 1..Len(s) : k < l => from[k] < from[l]
              /\ \A k \in 1..Len(s) : LeadsTo(ds[from[k]], s[k], rs, depth)
              /\ \A j \in 1..Len(ds), e \in Dests :
                   LeadsTo(ds[j], e, rs, depth) => \E k \in 1..Len(s) : from[k] = j
  <1> DEFINE s == ResolveDests(ds, rs, depth)
  <1>1. s \in Seq(Dests) /\ \E f : Selects(s, f, ds, rs, depth, Len(ds))
    BY ResolvesSelects
  <1>2. PICK f : Selects(s, f, ds, rs, depth, Len(ds))
    BY <1>1
  <1> HIDE DEF s
  <1>3. /\ f \in [1..Len(s) -> 1..Len(ds)]
        /\ \A k, l \in 1..Len(s) : k < l => f[k] < f[l]
        /\ \A k \in 1..Len(s) : s[k] = ResolveDestN(ds[f[k]], rs, depth)
        /\ \A j \in 1..Len(ds) : ResolveDestN(ds[j], rs, depth) # Fails
                       => \E k \in 1..Len(s) : f[k] = j
    BY <1>2 DEF Selects
  <1>4. ASSUME NEW k \in 1..Len(s) PROVE LeadsTo(ds[f[k]], s[k], rs, depth)
    <2>1. f[k] \in 1..Len(ds)
      BY <1>3
    <2>2. ds[f[k]] \in Dests /\ s[k] \in Dests
      BY <1>1, <2>1, ElementOfSeq
    <2>3. s[k] = ResolveDestN(ds[f[k]], rs, depth)
      BY <1>3
    <2>4. s[k] # Fails
      BY <2>2, ResolverAssumption
    <2> QED BY <2>2, <2>3, <2>4, ResolveSound
  <1>5. ASSUME NEW j \in 1..Len(ds), NEW e \in Dests, LeadsTo(ds[j], e, rs, depth)
        PROVE  \E k \in 1..Len(s) : f[k] = j
    <2>1. ds[j] \in Dests
      BY ElementOfSeq
    <2>2. ResolveDestN(ds[j], rs, depth) = e
      BY <1>5, <2>1, ResolveComplete
    <2>3. ResolveDestN(ds[j], rs, depth) # Fails
      BY <2>2, ResolverAssumption
    <2> QED BY <1>3, <2>3
  <1>6. \E from \in [1..Len(s) -> 1..Len(ds)] :
              /\ \A k, l \in 1..Len(s) : k < l => from[k] < from[l]
              /\ \A k \in 1..Len(s) : LeadsTo(ds[from[k]], s[k], rs, depth)
              /\ \A j \in 1..Len(ds), e \in Dests :
                   LeadsTo(ds[j], e, rs, depth) => \E k \in 1..Len(s) : from[k] = j
    BY <1>3, <1>4, <1>5
  <1> QED BY <1>1, <1>6 DEF s

-----------------------------------------------------------------------------
(* Encryption. *)

(* The key of several destinations is opened first, then the message. *)
LEMMA OpensFor ==
  ASSUME NEW d, NEW j
  PROVE  Opens(PldFor(d, j), d)
  <1> DEFINE k == SharedKey(Self, KeyOf[d])
             c == Seal({"random"}, k, j)
             m == PldFor(d, j)
  <1>1. /\ m.encryptedKey = <<c>> /\ m.nonce = <<j, 0>>
        /\ m.payload = Seal(Msg, {"random"}, 0)
    BY DEF PldFor
  <1>2. Len(m.encryptedKey) > 0 /\ m.encryptedKey[1] = c /\ m.nonce[1] = j /\ m.nonce[2] = 0
    BY <1>1
  <1>3. SharedKey(KeyOf[d], Self) = k
    BY DEF SharedKey
  <1> HIDE DEF k, m
  <1>4. Open(c, k, j) = {"random"}
    BY DEF Open, Seal
  <1>5. Open(Seal(Msg, {"random"}, 0), {"random"}, 0) = Msg
    BY DEF Open, Seal
  <1>6. DecryptPayload(m, KeyOf[d], Self) = Msg
    BY <1>1, <1>2, <1>3, <1>4, <1>5 DEF DecryptPayload
  <1> QED BY <1>6 DEF Opens, m

(* The payload of a single destination is opened at once. *)
LEMMA OpensOnly ==
  ASSUME NEW d
  PROVE  Opens(PldOnly(d), d)
  <1> DEFINE k == SharedKey(Self, KeyOf[d])
             m == PldOnly(d)
  <1>1. m.encryptedKey = <<>> /\ m.nonce = <<0>> /\ m.payload = Seal(Msg, k, 0)
    BY DEF PldOnly
  <1>2. ~(Len(m.encryptedKey) > 0) /\ m.nonce[1] = 0
    BY <1>1, EmptySeq
  <1>3. SharedKey(KeyOf[d], Self) = k
    BY DEF SharedKey
  <1> HIDE DEF k, m
  <1>4. Open(Seal(Msg, k, 0), k, 0) = Msg
    BY DEF Open, Seal
  <1>5. DecryptPayload(m, KeyOf[d], Self) = Msg
    BY <1>1, <1>2, <1>3, <1>4 DEF DecryptPayload
  <1> QED BY <1>5 DEF Opens, m

(* encryptPayload makes a payload for every destination, which it can open. *)
LEMMA EncryptRight ==
  ASSUME NEW ds \in Seq(Dests), ds # <<>>
  PROVE  /\ EncryptPayload(Msg, ds) \in Seq(Payloads)
         /\ OpenAll(EncryptPayload(Msg, ds), ds)
  <1> DEFINE e == EncryptPayload(Msg, ds)
             n == Len(ds)
  <1>1. n \in Nat \ {0} /\ \A j \in 1..n : ds[j] \in Dests
    BY EmptySeq, ElementOfSeq
  <1>2. CASE n > 1
    <2>1. e = [j \in 1..n |-> PldFor(ds[j], j)]
      BY <1>2 DEF EncryptPayload, PldFor
    <2> HIDE DEF e, n
    <2>2. \A j \in 1..n : PldFor(ds[j], j) \in Payloads
      BY <1>1 DEF Payloads
    <2>3. e \in [1..n -> Payloads]
      BY <2>1, <2>2
    <2>4. e \in Seq(Payloads)
      BY <1>1, <2>3, SeqDef
    <2>5. Len(e) = n
      BY <1>1, <2>3, <2>4, LenProperties
    <2>6. \A j \in 1..n : Opens(e[j], ds[j])
      BY <2>1, OpensFor
    <2> QED BY <2>4, <2>5, <2>6 DEF OpenAll, e, n
  <1>3. CASE ~(n > 1)
    <2>1. e = <<PldOnly(ds[1])>>
      BY <1>3 DEF EncryptPayload, PldOnly
    <2> HIDE DEF e, n
    <2>2. n = 1
      BY <1>1, <1>3
    <2>3. PldOnly(ds[1]) \in Payloads
      BY <1>1, <2>2 DEF Payloads
    <2>4. e \in Seq(Payloads) /\ Len(e) = 1 /\ e[1] = PldOnly(ds[1])
      BY <2>1, <2>3
    <2>5. \A j \in 1..n : Opens(e[j], ds[j])
      BY <2>2, <2>4, OpensOnly
    <2> QED BY <2>2, <2>4, <2>5 DEF OpenAll, e, n
  <1> QED BY <1>2, <1>3

-----------------------------------------------------------------------------
(* Batches. *)

(* Sizes are numbers. *)
LEMMA SizeFnType == SizeFn \in [Dests -> Nat] /\ \A d \in Dests : SizeFn[d] = Size(d)
  BY OutboundAssumption DEF SizeFn, Size

(* Concatenation of lists of destinations is associative. *)
LEMMA DestsConcat ==
  \A a, b, c \in Seq(Dests) : (a \o b) \o c = a \o (b \o c)
  <1> TAKE a, b, c \in Seq(Dests)
  <1> QED BY ConcatAssociative

(* One destination and its payload more. *)
LEMMA OpenAppend ==
  ASSUME NEW ps \in Seq(Payloads), NEW ds \in Seq(Dests), OpenAll(ps, ds),
         NEW pld \in Payloads, NEW d \in Dests, Opens(pld, d)
  PROVE  OpenAll(Append(ps, pld), Append(ds, d))
  <1> DEFINE n == Len(ds)
             qs == Append(ps, pld)
             es == Append(ds, d)
  <1>1. n \in Nat /\ Len(ps) = n /\ \A j \in 1..n : Opens(ps[j], ds[j])
    BY LenProperties DEF OpenAll
  <1>2. Len(qs) = n + 1 /\ qs[n + 1] = pld /\ \A j \in 1..n : qs[j] = ps[j]
    BY <1>1, AppendProperties
  <1>3. Len(es) = n + 1 /\ es[n + 1] = d /\ \A j \in 1..n : es[j] = ds[j]
    BY <1>1, AppendProperties
  <1> HIDE DEF n, qs, es
  <1>4. ASSUME NEW j \in 1..(n + 1) PROVE Opens(qs[j], es[j])
    <2>1. CASE j = n + 1
      BY <1>2, <1>3, <2>1
    <2>2. CASE j # n + 1
      <3>1. j \in 1..n
        BY <1>1, <2>2
      <3> QED BY <1>1, <1>2, <1>3, <3>1
    <2> QED BY <2>1, <2>2
  <1>5. OpenAll(qs, es)
    BY <1>2, <1>3, <1>4 DEF OpenAll
  <1> QED BY <1>5 DEF qs, es

(* The size of a batch with a payload for every destination. *)
LEMMA BatchSizeIs ==
  ASSUME NEW b \in BatchSet, Len(b.dests) = Len(b.plds), b.dests # <<>>
  PROVE  BatchSize(b) = SumOf(SizeFn, b.dests)
  <1> DEFINE ds == b.dests
  <1>1. ds \in Seq(Dests) /\ Len(ds) = Len(b.plds) /\ ds # <<>>
    BY DEF BatchSet
  <1> HIDE DEF ds
  <1>2. Len(ds) \in Nat \ {0}
    BY <1>1, EmptySeq
  <1>3. CASE Len(ds) > 1
    <2>1. Len(b.plds) > 1
      BY <1>1, <1>3, Zenon
    <2> QED BY <2>1 DEF BatchSize, SizeFn, ds
  <1>4. CASE ~(Len(ds) > 1)
    <2>1. Len(ds) = 1
      <3>1. \A n \in Nat \ {0} : ~(n > 1) => n = 1
        OBVIOUS
      <3> QED BY <1>2, <1>4, <3>1, Zenon
    <2> DEFINE d == ds[1]
    <2>2. d \in Dests
      BY <1>1, <2>1, ElementOfSeq
    <2> HIDE DEF d
    <2>3. <<>> \in Seq(Dests) /\ Append(<<>>, d) \in Seq(Dests)
          /\ Len(Append(<<>>, d)) = 1 /\ Append(<<>>, d)[1] = d
      BY <2>2
    <2>4. ds = Append(<<>>, d)
      BY <1>1, <2>1, <2>3, SeqEqual DEF d
    <2>5. DestSize \in [Dests -> Nat] /\ PldSize \in Nat
      BY OutboundAssumption
    <2>6. SumOf(DestSize, ds) = 0 + DestSize[d]
      <3>1. SumOf(DestSize, <<>>) = 0
        BY <2>3, <2>5, SumAppend
      <3>2. SumOf(DestSize, Append(<<>>, d)) = SumOf(DestSize, <<>>) + DestSize[d]
        BY <2>2, <2>3, <2>5, SumAppend
      <3> QED BY <2>4, <3>1, <3>2
    <2>7. SumOf(SizeFn, ds) = 0 + SizeFn[d]
      <3>1. SumOf(SizeFn, <<>>) = 0
        BY <2>3, SizeFnType, SumAppend
      <3>2. SumOf(SizeFn, Append(<<>>, d)) = SumOf(SizeFn, <<>>) + SizeFn[d]
        BY <2>2, <2>3, SizeFnType, SumAppend
      <3> QED BY <2>4, <3>1, <3>2
    <2>8. BatchSize(b) = PldSize + SumOf(DestSize, ds)
      <3>1. ~(Len(b.plds) > 1)
        BY <1>1, <1>4, Zenon
      <3> QED BY <3>1 DEF BatchSize, ds
    <2>9. SizeFn[d] = PldSize + DestSize[d] /\ DestSize[d] \in Nat
      BY <2>2, <2>5, SizeFnType DEF Size
    <2>10. BatchSize(b) = SumOf(SizeFn, ds)
      BY <2>5, <2>6, <2>7, <2>8, <2>9
    <2> QED BY <2>10 DEF ds
  <1> QED BY <1>3, <1>4

(* The batch with nothing in it. *)
LEMMA EmptyBatch ==
  /\ Empty \in BatchSet /\ Empty.dests = <<>> /\ Empty.plds = <<>>
  /\ Len(Empty.dests) = Len(Empty.plds)
  /\ SumOf(SizeFn, Empty.dests) = 0
  /\ OpenAll(Empty.plds, Empty.dests)
  <1>1. Empty.dests = <<>> /\ Empty.plds = <<>>
    BY DEF Empty
  <1>2. Empty \in BatchSet
    BY EmptySeq DEF Empty, BatchSet
  <1>3. SumOf(SizeFn, <<>>) = 0
    BY SizeFnType, SumAppend, EmptySeq
  <1>4. OpenAll(<<>>, <<>>)
    BY EmptySeq DEF OpenAll
  <1> QED BY <1>1, <1>2, <1>3, <1>4

(* A page is a list of at most Limit destinations. *)
LEMMA PageType ==
  ASSUME subs \in Seq(Dests), NEW from \in Nat
  PROVE  Page(from) \in Seq(Dests) /\ Len(Page(from)) \in 0..Limit
  <1> DEFINE rest == Len(subs) - from
             m == IF rest > Limit THEN Limit ELSE rest
  <1>1. Len(subs) \in Nat /\ Limit \in Nat /\ from \in Nat
    BY LenProperties, OutboundAssumption
  <1>2. CASE m < 0
    <2>1. 1..m = {} /\ 1..0 = {}
      BY <1>1, <1>2
    <2>2. Page(from) \in [1..0 -> Dests]
      BY <2>1 DEF Page
    <2>3. Page(from) \in Seq(Dests)
      BY <2>2, SeqDef
    <2>4. Len(Page(from)) = 0
      BY <2>2, <2>3, LenProperties
    <2> QED BY <1>1, <2>3, <2>4
  <1>3. CASE ~(m < 0)
    <2>1. m \in Nat /\ m <= Limit /\ from + m <= Len(subs)
      BY <1>1, <1>3
    <2>2. ASSUME NEW k \in 1..m PROVE subs[from + k] \in Dests
      <3>1. from + k \in 1..Len(subs)
        BY <1>1, <2>1
      <3> QED BY <3>1, ElementOfSeq
    <2>3. Page(from) = [k \in 1..m |-> subs[from + k]]
      BY DEF Page
    <2> HIDE DEF m
    <2>4. Page(from) \in [1..m -> Dests]
      BY <2>2, <2>3
    <2>5. Page(from) \in Seq(Dests)
      BY <2>1, <2>4, SeqDef
    <2>6. Len(Page(from)) = m
      BY <2>1, <2>4, <2>5, LenProperties
    <2> QED BY <1>1, <2>1, <2>5, <2>6
  <1> QED BY <1>2, <1>3

-----------------------------------------------------------------------------
(* Before the packing: the variables of the batches are as in Init. *)

(* A step that leaves the batches, and ends in no stage that needs them. *)
LEMMA QuietStep ==
  ASSUME IInv, UNCHANGED <<encrypted, batch, batches, written, processed>>,
         pc' \notin {"resolved", "pack", "write"},
         outcome' = "ok" => Flat(batches, written) = processed,
         outcome' \in {"invalid", "error", "oversize"} => written = 0
  PROVE  Packing' /\ Paired' /\ Finished' /\ Writing' /\ ResolvedFully'
  <1>1. Paired /\ Finished /\ Writing
    BY DEF IInv
  <1>2. Packing'
    BY DEF Packing
  <1>3. Paired'
    BY <1>1 DEF Paired
  <1>4. Finished'
    BY <1>1 DEF Finished, GoodBatch
  <1>5. Writing'
    BY <1>1 DEF Writing
  <1>6. ResolvedFully'
    BY DEF ResolvedFully
  <1> QED BY <1>2, <1>3, <1>4, <1>5, <1>6

(* Nothing is written yet. *)
LEMMA NothingYet ==
  ASSUME IInv, pc \in Early \cup {"process"}
  PROVE  /\ batches = <<>> /\ batch = Empty /\ total = 0 /\ written = 0
         /\ Flat(batches, written) = <<>> /\ outcome = "pending"
  <1>1. batches = <<>> /\ batch = Empty /\ total = 0
    BY DEF IInv, Stages
  <1>2. written = 0
    BY <1>1, EmptySeq DEF IInv, Shape
  <1>3. Flat(<<>>, 0) = <<>>
    BY EmptySeq, FlatStep
  <1>4. outcome = "pending"
    BY DEF IInv, Shape, Early
  <1> QED BY <1>1, <1>2, <1>3, <1>4

(* The initial states. *)
LEMMA InitStep == Init => IInv
  <1> SUFFICES ASSUME Init PROVE IInv
    OBVIOUS
  <1>1. <<>> \in Seq(Dests) /\ <<>> \in Seq(Payloads) /\ <<>> \in Seq(BatchSet)
        /\ Len(<<>>) = 0
    BY EmptySeq
  <1>2. Shape
    BY <1>1, EmptyBatch, OutboundAssumption DEF Init, Shape, Early
  <1>3. Stages
    BY DEF Init, Stages, Early
  <1>4. Packing
    BY DEF Init, Packing
  <1>5. Paired
    BY EmptyBatch DEF Init, Paired
  <1>6. Finished
    BY <1>1 DEF Init, Finished
  <1>7. Writing
    BY <1>1 DEF Init, Writing
  <1>8. ResolvedFully
    BY DEF Init, ResolvedFully
  <1> QED BY <1>2, <1>3, <1>4, <1>5, <1>6, <1>7, <1>8 DEF IInv

(* The application resolves its list. *)
LEMMA ResolveStep ==
  ASSUME IInv, NEW ds \in Inputs, Resolve(ds)
  PROVE  IInv'
  <1> DEFINE r == ResolveDests(ds, table, Depth)
  <1>1. ds \in Seq(Dests) /\ table \in Seq(Resolvers) /\ Depth \in Nat
    BY OutboundAssumption DEF IInv, Shape
  <1>2. /\ r \in Seq(Dests)
        /\ \E from \in [1..Len(r) -> 1..Len(ds)] :
              /\ \A k, l \in 1..Len(r) : k < l => from[k] < from[l]
              /\ \A k \in 1..Len(r) : LeadsTo(ds[from[k]], r[k], table, Depth)
              /\ \A j \in 1..Len(ds), e \in Dests :
                   LeadsTo(ds[j], e, table, Depth) => \E k \in 1..Len(r) : from[k] = j
    BY <1>1, ResolveDestsRight
  <1>3. asked' = ds /\ dests' = r /\ table' = table
    BY DEF Resolve
  <1> HIDE DEF r
  <1>4. ResolvedFully'
    BY <1>2, <1>3 DEF ResolvedFully
  <1>5. Shape'
    BY <1>1, <1>2, <1>3 DEF IInv, Shape, Resolve, Early, topic
  <1>6. Stages'
    BY DEF IInv, Stages, Resolve, Early
  <1>7. Packing' /\ Paired'
    BY DEF IInv, Packing, Paired, Resolve
  <1>8. Finished'
    BY DEF IInv, Finished, GoodBatch, Resolve
  <1>9. Writing'
    BY DEF IInv, Writing, Resolve
  <1> QED BY <1>4, <1>5, <1>6, <1>7, <1>8, <1>9 DEF IInv

(* Send, which resolves with no resolvers. *)
LEMMA SendStep ==
  ASSUME IInv, NEW ds \in Seq(Dests), Send(ds)
  PROVE  IInv'
  <1> DEFINE r == ResolveDests(ds, ClientResolvers, Depth)
  <1>1. ClientResolvers \in Seq(Resolvers)
    BY EmptySeq DEF ClientResolvers
  <1>2. r \in Seq(Dests)
    BY <1>1, OutboundAssumption, ResolveDestsRight
  <1>3. /\ pc \in {"idle", "resolved"}
        /\ \/ pc' = "done" /\ outcome' = "invalid" /\ dests' = dests
           \/ pc' = "process" /\ outcome' = outcome /\ dests' = r
        /\ UNCHANGED <<encrypted, table, asked, i, processed, plds, batch, total,
                       batches, written, topic>>
    BY DEF Send, Finish
  <1> HIDE DEF r
  <1>4. Len(dests') \in Nat
    BY <1>2, <1>3, LenProperties DEF IInv, Shape
  <1>5. written = 0 /\ outcome = "pending"
    BY <1>3, NothingYet DEF Early
  <1>6. Packing' /\ Paired' /\ Finished' /\ Writing' /\ ResolvedFully'
    BY <1>3, <1>5, QuietStep
  <1>7. Shape'
    BY <1>2, <1>3, <1>5 DEF IInv, Shape, Early, topic
  <1>8. Stages'
    BY <1>3, <1>4, EmptySeq DEF IInv, Stages, Early
  <1> QED BY <1>6, <1>7, <1>8 DEF IInv

(* The first page of subscribers. *)
LEMMA PublishFirstStep ==
  ASSUME IInv, PublishFirst
  PROVE  IInv'
  <1>1. subs \in Seq(Dests) /\ inPool' \in Seq(Dests)
    BY OutboundAssumption DEF IInv, Shape, PublishFirst
  <1>2. Page(0) \in Seq(Dests) /\ Len(Page(0)) \in 0..Limit /\ Limit \in Nat
    BY <1>1, PageType, OutboundAssumption
  <1>3. dests' \in Seq(Dests) /\ first' \in -1..Limit
    BY <1>2 DEF PublishFirst
  <1>4. written = 0 /\ outcome = "pending"
    BY NothingYet DEF Early, PublishFirst
  <1>5. Packing' /\ Paired' /\ Finished' /\ Writing' /\ ResolvedFully'
    BY <1>4, QuietStep DEF PublishFirst
  <1>6. Shape'
    BY <1>1, <1>3 DEF IInv, Shape, PublishFirst, Early
  <1>7. Stages'
    BY DEF IInv, Stages, PublishFirst, Early
  <1> QED BY <1>5, <1>6, <1>7 DEF IInv

(* The next page is asked for. *)
LEMMA PublishAskStep ==
  ASSUME IInv, PublishAsk
  PROVE  IInv'
  <1>1. offset' \in 0..MaxOffset
    BY OutboundAssumption DEF IInv, Shape, PublishAsk
  <1>2. written = 0 /\ outcome = "pending"
    BY NothingYet DEF Early, PublishAsk
  <1>3. Packing' /\ Paired' /\ Finished' /\ Writing' /\ ResolvedFully'
    BY <1>2, QuietStep DEF PublishAsk
  <1>4. Shape'
    BY <1>1 DEF IInv, Shape, PublishAsk, Early
  <1>5. Stages'
    BY DEF IInv, Stages, PublishAsk, Early
  <1> QED BY <1>3, <1>4, <1>5 DEF IInv

(* The next page, or the subscribers in the pool, behind the list. *)
LEMMA PublishMoreStep ==
  ASSUME IInv, PublishMore \/ PublishSend
  PROVE  IInv'
  <1>1. dests \in Seq(Dests) /\ inPool \in Seq(Dests) /\ subs \in Seq(Dests)
        /\ offset \in Nat
    BY OutboundAssumption DEF IInv, Shape
  <1>2. Page(offset) \in Seq(Dests)
    BY <1>1, PageType
  <1> DEFINE e == IF PublishMore THEN Page(offset) ELSE inPool
  <1>3. e \in Seq(Dests)
    BY <1>1, <1>2
  <1>4. dests' = dests \o e
    BY DEF PublishMore, PublishSend
  <1> HIDE DEF e
  <1>5. dests' \in Seq(Dests) /\ Len(dests') \in Nat
    BY <1>1, <1>3, <1>4, ConcatProperties, LenProperties
  <1>6. pc \in Early /\ pc' \in {"pages", "process"}
    BY DEF Early, PublishMore, PublishSend
  <1>7. UNCHANGED <<encrypted, table, asked, i, processed, plds, batch, total,
                    batches, written, outcome, topic>>
    BY DEF PublishMore, PublishSend
  <1>8. written = 0 /\ outcome = "pending"
    BY <1>6, NothingYet
  <1>9. Packing' /\ Paired' /\ Finished' /\ Writing' /\ ResolvedFully'
    BY <1>6, <1>7, <1>8, QuietStep
  <1>10. Shape'
    BY <1>5, <1>6, <1>7, <1>8 DEF IInv, Shape, Early, topic
  <1>11. Stages'
    BY <1>5, <1>6, <1>7, EmptySeq DEF IInv, Stages
  <1> QED BY <1>9, <1>10, <1>11 DEF IInv

(* GetSubscribers fails, or the subscribers change. *)
LEMMA PublishOtherStep ==
  ASSUME IInv, PublishFails \/ SubscribersChange
  PROVE  IInv'
  <1>1. pc \in Early
    BY DEF Early, PublishFails, SubscribersChange
  <1>2. written = 0 /\ outcome = "pending"
    BY <1>1, NothingYet
  <1>3. \/ pc' = "done" /\ outcome' = "error"
        \/ pc' = pc /\ outcome' = outcome /\ pc # "resolved"
    BY DEF PublishFails, SubscribersChange, Finish
  <1>4. /\ UNCHANGED <<encrypted, table, asked, dests, i, processed, plds, batch,
                       total, batches, written, offset, first, inPool>>
        /\ subs' \in Topics
    BY DEF IInv, Shape, PublishFails, SubscribersChange, topic
  <1>5. pc' \notin {"resolved", "pack", "write"}
    BY <1>1, <1>3 DEF Early
  <1>6. Packing' /\ Paired' /\ Finished' /\ Writing' /\ ResolvedFully'
    BY <1>2, <1>3, <1>4, <1>5, QuietStep
  <1>7. Shape'
    BY <1>2, <1>3, <1>4 DEF IInv, Shape, Early
  <1>8. Stages'
    BY <1>1, <1>3, <1>4 DEF IInv, Stages, Early
  <1> QED BY <1>6, <1>7, <1>8 DEF IInv

(* A destination is processed. *)
LEMMA ProcessDestStep ==
  ASSUME IInv, ProcessDest
  PROVE  IInv'
  <1>1. /\ pc = "process" /\ i <= Len(dests) /\ i \in Nat \ {0}
        /\ dests \in Seq(Dests) /\ processed \in Seq(Dests) /\ Len(processed) < i
    BY DEF IInv, Shape, Stages, ProcessDest
  <1>2. Len(dests) \in Nat /\ Len(processed) \in Nat
    BY <1>1, LenProperties
  <1>3. dests[i] \in Dests
    <2>1. i \in 1..Len(dests)
      BY <1>1, <1>2
    <2> QED BY <1>1, <2>1, ElementOfSeq
  <1>4. processed' = processed \/ \E d \in Dests : processed' = Append(processed, d)
    <2>1. KindOf[dests[i]] = "name" => Registrant[dests[i]] \in Dests
      BY <1>3, OutboundAssumption
    <2> QED BY <1>3, <2>1 DEF ProcessDest
  <1>5. processed' \in Seq(Dests) /\ Len(processed') <= Len(processed) + 1
        /\ Len(processed') \in Nat
    BY <1>1, <1>2, <1>4, AppendProperties
  <1>6. i' = i + 1 /\ pc' = "process"
        /\ UNCHANGED <<encrypted, table, asked, dests, plds, batch, total,
                       batches, written, outcome, topic>>
    BY <1>1 DEF ProcessDest
  <1>7. written = 0 /\ outcome = "pending"
    BY <1>1, NothingYet
  <1>8. Shape'
    BY <1>1, <1>5, <1>6, <1>7 DEF IInv, Shape, topic
  <1>9. Stages'
    <2>1. i' <= Len(dests') + 1 /\ Len(processed') < i'
      BY <1>1, <1>2, <1>5, <1>6
    <2>2. pc' \notin Early
      BY <1>6 DEF Early
    <2> QED BY <1>1, <1>6, <2>1, <2>2 DEF IInv, Stages
  <1>10. Packing' /\ Paired' /\ ResolvedFully'
    BY <1>6 DEF IInv, Packing, Paired, ResolvedFully
  <1>11. Finished'
    BY <1>6 DEF IInv, Finished, GoodBatch
  <1>12. Writing'
    BY <1>6, <1>7 DEF Writing
  <1> QED BY <1>8, <1>9, <1>10, <1>11, <1>12 DEF IInv

(* The payloads: nothing to send to, an error, or one for every destination. *)
LEMMA NewPayloadsStep ==
  ASSUME IInv, NewPayloads
  PROVE  IInv'
  <1>1. /\ pc = "process" /\ i = Len(dests) + 1 /\ Len(processed) < i
        /\ dests \in Seq(Dests) /\ processed \in Seq(Dests)
    BY DEF IInv, Shape, Stages, NewPayloads
  <1>2. Len(dests) \in Nat /\ Len(processed) \in Nat
    BY <1>1, LenProperties
  <1>3. /\ batches = <<>> /\ batch = Empty /\ total = 0 /\ written = 0
        /\ Flat(batches, written) = <<>> /\ outcome = "pending"
    BY <1>1, NothingYet
  <1>4. /\ i' = 1
        /\ UNCHANGED <<encrypted, table, asked, dests, processed, batch, total,
                       batches, written, topic>>
    BY DEF NewPayloads
  <1>5. dests = <<>> => processed = <<>>
    <2>1. ASSUME dests = <<>> PROVE processed = <<>>
      <3>1. Len(processed) = 0
        BY <1>1, <1>2, <2>1, EmptySeq
      <3> QED BY <1>1, <3>1, EmptySeq
    <2> QED BY <2>1
  <1>6. \/ /\ pc' = "done" /\ plds' = plds
           /\ \/ outcome' = "ok" /\ processed = <<>>
              \/ outcome' \in {"invalid", "error"}
        \/ /\ pc' = "pack" /\ outcome' = outcome /\ processed # <<>>
           /\ plds' = IF encrypted THEN EncryptPayload(Msg, processed) ELSE <<Plain>>
    <2>1. CASE dests = <<>>
      BY <1>5, <2>1 DEF NewPayloads, Finish
    <2>2. CASE dests # <<>> /\ processed = <<>>
      BY <2>2 DEF NewPayloads, Finish
    <2>3. CASE dests # <<>> /\ processed # <<>> /\ encrypted /\ HasBad
      BY <2>3 DEF NewPayloads, Finish
    <2>4. CASE dests # <<>> /\ processed # <<>> /\ ~(encrypted /\ HasBad)
      BY <2>4 DEF NewPayloads, Finish
    <2> QED BY <2>1, <2>2, <2>3, <2>4
  <1>7. CASE pc' = "done"
    <2>1. plds' = plds /\ (outcome' = "ok" => processed = <<>>)
          /\ outcome' \in {"ok", "invalid", "error"}
      BY <1>6, <1>7
    <2>2. Packing' /\ Paired' /\ Finished' /\ Writing' /\ ResolvedFully'
      BY <1>3, <1>4, <1>7, <2>1, QuietStep
    <2>3. Shape'
      BY <1>4, <1>7, <2>1 DEF IInv, Shape, topic
    <2>4. Stages'
      BY <1>4, <1>7 DEF Stages, Early
    <2> QED BY <2>2, <2>3, <2>4 DEF IInv
  <1>8. CASE pc' # "done"
    <2>1. /\ pc' = "pack" /\ outcome' = outcome /\ processed # <<>>
          /\ plds' = IF encrypted THEN EncryptPayload(Msg, processed) ELSE <<Plain>>
      BY <1>6, <1>8
    <2>3. /\ plds' \in Seq(Payloads) /\ plds' # <<>> /\ Len(plds') \in Nat \ {0}
          /\ encrypted => OpenAll(plds', processed)
          /\ ~encrypted => Len(plds') = 1
      <3>1. CASE encrypted
        <4>1. plds' \in Seq(Payloads) /\ OpenAll(plds', processed)
          BY <1>1, <2>1, <3>1, EncryptRight
        <4>2. Len(processed) \in Nat \ {0} /\ Len(plds') = Len(processed)
          BY <1>1, <2>1, <4>1, EmptySeq DEF OpenAll
        <4>3. plds' # <<>>
          BY <4>2, EmptySeq
        <4> QED BY <3>1, <4>1, <4>2, <4>3
      <3>2. CASE ~encrypted
        <4>1. Plain \in Payloads
          BY DEF Payloads
        <4>2. plds' = <<Plain>>
          BY <2>1, <3>2
        <4> HIDE DEF Plain
        <4> QED BY <3>2, <4>1, <4>2
      <3> QED BY <3>1, <3>2
    <2>4. Shape'
      BY <1>3, <1>4, <2>1, <2>3 DEF IInv, Shape, topic
    <2>5. Stages'
      BY <2>1 DEF Stages, Early
    <2>6. Flat(batches', Len(batches')) \o batch'.dests = SubSeq(processed', 1, i' - 1)
      <3>1. Flat(batches', Len(batches')) = <<>>
        BY <1>3, <1>4, EmptySeq, FlatStep
      <3>2. batch'.dests = <<>>
        BY <1>3, <1>4, EmptyBatch
      <3>3. SubSeq(processed, 1, 0) = <<>>
        BY SubSeqEmpty
      <3>4. <<>> \o <<>> = <<>>
        BY ConcatEmptySeq, EmptySeq
      <3> QED BY <1>4, <3>1, <3>2, <3>3, <3>4
    <2>7. Packing'
      <3>1. processed' = processed /\ encrypted' = encrypted /\ i' = 1 /\ batch' = Empty
            /\ total' = 0 /\ written' = 0
        BY <1>3, <1>4
      <3>2. i' <= Len(plds') + 1 /\ ~(i' > 1)
        BY <2>3, <3>1
      <3> QED BY <2>1, <2>3, <2>6, <3>1, <3>2, EmptyBatch DEF Packing
    <2>8. Paired' /\ ResolvedFully'
      BY <1>4, <2>1 DEF IInv, Paired, ResolvedFully
    <2>9. Finished'
      BY <1>4 DEF IInv, Finished, GoodBatch
    <2>10. Writing'
      BY <1>3, <1>4, <2>1 DEF Writing
    <2> QED BY <2>4, <2>5, <2>7, <2>8, <2>9, <2>10 DEF IInv
  <1> QED BY <1>7, <1>8

-----------------------------------------------------------------------------
(* The packing. *)

(* What is known while destinations are packed one by one. *)
LEMMA WhilePacking ==
  ASSUME IInv, pc = "pack", Len(plds) > 1
  PROVE  /\ encrypted /\ OpenAll(plds, processed) /\ Len(plds) = Len(processed)
         /\ OpenAll(batch.plds, batch.dests)
         /\ batch \in BatchSet /\ batch.dests \in Seq(Dests)
         /\ batch.plds \in Seq(Payloads)
         /\ batches \in Seq(BatchSet) /\ Len(batches) \in Nat
         /\ processed \in Seq(Dests) /\ plds \in Seq(Payloads) /\ Len(plds) \in Nat
         /\ i \in Nat \ {0} /\ total \in Nat /\ total <= MaxSize /\ MaxSize \in Nat
         /\ total = SumOf(SizeFn, batch.dests)
         /\ Flat(batches, Len(batches)) \in Seq(Dests)
         /\ Flat(batches, Len(batches)) \o batch.dests = SubSeq(processed, 1, i - 1)
         /\ written = 0 /\ outcome = "pending"
  <1>1. /\ batch \in BatchSet /\ batches \in Seq(BatchSet)
        /\ processed \in Seq(Dests) /\ plds \in Seq(Payloads)
        /\ i \in Nat \ {0} /\ total \in 0..MaxSize /\ encrypted \in BOOLEAN
        /\ outcome = "pending"
    BY DEF IInv, Shape
  <1>2. MaxSize \in Nat /\ Len(batches) \in Nat /\ Len(plds) \in Nat
    BY <1>1, OutboundAssumption, LenProperties
  <1>3. /\ written = 0
        /\ encrypted => OpenAll(plds, processed)
        /\ ~encrypted => Len(plds) = 1
        /\ Flat(batches, Len(batches)) \o batch.dests = SubSeq(processed, 1, i - 1)
        /\ total = SumOf(SizeFn, batch.dests)
        /\ encrypted => OpenAll(batch.plds, batch.dests)
    BY DEF IInv, Packing
  <1>4. encrypted /\ OpenAll(plds, processed) /\ OpenAll(batch.plds, batch.dests)
    <2>1. Len(plds) # 1
      <3>1. \A n \in Nat : n > 1 => n # 1
        OBVIOUS
      <3> QED BY <1>2, <3>1, Zenon
    <2> QED BY <1>3, <2>1, Zenon
  <1>5. Flat(batches, Len(batches)) \in Seq(Dests)
    BY <1>1, <1>2, FlatStep
  <1>6. batch.dests \in Seq(Dests) /\ batch.plds \in Seq(Payloads)
    BY <1>1 DEF BatchSet
  <1>7. Len(plds) = Len(processed)
    BY <1>4 DEF OpenAll
  <1>8. total \in Nat /\ total <= MaxSize
    BY <1>1, <1>2
  <1> QED BY <1>1, <1>2, <1>3, <1>4, <1>5, <1>6, <1>7, <1>8

(* The batch at hand, when it is finished, is a good one. *)
LEMMA BatchGood ==
  ASSUME IInv, pc = "pack", Len(plds) > 1, batch.dests # <<>>
  PROVE  GoodBatch(batch)
  <1>1. /\ OpenAll(batch.plds, batch.dests) /\ batch \in BatchSet
        /\ total = SumOf(SizeFn, batch.dests) /\ total <= MaxSize
    BY WhilePacking
  <1>2. Len(batch.dests) = Len(batch.plds)
    BY <1>1 DEF OpenAll
  <1>3. BatchSize(batch) = SumOf(SizeFn, batch.dests)
    BY <1>1, <1>2, BatchSizeIs
  <1> QED BY <1>1, <1>3 DEF GoodBatch

(* A good batch behind good ones. *)
LEMMA FinishedAppend ==
  ASSUME IInv, batches' = Append(batches, batch), encrypted' = encrypted, GoodBatch(batch)
  PROVE  Finished'
  <1> DEFINE n == Len(batches)
  <1>1. batches \in Seq(BatchSet) /\ batch \in BatchSet
    BY DEF IInv, Shape
  <1>2. n \in Nat
    BY <1>1, LenProperties
  <1>3. /\ Len(batches') = n + 1 /\ batches'[n + 1] = batch
        /\ \A k \in 1..n : batches'[k] = batches[k]
    BY <1>1, AppendProperties
  <1>4. \A k \in 1..n : GoodBatch(batches[k])
    BY DEF IInv, Finished
  <1> HIDE DEF n
  <1>5. ASSUME NEW k \in 1..(n + 1) PROVE GoodBatch(batches[k])'
    <2>1. CASE k = n + 1
      BY <1>3, <2>1 DEF GoodBatch
    <2>2. CASE k # n + 1
      <3>1. k \in 1..n
        BY <1>2, <2>2
      <3>2. GoodBatch(batches[k]) /\ batches'[k] = batches[k]
        BY <1>3, <1>4, <3>1
      <3> QED BY <3>2 DEF GoodBatch
    <2> QED BY <2>1, <2>2
  <1> QED BY <1>3, <1>5 DEF Finished

(* The next destination is packed. *)
LEMMA PackStep ==
  ASSUME IInv, Pack
  PROVE  IInv'
  <1> DEFINE d == processed[i]
             pld == plds[i]
             full == total + Size(d) > MaxSize
             b == IF full THEN Empty ELSE batch
  <1>1. pc = "pack" /\ Len(plds) > 1 /\ i <= Len(plds) /\ Size(d) <= MaxSize
    BY DEF Pack
  <1>2. /\ encrypted /\ OpenAll(plds, processed) /\ Len(plds) = Len(processed)
        /\ OpenAll(batch.plds, batch.dests)
        /\ batch \in BatchSet /\ batch.dests \in Seq(Dests)
        /\ batch.plds \in Seq(Payloads)
        /\ batches \in Seq(BatchSet) /\ Len(batches) \in Nat
        /\ processed \in Seq(Dests) /\ plds \in Seq(Payloads) /\ Len(plds) \in Nat
        /\ i \in Nat \ {0} /\ total \in Nat /\ total <= MaxSize /\ MaxSize \in Nat
        /\ total = SumOf(SizeFn, batch.dests)
        /\ Flat(batches, Len(batches)) \in Seq(Dests)
        /\ Flat(batches, Len(batches)) \o batch.dests = SubSeq(processed, 1, i - 1)
        /\ written = 0 /\ outcome = "pending"
    BY <1>1, WhilePacking
  <1>3. i \in 1..Len(plds) /\ i \in 1..Len(processed)
    BY <1>1, <1>2
  <1>4. d \in Dests /\ pld \in Payloads
    BY <1>2, <1>3, ElementOfSeq
  <1>5. Opens(pld, d)
    BY <1>2, <1>3 DEF OpenAll
  <1>6. Size(d) \in Nat /\ SizeFn[d] = Size(d)
    BY <1>4, SizeFnType
  <1>7. /\ pc' = pc /\ i' = i + 1
        /\ batches' = IF full THEN Append(batches, batch) ELSE batches
        /\ batch' = [dests |-> Append(b.dests, d), plds |-> Append(b.plds, pld)]
        /\ total' = IF full THEN Size(d) ELSE total + Size(d)
        /\ UNCHANGED <<encrypted, table, asked, dests, processed, plds, written,
                       outcome, topic>>
    BY DEF Pack, Add
  <1>8. /\ b \in BatchSet /\ b.dests \in Seq(Dests) /\ b.plds \in Seq(Payloads)
        /\ OpenAll(b.plds, b.dests) /\ SumOf(SizeFn, b.dests) = IF full THEN 0 ELSE total
    <2>1. CASE full
      BY <2>1, EmptyBatch, EmptySeq
    <2>2. CASE ~full
      BY <1>2, <2>2
    <2> QED BY <2>1, <2>2
  <1> HIDE DEF d, pld, full, b
  <1> DEFINE ds == Append(b.dests, d)
             ps == Append(b.plds, pld)
  <1>9. batch' = [dests |-> ds, plds |-> ps] /\ batch'.dests = ds /\ batch'.plds = ps
    BY <1>7
  <1>10. /\ ds \in Seq(Dests) /\ ps \in Seq(Payloads) /\ ds # <<>>
         /\ OpenAll(ps, ds)
    BY <1>4, <1>5, <1>8, AppendProperties, OpenAppend
  <1>11. SumOf(SizeFn, ds) = SumOf(SizeFn, b.dests) + Size(d)
    <2>1. SumOf(SizeFn, ds) = SumOf(SizeFn, b.dests) + SizeFn[d]
      BY <1>4, <1>8, SizeFnType, SumAppend
    <2> QED BY <1>6, <2>1
  <1> HIDE DEF ds, ps
  <1>12. total' = SumOf(SizeFn, ds) /\ total' \in 0..MaxSize
    <2>1. CASE full
      BY <1>1, <1>2, <1>6, <1>7, <1>8, <1>11, <2>1
    <2>2. CASE ~full
      <3>1. total + Size(d) <= MaxSize
        BY <1>2, <1>6, <2>2 DEF full
      <3>2. total' = total + Size(d) /\ SumOf(SizeFn, b.dests) = total
        BY <1>7, <1>8, <2>2, Zenon
      <3>3. total' = SumOf(SizeFn, ds)
        BY <1>11, <3>2, Zenon
      <3>4. total' \in 0..MaxSize
        BY <1>2, <1>6, <3>1, <3>2
      <3> QED BY <3>3, <3>4
    <2> QED BY <2>1, <2>2
  <1>13. batch' \in BatchSet
    BY <1>9, <1>10 DEF BatchSet
  <1>14. full => batch.dests # <<>>
    <2>1. ASSUME full, batch.dests = <<>> PROVE FALSE
      <3>1. total = 0
        BY <1>2, <2>1, EmptyBatch
      <3>2. total + Size(d) > MaxSize
        BY <2>1 DEF full
      <3> QED BY <1>1, <1>2, <1>6, <3>1, <3>2
    <2> QED BY <2>1
  <1>15. batches' \in Seq(BatchSet) /\ Len(batches') \in Nat
    BY <1>2, <1>7, AppendProperties, LenProperties
  <1>16. Finished'
    <2>1. CASE full
      BY <1>1, <1>7, <1>14, <2>1, BatchGood, FinishedAppend
    <2>2. CASE ~full
      BY <1>7, <2>2 DEF IInv, Finished, GoodBatch
    <2> QED BY <2>1, <2>2
  <1>17. Flat(batches', Len(batches')) \o ds = SubSeq(processed, 1, i)
    <2> DEFINE fl == Flat(batches, Len(batches))
               sub == SubSeq(processed, 1, i - 1)
    <2>1. SubSeq(processed, 1, i) = sub \o <<d>>
      <3>1. 1 \in 1..Len(processed) /\ i \in 1..Len(processed)
        BY <1>2, <1>3
      <3> QED BY <1>2, <3>1, SubSeqRecursiveSecond DEF d
    <2>2. fl \in Seq(Dests) /\ fl \o batch.dests = sub /\ batch.dests \in Seq(Dests)
      BY <1>2
    <2>3. <<d>> \in Seq(Dests)
      BY <1>4
    <2> HIDE DEF sub
    <2>4. CASE full
      <3>1. b.dests = <<>>
        BY <2>4, EmptyBatch DEF b
      <3>2. ds = <<d>>
        BY <3>1 DEF ds
      <3>3. batches' = Append(batches, batch) /\ Len(batches') = Len(batches) + 1
        BY <1>2, <1>7, <2>4, AppendProperties
      <3>4. Flat(batches', Len(batches')) = fl \o batch.dests
        BY <1>2, <3>3, FlatAppend
      <3> QED BY <2>1, <2>2, <3>2, <3>4
    <2>5. CASE ~full
      <3> DEFINE c == batch.dests
                 x == <<d>>
      <3> HIDE DEF fl, c, x
      <3>1. c \in Seq(Dests) /\ fl \in Seq(Dests) /\ fl \o c = sub
        BY <2>2 DEF c
      <3>2. ds = c \o x
        <4>1. ds = Append(c, d)
          BY <2>5 DEF ds, b, c
        <4> QED BY <1>4, <3>1, <4>1, AppendIsConcat DEF x
      <3>3. (fl \o c) \o x = fl \o (c \o x)
        <4>1. x \in Seq(Dests)
          BY <2>3 DEF x
        <4> QED BY <3>1, <4>1, DestsConcat, Zenon
      <3>4. batches' = batches
        BY <1>7, <2>5
      <3> QED BY <2>1, <3>1, <3>2, <3>3, <3>4 DEF fl, x
    <2> QED BY <2>4, <2>5
  <1>18. Packing'
    <2>1. i' - 1 = i /\ i' <= Len(plds') + 1 /\ processed' = processed /\ plds' = plds
          /\ encrypted' = encrypted /\ written' = 0
      BY <1>1, <1>2, <1>7
    <2>2. processed # <<>> /\ plds # <<>>
      BY <1>1 DEF IInv, Packing
    <2> QED BY <1>2, <1>9, <1>10, <1>12, <1>17, <2>1, <2>2 DEF Packing
  <1>19. Shape'
    <2>1. i' \in Nat \ {0} /\ written' \in 0..Len(batches')
      BY <1>2, <1>7, <1>15
    <2> QED BY <1>7, <1>12, <1>13, <1>15, <2>1 DEF IInv, Shape, topic
  <1>20. Stages' /\ ResolvedFully'
    BY <1>1, <1>7 DEF Stages, ResolvedFully, Early
  <1>21. Paired'
    BY <1>9, <1>10 DEF Paired, OpenAll
  <1>22. Writing'
    BY <1>1, <1>2, <1>7 DEF Writing
  <1> QED BY <1>16, <1>18, <1>19, <1>20, <1>21, <1>22 DEF IInv

(* A destination that fits into no batch. *)
LEMMA PackOversizeStep ==
  ASSUME IInv, PackOversize
  PROVE  IInv'
  <1>1. pc = "pack" /\ pc' = "done" /\ outcome' = "oversize"
        /\ UNCHANGED <<encrypted, table, asked, dests, i, processed, plds, batch,
                       total, batches, written, topic>>
    BY DEF PackOversize, Finish
  <1>2. written = 0
    BY <1>1 DEF IInv, Packing
  <1>3. Packing' /\ Paired' /\ Finished' /\ Writing' /\ ResolvedFully'
    BY <1>1, <1>2, QuietStep
  <1>4. Shape'
    BY <1>1 DEF IInv, Shape, topic
  <1>5. Stages'
    BY <1>1 DEF Stages, Early
  <1> QED BY <1>3, <1>4, <1>5 DEF IInv

(* The last batch: now all destinations are packed. *)
LEMMA PackEndsStep ==
  ASSUME IInv, PackEnds
  PROVE  IInv'
  <1>1. /\ pc = "pack" /\ Len(plds) > 1 /\ i = Len(plds) + 1
        /\ batches' = Append(batches, batch) /\ pc' = "write"
        /\ UNCHANGED <<encrypted, table, asked, dests, i, processed, plds, batch,
                       total, written, outcome, topic>>
    BY DEF PackEnds
  <1>2. /\ Len(plds) = Len(processed) /\ Len(plds) \in Nat
        /\ batch \in BatchSet /\ batches \in Seq(BatchSet) /\ Len(batches) \in Nat
        /\ processed \in Seq(Dests)
        /\ Flat(batches, Len(batches)) \o batch.dests = SubSeq(processed, 1, i - 1)
        /\ written = 0 /\ outcome = "pending"
    BY <1>1, WhilePacking
  <1>3. batch.dests # <<>>
    <2>1. i > 1
      BY <1>1, <1>2
    <2> QED BY <1>1, <2>1 DEF IInv, Packing
  <1>4. Finished'
    BY <1>1, <1>3, BatchGood, FinishedAppend
  <1>5. batches' \in Seq(BatchSet) /\ Len(batches') = Len(batches) + 1
    BY <1>1, <1>2, AppendProperties
  <1>6. Flat(batches', Len(batches')) = processed'
    <2>1. i - 1 = Len(processed)
      BY <1>1, <1>2
    <2>2. SubSeq(processed, 1, Len(processed)) = processed
      BY <1>2, SubSeqFull
    <2>3. Flat(batches', Len(batches')) = Flat(batches, Len(batches)) \o batch.dests
      BY <1>1, <1>2, <1>5, FlatAppend
    <2> QED BY <1>1, <1>2, <2>1, <2>2, <2>3
  <1>7. written' = 0 /\ written' < Len(batches') /\ written' \in 0..Len(batches')
    BY <1>1, <1>2, <1>5
  <1>8. Writing'
    BY <1>1, <1>2, <1>6, <1>7 DEF Writing
  <1>9. Shape'
    BY <1>1, <1>2, <1>5, <1>7 DEF IInv, Shape, topic
  <1>10. Stages' /\ Packing' /\ ResolvedFully'
    BY <1>1 DEF Stages, Packing, ResolvedFully, Early
  <1>11. Paired'
    BY <1>1 DEF IInv, Paired
  <1> QED BY <1>4, <1>8, <1>9, <1>10, <1>11 DEF IInv

(* One payload: one batch, an error, or a message that is too large. *)
LEMMA PackWholeStep ==
  ASSUME IInv, PackWhole
  PROVE  IInv'
  <1> DEFINE b == [dests |-> processed, plds |-> plds]
  <1>1. pc = "pack" /\ Len(plds) = 1
        /\ UNCHANGED <<encrypted, table, asked, dests, i, processed, plds, batch,
                       total, written, topic>>
    BY DEF PackWhole
  <1>2. \/ pc' = "done" /\ outcome' \in {"oversize", "error"} /\ batches' = batches
        \/ /\ ~(WholeSize > MaxSize)
           /\ batches' = <<b>> /\ pc' = "write" /\ outcome' = outcome
    BY DEF PackWhole, Finish
  <1>3. written = 0 /\ outcome = "pending"
    BY <1>1 DEF IInv, Packing, Shape
  <1>4. CASE pc' = "done" /\ outcome' \in {"oversize", "error"} /\ batches' = batches
    <2>1. Packing' /\ Paired' /\ Finished' /\ Writing' /\ ResolvedFully'
      BY <1>1, <1>3, <1>4, QuietStep
    <2>2. Shape'
      BY <1>1, <1>4 DEF IInv, Shape, topic
    <2>3. Stages'
      BY <1>4 DEF Stages, Early
    <2> QED BY <2>1, <2>2, <2>3 DEF IInv
  <1>5. CASE /\ ~(WholeSize > MaxSize)
             /\ batches' = <<b>> /\ pc' = "write" /\ outcome' = outcome
    <2>1. processed \in Seq(Dests) /\ plds \in Seq(Payloads)
      BY DEF IInv, Shape
    <2>2. b \in BatchSet /\ b.dests = processed /\ b.plds = plds
      BY <2>1 DEF BatchSet
    <2>3. GoodBatch(b)
      <3>1. processed # <<>> /\ (encrypted => OpenAll(plds, processed))
        BY <1>1 DEF IInv, Packing
      <3>2. BatchSize(b) = WholeSize
        <4>1. ~(Len(b.plds) > 1)
          <5>1. ~(1 > 1)
            OBVIOUS
          <5>2. Len(b.plds) = 1
            BY <1>1, <2>2, Zenon
          <5> QED BY <5>1, <5>2, Zenon
        <4> QED BY <2>2, <4>1 DEF BatchSize, WholeSize
      <3>3. WholeSize \in Nat /\ MaxSize \in Nat
        <4>1. SumOf(DestSize, processed) \in Nat
          BY <2>1, SumAppend, OutboundAssumption
        <4> QED BY <4>1, OutboundAssumption DEF WholeSize
      <3>4. BatchSize(b) <= MaxSize
        BY <1>5, <3>2, <3>3
      <3> QED BY <2>2, <3>1, <3>4 DEF GoodBatch
    <2> HIDE DEF b
    <2>4. <<>> \in Seq(BatchSet) /\ Len(<<>>) = 0 /\ <<b>> = Append(<<>>, b)
      BY <2>2
    <2>5. batches' \in Seq(BatchSet) /\ Len(batches') = 1 /\ batches'[1] = b
      BY <1>5, <2>2
    <2>6. Flat(batches', Len(batches')) = processed'
      <3>1. Flat(Append(<<>>, b), 0 + 1) = Flat(<<>>, 0) \o b.dests
        BY <2>2, <2>4, FlatAppend
      <3>2. Flat(<<>>, 0) = <<>>
        BY <2>4, FlatStep
      <3>3. <<>> \o processed = processed
        BY <2>1, ConcatEmptySeq
      <3>4. 0 + 1 = 1
        OBVIOUS
      <3>5. Flat(batches', 1) = processed
        BY <1>5, <2>2, <2>4, <3>1, <3>2, <3>3, <3>4, Zenon
      <3> QED BY <1>1, <2>5, <3>5, Zenon
    <2>7. written' = 0 /\ written' < Len(batches') /\ written' \in 0..Len(batches')
      BY <1>1, <1>3, <2>5
    <2>8. Writing'
      BY <1>3, <1>5, <2>6, <2>7 DEF Writing
    <2>9. Finished'
      BY <1>1, <2>3, <2>5 DEF Finished, GoodBatch
    <2>10. Shape'
      BY <1>1, <1>3, <1>5, <2>5, <2>7 DEF IInv, Shape, topic
    <2>11. Stages' /\ Packing' /\ ResolvedFully'
      BY <1>5 DEF Stages, Packing, ResolvedFully, Early
    <2>12. Paired'
      BY <1>1 DEF IInv, Paired
    <2> QED BY <2>8, <2>9, <2>10, <2>11, <2>12 DEF IInv
  <1> QED BY <1>2, <1>4, <1>5

-----------------------------------------------------------------------------
(* The writes. *)

(* A batch is written, or the write fails. *)
LEMMA WriteStep ==
  ASSUME IInv, WriteMessage \/ WriteFails
  PROVE  IInv'
  <1>1. /\ pc = "write"
        /\ UNCHANGED <<encrypted, table, asked, dests, i, processed, plds, batch,
                       total, batches, topic>>
    BY DEF WriteMessage, WriteFails
  <1>2. /\ written < Len(batches) /\ Flat(batches, Len(batches)) = processed
        /\ written \in Nat /\ outcome = "pending" /\ batches \in Seq(BatchSet)
    BY <1>1 DEF IInv, Writing, Shape
  <1>3. Len(batches) \in Nat
    BY <1>2, LenProperties
  <1>4. \/ /\ written' = written + 1 /\ written' = Len(batches)
           /\ pc' = "done" /\ outcome' = "ok"
        \/ /\ written' = written + 1 /\ written' # Len(batches)
           /\ pc' = "write" /\ outcome' = "pending"
        \/ written' = written /\ pc' = "done" /\ outcome' = "write"
    BY <1>1, <1>2 DEF WriteMessage, WriteFails, Finish
  <1>5. written' \in 0..Len(batches') /\ (pc' = "write" => written' < Len(batches'))
    BY <1>1, <1>2, <1>3, <1>4
  <1>6. Shape'
    BY <1>1, <1>4, <1>5 DEF IInv, Shape, topic
  <1>7. Stages' /\ Packing' /\ ResolvedFully'
    BY <1>4 DEF Stages, Packing, ResolvedFully, Early
  <1>8. Paired'
    BY <1>1 DEF IInv, Paired
  <1>9. Finished'
    BY <1>1 DEF IInv, Finished, GoodBatch
  <1>10. Writing'
    BY <1>1, <1>2, <1>4, <1>5 DEF Writing
  <1> QED BY <1>6, <1>7, <1>8, <1>9, <1>10 DEF IInv

(* A step that changes nothing. *)
LEMMA StutterStep ==
  ASSUME IInv, UNCHANGED vars
  PROVE  IInv'
  <1>1. UNCHANGED <<pc, encrypted, table, asked, dests, i, processed, plds, batch,
                    total, batches, written, outcome, subs, offset, first, inPool>>
    BY DEF vars, topic
  <1>2. Shape'
    BY <1>1 DEF IInv, Shape
  <1>3. Stages' /\ Packing' /\ Paired' /\ Writing'
    BY <1>1 DEF IInv, Stages, Packing, Paired, Writing
  <1>4. Finished'
    BY <1>1 DEF IInv, Finished, GoodBatch
  <1>5. ResolvedFully'
    BY <1>1 DEF IInv, ResolvedFully
  <1> QED BY <1>2, <1>3, <1>4, <1>5 DEF IInv

(* The invariant holds in every state. *)
THEOREM Invariance == Spec => []IInv
  <1>1. ASSUME IInv, [Next]_vars PROVE IInv'
    <2>1. ASSUME NEW ds \in Inputs, Resolve(ds) PROVE IInv'
      BY <1>1, <2>1, ResolveStep
    <2>2. ASSUME NEW ds \in Inputs, Send(ds) PROVE IInv'
      BY <1>1, <2>2, SendStep, OutboundAssumption
    <2>3. CASE Send(dests)
      <3>1. dests \in Seq(Dests)
        BY <1>1 DEF IInv, Shape
      <3> QED BY <1>1, <2>3, <3>1, SendStep
    <2>4. CASE PublishFirst
      BY <1>1, <2>4, PublishFirstStep
    <2>5. CASE PublishFails \/ SubscribersChange
      BY <1>1, <2>5, PublishOtherStep
    <2>6. CASE PublishAsk
      BY <1>1, <2>6, PublishAskStep
    <2>7. CASE PublishMore \/ PublishSend
      BY <1>1, <2>7, PublishMoreStep
    <2>8. CASE ProcessDest
      BY <1>1, <2>8, ProcessDestStep
    <2>9. CASE NewPayloads
      BY <1>1, <2>9, NewPayloadsStep
    <2>10. CASE Pack
      BY <1>1, <2>10, PackStep
    <2>11. CASE PackOversize
      BY <1>1, <2>11, PackOversizeStep
    <2>12. CASE PackEnds
      BY <1>1, <2>12, PackEndsStep
    <2>13. CASE PackWhole
      BY <1>1, <2>13, PackWholeStep
    <2>14. CASE WriteMessage \/ WriteFails
      BY <1>1, <2>14, WriteStep
    <2>15. CASE UNCHANGED vars
      BY <1>1, <2>15, StutterStep
    <2> QED BY <1>1, <2>1, <2>2, <2>3, <2>4, <2>5, <2>6, <2>7, <2>8, <2>9, <2>10,
               <2>11, <2>12, <2>13, <2>14, <2>15 DEF Next, Step
  <1> QED BY <1>1, InitStep, PTL DEF Spec

(* The variables keep their types. *)
THEOREM TypeCorrect == Spec => []TypeOK
  <1>1. ASSUME IInv PROVE TypeOK
    <2>1. Shape /\ Paired
      BY <1>1 DEF IInv
    <2>2. asked \in Seq(Dests) /\ dests \in Seq(Dests) /\ processed \in Seq(Dests)
      BY <2>1 DEF Shape
    <2>3. /\ Range(asked) \subseteq Dests /\ Range(dests) \subseteq Dests
          /\ Range(processed) \subseteq Dests
      BY <2>2, RangeOfSeq
    <2>4. \A s \in {asked, dests, processed} : Range(s) \subseteq Dests
      BY <2>3
    <2> QED BY <2>1, <2>4 DEF TypeOK, Shape, Paired, Early
  <1> QED BY <1>1, Invariance, PTL

(* Every destination in exactly one batch, in order, within the size limit, *)
(* and an error tells what was sent: for lists of any length and any sizes. *)
THEOREM BatchesAreRight == Spec => []BatchesRight
  <1>1. ASSUME IInv PROVE BatchesRight
    <2>1. /\ batches \in Seq(BatchSet) /\ processed \in Seq(Dests)
          /\ written \in 0..Len(batches)
      BY <1>1 DEF IInv, Shape
    <2>2. Len(batches) \in Nat
      BY <2>1, LenProperties
    <2>3. Sent = Flat(batches, written)
      BY DEF Sent, Flat, DestsOf
    <2>4. written = 0 => Sent = <<>>
      BY <2>1, <2>3, FlatStep
    <2>5. IsPrefix(Sent, processed)
      <3>1. CASE written = 0
        <4>1. IsPrefix(<<>>, <<>> \o processed)
          BY <2>1, EmptySeq, ConcatPrefix
        <4>2. <<>> \o processed = processed
          BY <2>1, ConcatEmptySeq
        <4> QED BY <2>4, <3>1, <4>1, <4>2
      <3>2. CASE written # 0
        <4>1. Flat(batches, Len(batches)) = processed
          BY <1>1, <2>1, <2>2, <3>2 DEF IInv, Writing
        <4>2. IsPrefix(Flat(batches, written), Flat(batches, Len(batches)))
          BY <2>1, FlatPrefix
        <4> QED BY <2>3, <4>1, <4>2
      <3> QED BY <3>1, <3>2
    <2>6. outcome = "ok" => Sent = processed
      BY <1>1, <2>3 DEF IInv, Writing
    <2>7. outcome \in {"invalid", "error", "oversize"} => Sent = <<>>
      BY <1>1, <2>4 DEF IInv, Writing
    <2>8. \A k \in 1..Len(batches) :
            batches[k].dests # <<>> /\ BatchSize(batches[k]) <= MaxSize
      BY <1>1 DEF IInv, Finished, GoodBatch
    <2> QED BY <2>5, <2>6, <2>7, <2>8 DEF BatchesRight
  <1> QED BY <1>1, Invariance, PTL

(* Whoever gets an encrypted message can read it, however many destinations *)
(* it has and however they are packed.                                      *)
THEOREM IsReadable == Spec => []Readable
  <1>1. ASSUME IInv PROVE Readable
    <2> SUFFICES ASSUME NEW k \in 1..Len(batches),
                        NEW j \in 1..Len(batches[k].dests), encrypted
                 PROVE  Opens(IF Len(batches[k].plds) > 1 THEN batches[k].plds[j]
                                                          ELSE batches[k].plds[1],
                              batches[k].dests[j])
      BY DEF Readable, Opens
    <2> DEFINE ps == batches[k].plds
               ds == batches[k].dests
    <2>1. OpenAll(ps, ds)
      BY <1>1 DEF IInv, Finished, GoodBatch
    <2>2. batches[k] \in BatchSet
      BY <1>1, ElementOfSeq DEF IInv, Shape
    <2>3. ds \in Seq(Dests)
      BY <2>2 DEF BatchSet
    <2> HIDE DEF ps, ds
    <2>4. Len(ds) \in Nat /\ Len(ps) = Len(ds) /\ Opens(ps[j], ds[j])
      BY <2>1, <2>3, LenProperties DEF OpenAll, ds
    <2>5. ~(Len(ps) > 1) => j = 1
      BY <2>4 DEF ds
    <2> QED BY <2>4, <2>5 DEF ps, ds
  <1> QED BY <1>1, Invariance, PTL

(* ResolveDests gives where every destination leads to, and leaves out only *)
(* what leads nowhere: for any list, any resolvers and any depth.           *)
THEOREM IsResolvedFully == Spec => []ResolvedFully
  <1>1. IInv => ResolvedFully
    BY DEF IInv
  <1> QED BY <1>1, Invariance, PTL

(* What publish_never_returns finds on a small topic, for every topic and  *)
(* every limit: once the first page is full, Publish sends nothing and     *)
(* leaves its loop only with an error.                                     *)
THEOREM FullPageSendsNothing == Spec => []FullPageNeverSends
  <1> DEFINE Inv == FullPageNeverSends /\ NoPageYet
  <1>1. Limit \in Nat /\ Limit # 0
    BY OutboundAssumption
  <1>2. Init => Inv
    BY <1>1 DEF Init, FullPageNeverSends, NoPageYet
  <1>3. IInv /\ Inv /\ [Next]_vars => Inv'
    <2> SUFFICES ASSUME IInv, Inv, [Next]_vars PROVE Inv'
      OBVIOUS
    <2>1. first \in Int
      BY <1>1 DEF IInv, Shape
    <2>2. ASSUME NEW ds, Resolve(ds) \/ Send(ds) PROVE Inv'
      <3>1. pc \in {"idle", "resolved"} /\ first' = first
        BY <2>2 DEF Resolve, Send, topic
      <3>2. first' = -1 /\ ~(first' >= Limit)
        BY <1>1, <3>1 DEF NoPageYet
      <3> QED BY <3>2 DEF FullPageNeverSends, NoPageYet
    <2>3. CASE PublishFirst
      <3>1. pc' = "pages" /\ written' = written /\ written = 0
        BY <2>3, NothingYet DEF PublishFirst, Early
      <3> QED BY <3>1 DEF FullPageNeverSends, NoPageYet
    <2>4. CASE PublishAsk \/ PublishMore \/ SubscribersChange
      <3>1. /\ pc \in {"pages", "query"} /\ pc' \in {"pages", "query"}
            /\ first' = first /\ written' = written
        BY <2>4 DEF PublishAsk, PublishMore, SubscribersChange, topic
      <3> QED BY <3>1 DEF FullPageNeverSends, NoPageYet
    <2>5. CASE PublishFails
      <3>1. pc' = "done" /\ outcome' = "error" /\ first' = first /\ written' = written
            /\ pc \in {"idle", "query"}
        BY <2>5 DEF PublishFails, Finish, topic
      <3>2. written = 0
        BY <3>1, NothingYet DEF Early
      <3> QED BY <3>1, <3>2 DEF FullPageNeverSends, NoPageYet
    <2>6. CASE PublishSend
      BY <2>6, <1>1, <2>1 DEF PublishSend, topic, FullPageNeverSends, NoPageYet
    <2>7. CASE \/ ProcessDest \/ NewPayloads \/ Pack \/ PackOversize \/ PackEnds
               \/ PackWhole \/ WriteMessage \/ WriteFails
      <3>1. pc \in {"process", "pack", "write"} /\ first' = first
        BY <2>7 DEF ProcessDest, NewPayloads, Pack, PackOversize, PackEnds, PackWhole,
                    WriteMessage, WriteFails, topic
      <3>2. pc' \in {"process", "pack", "write", "done"}
        BY <2>7, <3>1 DEF ProcessDest, NewPayloads, Pack, PackOversize, PackEnds,
                    PackWhole, WriteMessage, WriteFails, Finish
      <3> QED BY <3>1, <3>2 DEF FullPageNeverSends, NoPageYet
    <2>8. CASE UNCHANGED vars
      BY <2>8 DEF vars, topic, FullPageNeverSends, NoPageYet
    <2> QED BY <2>2, <2>3, <2>4, <2>5, <2>6, <2>7, <2>8 DEF Next, Step
  <1> QED BY <1>2, <1>3, Invariance, PTL DEF Spec
=============================================================================
