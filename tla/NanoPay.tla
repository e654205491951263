------------------------------ MODULE NanoPay -------------------------------
(***************************************************************************)
(* nanopay.go, the payer: goroutines that call IncrementAmount of one      *)
(* NanoPay.  The height is asked for before np.lock is taken; the code     *)
(* under the lock is one step.  Fees are left out.                         *)
(***************************************************************************)
EXTENDS BlockHeight

CONSTANTS
  Payers,     \* goroutines that call IncrementAmount
  Delta,      \* the amounts they add
  Duration,   \* np.duration, in blocks
  MaxId,      \* bound: how many NanoPays are started
  MaxAmount   \* bound: the amount of one NanoPay

senderExpirationDelta == 5

(* Ids are random in the code; here the n-th NanoPay has id n. *)
NoneYet == 0
Id   == 1..MaxId

ASSUME NanoPayAssumption ==
  /\ Delta \subseteq Nat \ {0}
  /\ Duration \in Nat
  /\ MaxId \in Nat /\ MaxAmount \in Nat

VARIABLES
  np,        \* id, expiration and amount
  payer,     \* the goroutines: waiting for np.lock with a height
  sent       \* the transactions IncrementAmount returned

payerVars == <<height, np, payer, sent>>

Idle == [pc |-> "idle", height |-> 0, err |-> FALSE]

PayerInit ==
  /\ height = FirstHeight
  /\ np = [id |-> NoneYet, expiration |-> 0, amount |-> 0]
  /\ payer = [p \in Payers |-> Idle]
  /\ sent = {}

PayerTick ==
  /\ NewBlocks
  /\ UNCHANGED <<np, payer, sent>>

-----------------------------------------------------------------------------
(* GetHeight, before np.lock; it returns 0 with an error. *)
GetHeight(p, err) ==
  /\ payer[p].pc = "idle"
  /\ payer' = [payer EXCEPT ![p] =
       [pc |-> "lock", height |-> IF err THEN 0 ELSE height, err |-> err]]
  /\ UNCHANGED <<height, np, sent>>

(* There is no NanoPay yet, or it expires soon. *)
Expired(h) == np.expiration = 0 \/ np.expiration <= h + senderExpirationDelta

(* Mutant: an expired NanoPay is prolonged under its old id. *)
CurrentKeepsId(h) ==
  IF Expired(h)
    THEN [id |-> IF np.id = NoneYet THEN 1 ELSE np.id,
          expiration |-> h + Duration, amount |-> 0]
    ELSE np

(* The NanoPay that the call works on: a new one if need be. *)
Current(h) ==
  IF Expired(h)
    THEN [id |-> np.id + 1, expiration |-> h + Duration, amount |-> 0]
    ELSE np

(* Mutant: the amount is read before it is incremented. *)
IncrementAmountReadsEarly(p, delta, outcome) ==
  LET m == Current(payer[p].height)
      n == [m EXCEPT !.amount = @ + delta]
  IN
  /\ payer[p].pc = "lock"
  /\ ~(payer[p].err /\ np.expiration = 0)
  /\ m.id <= MaxId /\ n.amount <= MaxAmount
  /\ payer' = [payer EXCEPT ![p] = Idle]
  /\ np' = IF outcome = "delta" THEN m ELSE n
  /\ sent' = IF outcome = "ok" THEN sent \cup {m} ELSE sent
  /\ UNCHANGED height

(* The rest under np.lock.  outcome is "delta" if delta cannot be parsed,  *)
(* "fee" if the fee cannot be parsed or the signature fails, else "ok".    *)
(* An error leaves behind what was assigned before it.                     *)
IncrementAmount(p, delta, outcome) ==
  LET h == payer[p].height
      m == Current(h)
      n == [m EXCEPT !.amount = @ + delta]
  IN
  /\ payer[p].pc = "lock"
  /\ ~(payer[p].err /\ np.expiration = 0)
  /\ m.id <= MaxId /\ n.amount <= MaxAmount
  /\ payer' = [payer EXCEPT ![p] = Idle]
  /\ np' = IF outcome = "delta" THEN m ELSE n
  /\ sent' = IF outcome = "ok" THEN sent \cup {n} ELSE sent
  /\ UNCHANGED height

(* No height, and no NanoPay yet. *)
IncrementFails(p) ==
  /\ payer[p].pc = "lock"
  /\ payer[p].err /\ np.expiration = 0
  /\ payer' = [payer EXCEPT ![p] = Idle]
  /\ UNCHANGED <<height, np, sent>>

PayerNext ==
  \/ PayerTick
  \/ \E p \in Payers, err \in BOOLEAN : GetHeight(p, err)
  \/ \E p \in Payers, delta \in Delta, outcome \in {"ok", "delta", "fee"} :
        IncrementAmount(p, delta, outcome)
  \/ \E p \in Payers : IncrementFails(p)

PayerSpec == PayerInit /\ [][PayerNext]_payerVars

-----------------------------------------------------------------------------
(* Properties. *)

Payment == [id : Id \cup {NoneYet}, expiration : Nat, amount : 0..MaxAmount]

(* The fields keep their types, and what was returned is a transaction     *)
(* over a positive amount of a NanoPay that was started.                   *)
PayerTypeOK ==
  /\ height \in Heights
  /\ np \in Payment
  /\ payer \in [Payers -> [pc : {"idle", "lock"}, height : Nat, err : BOOLEAN]]
  /\ sent \subseteq [id : Id, expiration : Nat, amount : 1..MaxAmount]

(* The payer's side: transactions of one NanoPay share its expiration, and *)
(* a later NanoPay expires later, although calls of IncrementAmount use    *)
(* heights they read before np.lock and may get the lock in another order. *)
(* With a duration that the code takes for expired at once, every call     *)
(* starts a NanoPay and the order is lost.                                 *)
PaymentsOrdered ==
  \A s, t \in sent :
    /\ s.id = t.id => s.expiration = t.expiration
    /\ Duration > senderExpirationDelta /\ s.id < t.id
         => s.expiration < t.expiration
=============================================================================
