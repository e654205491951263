----------------------------- MODULE MCOutbound -----------------------------
(* Outbound for TLC. *)
EXTENDS Outbound

(* a1 and a2 belong to one key pair and fit into one batch, a3 fills a     *)
(* batch, big fits into none, n1 is a name.                                *)
MCDests == {"a1", "a2", "a3", "big", "n1", "bad", "empty"}

MCKindOf == [a1 |-> "addr", a2 |-> "addr", a3 |-> "addr", big |-> "addr",
             n1 |-> "name", bad |-> "bad", empty |-> "empty"]
MCRegistrant == [n1 |-> "a2"]
MCKeyOf == [a1 |-> "a", a2 |-> "a", a3 |-> "b", big |-> "b",
            n1 |-> "none", bad |-> "none", empty |-> "none"]
MCDestSize == [a1 |-> 1, a2 |-> 1, a3 |-> 4, big |-> 5,
               n1 |-> 1, bad |-> 1, empty |-> 0]

(* All lists up to three destinations. *)
MCInputs == UNION {[1..k -> MCDests] : k \in 0..3}

Table(a1, a2, n1) ==
  [a1 |-> a1, a2 |-> a2, a3 |-> Unknown, big |-> Unknown,
   n1 |-> n1, bad |-> Fails, empty |-> Unknown]

(* None; chains of one to three hops; a circle; two resolvers, of which    *)
(* the first wins.                                                         *)
MCTables ==
  {<<>>, <<Table("a3", "a1", "a2")>>, <<Table("a2", "a1", Unknown)>>,
   <<Table(Unknown, "a3", Unknown), Table("a2", "a1", "a1")>>}

MCTopics == {<<>>, <<"a1">>, <<"a1", "a2", "a3">>, <<"a2", "a3">>}
=============================================================================
