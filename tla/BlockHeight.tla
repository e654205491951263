---- MODULE BlockHeight ----
(* nanopay.go: what RPC.GetHeight answers to the payer and to the claimer. *)
(* They share nothing else of the chain.  Blocks are added at any time;    *)
(* only the heights at which an expiration is decided matter.              *)
EXTENDS Integers

CONSTANTS
  Heights,     \* bound: the block heights at which something happens
  FirstHeight

ASSUME HeightAssumption == FirstHeight \in Heights /\ Heights \subseteq Nat

VARIABLE height

(* One or more blocks are added. *)
NewBlocks == \E later \in Heights : height < later /\ height' = later
====
