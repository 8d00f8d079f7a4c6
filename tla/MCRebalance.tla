---------------------------- MODULE MCRebalance ----------------------------
(* An instance of Rebalance for TLC: two symbols, one twice the other.     *)
EXTENDS Rebalance

MCPrice == [s \in Symbols |-> s]
=============================================================================
