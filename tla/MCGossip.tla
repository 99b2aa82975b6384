------------------------------ MODULE MCGossip ------------------------------
(***************************************************************************)
(* Two nodes that are each other's route, and two transactions that spend  *)
(* the same coin.  The second fills the mempool, the first only half.      *)
(***************************************************************************)
EXTENDS Gossip, TLC

CONSTANTS n1, n2, t1, t2

MCRoutes == (n1 :> {n2}) @@ (n2 :> {n1})

MCSpends == [t \in Txs |-> {"a"}]
MCCreates == [t \in Txs |-> IF t = t1 THEN {"b"} ELSE {"c"}]
MCWeight == [t \in Txs |-> IF t = t1 THEN 1 ELSE 2]
=============================================================================
