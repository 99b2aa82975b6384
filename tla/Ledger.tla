------------------------------- MODULE Ledger -------------------------------
(***************************************************************************)
(* What Storage promises the rest of the node: one chain of blocks, each   *)
(* stored together with its consensus proof, that grows only by a block    *)
(* acceptable on the current tip.  A power failure may cut off the newest  *)
(* blocks, in whole blocks and never below what is already durable.        *)
(***************************************************************************)
EXTENDS Integers, Sequences

CONSTANTS
  Blocks,
  Keys,                  \* those that sign consensus proofs
  Acceptable(_, _, _, _) \* on a chain, at a height: a block with its proof

VARIABLES
  ledger,    \* ledger[h] is the block of height h and the keys of its proof
  durable    \* the height up to which the ledger survives anything

vars == <<ledger, durable>>

Entries == [block : Blocks, sigs : SUBSET Keys]

BlocksOf(l) == [h \in DOMAIN l |-> l[h].block]

TypeOK ==
  /\ ledger \in Seq(Entries)
  /\ durable \in 0..Len(ledger)

Init == ledger = <<>> /\ durable = 0

Extend ==
  /\ \E b \in Blocks, sigs \in SUBSET Keys :
       /\ Acceptable(BlocksOf(ledger), Len(ledger), b, sigs)
       /\ ledger' = Append(ledger, [block |-> b, sigs |-> sigs])
  /\ UNCHANGED durable

Persist ==
  /\ durable' \in durable..Len(ledger)
  /\ UNCHANGED ledger

LosePower ==
  /\ durable' \in durable..Len(ledger)
  /\ ledger' = SubSeq(ledger, 1, durable')

Next == Extend \/ Persist \/ LosePower

Spec == Init /\ [][Next]_vars
=============================================================================
