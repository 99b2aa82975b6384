----------------------------- MODULE MCStorage -----------------------------
(***************************************************************************)
(* A small instance of Storage: a chain a1 <- a2 with a fork b1 at height  *)
(* 1, three genesis stakers of which one leaves at the end of epoch 0, and *)
(* a stake registered in a1 that starts in epoch 1 (height 2).             *)
(***************************************************************************)
EXTENDS Storage, TLC

CONSTANTS k1, k2, k3, a1, b1, a2, p, q, w

d1 == [id |-> 1, pubkey |-> k1, e_start |-> 0, e_post_end |-> 1, syms_staked |-> 1]
d2 == [id |-> 2, pubkey |-> k2, e_start |-> 0, e_post_end |-> 5, syms_staked |-> 1]
d3 == [id |-> 3, pubkey |-> k3, e_start |-> 0, e_post_end |-> 5, syms_staked |-> 1]
d4 == [id |-> 4, pubkey |-> k1, e_start |-> 1, e_post_end |-> 5, syms_staked |-> 1]

MCKeys == {k1, k2, k3}
MCStakeDocs == {d1, d2, d3, d4}
MCGenesisStakes == {d1, d2, d3}
MCStakeOrder == <<d1, d2, d3, d4>>
MCBlocks == {a1, b1, a2}
MCHeight == (a1 :> 1) @@ (b1 :> 1) @@ (a2 :> 2)
MCParent == (a1 :> Genesis) @@ (b1 :> Genesis) @@ (a2 :> a1)
MCStakeTxs == (a1 :> {d4}) @@ (b1 :> {}) @@ (a2 :> {})
MCProofs == {MCKeys, {k1}}
MCFullProofs == {MCKeys}

\* Two stakers that stay, a block with a Stake transaction that melstf does
\* not turn into a stake.
MCAdmittedNone == [b \in MCBlocks |-> {}]

Symmetry == Permutations(Appliers)
=============================================================================
