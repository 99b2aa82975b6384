--------------------------- MODULE MCStakerRound ---------------------------
(***************************************************************************)
(* A staker and its blksync on a chain of two blocks with a fork at height *)
(* 1, and three stakers that do not change.                                *)
(***************************************************************************)
EXTENDS StakerRound, TLC

CONSTANTS k1, k2, k3, a1, b1, a2

Doc(i, k) ==
  [id |-> i, pubkey |-> k, e_start |-> 0, e_post_end |-> 9, syms_staked |-> 1]

MCKeys == {k1, k2, k3}
MCStakeOrder == <<Doc(1, k1), Doc(2, k2), Doc(3, k3)>>
MCStakeDocs == ToSet(MCStakeOrder)
MCBlocks == {a1, b1, a2}
MCHeight == (a1 :> 1) @@ (b1 :> 1) @@ (a2 :> 2)
MCParent == (a1 :> Genesis) @@ (b1 :> Genesis) @@ (a2 :> a1)
MCNoStakes == [b \in MCBlocks |-> {}]
MCProofs == {MCKeys}
=============================================================================
