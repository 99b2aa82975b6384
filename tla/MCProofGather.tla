--------------------------- MODULE MCProofGather ---------------------------
(***************************************************************************)
(* Three stakers, the first with twice the stake of the others, so that it *)
(* and any other are a quorum and the other two are not.  EpochLength is   *)
(* 10: Base = 3 is inside epoch 0, Base = 9 at its end, where the stakes   *)
(* of the old epoch are replaced by those of the new one.                  *)
(***************************************************************************)
EXTENDS ProofGather, TLC

CONSTANTS k1, k2, k3

Doc(i, k, s, e, n) ==
  [id |-> i, pubkey |-> k, e_start |-> s, e_post_end |-> e, syms_staked |-> n]

MCKeys == {k1, k2, k3}

Steady == <<Doc(1, k1, 0, 9, 2), Doc(2, k2, 0, 9, 1), Doc(3, k3, 0, 9, 1), Doc(4, k3, 1, 9, 2)>>

\* k1 and k2 leave with epoch 0, k3 and k2 are the stakers of epoch 1.
Turnover == <<Doc(1, k1, 0, 1, 2), Doc(2, k2, 0, 1, 1), Doc(3, k3, 1, 9, 3), Doc(4, k2, 1, 9, 1)>>

SteadyDocs == ToSet(Steady)
TurnoverDocs == ToSet(Turnover)
NewStakers == {k2, k3}
=============================================================================
