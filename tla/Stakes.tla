------------------------------- MODULE Stakes -------------------------------
(***************************************************************************)
(* Stakes, epochs and vote counting: the arithmetic that decides whether a *)
(* consensus proof is good enough.  It appears twice in the node, once     *)
(* where storage admits a block (Storage::apply_block) and once where a    *)
(* staker gathers signatures (network_task_inner), and the two are         *)
(* translated separately here because they are not the same computation.   *)
(***************************************************************************)
EXTENDS Integers, Sequences, FiniteSets, SequencesExt

CONSTANTS
  Keys,         \* staker public keys
  StakeDocs,    \* the stake documents that may exist
  EpochLength   \* blocks per epoch (melstructs)

\* What a StakeDoc is (melstructs), with the hash of the transaction that
\* registered it standing for its identity.
ASSUME StakesAssumption ==
  /\ EpochLength \in Nat \ {0}
  /\ \A d \in StakeDocs :
       /\ d.pubkey \in Keys
       /\ d.e_start \in Nat /\ d.e_post_end \in Nat
       /\ d.syms_staked \in Nat

Epoch(height) == height \div EpochLength

\* The stakes StakeSet::unlock_old keeps.
Unlocked(docs, epoch) == {d \in docs : d.e_post_end > epoch}

Active(d, epoch) == d.e_start <= epoch /\ epoch < d.e_post_end

(***************************************************************************)
(* The vote count of apply_block.  smt is the sequence of stake documents  *)
(* in the order the stakes tree iterates over them, sigs the keys whose    *)
(* signature in the proof verifies.  A signed document adds the total      *)
(* accumulated SO FAR to the present votes, not its own stake.             *)
(***************************************************************************)
CountStake(tally, d, sigs, epoch) ==
  LET total == tally.total + d.syms_staked
  IN  IF Active(d, epoch)
      THEN [total   |-> total,
            present |-> tally.present + IF d.pubkey \in sigs THEN total ELSE 0]
      ELSE tally

Tally(smt, sigs, epoch) ==
  FoldLeft(LAMBDA tally, d : CountStake(tally, d, sigs, epoch),
           [total |-> 0, present |-> 0], smt)

EnoughVotes(smt, sigs, epoch) ==
  LET tally == Tally(smt, sigs, epoch)
  IN  tally.present > (2 * tally.total) \div 3

(***************************************************************************)
(* StakeSet::votes and StakeSet::total_votes (tip911-stakeset), and the    *)
(* threshold of the staker's get_proof built on them.                      *)
(***************************************************************************)
votes(docs, epoch, key) ==
  MapThenSumSet(LAMBDA d : d.syms_staked,
                {d \in docs : d.pubkey = key /\ Active(d, epoch)})

total_votes(docs, epoch) ==
  MapThenSumSet(LAMBDA d : d.syms_staked, {d \in docs : Active(d, epoch)})

GatheredEnough(docs, keys, epoch) ==
  MapThenSumSet(LAMBDA k : votes(docs, epoch, k), keys)
    > (total_votes(docs, epoch) * 2) \div 3

(***************************************************************************)
(* The reference definition both are measured against: the signers hold    *)
(* more than two thirds of the stake that is active in the epoch.          *)
(***************************************************************************)
IsQuorum(docs, sigs, epoch) ==
  3 * MapThenSumSet(LAMBDA k : votes(docs, epoch, k), sigs)
    > 2 * total_votes(docs, epoch)
=============================================================================
