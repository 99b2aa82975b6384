-------------------------------- MODULE Chain --------------------------------
(***************************************************************************)
(* Blocks, and what makes one acceptable on top of a chain.  A chain is a  *)
(* function from the heights it holds to blocks; a block is a model value  *)
(* with a height, a parent and the Stake transactions it carries.  What    *)
(* the state-transition function (melstf) checks is reduced to "the parent *)
(* is the tip" and "these stakes were admitted".                           *)
(***************************************************************************)
EXTENDS Stakes

CONSTANTS
  Blocks,          \* blocks that may be produced or received
  Genesis,         \* the genesis state, parent of every block of height 1
  Height,          \* header.height
  Parent,          \* header.previous, as a block or Genesis
  StakeTxs,        \* its Stake transactions whose data decodes to a StakeDoc
  Admitted,        \* those of them that melstf turns into stakes
  GenesisStakes,   \* the stakes of the genesis configuration
  StakeOrder,      \* every stake document, in the iteration order of the tree
  Mainnet,         \* header.network is NetID::Mainnet
  StakeFixHeight   \* the mainnet height from which stakes are recorded

ASSUME ChainAssumption ==
  /\ Genesis \notin Blocks
  /\ Height \in [Blocks -> Nat \ {0}]
  /\ Parent \in [Blocks -> Blocks \cup {Genesis}]
  /\ StakeTxs \in [Blocks -> SUBSET StakeDocs]
  /\ Admitted \in [Blocks -> SUBSET StakeDocs]
  /\ GenesisStakes \subseteq StakeDocs
  /\ StakeOrder \in Seq(StakeDocs)
  /\ Mainnet \in BOOLEAN
  /\ StakeFixHeight \in Nat

Tip(chain, h) == IF h = 0 THEN Genesis ELSE chain[h]

\* The stakes apply_block writes to the stakes table for a block.
RecordedStakes(b) ==
  IF Height[b] >= StakeFixHeight \/ ~Mainnet THEN StakeTxs[b] ELSE {}

\* The stakes of the sealed state at a height, as melstf computes them and
\* as header.stakes_hash commits to them.
StateStakes(chain, h) ==
  Unlocked(GenesisStakes \cup UNION {Admitted[chain[i]] : i \in 1..h}, Epoch(h))

(***************************************************************************)
(* The three checks of apply_block, on the state at height h.              *)
(***************************************************************************)
FollowsHeight(b, h) == Height[b] = h + 1

Certified(docs, b, sigs) ==
  EnoughVotes(SelectSeq(StakeOrder, LAMBDA d : d \in docs), sigs, Epoch(Height[b]))

Acceptable(chain, h, b, sigs) ==
  /\ FollowsHeight(b, h)
  /\ Certified(StateStakes(chain, h), b, sigs)
  /\ Parent[b] = Tip(chain, h)
=============================================================================
