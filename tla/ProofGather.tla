---------------------------- MODULE ProofGather ----------------------------
(***************************************************************************)
(* How stakers turn one decided block into a consensus proof               *)
(* (network_task_inner and get_sigs, src/staker.rs).  Streamlette (an      *)
(* external crate) makes the stakers that take part decide on one block;   *)
(* each then puts its own signature in its sig_gather map, polls           *)
(* neighbours with get_sigs until the map seems to hold enough votes, and  *)
(* gives block and proof to apply_block.  Others get the block by blksync. *)
(*                                                                         *)
(* A map goes from keys to bytes.  The model keeps, of the bytes, whether  *)
(* they are the key's signature of the block: get_proof counts the keys    *)
(* without looking at them, only apply_block verifies.                     *)
(*                                                                         *)
(* The model covers one height, Base + 1.  apply_block is one step here;   *)
(* module Storage has its inside.                                          *)
(***************************************************************************)
EXTENDS Stakes

CONSTANTS
  Base,         \* height of base_state
  Docs,         \* its stake documents
  DocOrder,     \* the same, in the iteration order of its stakes tree
  Online,       \* the stakers whose process is running
  MaxRestarts,  \* bound on process restarts
  MaxForeign    \* bound on answers that hold something else than signatures
                \* of the block

ASSUME ProofGatherAssumption ==
  /\ Online \subseteq Keys
  /\ Base \in Nat /\ MaxRestarts \in Nat /\ MaxForeign \in Nat
  /\ Docs \subseteq StakeDocs
  /\ DocOrder \in Seq(StakeDocs) /\ ToSet(DocOrder) = Docs
  /\ Len(DocOrder) = Cardinality(Docs)

VARIABLES
  at,        \* where each staker is in its round
  gather,    \* sig_gather[Base + 1]: does the entry of a key verify?
  stored,    \* get_consensus(Base + 1), empty when the block is not stored
  decided,   \* every staker that ever signed the block (history variable)
  restarts, foreign

vars == <<at, gather, stored, decided, restarts, foreign>>

Maps == UNION {[keys -> BOOLEAN] : keys \in SUBSET Keys}

NoEntries == [k \in {} |-> TRUE]
Entry(key, verifies) == [k \in {key} |-> verifies]

\* The keys apply_block finds a signature of.
Verified(map) == {k \in DOMAIN map : map[k]}

\* Who holds a round open has an entry of its own in the map (180-188), and
\* no entry is a signature of somebody who never decided.
TypeOK ==
  /\ at \in [Keys -> {"waiting", "deciding", "gathering"}]
  /\ gather \in [Keys -> Maps]
  /\ stored \in [Keys -> Maps]
  /\ decided \subseteq Keys
  /\ restarts \in 0..MaxRestarts
  /\ foreign \in 0..MaxForeign
  /\ \A s \in Keys :
       /\ at[s] = "gathering" => s \in DOMAIN gather[s] /\ s \in decided
       /\ Verified(gather[s]) \cup Verified(stored[s]) \subseteq decided

HasBlock(s) == DOMAIN stored[s] # {}

\* StakerInner::vote_weights counts the stakes of the epoch of the new block.
vote_weights(s) == votes(Docs, Epoch(Base + 1), s)

TotalWeight == MapThenSumSet(vote_weights, Keys)

\* Deciders still answer get_diff while deciding and, through the spammer,
\* while gathering.
TakingPart == {s \in Keys : at[s] # "waiting"}

StreamletteDecides == 3 * MapThenSumSet(vote_weights, TakingPart) > 2 * TotalWeight

\* Mutant: half of the votes are enough.
get_proof_half(s) ==
  2 * MapThenSumSet(LAMBDA k : votes(Docs, Epoch(Base), k), DOMAIN gather[s])
    >= total_votes(Docs, Epoch(Base))

\* Mutant: a vote count is compared with >= against a rounded threshold.
get_proof_rounded(s) ==
  MapThenSumSet(LAMBDA k : votes(Docs, Epoch(Base), k), DOMAIN gather[s])
    >= (total_votes(Docs, Epoch(Base)) * 2) \div 3

\* get_proof counts the stakes of the epoch of base_state, and every key of
\* the map.
get_proof(s) == GatheredEnough(Docs, DOMAIN gather[s], Epoch(Base))

get_sigs(s) == IF HasBlock(s) THEN stored[s] ELSE gather[s]

\* What is merged in takes the place of what was there.
Merge(map, answer) ==
  [k \in DOMAIN map \cup DOMAIN answer |-> IF k \in DOMAIN answer THEN answer[k] ELSE map[k]]

\* Mutant: apply_block counts the keys, as get_proof does.
AcceptedUnverified(map) == EnoughVotes(DocOrder, DOMAIN map, Epoch(Base + 1))

\* The verdict of apply_block on a proof: it verifies every signature.
Accepted(map) == EnoughVotes(DocOrder, Verified(map), Epoch(Base + 1))

(***************************************************************************)
(* One round of a staker.                                                  *)
(***************************************************************************)
\* The wait is over and decide_round starts; with the block already stored
\* skip_round ends the round at once.
Begin(s) ==
  /\ at[s] = "waiting" /\ ~HasBlock(s)
  /\ at' = [at EXCEPT ![s] = "deciding"]
  /\ UNCHANGED <<gather, stored, decided, restarts, foreign>>

\* Mutant: the own signature is not put in the map.
DecideUnsigned(s) ==
  /\ at[s] = "deciding"
  /\ StreamletteDecides
  /\ at' = [at EXCEPT ![s] = "gathering"]
  /\ decided' = decided \cup {s}
  /\ UNCHANGED <<gather, stored, restarts, foreign>>

\* tick_to_end returns; the new entry replaces whatever the map held.
Decide(s) ==
  /\ at[s] = "deciding"
  /\ StreamletteDecides
  /\ at' = [at EXCEPT ![s] = "gathering"]
  /\ gather' = [gather EXCEPT ![s] = Entry(s, TRUE)]
  /\ decided' = decided \cup {s}
  /\ UNCHANGED <<stored, restarts, foreign>>

\* Mutant: the answer replaces the map instead of being merged into it.
SyncReplacing(s, t) ==
  /\ at[s] = "gathering" /\ ~get_proof(s)
  /\ gather' = [gather EXCEPT ![s] = get_sigs(t)]
  /\ UNCHANGED <<at, stored, decided, restarts, foreign>>

\* Not enough yet: merge what a neighbour (which may be s itself) answers to
\* get_sigs.
Sync(s, t) ==
  /\ at[s] = "gathering" /\ ~get_proof(s)
  /\ gather' = [gather EXCEPT ![s] = Merge(@, get_sigs(t))]
  /\ UNCHANGED <<at, stored, decided, restarts, foreign>>

\* The neighbour is not one of these stakers, or has signed another block of
\* this height (the swarm of all networks has one name, and the answer has
\* no block hash): its entry for k is not k's signature of this block.
SyncForeign(s, k) ==
  /\ at[s] = "gathering" /\ ~get_proof(s)
  /\ foreign < MaxForeign
  /\ foreign' = foreign + 1
  /\ gather' = [gather EXCEPT ![s] = Merge(@, Entry(k, FALSE))]
  /\ UNCHANGED <<at, stored, decided, restarts>>

\* Enough: apply_block commits the block or refuses it, and either way the
\* round ends.
Assemble(s) ==
  /\ at[s] = "gathering" /\ get_proof(s)
  /\ stored' = [stored EXCEPT ![s] =
       IF ~HasBlock(s) /\ Accepted(gather[s]) THEN gather[s] ELSE @]
  /\ at' = [at EXCEPT ![s] = "waiting"]
  /\ UNCHANGED <<gather, decided, restarts, foreign>>

\* skip_round sees the block and drops decide_round.
Skip(s) ==
  /\ at[s] # "waiting" /\ HasBlock(s)
  /\ at' = [at EXCEPT ![s] = "waiting"]
  /\ UNCHANGED <<gather, stored, decided, restarts, foreign>>

\* blksync brings the block and its proof from a node that has it.
BlkSync(s, t) ==
  /\ ~HasBlock(s) /\ HasBlock(t)
  /\ Accepted(stored[t])
  /\ stored' = [stored EXCEPT ![s] = stored[t]]
  /\ UNCHANGED <<at, gather, decided, restarts, foreign>>

\* The process restarts: consensus and sig_gather live in memory only.
Restart(s) ==
  /\ restarts < MaxRestarts
  /\ restarts' = restarts + 1
  /\ at' = [at EXCEPT ![s] = "waiting"]
  /\ gather' = [gather EXCEPT ![s] = NoEntries]
  /\ UNCHANGED <<stored, decided, foreign>>

(***************************************************************************)
(* The specification.                                                      *)
(***************************************************************************)
Init ==
  /\ at = [s \in Keys |-> "waiting"]
  /\ gather = [s \in Keys |-> NoEntries]
  /\ stored = [s \in Keys |-> NoEntries]
  /\ decided = {}
  /\ restarts = 0 /\ foreign = 0

Next ==
  \/ \E s \in Online : Begin(s) \/ Decide(s) \/ Assemble(s) \/ Skip(s) \/ Restart(s)
  \/ \E s, t \in Online : Sync(s, t) \/ BlkSync(s, t)
  \/ \E s \in Online, k \in Keys : SyncForeign(s, k)

Spec == Init /\ [][Next]_vars

\* Timers fire, streamlette terminates while enough stakers take part, the
\* swarm offers every neighbour again and again, and blksync polls forever.
\* Sync needs strong fairness: the other neighbours' answers and the end of
\* rounds interrupt it.
Fairness ==
  /\ \A s \in Online :
       WF_vars(Begin(s)) /\ WF_vars(Decide(s)) /\ WF_vars(Assemble(s)) /\ WF_vars(Skip(s))
  /\ \A s, t \in Online : SF_vars(Sync(s, t)) /\ WF_vars(BlkSync(s, t))

FairSpec == Spec /\ Fairness

(***************************************************************************)
(* Properties.                                                             *)
(***************************************************************************)
Genuine(map) == Verified(map) = DOMAIN map

\* Nobody has the block stored, with a proof whose entries all verify, before
\* stakers with more than two thirds of the votes, as the stakes of
\* base_state count them, have decided on it: not through stale or merged
\* maps, restarts, overwritten entries, or blocks synced early.
QuorumDecidedBeforeCommit ==
  \A s \in Keys :
    HasBlock(s) /\ Genuine(stored[s]) => IsQuorum(Docs, decided, Epoch(Base))

\* Whatever a neighbour answers, and however often it is merged, handed on
\* and stored: nobody has the block stored before stakers have decided on it
\* whose votes are enough, as apply_block counts them (storage.rs:277-300).
DecidersAreEnough ==
  (\E s \in Keys : HasBlock(s)) => EnoughVotes(DocOrder, decided, Epoch(Base + 1))

\* s ends its round with a proof that get_proof found sufficient.
Ends(s) ==
  at[s] = "gathering" /\ at'[s] = "waiting" /\ ~HasBlock(s) /\ gather'[s] = gather[s]

\* The staker and the storage count votes separately (staker.rs:193-199,
\* storage.rs:277-293).  Inside an epoch, apply_block refuses a proof the
\* staker finds sufficient only because of an entry that does not verify.
RefusedOnlyUnverified ==
  [][\A s \in Keys :
       Ends(s) /\ ~HasBlock(s)' => \E k \in DOMAIN gather[s] : ~gather[s][k]]_vars

\* "Everybody has already decided on the block, we're just sharing
\* signatures of it" (staker.rs:177): while stakers with enough votes for the
\* new block run, each of them ends up with it - as long as it is signatures
\* that they share.
EveryoneCommits == [](foreign = 0) => <>(\A s \in Online : HasBlock(s))
=============================================================================
