---------------------------- MODULE StakerRound ----------------------------
(***************************************************************************)
(* The round loop of a staker (network_task_inner, src/staker.rs) over     *)
(* Storage: it reads the highest state, waits, forms a proposal from the   *)
(* mempool if that is at the right height, and gives what streamlette      *)
(* decides to apply_block, while skip_round drops all of this as soon as   *)
(* the block is there.  The other appliers are the node's blksync.         *)
(*                                                                         *)
(* Unlike Storage, where a call may be dropped at any await, a call is     *)
(* dropped here only as skip_round does it.  Losing power, reads by others *)
(* and cache eviction are left to Storage's own specification.             *)
(***************************************************************************)
EXTENDS Storage

CONSTANTS
  Staker,       \* the applier that runs the rounds
  SkipRound,    \* its skip_round, as a waiter
  MaxCrashes    \* bound on crashes of the process

ASSUME StakerRoundAssumption ==
  /\ Staker \in Appliers
  /\ Waiters = {SkipRound}
  /\ MaxCrashes \in Nat

VARIABLES
  round,      \* where the loop is, and the height of base_state
  crashes

rvars == <<vars, round, crashes>>

Rounds == [at : {"begin", "waiting", "deciding", "applying"}, base : Nat]

\* The own call of apply_block is for the height the round is about, and
\* skip_round listens exactly while the race is on.
RoundTypeOK ==
  /\ TypeOK
  /\ round \in Rounds
  /\ crashes \in 0..MaxCrashes
  /\ pc[Staker] # "idle" =>
       round.at = "applying" /\ Height[job[Staker].blk] = round.base + 1
  /\ (waiter[SkipRound].at # "idle") = (round.at \in {"deciding", "applying"})

(***************************************************************************)
(* One round.                                                              *)
(***************************************************************************)
RoundGoes(stage) == round' = [round EXCEPT !.at = stage]

BeginRound ==
  /\ round.at = "begin"
  /\ HighestState
  /\ round' = [at |-> "waiting", base |-> HighestHeight]
  /\ UNCHANGED <<sqlite, synced, forest, mempool, lock, pc, job, orphans, waiter, crashes>>

\* Mutant: the round is given up without rebasing the mempool.
MismatchIgnored ==
  /\ round.at = "waiting"
  /\ mempool # round.base + 1
  /\ RoundGoes("begin")
  /\ UNCHANGED <<vars, crashes>>

\* At least ten seconds later: the mempool is not at the height of this
\* round, and is rebased on the state the round began with.
Mismatch ==
  /\ round.at = "waiting"
  /\ mempool # round.base + 1
  /\ mempool' = round.base + 1
  /\ RoundGoes("begin")
  /\ UNCHANGED <<sqlite, synced, forest, cache, lock, pc, job, orphans, waiter, crashes>>

\* The proposal is formed and the race of skip_round and decide_round is on.
Propose ==
  /\ round.at = "waiting"
  /\ mempool = round.base + 1
  /\ RoundGoes("deciding")
  /\ Listen(SkipRound, round.base + 1)
  /\ UNCHANGED crashes

\* Streamlette decides on a block that verify_proposal accepts, and enough
\* signatures are gathered (see module ProofGather).
Decide(b, sigs) ==
  /\ round.at = "deciding"
  /\ Height[b] = round.base + 1 /\ Parent[b] = Tip(history, round.base)
  /\ GatheredEnough(StateStakes(history, round.base), sigs, Epoch(round.base))
  /\ Call(Staker, b, sigs)
  /\ RoundGoes("applying")
  /\ UNCHANGED crashes

\* Mutant: skip_round of the round that ended keeps running.
EndRoundListening ==
  /\ round.at = "applying" /\ pc[Staker] = "idle"
  /\ RoundGoes("begin")
  /\ UNCHANGED <<vars, crashes>>

\* apply_block has returned, and with it decide_round.
EndRound ==
  /\ round.at = "applying" /\ pc[Staker] = "idle"
  /\ RoundGoes("begin")
  /\ waiter' = [waiter EXCEPT ![SkipRound] = Idle]
  /\ UNCHANGED <<sqlite, synced, forest, cache, mempool, lock, pc, job, orphans, crashes>>

(***************************************************************************)
(* skip_round.                                                             *)
(***************************************************************************)
\* The block is not there.
LookInVain ==
  /\ waiter[SkipRound].want \notin DOMAIN history
  /\ Look(SkipRound)
  /\ UNCHANGED <<round, crashes>>

\* decide_round is dropped wherever it is suspended.
Drop ==
  /\ pc[Staker] # "flush"
  /\ orphans' \in IF pc[Staker] = "commit"
                  THEN {orphans, orphans \cup {[blk |-> job[Staker].blk, sigs |-> job[Staker].sigs]}}
                  ELSE {orphans}
  /\ Leave(Staker)
  /\ waiter' = [waiter EXCEPT ![SkipRound] = Idle]
  /\ RoundGoes("begin")

\* Mutant: the round is dropped by a timeout instead.
SkipAnyTime ==
  /\ waiter[SkipRound].at = "listening"
  /\ Drop
  /\ UNCHANGED <<sqlite, synced, forest, cache, mempool, crashes>>

\* The block is there.
Skip ==
  /\ waiter[SkipRound].at = "listening"
  /\ waiter[SkipRound].want \in DOMAIN history
  /\ Loadable(round.base + 1) /\ CacheBlock(round.base + 1)
  /\ Drop
  /\ UNCHANGED <<sqlite, synced, forest, mempool, crashes>>

\* ... and even the query of the first poll was faster than the poll.
SkipAtOnce ==
  /\ round.at = "waiting"
  /\ round.base + 1 \in DOMAIN history
  /\ Loadable(round.base + 1) /\ CacheBlock(round.base + 1)
  /\ RoundGoes("begin")
  /\ UNCHANGED <<sqlite, synced, forest, mempool, lock, pc, job, orphans, waiter, crashes>>

(***************************************************************************)
(* The rest of the process.                                                *)
(***************************************************************************)
StorageStep ==
  /\ \/ \E a \in Appliers : ApplyStep(a)
     \/ \E a \in Appliers \ {Staker}, b \in Blocks, sigs \in Proofs : Call(a, b, sigs)
     \/ \E c \in orphans : OrphanEnds(c)
     \/ Sleep(SkipRound) \/ Wake(SkipRound)
  /\ UNCHANGED <<round, crashes>>

Restart ==
  /\ crashes < MaxCrashes
  /\ crashes' = crashes + 1
  /\ Crash
  /\ round' = [at |-> "begin", base |-> 0]

RoundInit ==
  /\ Init
  /\ round = [at |-> "begin", base |-> 0]
  /\ crashes = 0

RoundNext ==
  \/ BeginRound \/ Mismatch \/ Propose \/ EndRound
  \/ \E b \in Blocks, sigs \in Proofs : Decide(b, sigs)
  \/ LookInVain \/ Skip \/ SkipAtOnce
  \/ StorageStep \/ Restart

RoundSpec == RoundInit /\ [][RoundNext]_rvars

\* Timers fire and the executor polls; streamlette, peers and the operating
\* system owe nothing.
RoundFairness ==
  /\ WF_rvars(BeginRound) /\ WF_rvars(Mismatch) /\ WF_rvars(Propose) /\ WF_rvars(EndRound)
  /\ WF_rvars(LookInVain) /\ WF_rvars(Skip)
  /\ WF_rvars(Sleep(SkipRound) /\ UNCHANGED <<round, crashes>>)
  /\ WF_rvars(Wake(SkipRound) /\ UNCHANGED <<round, crashes>>)
  /\ \A a \in Appliers :
       /\ WF_rvars(ApplyStep(a) /\ UNCHANGED <<round, crashes>>)
       /\ SF_rvars(Acquire(a) /\ UNCHANGED <<round, crashes>>)

FairRoundSpec == RoundSpec /\ RoundFairness

(***************************************************************************)
(* Properties.                                                             *)
(***************************************************************************)
\* While a block is inside its SQLite transaction its height is still free,
\* so that skip_round never drops a round there: no transaction is left
\* behind that could write beside the next caller of apply_block.
DroppedRoundsWriteNothing ==
  /\ \A a \in Appliers : pc[a] = "commit" => Height[job[a].blk] \notin DOMAIN history
  /\ orphans = {}

\* Whatever leaves the mempool at a wrong height - a restart, a round that
\* was dropped before its rebase, a round that rebased it back - the rounds
\* that follow bring it to the successor of the chain again.
MempoolRepaired ==
  (HighestHeight > 0 /\ mempool # HighestHeight + 1) ~> (mempool = HighestHeight + 1)
=============================================================================
