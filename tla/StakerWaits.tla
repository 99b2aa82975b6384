---------------------------- MODULE StakerWaits ----------------------------
(***************************************************************************)
(* What the tasks of one staker process wait for: connections (ConnPool),  *)
(* the lock of Storage, the entry of sig_gather that get_proof returns and *)
(* the round holds during apply_block (src/staker.rs), and the threads of  *)
(* the executor, which a get_sigs handler blocks while it waits for that   *)
(* entry.  decide_round ("round") and skip_round ("skip") are raced: the   *)
(* first to end drops the other wherever it is.  "sync" is blksync's       *)
(* apply_block; every block is the one of the current round's height.      *)
(***************************************************************************)
EXTENDS ConnPool

CONSTANTS
  Handlers,     \* get_sigs handlers
  Threads,      \* executor threads at the start
  MaxThreads    \* as many as smolscale may add up to (1500)

ASSUME WaitsAssumption ==
  /\ Tasks = {"round", "skip", "sync"} \cup Handlers
  /\ Handlers \cap {"round", "skip", "sync"} = {}
  /\ Threads \in 1..MaxThreads /\ MaxThreads \in Nat

VARIABLES
  at,        \* where each task is suspended
  owner,     \* who holds Storage::lock
  have,      \* the block of this round's height is in the history
  notified,  \* skip_round's listener has been notified
  threads    \* threads of the executor

vars == <<poolVars, at, owner, have, notified, threads>>

Appliers == {"round", "sync"}

\* Inside apply_block, and where it awaits a query.
Applying == {"lock", "highest", "commit", "reread"}

Rest == [t \in Tasks |-> CASE t = "round" -> "wait" [] t = "skip" -> "off" [] OTHER -> "idle"]

TypeOK ==
  /\ PoolTypeOK
  /\ at["round"] \in Applying \cup {"wait", "gather", "ended"}
  /\ at["sync"] \in Applying \cup {"idle"}
  /\ at["skip"] \in {"off", "look", "listen", "found"}
  /\ \A h \in Handlers : at[h] \in {"idle", "consensus", "map"}
  /\ owner \in Appliers \cup {"nobody"}
  /\ have \in BOOLEAN /\ notified \in BOOLEAN
  /\ threads \in Threads..MaxThreads
  /\ \A t \in Appliers : owner = t <=> at[t] \in Applying \ {"lock"}
  /\ at["skip"] = "off" <=> at["round"] = "wait"

(***************************************************************************)
(* The entry of sig_gather and the threads.                                *)
(***************************************************************************)
\* The RefMut in `result` lives as long as apply_block.
EntryHeld == at["round"] \in Applying

Blocked == {h \in Handlers : at[h] = "map" /\ EntryHeld}

\* A task is polled by a thread that no handler blocks.
Polled == Cardinality(Blocked) < threads

\* smolscale adds a thread when all are stuck.
AddThread ==
  /\ ~Polled /\ threads < MaxThreads
  /\ threads' = threads + 1
  /\ UNCHANGED <<poolVars, at, owner, have, notified>>

Goes(t, label, asks) ==
  /\ Polled
  /\ at' = [at EXCEPT ![t] = label]
  /\ Moves(t, asks)
  /\ UNCHANGED threads

Answered(t, label) == at[t] = label /\ job[t] = "running"

(***************************************************************************)
(* apply_block.                                                            *)
(***************************************************************************)
Returns(t) == IF t = "round" THEN "ended" ELSE "idle"

Acquire(t) ==
  /\ at[t] = "lock" /\ owner = "nobody"
  /\ owner' = t
  /\ Goes(t, "highest", TRUE)
  /\ UNCHANGED <<have, notified>>

Leave(t) ==
  /\ owner' = "nobody"
  /\ Goes(t, Returns(t), FALSE)

\* highest_state, then the height test (or any other check) of the block.
Check(t) ==
  /\ Answered(t, "highest")
  /\ \/ ~have /\ Goes(t, "commit", TRUE) /\ UNCHANGED owner
     \/ Leave(t)
  /\ UNCHANGED <<have, notified>>

\* The transaction; its primary keys refuse a height that is there.
Commit(t) ==
  /\ Answered(t, "commit")
  /\ \/ have /\ Leave(t)
     \/ ~have /\ Goes(t, "reread", TRUE) /\ UNCHANGED owner
  /\ have' = TRUE
  /\ UNCHANGED notified

\* An error of the transaction is not retried: apply_block returns it.
CommitFails(t) ==
  /\ at[t] = "commit" /\ Polled
  /\ GivesUp(t)
  /\ at' = [at EXCEPT ![t] = Returns(t)]
  /\ owner' = "nobody"
  /\ UNCHANGED <<have, notified, threads>>

\* Any other query is under autoretry.
QueryFails(t) ==
  /\ at[t] # "commit"
  /\ Fails(t)
  /\ UNCHANGED <<at, owner, have, notified, threads>>

\* The second highest_state, rebase, notify and the end.
Reread(t) ==
  /\ Answered(t, "reread")
  /\ notified' = (at["skip"] \in {"look", "listen"})
  /\ Leave(t)
  /\ UNCHANGED have

\* blksync has got a block.
Sync ==
  /\ at["sync"] = "idle"
  /\ Goes("sync", "lock", FALSE)
  /\ UNCHANGED <<owner, have, notified>>

(***************************************************************************)
(* The round.                                                              *)
(***************************************************************************)
\* The next height is not there yet; both futures are polled.
BeginRound ==
  /\ at["round"] = "wait" /\ Polled
  /\ at' = [at EXCEPT !["round"] = "gather", !["skip"] = "look"]
  /\ Moves("skip", TRUE)
  /\ have' = FALSE /\ notified' = FALSE
  /\ UNCHANGED <<owner, threads>>

\* get_proof has found enough signatures.
Gathered ==
  /\ at["round"] = "gather"
  /\ Goes("round", "lock", FALSE)
  /\ UNCHANGED <<owner, have, notified>>

\* get_state_or_wait: what it looked for is there, or it awaits its listener.
Look ==
  /\ Answered("skip", "look")
  /\ Goes("skip", IF have THEN "found" ELSE "listen", FALSE)
  /\ UNCHANGED <<owner, have, notified>>

Wake ==
  /\ at["skip"] = "listen" /\ notified
  /\ notified' = FALSE
  /\ Goes("skip", "look", TRUE)
  /\ UNCHANGED <<owner, have>>

\* One of the two futures is done: the other is dropped.
EndRace(dropped) ==
  /\ Polled
  /\ at' = [at EXCEPT !["round"] = "wait", !["skip"] = "off"]
  /\ DropQuery(dropped)
  /\ UNCHANGED <<have, notified, threads>>

\* Mutant: the guard of Storage::lock does not live in the dropped future.
SkipRoundLocked ==
  /\ at["skip"] = "found"
  /\ EndRace("round")
  /\ UNCHANGED owner

SkipRound ==
  /\ at["skip"] = "found"
  /\ EndRace("round")
  /\ owner' = IF owner = "round" THEN "nobody" ELSE owner

EndRound ==
  /\ at["round"] = "ended"
  /\ EndRace("skip")
  /\ UNCHANGED owner

(***************************************************************************)
(* get_sigs.                                                               *)
(***************************************************************************)
get_sigs(h) ==
  /\ at[h] = "idle"
  /\ Goes(h, "consensus", TRUE)
  /\ UNCHANGED <<owner, have, notified>>

\* get_consensus has a proof, or the map has to be looked at.
Consensus(h) ==
  /\ Answered(h, "consensus")
  /\ Goes(h, IF have THEN "idle" ELSE "map", FALSE)
  /\ UNCHANGED <<owner, have, notified>>

\* sig_gather.get: not an await, the thread waits for the entry.
LookUp(h) ==
  /\ at[h] = "map" /\ ~EntryHeld
  /\ Goes(h, "idle", FALSE)
  /\ UNCHANGED <<owner, have, notified>>

(***************************************************************************)
(* The specification.                                                      *)
(***************************************************************************)
Init ==
  /\ PoolInit
  /\ at = Rest
  /\ owner = "nobody" /\ have = FALSE /\ notified = FALSE
  /\ threads = Threads

apply_block(t) == Acquire(t) \/ Check(t) \/ Commit(t) \/ Reread(t)

TaskStep(t) ==
  \/ t \in Appliers /\ apply_block(t)
  \/ t = "round" /\ (BeginRound \/ Gathered \/ EndRound)
  \/ t = "skip" /\ (Look \/ Wake \/ SkipRound)
  \/ t \in Handlers /\ (Consensus(t) \/ LookUp(t))

Others == <<at, owner, have, notified, threads>>

Next ==
  \/ \E t \in Tasks : TaskStep(t)
  \/ PoolStep /\ UNCHANGED Others
  \/ \E t \in Tasks : QueryFails(t)
  \/ \E t \in Appliers : CommitFails(t)
  \/ AddThread
  \/ Sync \/ \E h \in Handlers : get_sigs(h)

Spec == Init /\ [][Next]_vars

\* The executor polls what is ready and grows.  Strong fairness is needed
\* where tasks compete: the channel of connections, the async mutex and the
\* map's lock serve those that wait.  Enough signatures come together
\* (module ProofGather).  Nobody has to send a block or to call get_sigs.
Fairness ==
  /\ \A t \in Tasks : SF_vars(TaskStep(t) \/ (Served(t) /\ UNCHANGED Others))
  /\ WF_vars(OrphanEnds /\ UNCHANGED Others) /\ WF_vars(AddThread)

FairSpec == Spec /\ Fairness

(***************************************************************************)
(* Properties.                                                             *)
(***************************************************************************)
\* Nobody waits on anybody for ever: every round ends, every apply_block
\* and every get_sigs returns, although the round holds the map's entry
\* across apply_block's awaits, handlers block threads, dropped queries may
\* take connections with them and queries fail - as long as fewer
\* connections are lost than there are and the executor can grow.
NobodyStuck == \A t \in Tasks : at[t] # Rest[t] ~> at[t] = Rest[t]
=============================================================================
