------------------------------- MODULE Storage -------------------------------
(***************************************************************************)
(* Storage (src/storage/storage.rs): the SQLite tables, the Merkle forest, *)
(* the block cache and the mempool's base, under concurrent apply_block    *)
(* calls, readers and get_state_or_wait.  apply_block is an async function *)
(* and is modelled at its await points.  A caller in Cancellable may be    *)
(* dropped at any of them: what Storage itself guarantees must not depend  *)
(* on when its callers give up.  The one caller that does, skip_round,     *)
(* does so only under a narrower condition (module StakerRound).           *)
(***************************************************************************)
EXTENDS Chain

CONSTANTS
  Appliers,      \* the tasks that call apply_block
  Cancellable,   \* those whose call may be dropped while it is suspended
  Waiters,       \* the tasks that call get_state_or_wait
  Proofs,        \* the consensus proofs callers may present
  NoOne, NoJob   \* the mutex is free; the applier has no call

ASSUME StorageAssumption ==
  /\ Cancellable \subseteq Appliers
  /\ Proofs \subseteq SUBSET Keys
  /\ NoOne \notin Appliers

VARIABLES
  history,    \* table history: height -> block
  proofs,     \* table consensus_proofs: height -> keys that signed
  stakes,     \* table stakes: rows [height, doc]
  synced,     \* the height up to which the WAL has reached the disk
  nodes,      \* blocks whose Merkle nodes are in the forest
  flushed,    \* ... and have been flushed to disk
  cache,      \* old_cache
  mempool,    \* the height of the mempool's provisional state
  lock,       \* holder of Storage::lock
  pc,         \* where each applier is suspended in apply_block
  job,        \* its locals: the block, the proof and the height it last read
  orphans,    \* commits still running although their caller was dropped
  waiter      \* the state of each get_state_or_wait

sqlite == <<history, proofs, stakes>>
forest == <<nodes, flushed>>
vars == <<history, proofs, stakes, synced, nodes, flushed, cache, mempool,
          lock, pc, job, orphans, waiter>>

Steps == {"idle", "lock", "read", "check", "flush", "commit", "reread", "rebase"}
Jobs == [blk : Blocks, sigs : SUBSET Keys, base : Nat]
Commits == [blk : Blocks, sigs : SUBSET Keys]
Waits == [at : {"idle", "listening", "missed", "sleeping"}, want : Nat, heard : BOOLEAN]
Idle == [at |-> "idle", want |-> 0, heard |-> FALSE]

TypeOK ==
  /\ DOMAIN history \subseteq Nat \ {0} /\ DOMAIN proofs \subseteq Nat \ {0}
  /\ history \in [DOMAIN history -> Blocks]
  /\ proofs \in [DOMAIN proofs -> SUBSET Keys]
  /\ stakes \subseteq [height : Nat, doc : StakeDocs]
  /\ synced \in Nat
  /\ nodes \subseteq Blocks /\ flushed \subseteq Blocks
  /\ DOMAIN cache \subseteq Nat \ {0} /\ cache \in [DOMAIN cache -> Blocks]
  /\ mempool \in Nat
  /\ lock \in Appliers \cup {NoOne}
  /\ \A a \in Appliers : lock = a <=> pc[a] \notin {"idle", "lock"}
  /\ pc \in [Appliers -> Steps]
  /\ job \in [Appliers -> Jobs \cup {NoJob}]
  /\ \A a \in Appliers : pc[a] # "idle" => job[a] \in Jobs
  /\ orphans \subseteq Commits
  /\ waiter \in [Waiters -> Waits]

(***************************************************************************)
(* Reading.                                                                *)
(***************************************************************************)
Put(f, k, v) == [x \in DOMAIN f \cup {k} |-> IF x = k THEN v ELSE f[x]]

\* select max(height) from history, or 0 when there is no row.
HighestHeight == IF DOMAIN history = {} THEN 0 ELSE Max(DOMAIN history)

GenesisRows == {[height |-> 0, doc |-> d] : d \in GenesisStakes}

\* Mutant: the query reads "height < $1".
StakesetBelow(h) ==
  Unlocked(GenesisStakes \cup {r.doc : r \in {row \in stakes : row.height < h}},
           Epoch(h))

\* The stakes rebuilt from the genesis configuration and the table.
Stakeset(h) ==
  Unlocked(GenesisStakes \cup {r.doc : r \in {row \in stakes : row.height <= h}},
           Epoch(h))

\* get_state returns instead of panicking: the stakes match the header and
\* the state's Merkle nodes can be found.
Loadable(h) ==
  h # 0 => /\ Stakeset(h) = StateStakes(history, h)
           /\ history[h] \in nodes

\* A read of height h leaves the block in the cache.
CacheBlock(h) ==
  cache' = IF h \in DOMAIN history \ DOMAIN cache THEN Put(cache, h, history[h])
                                                  ELSE cache

HighestState == Loadable(HighestHeight) /\ CacheBlock(HighestHeight)

GetBlock(h) ==
  /\ CacheBlock(h)
  /\ UNCHANGED <<sqlite, synced, forest, mempool, lock, pc, job, orphans, waiter>>

Evict(h) ==
  /\ h \in DOMAIN cache
  /\ cache' = [x \in DOMAIN cache \ {h} |-> cache[x]]
  /\ UNCHANGED <<sqlite, synced, forest, mempool, lock, pc, job, orphans, waiter>>

(***************************************************************************)
(* apply_block, one action per await point.                                *)
(***************************************************************************)
GoTo(a, from, to) == pc[a] = from /\ pc' = [pc EXCEPT ![a] = to]

\* Mutant: an early return keeps the guard alive.
LeaveLocked(a) ==
  /\ pc' = [pc EXCEPT ![a] = "idle"]
  /\ job' = [job EXCEPT ![a] = NoJob]
  /\ UNCHANGED lock

\* Returning, or being dropped, ends the call and releases the guard.
Leave(a) ==
  /\ pc' = [pc EXCEPT ![a] = "idle"]
  /\ job' = [job EXCEPT ![a] = NoJob]
  /\ lock' = IF lock = a THEN NoOne ELSE lock

Call(a, b, sigs) ==
  /\ GoTo(a, "idle", "lock")
  /\ job' = [job EXCEPT ![a] = [blk |-> b, sigs |-> sigs, base |-> 0]]
  /\ UNCHANGED <<sqlite, synced, forest, cache, mempool, lock, orphans, waiter>>

\* Mutant: apply_block does not take the lock.
AcquireAnyway(a) ==
  /\ GoTo(a, "lock", "read")
  /\ lock' = a
  /\ UNCHANGED <<sqlite, synced, forest, cache, mempool, job, orphans, waiter>>

Acquire(a) ==
  /\ GoTo(a, "lock", "read")
  /\ lock = NoOne
  /\ lock' = a
  /\ UNCHANGED <<sqlite, synced, forest, cache, mempool, job, orphans, waiter>>

ReadHighest(a) ==
  /\ GoTo(a, "read", "check")
  /\ HighestState
  /\ job' = [job EXCEPT ![a].base = HighestHeight]
  /\ UNCHANGED <<sqlite, synced, forest, mempool, lock, orphans, waiter>>

\* Mutant: the consensus proof is not counted.
CheckedHeader(a) ==
  /\ FollowsHeight(job[a].blk, job[a].base)
  /\ Parent[job[a].blk] = Tip(history, job[a].base)

Checked(a) == Acceptable(history, job[a].base, job[a].blk, job[a].sigs)

\* The checks pass and melstf has computed the new state into the forest.
Accept(a) ==
  /\ GoTo(a, "check", "flush")
  /\ Checked(a)
  /\ nodes' = nodes \cup {job[a].blk}
  /\ UNCHANGED <<sqlite, synced, flushed, cache, mempool, lock, job, orphans, waiter>>

Reject(a) ==
  /\ pc[a] = "check"
  /\ ~Checked(a)
  /\ Leave(a)
  /\ UNCHANGED <<sqlite, synced, forest, cache, mempool, orphans, waiter>>

\* Mutant: the forest is not flushed before the SQLite transaction.
FlushNothing(a) ==
  /\ GoTo(a, "flush", "commit")
  /\ UNCHANGED <<sqlite, synced, forest, cache, mempool, lock, job, orphans, waiter>>

Flush(a) ==
  /\ GoTo(a, "flush", "commit")
  /\ flushed' = nodes
  /\ UNCHANGED <<sqlite, synced, nodes, cache, mempool, lock, job, orphans, waiter>>

\* Mutant: "insert or replace" for history and consensus_proofs.
ConflictsReplaced(b) == RecordedStakes(b) \cap {r.doc : r \in stakes} # {}

\* An insert of the transaction would repeat a primary key.
Conflicts(b) ==
  \/ Height[b] \in DOMAIN history
  \/ Height[b] \in DOMAIN proofs
  \/ RecordedStakes(b) \cap {r.doc : r \in stakes} # {}

\* The SQLite transaction: all three tables or none.
InsertBlock(b, sigs) ==
  /\ ~Conflicts(b)
  /\ history' = Put(history, Height[b], b)
  /\ proofs' = Put(proofs, Height[b], sigs)
  /\ stakes' = stakes \cup {[height |-> Height[b], doc |-> d] : d \in RecordedStakes(b)}

Commit(a) ==
  /\ GoTo(a, "commit", "reread")
  /\ InsertBlock(job[a].blk, job[a].sigs)
  /\ UNCHANGED <<synced, forest, cache, mempool, lock, job, orphans, waiter>>

\* A conflict or any other SQLite error rolls the transaction back.
CommitFails(a) ==
  /\ pc[a] = "commit"
  /\ Leave(a)
  /\ UNCHANGED <<sqlite, synced, forest, cache, mempool, orphans, waiter>>

\* Mutant: the mempool is rebased on the state read before the commit.
RereadStale(a) ==
  /\ GoTo(a, "reread", "rebase")
  /\ UNCHANGED <<sqlite, synced, forest, cache, mempool, lock, job, orphans, waiter>>

Reread(a) ==
  /\ GoTo(a, "reread", "rebase")
  /\ HighestState
  /\ job' = [job EXCEPT ![a].base = HighestHeight]
  /\ UNCHANGED <<sqlite, synced, forest, mempool, lock, orphans, waiter>>

\* Mutant: a waiter registers its listener only after it has looked.
SleepersNotified ==
  [w \in Waiters |-> [waiter[w] EXCEPT !.heard = (@ \/ waiter[w].at = "sleeping")]]

\* event_listener: every listener registered so far is notified.
Notified ==
  [w \in Waiters |-> [waiter[w] EXCEPT !.heard = (@ \/ waiter[w].at # "idle")]]

Rebase(a) ==
  /\ pc[a] = "rebase"
  /\ mempool' = job[a].base + 1
  /\ waiter' = Notified
  /\ Leave(a)
  /\ UNCHANGED <<sqlite, synced, forest, cache, orphans>>

(***************************************************************************)
(* The caller is dropped at an await point (between the checks and the     *)
(* flush there is none).  A commit that is running on the blocking pool    *)
(* cannot be stopped: it ends later, with the lock already released.       *)
(***************************************************************************)
Cancel(a) ==
  /\ pc[a] \notin {"idle", "flush"}
  /\ orphans' \in IF pc[a] = "commit"
                  THEN {orphans, orphans \cup {[blk |-> job[a].blk, sigs |-> job[a].sigs]}}
                  ELSE {orphans}
  /\ Leave(a)
  /\ UNCHANGED <<sqlite, synced, forest, cache, mempool, waiter>>

OrphanEnds(c) ==
  /\ c \in orphans
  /\ orphans' = orphans \ {c}
  /\ InsertBlock(c.blk, c.sigs) \/ UNCHANGED sqlite
  /\ UNCHANGED <<synced, forest, cache, mempool, lock, pc, job, waiter>>

(***************************************************************************)
(* get_state_or_wait: register a listener, look, and only then sleep.  The *)
(* look is a query on the blocking pool: its answer may be old by the time *)
(* the task acts on it.                                                    *)
(***************************************************************************)
Listen(w, h) ==
  /\ waiter[w].at = "idle"
  /\ waiter' = [waiter EXCEPT ![w] = [at |-> "listening", want |-> h, heard |-> FALSE]]
  /\ UNCHANGED <<sqlite, synced, forest, cache, mempool, lock, pc, job, orphans>>

Look(w) ==
  LET h == waiter[w].want IN
  /\ waiter[w].at = "listening"
  /\ IF h \in DOMAIN history
     THEN Loadable(h) /\ waiter' = [waiter EXCEPT ![w] = Idle]
     ELSE waiter' = [waiter EXCEPT ![w].at = "missed"]
  /\ CacheBlock(h)
  /\ UNCHANGED <<sqlite, synced, forest, mempool, lock, pc, job, orphans>>

Sleep(w) ==
  /\ waiter[w].at = "missed"
  /\ waiter' = [waiter EXCEPT ![w].at = "sleeping"]
  /\ UNCHANGED <<sqlite, synced, forest, cache, mempool, lock, pc, job, orphans>>

Wake(w) ==
  /\ waiter[w].at = "sleeping" /\ waiter[w].heard
  /\ waiter' = [waiter EXCEPT ![w].at = "listening", ![w].heard = FALSE]
  /\ UNCHANGED <<sqlite, synced, forest, cache, mempool, lock, pc, job, orphans>>

(***************************************************************************)
(* The disk, and the process dying.  Storage::open starts from the tables  *)
(* it finds; its mempool is the genesis state whatever they hold.          *)
(***************************************************************************)
\* SQLite checkpoints or syncs its write-ahead log (synchronous=normal).
SyncWal ==
  /\ synced' \in synced..HighestHeight
  /\ UNCHANGED <<sqlite, forest, cache, mempool, lock, pc, job, orphans, waiter>>

Open ==
  /\ cache' = <<>>
  /\ mempool' = 0
  /\ lock' = NoOne
  /\ pc' = [a \in Appliers |-> "idle"]
  /\ job' = [a \in Appliers |-> NoJob]
  /\ orphans' = {}
  /\ waiter' = [w \in Waiters |-> Idle]

Crash ==
  /\ Open
  /\ UNCHANGED <<sqlite, synced, forest>>

\* What had not reached the disk is lost: the newest part of the WAL, and
\* any of the Merkle nodes that were not flushed.
PowerLoss ==
  \E k \in synced..HighestHeight :
    /\ history' = [h \in DOMAIN history \cap 1..k |-> history[h]]
    /\ proofs' = [h \in DOMAIN proofs \cap 1..k |-> proofs[h]]
    /\ stakes' = {r \in stakes : r.height <= k}
    /\ synced' = k
    /\ \E kept \in SUBSET (nodes \ flushed) :
         nodes' = flushed \cup kept /\ flushed' = nodes'
    /\ Open

(***************************************************************************)
(* The specification.                                                      *)
(***************************************************************************)
Init ==
  /\ history = <<>> /\ proofs = <<>> /\ stakes = GenesisRows
  /\ synced = 0
  /\ nodes = {} /\ flushed = {}
  /\ cache = <<>>
  /\ mempool = 0
  /\ lock = NoOne
  /\ pc = [a \in Appliers |-> "idle"]
  /\ job = [a \in Appliers |-> NoJob]
  /\ orphans = {}
  /\ waiter = [w \in Waiters |-> Idle]

ApplyStep(a) ==
  \/ Acquire(a) \/ ReadHighest(a) \/ Accept(a) \/ Reject(a) \/ Flush(a)
  \/ Commit(a) \/ CommitFails(a) \/ Reread(a) \/ Rebase(a)

Heights == {Height[b] : b \in Blocks}

Next ==
  \/ \E a \in Appliers :
       \/ \E b \in Blocks, sigs \in Proofs : Call(a, b, sigs)
       \/ ApplyStep(a)
  \/ \E a \in Cancellable : Cancel(a)
  \/ \E c \in orphans : OrphanEnds(c)
  \/ \E w \in Waiters : Look(w) \/ Sleep(w) \/ Wake(w) \/ \E h \in Heights : Listen(w, h)
  \/ \E h \in Heights : GetBlock(h) \/ Evict(h)
  \/ SyncWal \/ Crash \/ PowerLoss

Spec == Init /\ [][Next]_vars

(***************************************************************************)
(* The executor polls every task that is ready and the blocking pool runs  *)
(* every closure; the async mutex hands the lock to a starved waiter.      *)
(* Nothing obliges anybody to call, cancel, sync or crash.                 *)
(***************************************************************************)
Fairness ==
  /\ \A a \in Appliers : WF_vars(ApplyStep(a)) /\ SF_vars(Acquire(a))
  /\ \A w \in Waiters : WF_vars(Look(w)) /\ WF_vars(Sleep(w)) /\ WF_vars(Wake(w))

FairSpec == Spec /\ Fairness

(***************************************************************************)
(* Safety.                                                                 *)
(***************************************************************************)
\* The tables hold one unbroken chain: for every height up to the highest,
\* a block that apply_block could accept on the blocks below it with the
\* proof stored at its height - although an apply_block that was dropped
\* in its SQLite transaction may still write after others have moved on.
OneCertifiedChain ==
  /\ DOMAIN history = 1..HighestHeight
  /\ DOMAIN proofs = DOMAIN history
  /\ \A h \in DOMAIN history : Acceptable(history, h - 1, history[h], proofs[h])

\* The sqlite points to merkle (storage.rs:304): whatever survives a power
\* failure, no row refers to Merkle nodes that are not on the disk.
MerkleBehindEveryRow ==
  \A h \in DOMAIN history : history[h] \in flushed

\* old_cache is never invalidated, so it is right only because a row is
\* never replaced while the process lives.
CacheCoherent ==
  \A h \in DOMAIN cache : h \in DOMAIN history /\ cache[h] = history[h]

\* The assertion of get_state (storage.rs:229): the stakes rebuilt from the
\* table are the stakes the header commits to, at every height a reader
\* may ask for and not only at the newest.
StakesMatchHeader ==
  \A h \in DOMAIN history : Stakeset(h) = StateStakes(history, h)

\* When no call is dropped, the mempool follows the chain: outside the tail
\* of an apply_block its state is the successor of the highest block, or
\* the genesis state that open left there.
MempoolFollows ==
  \/ mempool \in {0, HighestHeight + 1}
  \/ \E a \in Appliers : pc[a] \in {"reread", "rebase"}

\* What the repository says and the code does not do (each checked by a run
\* that finds it violated).

\* README.md:192: a block is pushed with its consensus proof, "a quorum of
\* signatures": more than 2/3 of the stake active at its height.  The vote
\* count of apply_block (storage.rs:288) adds running totals instead.
QuorumBehindEveryBlock ==
  \A h \in DOMAIN history :
    IsQuorum(StateStakes(history, h - 1), proofs[h], Epoch(h))

(***************************************************************************)
(* The inductive invariant behind these: a block that has passed the       *)
(* checks, in a live call or in an orphan, was acceptable on a prefix of   *)
(* the chain that no later step changes, and its nodes are on disk before  *)
(* its transaction starts.                                                 *)
(***************************************************************************)
Validated(b, sigs) ==
  /\ Height[b] - 1 <= HighestHeight
  /\ Acceptable(history, Height[b] - 1, b, sigs)

JobsValidated ==
  \A a \in Appliers :
    /\ pc[a] = "check" => job[a].base <= HighestHeight
    /\ pc[a] \in {"flush", "commit"} => Validated(job[a].blk, job[a].sigs)
    /\ pc[a] = "flush" => job[a].blk \in nodes
    /\ pc[a] = "commit" => job[a].blk \in flushed

OrphansValidated ==
  \A c \in orphans : Validated(c.blk, c.sigs) /\ c.blk \in flushed

IInv ==
  /\ TypeOK
  /\ HighestHeight \in Nat
  /\ OneCertifiedChain
  /\ MerkleBehindEveryRow
  /\ flushed \subseteq nodes
  /\ CacheCoherent
  /\ synced <= HighestHeight
  /\ JobsValidated
  /\ OrphansValidated

\* Every step of the tables is a step of the abstract ledger.
Promise == INSTANCE Ledger
  WITH ledger <- [h \in DOMAIN history |-> [block |-> history[h], sigs |-> proofs[h]]],
       durable <- synced

ImplementsLedger == Promise!Spec

(***************************************************************************)
(* Liveness, under FairSpec.                                               *)
(***************************************************************************)
\* No wakeup is lost: a task that waits for a height that is in the history
\* stops waiting for it (or the process dies).
WaiterReturns ==
  \A w \in Waiters, h \in Heights :
    (waiter[w].at # "idle" /\ waiter[w].want = h /\ h \in DOMAIN history)
      ~> (waiter[w].at = "idle" \/ h \notin DOMAIN history)

\* Every call of apply_block returns, whatever the others do.
CallsReturn == \A a \in Appliers : pc[a] # "idle" ~> pc[a] = "idle"
=============================================================================
