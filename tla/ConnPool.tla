------------------------------ MODULE ConnPool ------------------------------
(***************************************************************************)
(* The SQLite connections of Storage (src/storage/storage.rs): a query     *)
(* takes one from a channel, moves it into a closure for the blocking pool *)
(* and a scope guard inside the closure gives it back.  autoretry          *)
(* (src/autoretry.rs) repeats a query that failed; the transaction of      *)
(* apply_block is not repeated.  A task that is dropped while its closure  *)
(* is still queued drops the closure, connection and all; a closure that   *)
(* has started runs to its end.                                            *)
(***************************************************************************)
EXTENDS Integers, FiniteSets

CONSTANTS
  Tasks,        \* the tasks that query the storage, one query at a time
  Connections,  \* opened by Storage::open (16)
  MaxFailures,  \* bound on queries that fail
  MaxLost       \* bound on closures dropped before they start

ASSUME PoolAssumption ==
  /\ IsFiniteSet(Tasks)
  /\ Connections \in Nat \ {0}
  /\ MaxFailures \in Nat /\ MaxLost \in Nat

VARIABLES
  idle,      \* connections in the channel
  job,       \* how far the query of each task has got
  orphans,   \* started closures whose task has been dropped
  lost,      \* connections that went down with a closure
  failures

poolVars == <<idle, job, orphans, lost, failures>>

PoolTypeOK ==
  /\ idle \in 0..Connections
  /\ job \in [Tasks -> {"none", "asking", "queued", "running", "sleeping"}]
  /\ orphans \in 0..Connections
  /\ lost \in 0..MaxLost
  /\ failures \in 0..MaxFailures

PoolInit ==
  /\ idle = Connections
  /\ job = [t \in Tasks |-> "none"]
  /\ orphans = 0 /\ lost = 0 /\ failures = 0

Holding == {t \in Tasks : job[t] \in {"queued", "running"}}

(***************************************************************************)
(* The steps of a query.                                                   *)
(***************************************************************************)
\* recv_pool.recv(), and smol::unblock queues the closure.
Take(t) ==
  /\ job[t] = "asking" /\ idle > 0
  /\ idle' = idle - 1
  /\ job' = [job EXCEPT ![t] = "queued"]
  /\ UNCHANGED <<orphans, lost, failures>>

Start(t) ==
  /\ job[t] = "queued"
  /\ job' = [job EXCEPT ![t] = "running"]
  /\ UNCHANGED <<idle, orphans, lost, failures>>

\* The closure ends, its task goes on to another query or to none.
Moves(t, asks) ==
  /\ idle' = IF job[t] = "running" THEN idle + 1 ELSE idle
  /\ job' = [job EXCEPT ![t] = IF asks THEN "asking" ELSE "none"]
  /\ UNCHANGED <<orphans, lost, failures>>

\* Mutant: without the scope guard, "?" leaves the closure with the connection.
FailsKeeping(t) ==
  /\ job[t] = "running" /\ failures < MaxFailures
  /\ job' = [job EXCEPT ![t] = "sleeping"]
  /\ failures' = failures + 1
  /\ UNCHANGED <<idle, orphans, lost>>

\* The closure returns an error; autoretry sleeps.
Fails(t) ==
  /\ job[t] = "running" /\ failures < MaxFailures
  /\ idle' = idle + 1
  /\ job' = [job EXCEPT ![t] = "sleeping"]
  /\ failures' = failures + 1
  /\ UNCHANGED <<orphans, lost>>

\* The closure returns an error that its task passes on.
GivesUp(t) ==
  /\ job[t] = "running" /\ failures < MaxFailures
  /\ idle' = idle + 1
  /\ job' = [job EXCEPT ![t] = "none"]
  /\ failures' = failures + 1
  /\ UNCHANGED <<orphans, lost>>

Retry(t) ==
  /\ job[t] = "sleeping"
  /\ job' = [job EXCEPT ![t] = "asking"]
  /\ UNCHANGED <<idle, orphans, lost, failures>>

\* The future that awaits the query is dropped.
DropQuery(t) ==
  /\ job[t] = "queued" => lost < MaxLost
  /\ job' = [job EXCEPT ![t] = "none"]
  /\ lost' = IF job[t] = "queued" THEN lost + 1 ELSE lost
  /\ orphans' = IF job[t] = "running" THEN orphans + 1 ELSE orphans
  /\ UNCHANGED <<idle, failures>>

OrphanEnds ==
  /\ orphans > 0
  /\ orphans' = orphans - 1
  /\ idle' = idle + 1
  /\ UNCHANGED <<job, lost, failures>>

\* What the pool and the timer do for a task that waits for its query.
Served(t) == Take(t) \/ Start(t) \/ Retry(t)

PoolStep == OrphanEnds \/ \E t \in Tasks : Served(t)

\* Every connection is in one place: the channel, the closure of a waiting or
\* of a dropped task - or it went down with a closure that never started,
\* which no property of this module forbids.  So no error path keeps a
\* connection and none is given back twice.
ConnectionsAccounted ==
  idle + Cardinality(Holding) + orphans + lost = Connections
=============================================================================
