-------------------------- MODULE StakerWaitsProofs --------------------------
(***************************************************************************)
(* Proofs about ConnPool and StakerWaits, for any number of handlers,      *)
(* connections, failures, losses and threads.  The argument: a task holds  *)
(* a connection only while it is suspended at a query, and it leaves that  *)
(* place only with its answer or by being dropped; in both cases the       *)
(* connection goes back to the channel, to an orphan or down with its      *)
(* closure.                                                                *)
(***************************************************************************)
EXTENDS StakerWaits, FiniteSetTheorems, TLAPS

States == {"none", "asking", "queued", "running", "sleeping"}

Held(state) == state \in {"queued", "running"}

PoolInv == PoolTypeOK /\ ConnectionsAccounted

\* How the number of held connections changes when one query moves on.
LEMMA Recount ==
  ASSUME job \in [Tasks -> States], NEW t \in Tasks, NEW state \in States,
         job' = [job EXCEPT ![t] = state]
  PROVE  /\ Cardinality(Holding) \in Nat
         /\ (Held(job[t]) <=> Held(state)) => Cardinality(Holding') = Cardinality(Holding)
         /\ ~Held(job[t]) /\ Held(state) => Cardinality(Holding') = Cardinality(Holding) + 1
         /\ Held(job[t]) /\ ~Held(state) => Cardinality(Holding') = Cardinality(Holding) - 1
<1> DEFINE rest == Holding \ {t}
<1>1. IsFiniteSet(Holding) /\ IsFiniteSet(rest)
  BY PoolAssumption, FS_Subset DEF Holding
<1>2. Cardinality(Holding) \in Nat /\ Cardinality(rest) \in Nat
  BY <1>1, FS_CardinalityType
<1>3. Cardinality(rest \cup {t}) = Cardinality(rest) + 1
  BY <1>1, FS_AddElement
<1>4. /\ Held(job[t]) => Holding = rest \cup {t}
      /\ ~Held(job[t]) => Holding = rest
  BY DEF Holding, Held
<1>5. /\ Held(state) => Holding' = rest \cup {t}
      /\ ~Held(state) => Holding' = rest
  BY DEF Holding, Held
<1>6. /\ Held(job[t]) => Cardinality(Holding) = Cardinality(rest) + 1
      /\ ~Held(job[t]) => Cardinality(Holding) = Cardinality(rest)
  BY <1>3, <1>4
<1>7. /\ Held(state) => Cardinality(Holding') = Cardinality(rest) + 1
      /\ ~Held(state) => Cardinality(Holding') = Cardinality(rest)
  BY <1>3, <1>5
<1> HIDE DEF rest, Held
<1> QED BY <1>2, <1>6, <1>7

\* The bounds of the counters follow from their sum.
PoolCounts ==
  /\ idle \in Nat /\ orphans \in Nat
  /\ lost \in 0..MaxLost /\ failures \in 0..MaxFailures
  /\ job \in [Tasks -> States]
  /\ ConnectionsAccounted

LEMMA Bounded == PoolCounts <=> PoolInv
<1>1. Cardinality(Holding) \in Nat
  BY PoolAssumption, FS_Subset, FS_CardinalityType DEF Holding
<1>2. Connections \in Nat /\ MaxLost \in Nat
  BY PoolAssumption
<1> QED BY <1>1, <1>2 DEF PoolCounts, PoolInv, PoolTypeOK, ConnectionsAccounted, States

(***************************************************************************)
(* The steps of a query: each keeps the sum.                               *)
(***************************************************************************)
LEMMA TakeCounts ==
  ASSUME PoolCounts, NEW t \in Tasks, Take(t)
  PROVE  PoolCounts'
<1> USE DEF Take, PoolCounts
<1>1. Cardinality(Holding') = Cardinality(Holding) + 1 /\ Cardinality(Holding) \in Nat
  BY Recount DEF Held, States
<1>2. /\ idle' \in Nat /\ orphans' \in Nat /\ job' \in [Tasks -> States]
      /\ lost' \in 0..MaxLost /\ failures' \in 0..MaxFailures
  BY DEF States
<1>3. ConnectionsAccounted'
  BY <1>1, PoolAssumption DEF ConnectionsAccounted
<1> QED BY <1>2, <1>3

LEMMA StartCounts ==
  ASSUME PoolCounts, NEW t \in Tasks, Start(t)
  PROVE  PoolCounts'
<1> USE DEF Start, PoolCounts
<1>1. Cardinality(Holding') = Cardinality(Holding) /\ Cardinality(Holding) \in Nat
  BY Recount DEF Held, States
<1>2. job' \in [Tasks -> States]
  BY DEF States
<1> QED BY <1>1, <1>2 DEF ConnectionsAccounted

\* A closure that ended or had not been asked for; never one still queued.
LEMMA MovesCounts ==
  ASSUME PoolCounts, NEW t \in Tasks, NEW asks \in BOOLEAN,
         job[t] # "queued", Moves(t, asks)
  PROVE  PoolCounts'
<1> USE DEF PoolCounts
<1> DEFINE state == IF asks THEN "asking" ELSE "none"
<1>1. state \in States /\ ~Held(state) /\ job' = [job EXCEPT ![t] = state]
  BY DEF Moves, Held, States
<1>2. /\ idle' \in Nat /\ orphans' = orphans /\ job' \in [Tasks -> States]
      /\ lost' = lost /\ failures' = failures
  BY <1>1 DEF Moves, States
<1> HIDE DEF state
<1>3. CASE job[t] = "running"
  <2>1. Cardinality(Holding') = Cardinality(Holding) - 1 /\ Cardinality(Holding) \in Nat
    BY <1>1, <1>3, Recount DEF Held
  <2> QED BY <1>2, <1>3, <2>1, PoolAssumption DEF Moves, ConnectionsAccounted
<1>4. CASE job[t] # "running"
  <2>1. Cardinality(Holding') = Cardinality(Holding) /\ Cardinality(Holding) \in Nat
    BY <1>1, <1>4, Recount DEF Held
  <2> QED BY <1>2, <1>4, <2>1, PoolAssumption DEF Moves, ConnectionsAccounted
<1> QED BY <1>3, <1>4

LEMMA FailsCounts ==
  ASSUME PoolCounts, NEW t \in Tasks, Fails(t)
  PROVE  PoolCounts'
<1> USE DEF Fails, PoolCounts
<1>1. Cardinality(Holding') = Cardinality(Holding) - 1 /\ Cardinality(Holding) \in Nat
  BY Recount DEF Held, States
<1>2. /\ idle' \in Nat /\ orphans' \in Nat /\ job' \in [Tasks -> States]
      /\ lost' \in 0..MaxLost /\ failures' \in 0..MaxFailures
  BY PoolAssumption DEF States
<1>3. ConnectionsAccounted'
  BY <1>1, PoolAssumption DEF ConnectionsAccounted
<1> QED BY <1>2, <1>3

LEMMA GivesUpCounts ==
  ASSUME PoolCounts, NEW t \in Tasks, GivesUp(t)
  PROVE  PoolCounts'
<1> USE DEF GivesUp, PoolCounts
<1>1. Cardinality(Holding') = Cardinality(Holding) - 1 /\ Cardinality(Holding) \in Nat
  BY Recount DEF Held, States
<1>2. /\ idle' \in Nat /\ orphans' \in Nat /\ job' \in [Tasks -> States]
      /\ lost' \in 0..MaxLost /\ failures' \in 0..MaxFailures
  BY PoolAssumption DEF States
<1>3. ConnectionsAccounted'
  BY <1>1, PoolAssumption DEF ConnectionsAccounted
<1> QED BY <1>2, <1>3

LEMMA RetryCounts ==
  ASSUME PoolCounts, NEW t \in Tasks, Retry(t)
  PROVE  PoolCounts'
<1> USE DEF Retry, PoolCounts
<1>1. Cardinality(Holding') = Cardinality(Holding) /\ Cardinality(Holding) \in Nat
  BY Recount DEF Held, States
<1>2. job' \in [Tasks -> States]
  BY DEF States
<1> QED BY <1>1, <1>2 DEF ConnectionsAccounted

LEMMA DropQueryCounts ==
  ASSUME PoolCounts, NEW t \in Tasks, DropQuery(t)
  PROVE  PoolCounts'
<1> USE DEF PoolCounts
<1>1. "none" \in States /\ ~Held("none") /\ job' = [job EXCEPT ![t] = "none"]
  BY DEF DropQuery, Held, States
<1>2. /\ idle' = idle /\ orphans' \in Nat /\ job' \in [Tasks -> States]
      /\ lost' \in 0..MaxLost /\ failures' = failures
  BY <1>1, PoolAssumption DEF DropQuery, States
<1>3. CASE job[t] \in {"queued", "running"}
  <2>1. Cardinality(Holding') = Cardinality(Holding) - 1 /\ Cardinality(Holding) \in Nat
    BY <1>1, <1>3, Recount DEF Held
  <2> QED BY <1>2, <1>3, <2>1, PoolAssumption DEF DropQuery, ConnectionsAccounted
<1>4. CASE job[t] \notin {"queued", "running"}
  <2>1. Cardinality(Holding') = Cardinality(Holding) /\ Cardinality(Holding) \in Nat
    BY <1>1, <1>4, Recount DEF Held
  <2> QED BY <1>2, <1>4, <2>1, PoolAssumption DEF DropQuery, ConnectionsAccounted
<1> QED BY <1>3, <1>4

LEMMA OrphanEndsCounts ==
  ASSUME PoolCounts, OrphanEnds
  PROVE  PoolCounts'
<1>1. Holding' = Holding /\ Cardinality(Holding) \in Nat
  BY PoolAssumption, FS_Subset, FS_CardinalityType DEF Holding, OrphanEnds
<1> QED BY <1>1, PoolAssumption DEF PoolCounts, ConnectionsAccounted, OrphanEnds

LEMMA PoolStepCounts ==
  ASSUME PoolCounts, PoolStep
  PROVE  PoolCounts'
BY TakeCounts, StartCounts, RetryCounts, OrphanEndsCounts DEF PoolStep, Served

(***************************************************************************)
(* The tasks.                                                              *)
(***************************************************************************)
Labels ==
  Applying \cup {"wait", "gather", "ended", "idle", "off", "look", "listen", "found",
                 "consensus", "map"}

\* Where a task is suspended at a query.
AtQuery == {"highest", "commit", "reread", "look", "consensus"}

Places ==
  /\ at \in [Tasks -> Labels]
  /\ at["round"] \in Applying \cup {"wait", "gather", "ended"}
  /\ at["sync"] \in Applying \cup {"idle"}
  /\ at["skip"] \in {"off", "look", "listen", "found"}
  /\ \A h \in Handlers : at[h] \in {"idle", "consensus", "map"}
  /\ owner \in Appliers \cup {"nobody"}
  /\ have \in BOOLEAN /\ notified \in BOOLEAN
  /\ \A t \in Appliers : owner = t <=> at[t] \in Applying \ {"lock"}
  /\ at["skip"] = "off" <=> at["round"] = "wait"

ThreadsBounded == threads \in Threads..MaxThreads

QueriesAwaited == \A t \in Tasks : job[t] # "none" => at[t] \in AtQuery

IInv == Places /\ ThreadsBounded /\ PoolCounts /\ QueriesAwaited

LEMMA TypesFollow == IInv => TypeOK /\ ConnectionsAccounted
BY Bounded DEF IInv, Places, ThreadsBounded, PoolCounts, PoolInv, TypeOK

LEMMA InitInv == Init => IInv
<1> SUFFICES ASSUME Init PROVE IInv
  OBVIOUS
<1> USE DEF Init, PoolInit
<1>1. Places
  BY WaitsAssumption DEF Places, Labels, Applying, Appliers, Rest
<1>2. ThreadsBounded /\ QueriesAwaited
  BY WaitsAssumption DEF ThreadsBounded, QueriesAwaited
<1>3. Holding = {}
  BY DEF Holding
<1>4. PoolCounts
  BY <1>3, FS_EmptySet, PoolAssumption DEF PoolCounts, ConnectionsAccounted, States
<1> QED BY <1>1, <1>2, <1>4 DEF IInv

\* A task that goes on from a place where its closure is not still queued.
LEMMA GoesInv ==
  ASSUME IInv, NEW t \in Tasks, NEW label, NEW asks \in BOOLEAN,
         job[t] # "queued", asks => label \in AtQuery, Goes(t, label, asks)
  PROVE  ThreadsBounded' /\ PoolCounts' /\ QueriesAwaited'
<1>1. PoolCounts'
  BY MovesCounts DEF IInv, Goes
<1>2. ThreadsBounded'
  BY DEF IInv, ThreadsBounded, Goes
<1>3. QueriesAwaited'
  BY DEF IInv, QueriesAwaited, Goes, Moves, Places, PoolCounts
<1> QED BY <1>1, <1>2, <1>3

\* Nothing else is known of a task that awaits no query.
LEMMA NotQueued ==
  ASSUME IInv, NEW t \in Tasks
  PROVE  /\ at[t] \notin AtQuery => job[t] = "none"
         /\ \A label : Answered(t, label) => job[t] # "queued"
BY DEF IInv, QueriesAwaited, Answered

LEMMA AppliersAreTasks == Appliers \subseteq Tasks /\ "skip" \in Tasks /\ Handlers \subseteq Tasks
BY WaitsAssumption DEF Appliers

LEMMA apply_blockInv ==
  ASSUME IInv, NEW t \in Appliers, apply_block(t)
  PROVE  IInv'
<1>0. t \in Tasks
  BY AppliersAreTasks
<1>1. CASE Acquire(t)
  <2>1. job[t] # "queued"
    BY <1>0, <1>1, NotQueued DEF Acquire, AtQuery
  <2>2. ThreadsBounded' /\ PoolCounts' /\ QueriesAwaited'
    BY <1>0, <1>1, <2>1, GoesInv DEF Acquire, AtQuery
  <2>3. Places'
    BY <1>0, <1>1, WaitsAssumption DEF Acquire, Goes, IInv, Places, Labels, Applying, Appliers
  <2> QED BY <2>2, <2>3 DEF IInv
<1>2. ASSUME job[t] # "queued", Leave(t), at[t] \in Applying \ {"lock"},
             have' \in BOOLEAN, notified' \in BOOLEAN
      PROVE  IInv'
  <2>1. ThreadsBounded' /\ PoolCounts' /\ QueriesAwaited'
    BY <1>0, <1>2, GoesInv DEF Leave
  <2>2. Places'
    BY <1>0, <1>2, WaitsAssumption
    DEF Leave, Returns, Goes, IInv, Places, Labels, Applying, Appliers
  <2> QED BY <2>1, <2>2 DEF IInv
<1>3. ASSUME NEW label \in {"commit", "reread"}, job[t] # "queued", Goes(t, label, TRUE),
             UNCHANGED owner, at[t] \in Applying \ {"lock"},
             have' \in BOOLEAN, notified' \in BOOLEAN
      PROVE  IInv'
  <2>1. ThreadsBounded' /\ PoolCounts' /\ QueriesAwaited'
    BY <1>0, <1>3, GoesInv DEF AtQuery
  <2>2. Places'
    BY <1>0, <1>3, WaitsAssumption DEF Goes, IInv, Places, Labels, Applying, Appliers
  <2> QED BY <2>1, <2>2 DEF IInv
<1>4. have \in BOOLEAN /\ notified \in BOOLEAN
  BY DEF IInv, Places
<1>5. CASE Check(t)
  <2>1. at[t] \in Applying \ {"lock"} /\ job[t] # "queued"
    BY <1>0, <1>5, NotQueued DEF Check, Answered, Applying
  <2> QED BY <1>2, <1>3, <1>4, <1>5, <2>1 DEF Check
<1>6. CASE Commit(t)
  <2>1. at[t] \in Applying \ {"lock"} /\ job[t] # "queued"
    BY <1>0, <1>6, NotQueued DEF Commit, Answered, Applying
  <2> QED BY <1>2, <1>3, <1>4, <1>6, <2>1 DEF Commit
<1>7. CASE Reread(t)
  <2>1. at[t] \in Applying \ {"lock"} /\ job[t] # "queued"
    BY <1>0, <1>7, NotQueued DEF Reread, Answered, Applying
  <2> QED BY <1>2, <1>4, <1>7, <2>1 DEF Reread
<1> QED BY <1>1, <1>5, <1>6, <1>7 DEF apply_block

\* The round and its race.
LEMMA BeginRoundInv ==
  ASSUME IInv, BeginRound
  PROVE  IInv'
<1>1. at["skip"] = "off" /\ job["skip"] = "none"
  BY NotQueued, WaitsAssumption DEF BeginRound, IInv, Places, AtQuery
<1>2. PoolCounts'
  BY <1>1, MovesCounts, AppliersAreTasks DEF IInv, BeginRound
<1>3. ThreadsBounded' /\ QueriesAwaited'
  BY <1>1, WaitsAssumption
  DEF IInv, BeginRound, ThreadsBounded, QueriesAwaited, AtQuery, Moves, Places, PoolCounts
<1>4. Places'
  BY WaitsAssumption DEF BeginRound, IInv, Places, Labels, Applying, Appliers
<1> QED BY <1>2, <1>3, <1>4 DEF IInv

\* The future that is dropped may be at a query, the other one is not.
LEMMA EndRaceInv ==
  ASSUME IInv, SkipRound \/ EndRound
  PROVE  IInv'
<1>1. /\ SkipRound => at["skip"] = "found" /\ job["skip"] = "none"
      /\ EndRound => at["round"] = "ended" /\ job["round"] = "none"
  BY NotQueued, WaitsAssumption DEF SkipRound, EndRound, AtQuery
<1>2. PoolCounts'
  BY DropQueryCounts, WaitsAssumption DEF IInv, SkipRound, EndRound, EndRace
<1>3. ThreadsBounded' /\ QueriesAwaited'
  BY <1>1, WaitsAssumption
  DEF IInv, SkipRound, EndRound, EndRace, ThreadsBounded, QueriesAwaited, AtQuery, DropQuery,
      Places, PoolCounts
<1>4. Places'
  <2>1. /\ at' \in [Tasks -> Labels] /\ at'["round"] = "wait" /\ at'["skip"] = "off"
        /\ at'["sync"] = at["sync"] /\ \A h \in Handlers : at'[h] = at[h]
        /\ UNCHANGED <<have, notified>>
    <3>1. at' = [at EXCEPT !["round"] = "wait", !["skip"] = "off"] /\ UNCHANGED <<have, notified>>
      BY DEF SkipRound, EndRound, EndRace
    <3>2. at \in [Tasks -> Labels] /\ "wait" \in Labels /\ "off" \in Labels
      BY DEF IInv, Places, Labels
    <3> QED BY <3>1, <3>2, WaitsAssumption
  <2>2. owner' = IF owner = "round" THEN "nobody" ELSE owner
    BY DEF SkipRound, EndRound, IInv, Places, Applying, Appliers
  <2>3. /\ owner' \in Appliers \cup {"nobody"}
        /\ \A t \in Appliers : owner' = t <=> at'[t] \in Applying \ {"lock"}
    <3>1. /\ owner \in Appliers \cup {"nobody"}
          /\ owner = "sync" <=> at["sync"] \in Applying \ {"lock"}
      BY DEF IInv, Places, Appliers
    <3>2. owner' # "round" /\ owner' \in {owner, "nobody"} /\ (owner' = "sync" <=> owner = "sync")
      BY <2>2
    <3>3. at'["round"] \notin Applying
      BY <2>1 DEF Applying
    <3> QED BY <2>1, <3>1, <3>2, <3>3 DEF Appliers
  <2> QED BY <2>1, <2>3 DEF IInv, Places
<1> QED BY <1>2, <1>3, <1>4 DEF IInv

\* The other steps of the tasks: none of them is about the lock.
Gone(t) ==
  \/ t = "round" /\ Gathered
  \/ t = "skip" /\ (Look \/ Wake)
  \/ t = "sync" /\ Sync
  \/ t \in Handlers /\ (Consensus(t) \/ LookUp(t) \/ get_sigs(t))

LEMMA PlacesKept ==
  ASSUME Places, NEW t \in Tasks, NEW label \in Labels, at' = [at EXCEPT ![t] = label],
         owner' = owner, have' = have, notified' \in BOOLEAN,
         t = "round" => label \in {"lock", "ended"} /\ at["round"] # "wait",
         t = "sync" => label \in {"lock", "idle"},
         t = "skip" => label \in {"look", "listen", "found"} /\ at["skip"] # "off",
         t \in Handlers => label \in {"idle", "consensus", "map"},
         t \in Appliers => at[t] \notin Applying \ {"lock"}
  PROVE  Places'
<1>1. at' \in [Tasks -> Labels] /\ at'[t] = label /\ \A u \in Tasks : u # t => at'[u] = at[u]
  BY DEF Places
<1>2. {"round", "skip", "sync"} \cup Handlers \subseteq Tasks /\ {"round", "skip", "sync"} \cap Handlers = {}
  BY WaitsAssumption
<1>3. /\ at'["round"] \in Applying \cup {"wait", "gather", "ended"}
      /\ at'["sync"] \in Applying \cup {"idle"}
      /\ at'["skip"] \in {"off", "look", "listen", "found"}
      /\ at'["skip"] = "off" <=> at'["round"] = "wait"
  BY <1>1, <1>2 DEF Places, Applying
<1>4. \A h \in Handlers : at'[h] \in {"idle", "consensus", "map"}
  BY <1>1, <1>2 DEF Places
<1>5. \A a \in Appliers : owner' = a <=> at'[a] \in Applying \ {"lock"}
  BY <1>1, <1>2 DEF Places, Applying, Appliers
<1> QED BY <1>1, <1>3, <1>4, <1>5 DEF Places

LEMMA GoneInv ==
  ASSUME IInv, NEW t \in Tasks, Gone(t)
  PROVE  IInv'
<1>1. job[t] # "queued"
  BY NotQueued
  DEF Gone, Gathered, Look, Wake, Sync, Consensus, LookUp, get_sigs, AtQuery
<1>2. ThreadsBounded' /\ PoolCounts' /\ QueriesAwaited'
  <2>1. PICK label \in Labels, asks \in BOOLEAN :
          Goes(t, label, asks) /\ (asks => label \in AtQuery)
    BY DEF Gone, Gathered, Look, Wake, Sync, Consensus, LookUp, get_sigs, AtQuery,
           Labels, Applying
  <2> QED BY <1>1, <2>1, GoesInv
<1>3. Places'
  <2>1. CASE t = "round" /\ Gathered
    <3>1. at["round"] = "gather" /\ at' = [at EXCEPT ![t] = "lock"] /\ UNCHANGED <<owner, have, notified>>
      BY <2>1 DEF Gathered, Goes
    <3> QED BY <2>1, <3>1, PlacesKept, WaitsAssumption DEF IInv, Places, Labels, Applying
  <2>2. CASE t = "skip" /\ (Look \/ Wake)
    <3>1. PICK label \in {"look", "listen", "found"} :
            at["skip"] # "off" /\ at' = [at EXCEPT ![t] = label] /\ UNCHANGED <<owner, have>>
      BY <2>2 DEF Look, Wake, Answered, Goes
    <3>2. notified' \in BOOLEAN
      BY <2>2 DEF Look, Wake, IInv, Places
    <3> QED BY <2>2, <3>1, <3>2, PlacesKept, WaitsAssumption DEF IInv, Labels, Appliers
  <2>3. CASE t = "sync" /\ Sync
    <3>1. at["sync"] = "idle" /\ at' = [at EXCEPT ![t] = "lock"] /\ UNCHANGED <<owner, have, notified>>
      BY <2>3 DEF Sync, Goes
    <3> QED BY <2>3, <3>1, PlacesKept, WaitsAssumption DEF IInv, Places, Labels, Applying
  <2>4. CASE t \in Handlers /\ (Consensus(t) \/ LookUp(t) \/ get_sigs(t))
    <3>1. PICK label \in {"idle", "consensus", "map"} :
            at' = [at EXCEPT ![t] = label] /\ UNCHANGED <<owner, have, notified>>
      BY <2>4 DEF Consensus, LookUp, get_sigs, Goes
    <3>2. notified' \in BOOLEAN /\ t \notin {"round", "skip", "sync"}
      BY <2>4, <3>1, WaitsAssumption DEF IInv, Places
    <3> QED BY <2>4, <3>1, <3>2, PlacesKept DEF IInv, Labels, Appliers
  <2> QED BY <2>1, <2>2, <2>3, <2>4 DEF Gone
<1> QED BY <1>2, <1>3 DEF IInv

LEMMA PoolStepInv ==
  ASSUME IInv, PoolStep, UNCHANGED Others
  PROVE  IInv'
<1>1. PoolCounts'
  BY PoolStepCounts DEF IInv
<1>2. Places' /\ ThreadsBounded'
  BY DEF IInv, Others, Places, ThreadsBounded
<1>3. \A t \in Tasks : job'[t] # "none" => job[t] # "none"
  BY DEF PoolStep, OrphanEnds, Served, Take, Start, Retry, IInv, PoolCounts
<1>4. QueriesAwaited'
  BY <1>3 DEF IInv, QueriesAwaited, Others
<1> QED BY <1>1, <1>2, <1>4 DEF IInv

LEMMA QueryFailsInv ==
  ASSUME IInv, NEW t \in Tasks, QueryFails(t)
  PROVE  IInv'
<1>1. PoolCounts'
  BY FailsCounts DEF IInv, QueryFails
<1>2. Places' /\ ThreadsBounded'
  BY DEF IInv, QueryFails, Places, ThreadsBounded
<1>3. \A u \in Tasks : job'[u] # "none" => job[u] # "none"
  BY DEF QueryFails, Fails, IInv, PoolCounts
<1>4. QueriesAwaited'
  BY <1>3 DEF IInv, QueriesAwaited, QueryFails
<1> QED BY <1>1, <1>2, <1>4 DEF IInv

LEMMA CommitFailsInv ==
  ASSUME IInv, NEW t \in Appliers, CommitFails(t)
  PROVE  IInv'
<1>1. t \in Tasks
  BY AppliersAreTasks
<1>2. PoolCounts'
  BY <1>1, GivesUpCounts DEF IInv, CommitFails
<1>3. ThreadsBounded'
  BY DEF IInv, CommitFails, ThreadsBounded
<1>4. QueriesAwaited'
  BY <1>1 DEF IInv, QueriesAwaited, CommitFails, GivesUp, Places, PoolCounts
<1>5. Places'
  BY <1>1, WaitsAssumption
  DEF CommitFails, Returns, IInv, Places, Labels, Applying, Appliers
<1> QED BY <1>2, <1>3, <1>4, <1>5 DEF IInv

LEMMA AddThreadInv ==
  ASSUME IInv, AddThread
  PROVE  IInv'
<1>1. ThreadsBounded'
  BY WaitsAssumption DEF IInv, AddThread, ThreadsBounded
<1> QED BY <1>1 DEF IInv, AddThread, poolVars, Places, PoolCounts, QueriesAwaited,
                    ConnectionsAccounted, Holding

LEMMA StutterInv ==
  ASSUME IInv, UNCHANGED vars
  PROVE  IInv'
BY DEF IInv, vars, poolVars, Places, ThreadsBounded, PoolCounts, QueriesAwaited,
       ConnectionsAccounted, Holding

\* The invariant of every state: a task has a query only where it awaits one
\* (src/staker.rs, src/storage/storage.rs, src/autoretry.rs).
THEOREM Invariance == Spec => []IInv
<1>1. IInv /\ [Next]_vars => IInv'
  <2> SUFFICES ASSUME IInv, [Next]_vars PROVE IInv'
    OBVIOUS
  <2>1. ASSUME NEW t \in Tasks, TaskStep(t) PROVE IInv'
    BY <2>1, apply_blockInv, BeginRoundInv, EndRaceInv, GoneInv DEF TaskStep, Gone
  <2>2. CASE Sync \/ \E h \in Handlers : get_sigs(h)
    BY <2>2, GoneInv, WaitsAssumption DEF Gone
  <2>3. CASE (\E t \in Tasks : QueryFails(t)) \/ \E t \in Appliers : CommitFails(t)
    BY <2>3, QueryFailsInv, CommitFailsInv
  <2> QED BY <2>1, <2>2, <2>3, PoolStepInv, AddThreadInv, StutterInv DEF Next
<1> QED BY <1>1, InitInv, PTL DEF Spec

\* The places, the owner of Storage::lock and the counters have their types;
\* the lock is owned by exactly the task that is inside apply_block.
THEOREM TypeCorrect == Spec => []TypeOK
BY Invariance, TypesFollow, PTL

\* Every connection is in the channel, held by one query, held by an orphaned
\* closure, or gone down with a dropped one (src/storage/storage.rs): whatever
\* fails, none stays with a query that has ended and none is given back twice.
\* How many go down with dropped closures is not bounded by this.
THEOREM ConnectionsSafety == Spec => []ConnectionsAccounted
BY Invariance, TypesFollow, PTL
=============================================================================
