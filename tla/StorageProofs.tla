---------------------------- MODULE StorageProofs ----------------------------
(***************************************************************************)
(* Proofs about Storage, for any blocks, stakes, callers and cancellation. *)
(* The argument: apply_block validates a block against a prefix of the     *)
(* chain; rows are only ever added, so the validation stays true even when *)
(* the call is dropped and its transaction ends late; the primary key of   *)
(* history then admits it only if it is still the next height.             *)
(*                                                                         *)
(* The last part is about StakerRound, the round loop over this storage;   *)
(* its constants do not occur in what is said of Spec, and its assumption  *)
(* is cited in that part only.                                             *)
(***************************************************************************)
EXTENDS StakerRound, SequenceTheorems, TLAPS

\* The greatest element of a non-empty interval from 1, as HighestHeight
\* computes it.
LEMMA HighestOfInterval ==
  ASSUME NEW n \in Nat
  PROVE  (IF 1..n = {} THEN 0 ELSE Max(1..n)) = n
<1>1. CASE n = 0
  BY <1>1
<1>2. CASE n # 0
  <2>1. n \in 1..n /\ \A y \in 1..n : n >= y
    BY <1>2
  <2>2. Max(1..n) \in 1..n /\ \A y \in 1..n : Max(1..n) >= y
    BY <2>1 DEF Max
  <2>3. Max(1..n) = n
    BY <2>1, <2>2
  <2> QED BY <2>1, <2>3
<1> QED BY <1>1, <1>2

LEMMA HighestIs ==
  ASSUME NEW n \in Nat, DOMAIN history = 1..n
  PROVE  HighestHeight = n
BY HighestOfInterval DEF HighestHeight

\* What apply_block checks depends on the chain only up to its height.
LEMMA AcceptableStable ==
  ASSUME NEW c, NEW d, NEW h \in Nat, NEW b, NEW sigs,
         \A i \in 1..h : c[i] = d[i],
         Acceptable(c, h, b, sigs)
  PROVE  Acceptable(d, h, b, sigs)
<1>1. StateStakes(c, h) = StateStakes(d, h)
  <2>1. UNION {Admitted[c[i]] : i \in 1..h} = UNION {Admitted[d[i]] : i \in 1..h}
    <3>1. {Admitted[c[i]] : i \in 1..h} = {Admitted[d[i]] : i \in 1..h}
      OBVIOUS
    <3> QED BY <3>1
  <2> QED BY <2>1 DEF StateStakes
<1>2. Tip(c, h) = Tip(d, h)
  BY DEF Tip
<1> QED BY <1>1, <1>2 DEF Acceptable

\* An acceptable block is the next one.
LEMMA AcceptableHeight ==
  ASSUME NEW c, NEW h \in Nat, NEW b \in Blocks, NEW sigs, Acceptable(c, h, b, sigs)
  PROVE  Height[b] = h + 1
BY DEF Acceptable, FollowsHeight

(***************************************************************************)
(* The chain only grows while the process lives, so that what was          *)
(* validated stays validated.                                              *)
(***************************************************************************)
LEMMA ValidatedStable ==
  ASSUME HighestHeight \in Nat, HighestHeight' \in Nat,
         HighestHeight <= HighestHeight',
         \A i \in 1..HighestHeight : history'[i] = history[i],
         NEW b \in Blocks, NEW sigs, Validated(b, sigs)
  PROVE  Validated(b, sigs)'
<1>1. Height[b] - 1 \in Nat
  BY ChainAssumption
<1>2. Height[b] - 1 <= HighestHeight /\ Acceptable(history, Height[b] - 1, b, sigs)
  BY DEF Validated
<1>3. \A i \in 1..(Height[b] - 1) : history[i] = history'[i]
  BY <1>1, <1>2
<1>4. Acceptable(history', Height[b] - 1, b, sigs)
  BY <1>1, <1>2, <1>3, AcceptableStable
<1> QED BY <1>1, <1>2, <1>4 DEF Validated

\* The SQLite transaction of a validated block appends it or does nothing.
LEMMA InsertAppends ==
  ASSUME IInv, NEW b \in Blocks, NEW sigs \in SUBSET Keys,
         Validated(b, sigs), InsertBlock(b, sigs)
  PROVE  /\ Height[b] = HighestHeight + 1
         /\ HighestHeight' = HighestHeight + 1
         /\ DOMAIN history' = 1..HighestHeight'
         /\ DOMAIN proofs' = 1..HighestHeight'
         /\ \A i \in 1..HighestHeight : history'[i] = history[i] /\ proofs'[i] = proofs[i]
         /\ history'[HighestHeight'] = b /\ proofs'[HighestHeight'] = sigs
         /\ history' \in [DOMAIN history' -> Blocks]
         /\ proofs' \in [DOMAIN proofs' -> SUBSET Keys]
         /\ stakes' \subseteq [height : Nat, doc : StakeDocs]
<1> DEFINE n == HighestHeight
<1>1. /\ n \in Nat /\ DOMAIN history = 1..n /\ DOMAIN proofs = 1..n
      /\ history \in [1..n -> Blocks] /\ proofs \in [1..n -> SUBSET Keys]
  BY DEF IInv, OneCertifiedChain, TypeOK
<1>2. Height[b] \in Nat \ {0}
  BY ChainAssumption
<1>3. Height[b] = n + 1
  BY <1>1, <1>2 DEF Validated, InsertBlock, Conflicts
<1>4. history' = [x \in 1..(n + 1) |-> IF x = n + 1 THEN b ELSE history[x]]
  <2>1. (1..n) \cup {n + 1} = 1..(n + 1)
    BY <1>1
  <2> QED BY <1>1, <1>3, <2>1 DEF InsertBlock, Put
<1>5. proofs' = [x \in 1..(n + 1) |-> IF x = n + 1 THEN sigs ELSE proofs[x]]
  <2>1. (1..n) \cup {n + 1} = 1..(n + 1)
    BY <1>1
  <2> QED BY <1>1, <1>3, <2>1 DEF InsertBlock, Put
<1>6. HighestHeight' = n + 1
  <2>1. DOMAIN history' = 1..(n + 1) /\ n + 1 \in Nat
    BY <1>1, <1>4
  <2> HIDE DEF n
  <2> QED BY <2>1, HighestOfInterval DEF HighestHeight
<1>7. stakes' \subseteq [height : Nat, doc : StakeDocs]
  <2>1. RecordedStakes(b) \subseteq StakeDocs
    BY ChainAssumption DEF RecordedStakes
  <2> QED BY <1>2, <2>1 DEF InsertBlock, IInv, TypeOK
<1> HIDE DEF n
<1>8. \A i \in 1..n : i # n + 1 /\ i \in 1..(n + 1)
  BY <1>1
<1> QED BY <1>1, <1>3, <1>4, <1>5, <1>6, <1>7, <1>8 DEF n

(***************************************************************************)
(* Steps that write no row and forget no Merkle node: the chain part of    *)
(* the invariant carries over, and what was validated stays validated.     *)
(***************************************************************************)
ChainPart ==
  /\ HighestHeight \in Nat
  /\ OneCertifiedChain
  /\ MerkleBehindEveryRow
  /\ flushed \subseteq nodes
  /\ synced <= HighestHeight

LEMMA ChainKept ==
  ASSUME IInv, UNCHANGED <<history, proofs>>,
         flushed \subseteq flushed', flushed' \subseteq nodes', synced' <= HighestHeight
  PROVE  /\ ChainPart'
         /\ HighestHeight' = HighestHeight
         /\ \A b, sigs : Validated(b, sigs) => Validated(b, sigs)'
<1>1. HighestHeight' = HighestHeight
  BY DEF HighestHeight
<1>2. \A b, sigs : Validated(b, sigs) => Validated(b, sigs)'
  BY <1>1 DEF Validated
<1>3. OneCertifiedChain'
  BY <1>1 DEF IInv, OneCertifiedChain
<1>4. MerkleBehindEveryRow'
  BY DEF IInv, MerkleBehindEveryRow
<1> QED BY <1>1, <1>2, <1>3, <1>4 DEF IInv, ChainPart

LEMMA CacheKept ==
  ASSUME NEW h, TypeOK, OneCertifiedChain, HighestHeight \in Nat, CacheCoherent,
         CacheBlock(h), UNCHANGED history
  PROVE  /\ CacheCoherent'
         /\ DOMAIN cache' \subseteq Nat \ {0}
         /\ cache' \in [DOMAIN cache' -> Blocks]
<1>1. DOMAIN history \subseteq Nat \ {0} /\ history \in [DOMAIN history -> Blocks]
  BY DEF TypeOK
<1>2. DOMAIN cache \subseteq Nat \ {0} /\ cache \in [DOMAIN cache -> Blocks]
  BY DEF TypeOK
<1>3. CASE h \in DOMAIN history \ DOMAIN cache
  <2>1. cache' = [x \in DOMAIN cache \cup {h} |-> IF x = h THEN history[h] ELSE cache[x]]
    BY <1>3 DEF CacheBlock, Put
  <2> QED BY <1>1, <1>2, <1>3, <2>1 DEF CacheCoherent
<1>4. CASE h \notin DOMAIN history \ DOMAIN cache
  BY <1>2, <1>4 DEF CacheBlock, CacheCoherent
<1> QED BY <1>3, <1>4

LEMMA InitInv == Init => IInv
<1> SUFFICES ASSUME Init PROVE IInv
  OBVIOUS
<1>1. DOMAIN history = {} /\ DOMAIN proofs = {} /\ DOMAIN cache = {}
  BY DEF Init
<1>2. HighestHeight = 0
  BY <1>1 DEF HighestHeight
<1>3. TypeOK
  BY <1>1, ChainAssumption, StorageAssumption DEF Init, TypeOK, GenesisRows, Waits, Idle, Steps
<1>4. OneCertifiedChain /\ MerkleBehindEveryRow /\ CacheCoherent
  BY <1>1, <1>2 DEF OneCertifiedChain, MerkleBehindEveryRow, CacheCoherent
<1>5. JobsValidated /\ OrphansValidated
  BY DEF Init, JobsValidated, OrphansValidated
<1> QED BY <1>2, <1>3, <1>4, <1>5 DEF Init, IInv

(***************************************************************************)
(* The steps of apply_block that only move a caller along.                 *)
(***************************************************************************)
LEMMA CallInv ==
  ASSUME IInv, NEW a \in Appliers, NEW b \in Blocks, NEW sigs \in Proofs, Call(a, b, sigs)
  PROVE  IInv'
<1> USE DEF Call, GoTo, sqlite, forest
<1>1. TypeOK'
  BY StorageAssumption DEF IInv, TypeOK, Steps, Jobs
<1>2. ChainPart' /\ HighestHeight' = HighestHeight /\ \A c, s : Validated(c, s) => Validated(c, s)'
  BY ChainKept DEF IInv
<1>3. CacheCoherent'
  BY DEF IInv, CacheCoherent
<1>4. JobsValidated'
  BY <1>2 DEF IInv, TypeOK, JobsValidated
<1>5. OrphansValidated'
  BY <1>2 DEF IInv, OrphansValidated
<1> QED BY <1>1, <1>2, <1>3, <1>4, <1>5 DEF IInv, ChainPart

LEMMA AcquireInv ==
  ASSUME IInv, NEW a \in Appliers, Acquire(a)
  PROVE  IInv'
<1> USE DEF Acquire, GoTo, sqlite, forest
<1>1. TypeOK'
  BY StorageAssumption DEF IInv, TypeOK, Steps
<1>2. ChainPart' /\ HighestHeight' = HighestHeight /\ \A c, s : Validated(c, s) => Validated(c, s)'
  BY ChainKept DEF IInv
<1>3. CacheCoherent'
  BY DEF IInv, CacheCoherent
<1>4. JobsValidated'
  BY <1>2 DEF IInv, TypeOK, JobsValidated
<1>5. OrphansValidated'
  BY <1>2 DEF IInv, OrphansValidated
<1> QED BY <1>1, <1>2, <1>3, <1>4, <1>5 DEF IInv, ChainPart

\* ReadHighest and Reread: the state read is the highest one at that moment.
LEMMA ReadInv ==
  ASSUME IInv, NEW a \in Appliers, ReadHighest(a) \/ Reread(a)
  PROVE  IInv'
<1> USE DEF ReadHighest, Reread, GoTo, HighestState, sqlite, forest
<1>1. CacheBlock(HighestHeight) /\ UNCHANGED <<history, proofs>>
  OBVIOUS
<1>2. CacheCoherent' /\ DOMAIN cache' \subseteq Nat \ {0} /\ cache' \in [DOMAIN cache' -> Blocks]
  BY <1>1, CacheKept DEF IInv
<1>3. TypeOK'
  BY <1>2, StorageAssumption DEF IInv, TypeOK, Steps, Jobs
<1>4. ChainPart' /\ HighestHeight' = HighestHeight /\ \A c, s : Validated(c, s) => Validated(c, s)'
  BY ChainKept DEF IInv
<1>5. JobsValidated'
  BY <1>4 DEF IInv, TypeOK, JobsValidated, Jobs
<1>6. OrphansValidated'
  BY <1>4 DEF IInv, OrphansValidated
<1> QED BY <1>2, <1>3, <1>4, <1>5, <1>6 DEF IInv, ChainPart

\* The checks: what goes on to the flush was acceptable on the chain it was
\* checked against, of which the present chain is an extension.
LEMMA AcceptInv ==
  ASSUME IInv, NEW a \in Appliers, Accept(a)
  PROVE  IInv'
<1> USE DEF Accept, GoTo, sqlite, forest
<1>1. job[a] \in Jobs
  BY DEF IInv, TypeOK
<1>2. TypeOK'
  BY <1>1, StorageAssumption DEF IInv, TypeOK, Steps, Jobs
<1>3. ChainPart' /\ HighestHeight' = HighestHeight /\ \A c, s : Validated(c, s) => Validated(c, s)'
  BY ChainKept DEF IInv
<1>4. CacheCoherent'
  BY DEF IInv, CacheCoherent
<1>5. Validated(job[a].blk, job[a].sigs)
  <2>1. /\ job[a].base \in Nat /\ job[a].blk \in Blocks
        /\ job[a].base <= HighestHeight
        /\ Acceptable(history, job[a].base, job[a].blk, job[a].sigs)
    BY <1>1 DEF Jobs, Checked, IInv, JobsValidated
  <2>2. Height[job[a].blk] = job[a].base + 1
    BY <2>1, AcceptableHeight
  <2>3. Height[job[a].blk] - 1 = job[a].base
    BY <2>1, <2>2
  <2> QED BY <2>1, <2>3 DEF Validated
<1>6. JobsValidated'
  <2> SUFFICES ASSUME NEW c \in Appliers PROVE JobsValidated!(c)'
    BY DEF JobsValidated
  <2>1. CASE c = a
    BY <1>3, <1>5, <2>1 DEF IInv, TypeOK, JobsValidated
  <2>2. CASE c # a
    BY <1>3, <2>2 DEF IInv, TypeOK, JobsValidated
  <2> QED BY <2>1, <2>2
<1>7. OrphansValidated'
  BY <1>3 DEF IInv, OrphansValidated
<1> QED BY <1>2, <1>3, <1>4, <1>6, <1>7 DEF IInv, ChainPart

\* The flush: the nodes of a validated block are on disk before its row.
LEMMA FlushInv ==
  ASSUME IInv, NEW a \in Appliers, Flush(a)
  PROVE  IInv'
<1> USE DEF Flush, GoTo, sqlite, forest
<1>1. TypeOK'
  BY StorageAssumption DEF IInv, TypeOK, Steps
<1>2. flushed \subseteq flushed' /\ flushed' = nodes
  BY DEF IInv
<1>3. ChainPart' /\ HighestHeight' = HighestHeight /\ \A c, s : Validated(c, s) => Validated(c, s)'
  BY <1>2, ChainKept DEF IInv
<1>4. CacheCoherent'
  BY DEF IInv, CacheCoherent
<1>5. JobsValidated'
  BY <1>2, <1>3 DEF IInv, TypeOK, JobsValidated
<1>6. OrphansValidated'
  BY <1>2, <1>3 DEF IInv, OrphansValidated
<1> QED BY <1>1, <1>3, <1>4, <1>5, <1>6 DEF IInv, ChainPart

(***************************************************************************)
(* The call ends: rejected, rolled back, rebased or dropped.               *)
(***************************************************************************)
LEMMA NotifiedType ==
  ASSUME TypeOK
  PROVE  Notified \in [Waiters -> Waits]
<1> SUFFICES ASSUME NEW w \in Waiters
             PROVE  [waiter[w] EXCEPT !.heard = (@ \/ waiter[w].at # "idle")] \in Waits
  BY DEF Notified
<1> DEFINE heard == waiter[w].heard \/ waiter[w].at # "idle"
<1>1. waiter[w] \in Waits
  BY DEF TypeOK
<1>2. heard \in BOOLEAN
  BY Zenon
<1> HIDE DEF heard
<1>3. [waiter[w] EXCEPT !.heard = heard] \in Waits
  BY <1>1, <1>2 DEF Waits
<1> QED BY <1>3 DEF heard

LEMMA LeaveInv ==
  ASSUME IInv, NEW a \in Appliers,
         Reject(a) \/ CommitFails(a) \/ Rebase(a) \/ Cancel(a)
  PROVE  IInv'
<1> USE DEF Reject, CommitFails, Rebase, Cancel, Leave, sqlite, forest
<1>1. /\ UNCHANGED <<history, proofs, stakes, synced, nodes, flushed, cache>>
      /\ pc' = [pc EXCEPT ![a] = "idle"]
      /\ job' = [job EXCEPT ![a] = NoJob]
      /\ lock' = IF lock = a THEN NoOne ELSE lock
  OBVIOUS
<1>2. /\ mempool' \in Nat
      /\ waiter' \in [Waiters -> Waits]
      /\ orphans' \subseteq Commits
  <2>1. CASE Reject(a) \/ CommitFails(a)
    BY <2>1 DEF IInv, TypeOK
  <2>2. CASE Rebase(a)
    <3>1. job[a].base \in Nat /\ orphans' = orphans
      BY <2>2 DEF IInv, TypeOK, Jobs
    <3>2. Notified \in [Waiters -> Waits]
      BY NotifiedType DEF IInv
    <3>3. waiter' = Notified
      BY <2>2
    <3> QED BY <2>2, <3>1, <3>2, <3>3 DEF IInv, TypeOK
  <2>3. CASE Cancel(a)
    <3>1. job[a] \in Jobs
      BY <2>3 DEF IInv, TypeOK
    <3> QED BY <2>3, <3>1 DEF IInv, TypeOK, Jobs, Commits
  <2> QED BY <2>1, <2>2, <2>3
<1>3. TypeOK'
  BY <1>1, <1>2, StorageAssumption DEF IInv, TypeOK, Steps
<1>4. ChainPart' /\ HighestHeight' = HighestHeight /\ \A c, s : Validated(c, s) => Validated(c, s)'
  BY <1>1, ChainKept DEF IInv
<1>5. CacheCoherent'
  BY <1>1 DEF IInv, CacheCoherent
<1>6. JobsValidated'
  BY <1>1, <1>4 DEF IInv, TypeOK, JobsValidated
<1>7. OrphansValidated'
  <2>1. CASE orphans' = orphans
    BY <1>1, <1>4, <2>1 DEF IInv, OrphansValidated
  <2>2. CASE orphans' # orphans
    <3>1. /\ Cancel(a) /\ pc[a] = "commit"
          /\ orphans' = orphans \cup {[blk |-> job[a].blk, sigs |-> job[a].sigs]}
      BY <2>2
    <3>2. Validated(job[a].blk, job[a].sigs) /\ job[a].blk \in flushed
      BY <3>1 DEF IInv, JobsValidated
    <3> QED BY <1>1, <1>4, <3>1, <3>2 DEF IInv, OrphansValidated
  <2> QED BY <2>1, <2>2
<1> QED BY <1>3, <1>4, <1>5, <1>6, <1>7 DEF IInv, ChainPart

(***************************************************************************)
(* Writing the rows, in a live call or in an orphan.                       *)
(***************************************************************************)
LEMMA InsertKeepsChain ==
  ASSUME IInv, NEW b \in Blocks, NEW sigs \in SUBSET Keys,
         Validated(b, sigs), b \in flushed, InsertBlock(b, sigs),
         UNCHANGED <<synced, nodes, flushed, cache>>
  PROVE  /\ ChainPart'
         /\ CacheCoherent'
         /\ HighestHeight <= HighestHeight'
         /\ \A c \in Blocks : \A s : Validated(c, s) => Validated(c, s)'
<1> DEFINE n == HighestHeight
<1>1. n \in Nat /\ DOMAIN history = 1..n
  BY DEF IInv, OneCertifiedChain
<1>2. /\ Height[b] = n + 1 /\ HighestHeight' = n + 1
      /\ DOMAIN history' = 1..(n + 1) /\ DOMAIN proofs' = 1..(n + 1)
      /\ \A i \in 1..n : history'[i] = history[i] /\ proofs'[i] = proofs[i]
      /\ history'[n + 1] = b /\ proofs'[n + 1] = sigs
  BY InsertAppends
<1>3. ASSUME NEW c \in Blocks, NEW s, Validated(c, s)
      PROVE  Validated(c, s)'
  BY <1>1, <1>2, <1>3, ValidatedStable
<1>4. OneCertifiedChain'
  <2> SUFFICES ASSUME NEW h \in 1..(n + 1)
               PROVE  Acceptable(history', h - 1, history'[h], proofs'[h])
    BY <1>2 DEF OneCertifiedChain
  <2>1. \A i \in 1..(h - 1) : history[i] = history'[i]
    BY <1>1, <1>2
  <2>2. CASE h \in 1..n
    <3>1. Acceptable(history, h - 1, history[h], proofs[h])
      BY <1>1, <2>2 DEF IInv, OneCertifiedChain
    <3>2. history'[h] = history[h] /\ proofs'[h] = proofs[h] /\ h - 1 \in Nat
      BY <1>2, <2>2
    <3> QED BY <2>1, <3>1, <3>2, AcceptableStable
  <2>3. CASE h = n + 1
    <3>1. Acceptable(history, h - 1, b, sigs) /\ h - 1 \in Nat
      BY <1>1, <1>2, <2>3 DEF Validated
    <3> QED BY <1>2, <2>1, <2>3, <3>1, AcceptableStable
  <2> QED BY <1>1, <2>2, <2>3
<1>5. MerkleBehindEveryRow'
  BY <1>1, <1>2 DEF IInv, MerkleBehindEveryRow
<1>6. CacheCoherent'
  BY <1>1, <1>2 DEF IInv, CacheCoherent
<1>7. synced' <= HighestHeight'
  BY <1>1, <1>2 DEF IInv, TypeOK
<1> QED BY <1>1, <1>2, <1>3, <1>4, <1>5, <1>6, <1>7 DEF IInv, ChainPart

LEMMA CommitInv ==
  ASSUME IInv, NEW a \in Appliers, Commit(a)
  PROVE  IInv'
<1> USE DEF Commit, GoTo, forest
<1>1. /\ job[a] \in Jobs
      /\ Validated(job[a].blk, job[a].sigs) /\ job[a].blk \in flushed
  BY DEF IInv, TypeOK, JobsValidated
<1>2. job[a].blk \in Blocks /\ job[a].sigs \in SUBSET Keys
  BY <1>1 DEF Jobs
<1>3. /\ ChainPart' /\ CacheCoherent' /\ HighestHeight <= HighestHeight'
      /\ \A c \in Blocks : \A s : Validated(c, s) => Validated(c, s)'
  BY <1>1, <1>2, InsertKeepsChain
<1>4. TypeOK'
  BY <1>1, <1>2, InsertAppends, StorageAssumption DEF IInv, TypeOK, Steps
<1>5. JobsValidated'
  BY <1>3 DEF IInv, TypeOK, JobsValidated, Jobs, ChainPart
<1>6. OrphansValidated'
  BY <1>3 DEF IInv, TypeOK, OrphansValidated, Commits
<1> QED BY <1>3, <1>4, <1>5, <1>6 DEF IInv, ChainPart

LEMMA OrphanInv ==
  ASSUME IInv, NEW c \in orphans, OrphanEnds(c)
  PROVE  IInv'
<1> USE DEF OrphanEnds, forest
<1>1. /\ c.blk \in Blocks /\ c.sigs \in SUBSET Keys
      /\ Validated(c.blk, c.sigs) /\ c.blk \in flushed
  BY DEF IInv, TypeOK, Commits, OrphansValidated
<1>2. /\ ChainPart' /\ CacheCoherent' /\ HighestHeight <= HighestHeight'
      /\ \A b \in Blocks : \A s : Validated(b, s) => Validated(b, s)'
  <2>1. CASE InsertBlock(c.blk, c.sigs)
    BY <1>1, <2>1, InsertKeepsChain
  <2>2. CASE UNCHANGED sqlite
    BY <2>2, ChainKept DEF IInv, CacheCoherent, sqlite
  <2> QED BY <2>1, <2>2
<1>3. TypeOK'
  <2>1. CASE InsertBlock(c.blk, c.sigs)
    BY <1>1, <2>1, InsertAppends DEF IInv, TypeOK
  <2>2. CASE UNCHANGED sqlite
    BY <2>2 DEF IInv, TypeOK, sqlite
  <2> QED BY <2>1, <2>2
<1>4. JobsValidated'
  BY <1>2 DEF IInv, TypeOK, JobsValidated, Jobs, ChainPart
<1>5. OrphansValidated'
  BY <1>2 DEF IInv, TypeOK, OrphansValidated, Commits
<1> QED BY <1>2, <1>3, <1>4, <1>5 DEF IInv, ChainPart

(***************************************************************************)
(* Readers, waiters and the write-ahead log.                               *)
(***************************************************************************)
LEMMA GetBlockInv ==
  ASSUME IInv, NEW h, GetBlock(h) \/ Evict(h)
  PROVE  IInv'
<1> USE DEF GetBlock, Evict, sqlite, forest
<1>1. /\ CacheCoherent' /\ DOMAIN cache' \subseteq Nat \ {0}
      /\ cache' \in [DOMAIN cache' -> Blocks]
  <2>1. CASE GetBlock(h)
    BY <2>1, CacheKept DEF IInv
  <2>2. CASE Evict(h)
    BY <2>2 DEF IInv, TypeOK, CacheCoherent
  <2> QED BY <2>1, <2>2
<1>2. UNCHANGED <<history, proofs, stakes, synced, nodes, flushed, mempool,
                  lock, pc, job, orphans, waiter>>
  OBVIOUS
<1>3. TypeOK'
  BY <1>1, <1>2 DEF IInv, TypeOK
<1>4. ChainPart' /\ HighestHeight' = HighestHeight /\ \A c, s : Validated(c, s) => Validated(c, s)'
  BY <1>2, ChainKept DEF IInv
<1>5. JobsValidated' /\ OrphansValidated'
  BY <1>2, <1>4 DEF IInv, JobsValidated, OrphansValidated
<1> QED BY <1>1, <1>3, <1>4, <1>5 DEF IInv, ChainPart

LEMMA WaiterInv ==
  ASSUME IInv, NEW w \in Waiters,
         Look(w) \/ Sleep(w) \/ Wake(w) \/ \E h \in Nat : Listen(w, h)
  PROVE  IInv'
<1> USE DEF Look, Sleep, Wake, Listen, sqlite, forest
<1>1. UNCHANGED <<history, proofs, stakes, synced, nodes, flushed, mempool,
                  lock, pc, job, orphans>>
  OBVIOUS
<1>2. /\ CacheCoherent' /\ DOMAIN cache' \subseteq Nat \ {0}
      /\ cache' \in [DOMAIN cache' -> Blocks]
  <2>1. CASE Look(w)
    BY <2>1, CacheKept DEF IInv
  <2>2. CASE Sleep(w) \/ Wake(w) \/ \E h \in Nat : Listen(w, h)
    BY <2>2 DEF IInv, TypeOK, CacheCoherent
  <2> QED BY <2>1, <2>2
<1>3. waiter' \in [Waiters -> Waits]
  <2>1. waiter \in [Waiters -> Waits] /\ Idle \in Waits
    BY DEF IInv, TypeOK, Idle, Waits
  <2>3. waiter[w] \in Waits
    BY <2>1
  <2>4. \A x \in Waits : waiter' = [waiter EXCEPT ![w] = x]
                            => waiter' \in [Waiters -> Waits]
    BY <2>1
  <2>5. CASE Look(w)
    <3>1. [waiter[w] EXCEPT !.at = "missed"] \in Waits
      BY <2>3 DEF Waits
    <3>2. \/ waiter' = [waiter EXCEPT ![w] = Idle]
          \/ waiter' = [waiter EXCEPT ![w] = [waiter[w] EXCEPT !.at = "missed"]]
      BY <2>5
    <3> QED BY <2>1, <2>4, <3>1, <3>2
  <2>6. CASE Wake(w)
    <3> DEFINE x == [[waiter[w] EXCEPT !.at = "listening"] EXCEPT !.heard = FALSE]
    <3>1. x \in Waits
      BY <2>3 DEF Waits
    <3>2. waiter' = [waiter EXCEPT ![w] = x]
      BY <2>1, <2>6
    <3> QED BY <2>4, <3>1, <3>2
  <2>7. ASSUME NEW h \in Nat, Listen(w, h)
        PROVE  waiter' \in [Waiters -> Waits]
    <3>1. [at |-> "listening", want |-> h, heard |-> FALSE] \in Waits
      BY DEF Waits
    <3> QED BY <2>4, <2>7, <3>1
  <2>8. CASE Sleep(w)
    <3>1. [waiter[w] EXCEPT !.at = "sleeping"] \in Waits
      BY <2>3 DEF Waits
    <3>2. waiter' = [waiter EXCEPT ![w] = [waiter[w] EXCEPT !.at = "sleeping"]]
      BY <2>1, <2>8
    <3> QED BY <2>4, <3>1, <3>2
  <2> QED BY <2>5, <2>6, <2>7, <2>8
<1>4. TypeOK'
  BY <1>1, <1>2, <1>3 DEF IInv, TypeOK
<1>5. ChainPart' /\ HighestHeight' = HighestHeight /\ \A c, s : Validated(c, s) => Validated(c, s)'
  BY <1>1, ChainKept DEF IInv
<1>6. JobsValidated' /\ OrphansValidated'
  BY <1>1, <1>5 DEF IInv, JobsValidated, OrphansValidated
<1> QED BY <1>2, <1>4, <1>5, <1>6 DEF IInv, ChainPart

LEMMA SyncWalInv ==
  ASSUME IInv, SyncWal
  PROVE  IInv'
<1> USE DEF SyncWal, sqlite, forest
<1>1. synced \in Nat /\ HighestHeight \in Nat /\ synced' \in synced..HighestHeight
  BY DEF IInv, TypeOK
<1>2. synced' \in Nat /\ synced' <= HighestHeight
  BY <1>1
<1>3. TypeOK'
  BY <1>2 DEF IInv, TypeOK
<1>4. ChainPart' /\ HighestHeight' = HighestHeight /\ \A c, s : Validated(c, s) => Validated(c, s)'
  BY <1>2, ChainKept DEF IInv
<1>5. JobsValidated' /\ OrphansValidated' /\ CacheCoherent'
  BY <1>4 DEF IInv, JobsValidated, OrphansValidated, CacheCoherent
<1> QED BY <1>3, <1>4, <1>5 DEF IInv, ChainPart

(***************************************************************************)
(* The process dies.                                                       *)
(***************************************************************************)
LEMMA OpenInv ==
  ASSUME TypeOK, Open
  PROVE  /\ CacheCoherent' /\ JobsValidated' /\ OrphansValidated'
         /\ DOMAIN cache' = {} /\ cache' \in [DOMAIN cache' -> Blocks]
         /\ mempool' \in Nat /\ lock' \in Appliers \cup {NoOne}
         /\ \A a \in Appliers : lock' = a <=> pc'[a] \notin {"idle", "lock"}
         /\ pc' \in [Appliers -> Steps]
         /\ job' \in [Appliers -> Jobs \cup {NoJob}]
         /\ \A a \in Appliers : pc'[a] # "idle" => job'[a] \in Jobs
         /\ orphans' \subseteq Commits
         /\ waiter' \in [Waiters -> Waits]
BY StorageAssumption
   DEF Open, CacheCoherent, JobsValidated, OrphansValidated, Steps, Idle, Waits

LEMMA CrashInv ==
  ASSUME IInv, Crash
  PROVE  IInv'
<1> USE DEF Crash, sqlite, forest
<1>1. ChainPart'
  BY ChainKept DEF IInv, TypeOK
<1>2. TypeOK'
  BY OpenInv DEF IInv, TypeOK
<1> QED BY <1>1, <1>2, OpenInv DEF IInv, ChainPart

LEMMA PowerLossInv ==
  ASSUME IInv, PowerLoss
  PROVE  IInv'
<1> DEFINE n == HighestHeight
<1>1. /\ n \in Nat /\ synced \in Nat /\ DOMAIN history = 1..n /\ DOMAIN proofs = 1..n
      /\ history \in [1..n -> Blocks] /\ proofs \in [1..n -> SUBSET Keys]
  BY DEF IInv, OneCertifiedChain, TypeOK
<1>2. PICK k \in synced..n :
        /\ history' = [h \in DOMAIN history \cap 1..k |-> history[h]]
        /\ proofs' = [h \in DOMAIN proofs \cap 1..k |-> proofs[h]]
        /\ stakes' = {r \in stakes : r.height <= k}
        /\ synced' = k
  BY DEF PowerLoss
<1>3. flushed \subseteq nodes' /\ flushed' = nodes' /\ nodes' \subseteq nodes
  BY DEF PowerLoss, IInv
<1>4. Open
  BY DEF PowerLoss
<1>5. k \in Nat /\ k <= n /\ (1..n) \cap (1..k) = 1..k
  BY <1>1, <1>2
<1>6. history' = [h \in 1..k |-> history[h]] /\ proofs' = [h \in 1..k |-> proofs[h]]
  BY <1>1, <1>2, <1>5
<1>7. HighestHeight' = k
  <2>1. DOMAIN history' = 1..k
    BY <1>6
  <2> QED BY <1>5, <2>1, HighestOfInterval DEF HighestHeight
<1> HIDE DEF n
<1>8. OneCertifiedChain'
  <2> SUFFICES ASSUME NEW h \in 1..k
               PROVE  Acceptable(history', h - 1, history'[h], proofs'[h])
    BY <1>6, <1>7 DEF OneCertifiedChain
  <2>1. h \in 1..n /\ h - 1 \in Nat
    BY <1>1, <1>5
  <2>2. Acceptable(history, h - 1, history[h], proofs[h])
    BY <1>1, <2>1 DEF IInv, OneCertifiedChain
  <2>3. \A i \in 1..(h - 1) : history[i] = history'[i]
    BY <1>5, <1>6
  <2>4. history'[h] = history[h] /\ proofs'[h] = proofs[h]
    BY <1>6
  <2> QED BY <2>1, <2>2, <2>3, <2>4, AcceptableStable
<1>9. MerkleBehindEveryRow'
  BY <1>1, <1>3, <1>5, <1>6 DEF IInv, MerkleBehindEveryRow
<1>10. TypeOK'
  <2>1. /\ DOMAIN history' \subseteq Nat \ {0} /\ DOMAIN proofs' \subseteq Nat \ {0}
        /\ history' \in [DOMAIN history' -> Blocks]
        /\ proofs' \in [DOMAIN proofs' -> SUBSET Keys]
    BY <1>1, <1>5, <1>6
  <2>2. /\ stakes' \subseteq [height : Nat, doc : StakeDocs]
        /\ synced' \in Nat /\ nodes' \subseteq Blocks /\ flushed' \subseteq Blocks
    BY <1>2, <1>3, <1>5 DEF IInv, TypeOK
  <2> QED BY <1>4, <2>1, <2>2, OpenInv DEF IInv, TypeOK
<1> QED BY <1>2, <1>3, <1>4, <1>5, <1>7, <1>8, <1>9, <1>10, OpenInv DEF IInv

(***************************************************************************)
(* The invariant, and what follows from it.                                *)
(***************************************************************************)
LEMMA StutterInv ==
  ASSUME IInv, UNCHANGED vars
  PROVE  IInv'
<1> USE DEF vars
<1>1. TypeOK'
  BY DEF IInv, TypeOK
<1>2. ChainPart' /\ HighestHeight' = HighestHeight /\ \A c, s : Validated(c, s) => Validated(c, s)'
  BY ChainKept DEF IInv
<1>3. JobsValidated' /\ OrphansValidated' /\ CacheCoherent'
  BY <1>2 DEF IInv, JobsValidated, OrphansValidated, CacheCoherent
<1> QED BY <1>1, <1>2, <1>3 DEF IInv, ChainPart

\* The inductive invariant holds in every reachable state, whatever the
\* callers, the cancellations, the crashes and the power failures.
THEOREM Invariance == Spec => []IInv
<1>1. IInv /\ [Next]_vars => IInv'
  <2> SUFFICES ASSUME IInv, [Next]_vars PROVE IInv'
    OBVIOUS
  <2>1. ASSUME NEW a \in Appliers, NEW b \in Blocks, NEW sigs \in Proofs, Call(a, b, sigs)
        PROVE  IInv'
    BY <2>1, CallInv
  <2>2. ASSUME NEW a \in Appliers, ApplyStep(a)
        PROVE  IInv'
    BY <2>2, AcquireInv, ReadInv, AcceptInv, FlushInv, CommitInv, LeaveInv DEF ApplyStep
  <2>3. ASSUME NEW a \in Cancellable, Cancel(a)
        PROVE  IInv'
    BY <2>3, LeaveInv, StorageAssumption
  <2>4. ASSUME NEW c \in orphans, OrphanEnds(c)
        PROVE  IInv'
    BY <2>4, OrphanInv
  <2>5. ASSUME NEW w \in Waiters, Look(w) \/ Sleep(w) \/ Wake(w) \/ \E h \in Heights : Listen(w, h)
        PROVE  IInv'
    <3>1. Heights \subseteq Nat
      BY ChainAssumption DEF Heights
    <3>2. Look(w) \/ Sleep(w) \/ Wake(w) \/ \E h \in Nat : Listen(w, h)
      BY <2>5, <3>1
    <3> QED BY <3>2, WaiterInv
  <2>6. ASSUME NEW h \in Heights, GetBlock(h) \/ Evict(h)
        PROVE  IInv'
    BY <2>6, GetBlockInv
  <2>7. CASE SyncWal \/ Crash \/ PowerLoss
    BY <2>7, SyncWalInv, CrashInv, PowerLossInv
  <2>8. CASE UNCHANGED vars
    BY <2>8, StutterInv
  <2> QED BY <2>1, <2>2, <2>3, <2>4, <2>5, <2>6, <2>7, <2>8 DEF Next
<1> QED BY <1>1, InitInv, PTL DEF Spec

\* Types, and the lock is held exactly by a caller inside apply_block.
THEOREM TypeCorrect == Spec => []TypeOK
<1>1. IInv => TypeOK
  BY DEF IInv
<1> QED BY <1>1, Invariance, PTL

\* Every height up to the highest holds a block that was acceptable on the
\* blocks below it with the proof stored beside it.
THEOREM ChainSafety == Spec => []OneCertifiedChain
<1>1. IInv => OneCertifiedChain
  BY DEF IInv
<1> QED BY <1>1, Invariance, PTL

\* No row of the tables refers to Merkle nodes that are not on the disk.
THEOREM CrashSafety == Spec => []MerkleBehindEveryRow
<1>1. IInv => MerkleBehindEveryRow
  BY DEF IInv
<1> QED BY <1>1, Invariance, PTL

\* The block cache never disagrees with the tables.
THEOREM CacheSafety == Spec => []CacheCoherent
<1>1. IInv => CacheCoherent
  BY DEF IInv
<1> QED BY <1>1, Invariance, PTL

(***************************************************************************)
(* Storage implements Ledger, step by step: a transaction that ends is an  *)
(* Extend, a sync of the WAL a Persist, a power failure a LosePower, and   *)
(* no other step is visible in the ledger.                                 *)
(***************************************************************************)
Entry(h) == [block |-> history[h], sigs |-> proofs[h]]

Table == [h \in DOMAIN history |-> Entry(h)]

\* The tables are a sequence of entries as long as the chain is high.
LedgerOfTables ==
  /\ Table \in Seq(Promise!Entries)
  /\ Len(Table) = HighestHeight
  /\ \A h \in 1..HighestHeight :
       Table[h] = Entry(h) /\ Promise!BlocksOf(Table)[h] = history[h]

LEMMA TableIsLedger == IInv => LedgerOfTables
<1> SUFFICES ASSUME IInv PROVE LedgerOfTables
  OBVIOUS
<1> DEFINE n == HighestHeight
<1>1. /\ n \in Nat /\ DOMAIN history = 1..n /\ DOMAIN proofs = 1..n
      /\ history \in [1..n -> Blocks] /\ proofs \in [1..n -> SUBSET Keys]
  BY DEF IInv, OneCertifiedChain, TypeOK
<1> HIDE DEF n
<1>2. Table \in [1..n -> Promise!Entries]
  BY <1>1 DEF Table, Entry, Promise!Entries
<1>3. Table \in Seq(Promise!Entries) /\ Len(Table) = n
  BY <1>1, <1>2
<1>4. \A h \in 1..n : Table[h] = Entry(h) /\ Promise!BlocksOf(Table)[h] = history[h]
  BY <1>1 DEF Table, Entry, Promise!BlocksOf
<1> QED BY <1>3, <1>4 DEF n, LedgerOfTables

LEMMA InitMaps == Init => Promise!Init
<1> SUFFICES ASSUME Init PROVE Promise!Init
  OBVIOUS
<1>1. DOMAIN history = {}
  BY DEF Init
<1>2. Table = <<>>
  BY <1>1 DEF Table
<1> QED BY <1>2 DEF Init, Promise!Init, Table, Entry

\* The transaction of a validated block extends the ledger.
LEMMA InsertExtends ==
  ASSUME IInv, IInv', NEW b \in Blocks, NEW sigs \in SUBSET Keys,
         Validated(b, sigs), InsertBlock(b, sigs), UNCHANGED synced
  PROVE  Promise!Extend
<1> DEFINE n == HighestHeight
<1>1. /\ n \in Nat /\ Height[b] = n + 1 /\ HighestHeight' = n + 1
      /\ \A i \in 1..n : history'[i] = history[i] /\ proofs'[i] = proofs[i]
      /\ history'[n + 1] = b /\ proofs'[n + 1] = sigs
  BY InsertAppends DEF IInv
<1>2. /\ Table \in Seq(Promise!Entries) /\ Len(Table) = n
      /\ \A h \in 1..n : Table[h] = Entry(h) /\ Promise!BlocksOf(Table)[h] = history[h]
  BY TableIsLedger DEF LedgerOfTables
<1>3. /\ Table' \in Seq(Promise!Entries) /\ Len(Table') = n + 1
      /\ \A h \in 1..(n + 1) : Table'[h] = [block |-> history'[h], sigs |-> proofs'[h]]
  <2>1. LedgerOfTables'
    BY TableIsLedger, PTL
  <2> QED BY <1>1, <2>1 DEF LedgerOfTables, Entry
<1>4. Table' = Append(Table, [block |-> b, sigs |-> sigs])
  <2> DEFINE longer == Append(Table, [block |-> b, sigs |-> sigs])
  <2>1. [block |-> b, sigs |-> sigs] \in Promise!Entries
    BY DEF Promise!Entries
  <2>2. /\ longer \in Seq(Promise!Entries) /\ Len(longer) = n + 1
        /\ \A i \in 1..n : longer[i] = Table[i]
        /\ longer[n + 1] = [block |-> b, sigs |-> sigs]
    BY <1>2, <2>1, AppendProperties
  <2> HIDE DEF longer, n
  <2>3. \A i \in 1..(n + 1) : longer[i] = Table'[i]
    <3>1. \A i \in 1..n : longer[i] = Table'[i]
      BY <1>1, <1>2, <1>3, <2>2 DEF Entry
    <3>2. longer[n + 1] = Table'[n + 1]
      BY <1>1, <1>3, <2>2
    <3> QED BY <1>1, <3>1, <3>2
  <2>4. /\ longer \in Seq(Promise!Entries) /\ Table' \in Seq(Promise!Entries)
        /\ Len(longer) = Len(Table')
        /\ \A i \in 1..Len(longer) : longer[i] = Table'[i]
    BY <1>3, <2>2, <2>3
  <2>5. longer = Table'
    BY <2>4, SeqEqual
  <2> QED BY <2>5 DEF longer
<1>5. Acceptable(Promise!BlocksOf(Table), n, b, sigs)
  <2>1. Acceptable(history, n, b, sigs)
    <3>1. Height[b] - 1 = n
      BY <1>1
    <3> QED BY <3>1 DEF Validated
  <2>2. \A i \in 1..n : history[i] = Promise!BlocksOf(Table)[i]
    BY <1>2
  <2> QED BY <1>1, <2>1, <2>2, AcceptableStable
<1> HIDE DEF n
<1> QED BY <1>2, <1>4, <1>5 DEF Promise!Extend, Table, Entry

\* What a power failure leaves is a prefix of the ledger.
LEMMA PowerLossLoses ==
  ASSUME IInv, IInv', PowerLoss
  PROVE  Promise!LosePower
<1> DEFINE n == HighestHeight
<1>1. n \in Nat /\ synced \in Nat /\ DOMAIN history = 1..n /\ DOMAIN proofs = 1..n
  BY DEF IInv, OneCertifiedChain, TypeOK
<1>2. PICK k \in synced..n :
        /\ history' = [h \in DOMAIN history \cap 1..k |-> history[h]]
        /\ proofs' = [h \in DOMAIN proofs \cap 1..k |-> proofs[h]]
        /\ synced' = k
  BY DEF PowerLoss
<1>3. k \in 0..n /\ (1..n) \cap (1..k) = 1..k
  BY <1>1, <1>2
<1>4. /\ Table \in Seq(Promise!Entries) /\ Len(Table) = n
      /\ \A h \in 1..n : Table[h] = Entry(h)
  BY TableIsLedger DEF LedgerOfTables
<1>5. Table' = [h \in 1..k |-> Table[h]]
  BY <1>1, <1>2, <1>3, <1>4 DEF Table, Entry
<1>6. SubSeq(Table, 1, k) = [h \in 1..k |-> Table[h]]
  BY <1>3, <1>4, SubSeqProperties
<1> HIDE DEF n
<1> QED BY <1>2, <1>4, <1>5, <1>6 DEF Promise!LosePower, Table, Entry

\* The transaction of a live call.
LEMMA CommitExtends ==
  ASSUME IInv, IInv', NEW a \in Appliers, Commit(a)
  PROVE  Promise!Extend
<1>1. /\ job[a].blk \in Blocks /\ job[a].sigs \in SUBSET Keys
      /\ Validated(job[a].blk, job[a].sigs)
  BY DEF IInv, TypeOK, JobsValidated, Commit, GoTo, Jobs
<1> QED BY <1>1, InsertExtends DEF Commit, sqlite

\* The steps that leave the tables and the disk alone.
LEMMA LedgerUntouched ==
  ASSUME UNCHANGED <<history, proofs, synced>>
  PROVE  UNCHANGED Promise!vars
BY DEF Promise!vars

\* Storage keeps the promise of Ledger: whatever the interleaving, the
\* cancellations and the crashes, the two tables behave like one sequence of
\* certified blocks that only grows at its end and loses only what was not
\* on the disk.
THEOREM Refinement == Spec => ImplementsLedger
<1>1. IInv /\ IInv' /\ [Next]_vars => [Promise!Next]_(Promise!vars)
  <2> SUFFICES ASSUME IInv, IInv', [Next]_vars
               PROVE  Promise!Next \/ UNCHANGED Promise!vars
    OBVIOUS
  <2> USE DEF sqlite
  <2>1. ASSUME NEW a \in Appliers, Commit(a)
        PROVE  Promise!Extend
    BY <2>1, CommitExtends
  <2>2. ASSUME NEW c \in orphans, OrphanEnds(c)
        PROVE  Promise!Extend \/ UNCHANGED Promise!vars
    <3>1. c.blk \in Blocks /\ c.sigs \in SUBSET Keys /\ Validated(c.blk, c.sigs)
      BY DEF IInv, TypeOK, Commits, OrphansValidated
    <3>2. UNCHANGED synced
      BY <2>2 DEF OrphanEnds
    <3>3. CASE InsertBlock(c.blk, c.sigs)
      BY <3>1, <3>2, <3>3, InsertExtends
    <3>4. CASE UNCHANGED sqlite
      BY <3>2, <3>4, LedgerUntouched
    <3> QED BY <2>2, <3>3, <3>4 DEF OrphanEnds
  <2>3. ASSUME SyncWal
        PROVE  Promise!Persist
    <3>1. LedgerOfTables
      BY TableIsLedger
    <3> QED BY <2>3, <3>1 DEF SyncWal, LedgerOfTables, Table, Entry, Promise!Persist
  <2>4. ASSUME PowerLoss
        PROVE  Promise!LosePower
    BY <2>4, PowerLossLoses
  <2>5. ASSUME NEW a \in Appliers,
               \/ \E b \in Blocks, sigs \in Proofs : Call(a, b, sigs)
               \/ Acquire(a) \/ ReadHighest(a) \/ Accept(a) \/ Reject(a) \/ Flush(a)
               \/ CommitFails(a) \/ Reread(a) \/ Rebase(a) \/ Cancel(a)
        PROVE  UNCHANGED Promise!vars
    BY <2>5, LedgerUntouched
       DEF Call, Acquire, ReadHighest, Accept, Reject, Flush, CommitFails, Reread, Rebase, Cancel
  <2>6. ASSUME NEW w, NEW h,
               \/ Look(w) \/ Sleep(w) \/ Wake(w) \/ Listen(w, h)
               \/ GetBlock(h) \/ Evict(h)
        PROVE  UNCHANGED Promise!vars
    BY <2>6, LedgerUntouched DEF Look, Sleep, Wake, Listen, GetBlock, Evict
  <2>7. CASE Crash \/ UNCHANGED vars
    BY <2>7, LedgerUntouched DEF Crash, vars
  <2> QED
    BY <2>1, <2>2, <2>3, <2>4, <2>5, <2>6, <2>7, StorageAssumption
       DEF Next, ApplyStep, Promise!Next
<1> QED BY <1>1, InitMaps, Invariance, PTL DEF Spec, ImplementsLedger, Promise!Spec

(***************************************************************************)
(* The stakes table.  Its rows are those of the genesis configuration and, *)
(* height by height, those that apply_block recorded for the block there.  *)
(***************************************************************************)
RowsOf(h, b) == {[height |-> h, doc |-> d] : d \in RecordedStakes(b)}

StakesRecorded == stakes = GenesisRows \cup UNION {RowsOf(h, history[h]) : h \in DOMAIN history}

LEMMA InsertRecords ==
  ASSUME IInv, StakesRecorded, NEW b \in Blocks, NEW sigs \in SUBSET Keys,
         Validated(b, sigs), InsertBlock(b, sigs)
  PROVE  StakesRecorded'
<1> DEFINE n == HighestHeight
<1>1. /\ n \in Nat /\ DOMAIN history = 1..n
      /\ Height[b] = n + 1 /\ DOMAIN history' = (1..n) \cup {n + 1}
      /\ \A i \in 1..n : history'[i] = history[i]
      /\ history'[n + 1] = b
  <2>1. n \in Nat /\ DOMAIN history = 1..n
    BY DEF IInv, OneCertifiedChain
  <2>2. /\ Height[b] = n + 1 /\ DOMAIN history' = 1..(n + 1)
        /\ \A i \in 1..n : history'[i] = history[i]
        /\ history'[n + 1] = b
    BY InsertAppends
  <2> HIDE DEF n
  <2> QED BY <2>1, <2>2
<1>2. stakes' = stakes \cup RowsOf(n + 1, b)
  BY <1>1 DEF InsertBlock, RowsOf
<1> HIDE DEF n
<1>3. UNION {RowsOf(h, history'[h]) : h \in DOMAIN history'}
        = (UNION {RowsOf(h, history[h]) : h \in DOMAIN history}) \cup RowsOf(n + 1, b)
  BY <1>1
<1> QED BY <1>2, <1>3 DEF StakesRecorded

LEMMA PowerLossRecords ==
  ASSUME IInv, StakesRecorded, PowerLoss
  PROVE  StakesRecorded'
<1> DEFINE n == HighestHeight
<1>1. n \in Nat /\ synced \in Nat /\ DOMAIN history = 1..n
  BY DEF IInv, OneCertifiedChain, TypeOK
<1>2. PICK k \in synced..n :
        /\ history' = [h \in DOMAIN history \cap 1..k |-> history[h]]
        /\ stakes' = {r \in stakes : r.height <= k}
  BY DEF PowerLoss
<1> HIDE DEF n
<1>3. k \in Nat /\ DOMAIN history' = 1..k /\ \A h \in 1..k : h \in 1..n /\ history'[h] = history[h]
  BY <1>1, <1>2
<1>4. \A r \in GenesisRows : r.height <= k
  BY <1>3 DEF GenesisRows
<1>5. \A h \in 1..n : \A r \in RowsOf(h, history[h]) : r.height = h
  BY DEF RowsOf
<1>6. stakes' = GenesisRows \cup UNION {RowsOf(h, history[h]) : h \in 1..k}
  <2>1. ASSUME NEW r \in stakes, r.height <= k
        PROVE  r \in GenesisRows \cup UNION {RowsOf(h, history[h]) : h \in 1..k}
    <3>1. CASE r \in GenesisRows
      BY <3>1
    <3>2. ASSUME NEW h \in 1..n, r \in RowsOf(h, history[h])
          PROVE  r \in UNION {RowsOf(i, history[i]) : i \in 1..k}
      <4>1. h \in 1..k
        BY <1>1, <1>3, <1>5, <2>1, <3>2
      <4> QED BY <3>2, <4>1
    <3> QED BY <1>1, <3>1, <3>2 DEF StakesRecorded
  <2>2. ASSUME NEW r \in GenesisRows \cup UNION {RowsOf(h, history[h]) : h \in 1..k}
        PROVE  r \in stakes /\ r.height <= k
    <3>1. CASE r \in GenesisRows
      BY <1>4, <3>1 DEF StakesRecorded
    <3>2. ASSUME NEW h \in 1..k, r \in RowsOf(h, history[h])
          PROVE  r \in stakes /\ r.height <= k
      BY <1>1, <1>3, <1>5, <3>2 DEF StakesRecorded
    <3> QED BY <3>1, <3>2
  <2> QED BY <1>2, <2>1, <2>2
<1> QED BY <1>3, <1>6 DEF StakesRecorded

\* The stakes table follows the chain, transaction by transaction.
THEOREM StakesTable == Spec => []StakesRecorded
<1>1. Init => StakesRecorded
  <2> SUFFICES ASSUME Init PROVE StakesRecorded
    OBVIOUS
  <2>1. DOMAIN history = {} /\ stakes = GenesisRows
    BY DEF Init
  <2> QED BY <2>1 DEF StakesRecorded
<1>2. IInv /\ StakesRecorded /\ [Next]_vars => StakesRecorded'
  <2> SUFFICES ASSUME IInv, StakesRecorded, [Next]_vars PROVE StakesRecorded'
    OBVIOUS
  <2>1. ASSUME UNCHANGED <<history, stakes>>
        PROVE  StakesRecorded'
    BY <2>1 DEF StakesRecorded
  <2>2. ASSUME NEW a \in Appliers, Commit(a)
        PROVE  StakesRecorded'
    <3>1. /\ job[a].blk \in Blocks /\ job[a].sigs \in SUBSET Keys
          /\ Validated(job[a].blk, job[a].sigs)
      BY <2>2 DEF IInv, TypeOK, JobsValidated, Commit, GoTo, Jobs
    <3> QED BY <2>2, <3>1, InsertRecords DEF Commit
  <2>3. ASSUME NEW c \in orphans, OrphanEnds(c)
        PROVE  StakesRecorded'
    <3>1. c.blk \in Blocks /\ c.sigs \in SUBSET Keys /\ Validated(c.blk, c.sigs)
      BY DEF IInv, TypeOK, Commits, OrphansValidated
    <3> QED BY <2>1, <2>3, <3>1, InsertRecords DEF OrphanEnds, sqlite
  <2>4. ASSUME NEW a \in Appliers,
               \/ \E b \in Blocks, sigs \in Proofs : Call(a, b, sigs)
               \/ Acquire(a) \/ ReadHighest(a) \/ Accept(a) \/ Reject(a) \/ Flush(a)
               \/ CommitFails(a) \/ Reread(a) \/ Rebase(a) \/ Cancel(a)
        PROVE  UNCHANGED <<history, stakes>>
    BY <2>4 DEF Call, Acquire, ReadHighest, Accept, Reject, Flush, CommitFails, Reread,
                Rebase, Cancel, sqlite
  <2>5. ASSUME NEW w, NEW h,
               Look(w) \/ Sleep(w) \/ Wake(w) \/ Listen(w, h) \/ GetBlock(h) \/ Evict(h)
        PROVE  UNCHANGED <<history, stakes>>
    BY <2>5 DEF Look, Sleep, Wake, Listen, GetBlock, Evict, sqlite
  <2>6. CASE SyncWal \/ Crash \/ UNCHANGED vars
    BY <2>1, <2>6 DEF SyncWal, Crash, vars, sqlite
  <2>7. CASE PowerLoss
    BY <2>7, PowerLossRecords
  <2> QED
    BY <2>1, <2>2, <2>3, <2>4, <2>5, <2>6, <2>7, StorageAssumption DEF Next, ApplyStep
<1> QED BY <1>1, <1>2, Invariance, PTL DEF Spec

\* The assertion of get_state holds whenever melstf turns every Stake
\* transaction that apply_block records into a stake.  (Where it does not,
\* run storage_stakes finds the assertion violated.)
THEOREM StakesSafety ==
  ASSUME \A b \in Blocks : RecordedStakes(b) = Admitted[b]
  PROVE  Spec => []StakesMatchHeader
<1>1. IInv /\ StakesRecorded => StakesMatchHeader
  <2> SUFFICES ASSUME IInv, StakesRecorded, NEW h \in DOMAIN history
               PROVE  Stakeset(h) = StateStakes(history, h)
    BY DEF StakesMatchHeader
  <2> DEFINE n == HighestHeight
             rows == {row \in stakes : row.height <= h}
  <2>1. n \in Nat /\ DOMAIN history = 1..n /\ h \in 1..n /\ \A i \in 1..n : history[i] \in Blocks
    BY DEF IInv, OneCertifiedChain, TypeOK
  <2> HIDE DEF n
  <2>2. GenesisStakes \cup {r.doc : r \in rows}
          = GenesisStakes \cup UNION {Admitted[history[i]] : i \in 1..h}
    <3>1. ASSUME NEW r \in rows
          PROVE  r.doc \in GenesisStakes \cup UNION {Admitted[history[i]] : i \in 1..h}
      <4>1. CASE r \in GenesisRows
        BY <4>1 DEF GenesisRows
      <4>2. ASSUME NEW i \in 1..n, r \in RowsOf(i, history[i])
            PROVE  r.doc \in UNION {Admitted[history[j]] : j \in 1..h}
        <5>1. r.height = i /\ r.doc \in RecordedStakes(history[i]) /\ r.height <= h
          BY <4>2 DEF RowsOf
        <5>2. i \in 1..h /\ r.doc \in Admitted[history[i]]
          BY <2>1, <5>1
        <5> QED BY <5>2
      <4> QED BY <2>1, <4>1, <4>2 DEF StakesRecorded
    <3>2. ASSUME NEW i \in 1..h, NEW d \in Admitted[history[i]]
          PROVE  d \in {r.doc : r \in rows}
      <4> DEFINE r == [height |-> i, doc |-> d]
      <4>1. i \in 1..n /\ d \in RecordedStakes(history[i])
        BY <2>1
      <4>2. r \in RowsOf(i, history[i])
        BY <4>1 DEF RowsOf
      <4>3. r \in stakes
        BY <2>1, <4>1, <4>2 DEF StakesRecorded
      <4>4. r \in rows /\ r.doc = d
        BY <2>1, <4>3
      <4> QED BY <4>4
    <3> HIDE DEF rows
    <3> QED BY <3>1, <3>2
  <2> QED BY <2>2 DEF Stakeset, StateStakes
<1> QED BY <1>1, Invariance, StakesTable, PTL

(***************************************************************************)
(* The mempool, when no call is dropped.  Only the holder of the lock      *)
(* writes, so the height it read back after its commit is still the        *)
(* highest one when it rebases the mempool on it.                          *)
(***************************************************************************)
MempoolInv ==
  /\ orphans = {}
  /\ \A a \in Appliers : pc[a] = "rebase" => job[a].base = HighestHeight
  /\ MempoolFollows

\* Two callers are never both beyond the lock.
LEMMA OneInside ==
  ASSUME TypeOK, NEW a \in Appliers, NEW b \in Appliers,
         pc[a] \notin {"idle", "lock"}, pc[b] \notin {"idle", "lock"}
  PROVE  a = b
BY DEF TypeOK

\* Steps that neither write a row nor touch the mempool or a call.
LEMMA MempoolUntouched ==
  ASSUME MempoolInv, UNCHANGED <<history, mempool, pc, job, orphans>>
  PROVE  MempoolInv'
<1>1. HighestHeight' = HighestHeight
  BY DEF HighestHeight
<1> QED BY <1>1 DEF MempoolInv, MempoolFollows

\* Steps of a caller that is not at the end of its call.
LEMMA MempoolMoves ==
  ASSUME IInv, MempoolInv, NEW a \in Appliers, pc[a] \notin {"reread", "rebase"},
         \/ \E b \in Blocks, sigs \in Proofs : Call(a, b, sigs)
         \/ Acquire(a) \/ ReadHighest(a) \/ Accept(a) \/ Flush(a)
         \/ Reject(a) \/ CommitFails(a)
  PROVE  MempoolInv'
<1> USE DEF Call, Acquire, ReadHighest, Accept, Flush, Reject, CommitFails, Leave, GoTo, sqlite
<1>1. UNCHANGED <<history, mempool, orphans>>
  OBVIOUS
<1>2. HighestHeight' = HighestHeight
  BY <1>1 DEF HighestHeight
<1>3. pc \in [Appliers -> Steps] /\ job \in [Appliers -> Jobs \cup {NoJob}]
  BY DEF IInv, TypeOK
<1>4. /\ pc'[a] \notin {"reread", "rebase"}
      /\ \A c \in Appliers : c # a => pc'[c] = pc[c] /\ job'[c] = job[c]
  BY <1>3
<1>5. \A c \in Appliers : pc'[c] = "rebase" => job'[c].base = HighestHeight
  BY <1>4 DEF MempoolInv
<1>6. MempoolFollows'
  BY <1>1, <1>2, <1>4 DEF MempoolInv, MempoolFollows
<1> QED BY <1>1, <1>2, <1>5, <1>6 DEF MempoolInv

\* The end of a call, from its transaction on.
LEMMA MempoolEnds ==
  ASSUME IInv, MempoolInv, NEW a \in Appliers, Commit(a) \/ Reread(a) \/ Rebase(a)
  PROVE  MempoolInv'
<1> USE DEF GoTo
<1>1. /\ pc \in [Appliers -> Steps] /\ job \in [Appliers -> Jobs \cup {NoJob}]
      /\ pc[a] \in {"commit", "reread", "rebase"} /\ orphans' = {}
  BY DEF IInv, TypeOK, MempoolInv, Commit, Reread, Rebase
<1>2. ASSUME NEW c \in Appliers, c # a
      PROVE  pc[c] \in {"idle", "lock"} /\ pc'[c] = pc[c]
  BY <1>1, <1>2, OneInside DEF IInv, Commit, Reread, Rebase, Leave
<1>3. CASE Commit(a)
  <2>1. pc'[a] = "reread"
    BY <1>1, <1>3 DEF Commit
  <2> QED BY <1>1, <1>2, <2>1 DEF MempoolInv, MempoolFollows
<1>4. CASE Reread(a)
  <2>1. HighestHeight' = HighestHeight
    BY <1>4 DEF Reread, sqlite, HighestHeight
  <2>2. pc'[a] = "rebase" /\ job'[a].base = HighestHeight
    <3>1. job[a] \in Jobs
      BY <1>4 DEF IInv, TypeOK, Reread
    <3> QED BY <1>1, <1>4, <3>1 DEF Reread, Jobs
  <2> QED BY <1>1, <1>2, <2>1, <2>2 DEF MempoolInv, MempoolFollows
<1>5. CASE Rebase(a)
  <2>1. HighestHeight' = HighestHeight
    BY <1>5 DEF Rebase, sqlite, HighestHeight
  <2>2. pc'[a] = "idle" /\ mempool' = HighestHeight + 1
    BY <1>1, <1>5 DEF Rebase, Leave, MempoolInv
  <2> QED BY <1>1, <1>2, <2>1, <2>2 DEF MempoolInv, MempoolFollows
<1> QED BY <1>3, <1>4, <1>5

\* As long as no call of apply_block is dropped (Cancellable is empty), the
\* mempool is at the successor of the chain, at genesis after an open, or a
\* caller is on its way to rebase it.
THEOREM MempoolSafety ==
  ASSUME Cancellable = {}
  PROVE  Spec => []MempoolFollows
<1>1. Init => MempoolInv
  <2> SUFFICES ASSUME Init PROVE MempoolInv
    OBVIOUS
  <2>1. /\ mempool = 0 /\ orphans = {} /\ \A a \in Appliers : pc[a] = "idle"
    BY DEF Init
  <2> QED BY <2>1 DEF MempoolInv, MempoolFollows
<1>2. IInv /\ MempoolInv /\ [Next]_vars => MempoolInv'
  <2> SUFFICES ASSUME IInv, MempoolInv, [Next]_vars PROVE MempoolInv'
    OBVIOUS
  <2>1. ASSUME NEW a \in Appliers, \E b \in Blocks, sigs \in Proofs : Call(a, b, sigs)
        PROVE  MempoolInv'
    <3>1. pc[a] \notin {"reread", "rebase"}
      BY <2>1 DEF Call, GoTo
    <3> QED BY <2>1, <3>1, MempoolMoves
  <2>2. ASSUME NEW a \in Appliers, ApplyStep(a)
        PROVE  MempoolInv'
    <3>1. CASE Commit(a) \/ Reread(a) \/ Rebase(a)
      BY <3>1, MempoolEnds
    <3>2. CASE Acquire(a) \/ ReadHighest(a) \/ Accept(a) \/ Flush(a) \/ Reject(a) \/ CommitFails(a)
      <4>1. pc[a] \notin {"reread", "rebase"}
        BY <3>2 DEF Acquire, ReadHighest, Accept, Flush, Reject, CommitFails, GoTo
      <4> QED BY <3>2, <4>1, MempoolMoves
    <3> QED BY <2>2, <3>1, <3>2 DEF ApplyStep
  <2>3. ASSUME NEW w, NEW h,
               Look(w) \/ Sleep(w) \/ Wake(w) \/ Listen(w, h) \/ GetBlock(h) \/ Evict(h)
        PROVE  MempoolInv'
    BY <2>3, MempoolUntouched DEF Look, Sleep, Wake, Listen, GetBlock, Evict, sqlite
  <2>4. CASE Crash \/ PowerLoss
    <3>1. Open
      BY <2>4 DEF Crash, PowerLoss
    <3> QED BY <3>1 DEF Open, MempoolInv, MempoolFollows
  <2>5. CASE SyncWal \/ UNCHANGED vars
    BY <2>5, MempoolUntouched DEF SyncWal, vars, sqlite
  <2>6. ASSUME NEW c \in orphans
        PROVE  FALSE
    BY <2>6 DEF MempoolInv
  <2> QED BY <2>1, <2>2, <2>3, <2>4, <2>5, <2>6 DEF Next
<1>3. MempoolInv => MempoolFollows
  BY DEF MempoolInv
<1> QED BY <1>1, <1>2, <1>3, Invariance, PTL DEF Spec

(***************************************************************************)
(* The round loop of a staker (module StakerRound).  Nobody drops a call   *)
(* here but skip_round, and skip_round does so only when its block is      *)
(* there.  The holder of the lock is alone with the tables, so that the    *)
(* block it has validated stays the next one until it is committed, and a  *)
(* call that skip_round drops is not in its transaction.                   *)
(***************************************************************************)
RoundSettled ==
  /\ orphans = {}
  /\ waiter[SkipRound].at # "idle" => waiter[SkipRound].want = round.base + 1
  /\ \A a \in Appliers :
       /\ pc[a] = "check" => job[a].base = HighestHeight
       /\ pc[a] \in {"flush", "commit"} => Height[job[a].blk] = HighestHeight + 1

RoundInv == IInv /\ RoundTypeOK /\ RoundSettled

\* What it adds to the invariant of Storage.
RoundPart ==
  /\ round \in Rounds
  /\ crashes \in 0..MaxCrashes
  /\ pc[Staker] # "idle" =>
       round.at = "applying" /\ Height[job[Staker].blk] = round.base + 1
  /\ waiter[SkipRound].at # "idle" <=> round.at \in {"deciding", "applying"}
  /\ RoundSettled

LEMMA RoundInvParts == RoundInv <=> IInv /\ RoundPart
<1>1. RoundTypeOK <=> /\ TypeOK
                      /\ round \in Rounds
                      /\ crashes \in 0..MaxCrashes
                      /\ pc[Staker] # "idle" =>
                           round.at = "applying" /\ Height[job[Staker].blk] = round.base + 1
                      /\ waiter[SkipRound].at # "idle" <=> round.at \in {"deciding", "applying"}
  BY DEF RoundTypeOK
<1>2. IInv => TypeOK
  BY DEF IInv
<1> QED BY <1>1, <1>2, Zenon DEF RoundInv, RoundPart

LEMMA RoundAssumed ==
  /\ Staker \in Appliers /\ SkipRound \in Waiters /\ Waiters = {SkipRound}
  /\ MaxCrashes \in Nat /\ Heights \subseteq Nat
BY StakerRoundAssumption, ChainAssumption DEF Heights

\* Only the holder of the lock is inside apply_block.
LEMMA Alone ==
  ASSUME IInv, NEW a \in Appliers, NEW c \in Appliers, a # c, pc[a] \notin {"idle", "lock"}
  PROVE  pc[c] \in {"idle", "lock"}
BY DEF IInv, TypeOK

LEMMA RoundInitInv == RoundInit => RoundInv
<1> SUFFICES ASSUME RoundInit PROVE RoundInv
  OBVIOUS
<1>1. IInv
  BY InitInv DEF RoundInit
<1>2. RoundPart
  BY RoundAssumed DEF RoundInit, Init, RoundPart, RoundSettled, Rounds, Idle
<1> QED BY <1>1, <1>2, RoundInvParts

(***************************************************************************)
(* The invariant of Storage under the steps of a round.                    *)
(***************************************************************************)
\* The mempool is rebased, a waiter stops, or a call is dropped, with the
\* block it raced for left in the cache.
LEMMA QuietInv ==
  ASSUME IInv, UNCHANGED <<history, proofs, stakes, synced, nodes, flushed, orphans>>,
         mempool' \in Nat, waiter' \in [Waiters -> Waits],
         UNCHANGED cache \/ \E h \in Nat : CacheBlock(h),
         UNCHANGED <<pc, job, lock>> \/ \E a \in Appliers : Leave(a)
  PROVE  IInv'
<1>1. /\ CacheCoherent' /\ DOMAIN cache' \subseteq Nat \ {0}
      /\ cache' \in [DOMAIN cache' -> Blocks]
  <2>1. CASE UNCHANGED cache
    BY <2>1 DEF IInv, TypeOK, CacheCoherent
  <2>2. ASSUME NEW h \in Nat, CacheBlock(h)
        PROVE  /\ CacheCoherent' /\ DOMAIN cache' \subseteq Nat \ {0}
               /\ cache' \in [DOMAIN cache' -> Blocks]
    BY <2>2, CacheKept DEF IInv
  <2> QED BY <2>1, <2>2
<1>2. ChainPart' /\ HighestHeight' = HighestHeight /\ \A c, s : Validated(c, s) => Validated(c, s)'
  BY ChainKept DEF IInv
<1>3. /\ lock' \in Appliers \cup {NoOne}
      /\ \A a \in Appliers : lock' = a <=> pc'[a] \notin {"idle", "lock"}
      /\ pc' \in [Appliers -> Steps]
      /\ job' \in [Appliers -> Jobs \cup {NoJob}]
      /\ \A a \in Appliers : pc'[a] # "idle" => job'[a] \in Jobs
      /\ \A a \in Appliers : pc'[a] # "idle" => pc'[a] = pc[a] /\ job'[a] = job[a]
  <2>1. CASE UNCHANGED <<pc, job, lock>>
    BY <2>1 DEF IInv, TypeOK
  <2>2. CASE \E a \in Appliers : Leave(a)
    BY <2>2, StorageAssumption DEF Leave, IInv, TypeOK, Steps
  <2> QED BY <2>1, <2>2
<1>4. TypeOK'
  BY <1>1, <1>3 DEF IInv, TypeOK
<1>5. JobsValidated'
  BY <1>2, <1>3 DEF IInv, JobsValidated
<1>6. OrphansValidated'
  BY <1>2 DEF IInv, OrphansValidated
<1> QED BY <1>1, <1>2, <1>4, <1>5, <1>6 DEF IInv, ChainPart

\* skip_round drops nothing that is in its transaction.
LEMMA SkipQuiet ==
  ASSUME RoundInv, Skip
  PROVE  orphans' = orphans
<1>1. waiter[SkipRound].want = round.base + 1 /\ round.base + 1 \in DOMAIN history
  BY DEF Skip, RoundInv, RoundSettled
<1>2. ASSUME pc[Staker] = "commit" PROVE FALSE
  <2>1. Height[job[Staker].blk] = round.base + 1
    BY <1>2 DEF RoundInv, RoundTypeOK
  <2>2. Height[job[Staker].blk] = HighestHeight + 1
    BY <1>2, RoundAssumed DEF RoundInv, RoundSettled
  <2>3. DOMAIN history = 1..HighestHeight /\ HighestHeight \in Nat
    BY DEF RoundInv, IInv, OneCertifiedChain
  <2> QED BY <1>1, <2>1, <2>2, <2>3
<1> QED BY <1>2 DEF Skip, Drop

LEMMA RoundKeepsIInv ==
  ASSUME RoundInv, [RoundNext]_rvars
  PROVE  IInv'
<1>0. IInv /\ TypeOK /\ round \in Rounds /\ round.base \in Nat /\ HighestHeight \in Nat
  BY DEF RoundInv, RoundTypeOK, IInv, Rounds
<1>1. \A w \in Waiters : [waiter EXCEPT ![w] = Idle] \in [Waiters -> Waits]
  BY <1>0 DEF TypeOK, Idle, Waits
<1>2. CASE BeginRound
  <2>1. \E h \in Nat : GetBlock(h)
    BY <1>0, <1>2 DEF BeginRound, HighestState, GetBlock
  <2> QED BY <1>0, <2>1, GetBlockInv
<1>3. CASE Mismatch
  <2>1. mempool' \in Nat /\ waiter' \in [Waiters -> Waits]
    BY <1>0, <1>3 DEF Mismatch, TypeOK
  <2> QED BY <1>0, <1>3, <2>1, QuietInv DEF Mismatch, sqlite, forest
<1>4. CASE Propose
  <2>1. \E h \in Nat : Listen(SkipRound, h)
    BY <1>0, <1>4 DEF Propose
  <2> QED BY <1>0, <2>1, WaiterInv, RoundAssumed
<1>5. CASE EndRound
  <2>1. mempool' \in Nat /\ waiter' \in [Waiters -> Waits]
    BY <1>0, <1>1, <1>5, RoundAssumed DEF EndRound, TypeOK
  <2> QED BY <1>0, <1>5, <2>1, QuietInv DEF EndRound, sqlite, forest
<1>6. ASSUME NEW b \in Blocks, NEW sigs \in Proofs, Decide(b, sigs) PROVE IInv'
  BY <1>0, <1>6, CallInv, RoundAssumed DEF Decide
<1>7. CASE LookInVain
  BY <1>0, <1>7, WaiterInv, RoundAssumed DEF LookInVain
<1>8. CASE Skip
  <2>1. mempool' \in Nat /\ waiter' \in [Waiters -> Waits]
    BY <1>0, <1>1, <1>8, RoundAssumed DEF Skip, Drop, TypeOK
  <2>2. \E h \in Nat : CacheBlock(h)
    BY <1>0, <1>8 DEF Skip
  <2>3. \E a \in Appliers : Leave(a)
    BY <1>8, RoundAssumed DEF Skip, Drop
  <2>4. UNCHANGED <<history, proofs, stakes, synced, nodes, flushed, orphans>>
    BY <1>8, SkipQuiet DEF Skip, sqlite, forest
  <2> QED BY <1>0, <2>1, <2>2, <2>3, <2>4, QuietInv
<1>9. CASE SkipAtOnce
  <2>1. \E h \in Nat : GetBlock(h)
    BY <1>0, <1>9 DEF SkipAtOnce, GetBlock
  <2> QED BY <1>0, <2>1, GetBlockInv
<1>10. CASE StorageStep
  <2>1. ASSUME NEW a \in Appliers, ApplyStep(a) PROVE IInv'
    BY <1>0, <2>1, AcquireInv, ReadInv, AcceptInv, FlushInv, CommitInv, LeaveInv DEF ApplyStep
  <2>2. ASSUME NEW a \in Appliers, NEW b \in Blocks, NEW sigs \in Proofs, Call(a, b, sigs)
        PROVE  IInv'
    BY <1>0, <2>2, CallInv
  <2>3. ASSUME NEW c \in orphans, OrphanEnds(c) PROVE IInv'
    BY <1>0, <2>3, OrphanInv
  <2>4. CASE Sleep(SkipRound) \/ Wake(SkipRound)
    BY <1>0, <2>4, WaiterInv, RoundAssumed
  <2> QED BY <1>10, <2>1, <2>2, <2>3, <2>4 DEF StorageStep
<1>11. CASE Restart
  BY <1>0, <1>11, CrashInv DEF Restart
<1>12. CASE UNCHANGED rvars
  BY <1>0, <1>12, StutterInv DEF rvars
<1> QED BY <1>2, <1>3, <1>4, <1>5, <1>6, <1>7, <1>8, <1>9, <1>10, <1>11, <1>12 DEF RoundNext

(***************************************************************************)
(* The rest of the invariant.                                              *)
(***************************************************************************)
\* Steps of apply_block.
LEMMA ApplyKeepsRound ==
  ASSUME RoundInv, NEW a \in Appliers, ApplyStep(a), UNCHANGED <<round, crashes>>
  PROVE  RoundPart'
<1>0. IInv /\ RoundPart /\ RoundSettled /\ TypeOK
  BY RoundInvParts DEF RoundPart, IInv
<1>1. ASSUME Reject(a) \/ CommitFails(a) \/ Rebase(a) PROVE RoundPart'
  <2>1. /\ UNCHANGED <<history, orphans>>
        /\ pc' = [pc EXCEPT ![a] = "idle"] /\ job' = [job EXCEPT ![a] = NoJob]
    BY <1>1 DEF Reject, CommitFails, Rebase, Leave, sqlite
  <2>2. /\ waiter'[SkipRound].at = waiter[SkipRound].at
        /\ waiter'[SkipRound].want = waiter[SkipRound].want
    <3>1. CASE Reject(a) \/ CommitFails(a)
      BY <3>1 DEF Reject, CommitFails
    <3>2. CASE Rebase(a)
      <4>1. waiter'[SkipRound] = [waiter[SkipRound] EXCEPT
                                    !.heard = (@ \/ waiter[SkipRound].at # "idle")]
        BY <3>2, RoundAssumed DEF Rebase, Notified
      <4>2. waiter[SkipRound] \in Waits
        BY <1>0, RoundAssumed DEF TypeOK
      <4> QED BY <4>1, <4>2 DEF Waits
    <3> QED BY <1>1, <3>1, <3>2
  <2>3. HighestHeight' = HighestHeight
    BY <2>1 DEF HighestHeight
  <2>4. \A c \in Appliers : pc'[c] # "idle" => pc'[c] = pc[c] /\ job'[c] = job[c]
    BY <1>0, <2>1 DEF TypeOK
  <2>5. RoundSettled'
    BY <1>0, <2>1, <2>2, <2>3, <2>4 DEF RoundSettled
  <2> QED BY <1>0, <2>2, <2>4, <2>5, RoundAssumed DEF RoundPart
\* The call goes on: it keeps its block, and nobody else is inside.
<1>2. ASSUME pc[a] # "idle", \A c \in Appliers \ {a} : pc'[c] = pc[c] /\ job'[c] = job[c],
             job'[a].blk = job[a].blk, UNCHANGED <<orphans, waiter>>,
             \A c \in Appliers \ {a} : pc[c] \in {"check", "flush", "commit"}
                                         => HighestHeight' = HighestHeight,
             pc'[a] = "check" => job'[a].base = HighestHeight',
             pc'[a] \in {"flush", "commit"} => Height[job[a].blk] = HighestHeight' + 1
      PROVE  RoundPart'
  <2>1. RoundSettled'
    <3> SUFFICES ASSUME NEW c \in Appliers
                 PROVE  /\ pc'[c] = "check" => job'[c].base = HighestHeight'
                        /\ pc'[c] \in {"flush", "commit"}
                             => Height[job'[c].blk] = HighestHeight' + 1
      BY <1>0, <1>2 DEF RoundSettled
    <3>1. CASE c = a
      BY <1>2, <3>1
    <3>2. CASE c # a
      BY <1>0, <1>2, <3>2 DEF RoundSettled
    <3> QED BY <3>1, <3>2
  <2>2. pc'[Staker] # "idle" =>
          round.at = "applying" /\ Height[job'[Staker].blk] = round.base + 1
    <3>1. CASE Staker = a
      BY <1>0, <1>2, <3>1 DEF RoundPart
    <3>2. CASE Staker # a
      BY <1>0, <1>2, <3>2, RoundAssumed DEF RoundPart
    <3> QED BY <3>1, <3>2
  <2> QED BY <1>0, <1>2, <2>1, <2>2 DEF RoundPart
<1>3. ASSUME NEW to, pc' = [pc EXCEPT ![a] = to]
      PROVE  pc'[a] = to /\ \A c \in Appliers \ {a} : pc'[c] = pc[c]
  BY <1>0, <1>3 DEF TypeOK
<1>4. UNCHANGED history => HighestHeight' = HighestHeight
  BY DEF HighestHeight
<1>5. CASE Acquire(a)
  <2>1. pc[a] = "lock" /\ pc' = [pc EXCEPT ![a] = "read"]
        /\ UNCHANGED <<history, job, orphans, waiter>>
    BY <1>5 DEF Acquire, GoTo, sqlite
  <2> QED BY <1>2, <1>3, <1>4, <2>1
<1>6. CASE ReadHighest(a) \/ Reread(a)
  <2>1. /\ pc[a] \in {"read", "reread"} /\ \E to \in {"check", "rebase"} : pc' = [pc EXCEPT ![a] = to]
        /\ job' = [job EXCEPT ![a].base = HighestHeight]
        /\ UNCHANGED <<history, orphans, waiter>>
    BY <1>6 DEF ReadHighest, Reread, GoTo, sqlite
  <2>2. /\ job'[a].blk = job[a].blk /\ job'[a].base = HighestHeight
        /\ \A c \in Appliers \ {a} : job'[c] = job[c]
    <3>1. job[a] \in Jobs /\ job \in [Appliers -> Jobs \cup {NoJob}]
      BY <1>0, <2>1 DEF TypeOK
    <3> QED BY <2>1, <3>1 DEF Jobs
  <2>3. pc'[a] \in {"check", "rebase"} /\ \A c \in Appliers \ {a} : pc'[c] = pc[c]
    BY <1>3, <2>1
  <2> QED BY <1>2, <1>4, <2>1, <2>2, <2>3
<1>7. CASE Accept(a)
  <2>1. /\ pc[a] = "check" /\ pc' = [pc EXCEPT ![a] = "flush"]
        /\ UNCHANGED <<history, job, orphans, waiter>>
    BY <1>7 DEF Accept, GoTo, sqlite
  <2>2. Height[job[a].blk] = HighestHeight + 1
    BY <1>0, <1>7, <2>1 DEF Accept, Checked, Acceptable, FollowsHeight, RoundSettled
  <2> QED BY <1>2, <1>3, <1>4, <2>1, <2>2
<1>8. CASE Flush(a)
  <2>1. /\ pc[a] = "flush" /\ pc' = [pc EXCEPT ![a] = "commit"]
        /\ UNCHANGED <<history, job, orphans, waiter>>
    BY <1>8 DEF Flush, GoTo, sqlite
  <2>2. Height[job[a].blk] = HighestHeight + 1
    BY <1>0, <2>1 DEF RoundSettled
  <2> QED BY <1>2, <1>3, <1>4, <2>1, <2>2
<1>9. CASE Commit(a)
  <2>1. /\ pc[a] = "commit" /\ pc' = [pc EXCEPT ![a] = "reread"]
        /\ UNCHANGED <<job, orphans, waiter>>
    BY <1>9 DEF Commit, GoTo
  <2>2. \A c \in Appliers \ {a} : pc[c] \in {"idle", "lock"}
    BY <1>0, <2>1, Alone
  <2> QED BY <1>2, <1>3, <2>1, <2>2
<1> QED BY <1>1, <1>5, <1>6, <1>7, <1>8, <1>9 DEF ApplyStep

LEMMA RoundKeepsRound ==
  ASSUME RoundInv, [RoundNext]_rvars
  PROVE  RoundPart'
<1>0. /\ IInv /\ RoundPart /\ RoundSettled /\ TypeOK
      /\ round \in Rounds /\ round.base \in Nat /\ HighestHeight \in Nat
  BY RoundInvParts DEF RoundPart, IInv, Rounds
<1>1. UNCHANGED history => HighestHeight' = HighestHeight
  BY DEF HighestHeight
\* Steps that leave the tables and the calls alone.
<1>2. ASSUME UNCHANGED <<history, pc, job, orphans, crashes>>,
             round' \in Rounds,
             pc[Staker] # "idle" => round'.at = "applying" /\ round'.base = round.base,
             waiter'[SkipRound].at # "idle" <=> round'.at \in {"deciding", "applying"},
             waiter'[SkipRound].at # "idle" => waiter'[SkipRound].want = round'.base + 1
      PROVE  RoundPart'
  BY <1>0, <1>1, <1>2 DEF RoundPart, RoundSettled
<1>3. ASSUME NEW stage \in {"begin", "waiting", "deciding", "applying"}, RoundGoes(stage)
      PROVE  round' \in Rounds /\ round'.at = stage /\ round'.base = round.base
  BY <1>0, <1>3 DEF RoundGoes, Rounds
<1>4. waiter \in [Waiters -> Waits] /\ waiter[SkipRound] \in Waits
  BY <1>0, RoundAssumed DEF TypeOK
<1>5. CASE BeginRound
  <2>1. /\ round.at = "begin" /\ round' = [at |-> "waiting", base |-> HighestHeight]
        /\ UNCHANGED <<history, pc, job, orphans, crashes, waiter>>
    BY <1>5 DEF BeginRound, sqlite
  <2>2. round' \in Rounds /\ round'.at = "waiting"
    BY <1>0, <2>1 DEF Rounds
  <2> QED BY <1>0, <1>2, <2>1, <2>2 DEF RoundPart
<1>6. CASE Mismatch
  <2>1. /\ round.at = "waiting" /\ RoundGoes("begin")
        /\ UNCHANGED <<history, pc, job, orphans, crashes, waiter>>
    BY <1>6 DEF Mismatch, sqlite
  <2> QED BY <1>0, <1>2, <1>3, <2>1 DEF RoundPart
<1>7. CASE Propose
  <2>1. /\ round.at = "waiting" /\ RoundGoes("deciding")
        /\ waiter' = [waiter EXCEPT ![SkipRound] =
                        [at |-> "listening", want |-> round.base + 1, heard |-> FALSE]]
        /\ UNCHANGED <<history, pc, job, orphans, crashes>>
    BY <1>7 DEF Propose, Listen, sqlite
  <2>2. waiter'[SkipRound].at = "listening" /\ waiter'[SkipRound].want = round.base + 1
    BY <1>4, <2>1, RoundAssumed
  <2> QED BY <1>0, <1>2, <1>3, <2>1, <2>2 DEF RoundPart
<1>8. CASE EndRound
  <2>1. /\ pc[Staker] = "idle" /\ RoundGoes("begin")
        /\ waiter' = [waiter EXCEPT ![SkipRound] = Idle]
        /\ UNCHANGED <<history, pc, job, orphans, crashes>>
    BY <1>8 DEF EndRound, sqlite
  <2>2. waiter'[SkipRound].at = "idle"
    BY <1>4, <2>1, RoundAssumed DEF Idle
  <2> QED BY <1>2, <1>3, <2>1, <2>2
<1>9. ASSUME NEW b \in Blocks, NEW sigs \in Proofs, Decide(b, sigs) PROVE RoundPart'
  <2>1. /\ round.at = "deciding" /\ Height[b] = round.base + 1 /\ RoundGoes("applying")
        /\ pc' = [pc EXCEPT ![Staker] = "lock"]
        /\ job' = [job EXCEPT ![Staker] = [blk |-> b, sigs |-> sigs, base |-> 0]]
        /\ UNCHANGED <<history, orphans, waiter, crashes>>
    BY <1>9 DEF Decide, Call, GoTo, sqlite
  <2>2. round' \in Rounds /\ round'.at = "applying" /\ round'.base = round.base
    BY <1>3, <2>1
  <2>3. /\ pc'[Staker] = "lock" /\ job'[Staker].blk = b
        /\ \A c \in Appliers \ {Staker} : pc'[c] = pc[c] /\ job'[c] = job[c]
    BY <1>0, <2>1, RoundAssumed DEF TypeOK
  <2>4. RoundSettled'
    BY <1>0, <1>1, <2>1, <2>2, <2>3 DEF RoundSettled
  <2> QED BY <1>0, <2>1, <2>2, <2>3, <2>4 DEF RoundPart
<1>10. CASE LookInVain
  <2>1. /\ waiter' = [waiter EXCEPT ![SkipRound].at = "missed"]
        /\ waiter[SkipRound].at = "listening"
        /\ UNCHANGED <<history, pc, job, orphans, crashes, round>>
    BY <1>10 DEF LookInVain, Look, sqlite
  <2>2. /\ waiter'[SkipRound].at = "missed"
        /\ waiter'[SkipRound].want = waiter[SkipRound].want
    BY <1>4, <2>1, RoundAssumed DEF Waits
  <2> QED BY <1>0, <1>2, <2>1, <2>2 DEF RoundPart, RoundSettled
<1>11. CASE Skip
  <2>1. /\ Leave(Staker) /\ RoundGoes("begin")
        /\ waiter' = [waiter EXCEPT ![SkipRound] = Idle]
        /\ UNCHANGED <<history, crashes, orphans>>
    BY <1>11, SkipQuiet DEF Skip, Drop, sqlite
  <2>2. /\ pc'[Staker] = "idle"
        /\ \A c \in Appliers \ {Staker} : pc'[c] = pc[c] /\ job'[c] = job[c]
    BY <1>0, <2>1, RoundAssumed DEF Leave, TypeOK
  <2>3. waiter'[SkipRound].at = "idle" /\ round' \in Rounds /\ round'.at = "begin"
    BY <1>3, <1>4, <2>1, RoundAssumed DEF Idle
  <2>4. RoundSettled'
    BY <1>0, <1>1, <2>1, <2>2, <2>3 DEF RoundSettled
  <2> QED BY <1>0, <2>1, <2>2, <2>3, <2>4 DEF RoundPart
<1>12. CASE SkipAtOnce
  <2>1. /\ round.at = "waiting" /\ RoundGoes("begin")
        /\ UNCHANGED <<history, pc, job, orphans, crashes, waiter>>
    BY <1>12 DEF SkipAtOnce, sqlite
  <2> QED BY <1>0, <1>2, <1>3, <2>1 DEF RoundPart
<1>13. CASE StorageStep
  <2>1. UNCHANGED <<round, crashes>>
    BY <1>13 DEF StorageStep
  <2>2. ASSUME NEW a \in Appliers, ApplyStep(a) PROVE RoundPart'
    BY <2>1, <2>2, ApplyKeepsRound
  <2>3. ASSUME NEW a \in Appliers \ {Staker}, NEW b \in Blocks, NEW sigs \in Proofs,
               Call(a, b, sigs)
        PROVE  RoundPart'
    <3>1. /\ pc' = [pc EXCEPT ![a] = "lock"]
          /\ job' = [job EXCEPT ![a] = [blk |-> b, sigs |-> sigs, base |-> 0]]
          /\ UNCHANGED <<history, orphans, waiter>>
      BY <2>3 DEF Call, GoTo, sqlite
    <3>2. /\ pc'[a] = "lock"
          /\ \A c \in Appliers \ {a} : pc'[c] = pc[c] /\ job'[c] = job[c]
      BY <1>0, <3>1 DEF TypeOK
    <3>3. RoundSettled'
      BY <1>0, <1>1, <2>1, <3>1, <3>2 DEF RoundSettled
    <3>4. pc'[Staker] = pc[Staker] /\ job'[Staker] = job[Staker]
      BY <2>3, <3>2, RoundAssumed
    <3> QED BY <1>0, <2>1, <3>1, <3>3, <3>4 DEF RoundPart
  <2>4. ASSUME NEW c \in orphans, OrphanEnds(c) PROVE RoundPart'
    BY <1>0 DEF RoundSettled
  <2>5. CASE Sleep(SkipRound) \/ Wake(SkipRound)
    <3>1. UNCHANGED <<history, pc, job, orphans>> /\ waiter[SkipRound].at # "idle"
      BY <2>5 DEF Sleep, Wake, sqlite
    <3>2. /\ waiter'[SkipRound].at # "idle"
          /\ waiter'[SkipRound].want = waiter[SkipRound].want
      <4>1. CASE Sleep(SkipRound)
        BY <1>4, <4>1, RoundAssumed DEF Sleep, Waits
      <4>2. CASE Wake(SkipRound)
        BY <1>4, <4>2, RoundAssumed DEF Wake, Waits
      <4> QED BY <2>5, <4>1, <4>2
    <3> QED BY <1>0, <1>2, <2>1, <3>1, <3>2 DEF RoundPart, RoundSettled
  <2> QED BY <1>13, <2>2, <2>3, <2>4, <2>5 DEF StorageStep
<1>14. CASE Restart
  <2>1. /\ round' = [at |-> "begin", base |-> 0] /\ crashes < MaxCrashes /\ crashes' = crashes + 1
        /\ orphans' = {} /\ pc' = [a \in Appliers |-> "idle"]
        /\ waiter' = [w \in Waiters |-> Idle]
    BY <1>14 DEF Restart, Crash, Open
  <2>2. round' \in Rounds /\ round'.at = "begin" /\ crashes' \in 0..MaxCrashes
    BY <1>0, <2>1, RoundAssumed DEF Rounds, RoundPart
  <2>3. pc'[Staker] = "idle" /\ waiter'[SkipRound].at = "idle"
    BY <2>1, RoundAssumed DEF Idle
  <2> QED BY <2>1, <2>2, <2>3 DEF RoundPart, RoundSettled
<1>15. CASE UNCHANGED rvars
  BY <1>0, <1>2, <1>15 DEF rvars, vars, RoundPart, RoundSettled
<1> QED BY <1>5, <1>6, <1>7, <1>8, <1>9, <1>10, <1>11, <1>12, <1>13, <1>14, <1>15 DEF RoundNext

LEMMA RoundInvariance == RoundSpec => []RoundInv
<1>1. RoundInit => RoundInv
  BY RoundInitInv
<1>2. RoundInv /\ [RoundNext]_rvars => RoundInv'
  <2> SUFFICES ASSUME RoundInv, [RoundNext]_rvars PROVE RoundInv'
    OBVIOUS
  <2>1. IInv' /\ RoundPart'
    BY RoundKeepsIInv, RoundKeepsRound
  <2>2. (RoundInv <=> IInv /\ RoundPart)'
    BY RoundInvParts, PTL
  <2> QED BY <2>1, <2>2
<1> QED BY <1>1, <1>2, PTL DEF RoundSpec

\* The staker's own call of apply_block is for the height its round is
\* about, and skip_round listens exactly while a round is in progress
\* (staker.rs:114-253).
THEOREM RoundTypeCorrect == RoundSpec => []RoundTypeOK
<1>1. RoundInv => RoundTypeOK
  BY DEF RoundInv
<1> QED BY <1>1, RoundInvariance, PTL

\* skip_round never drops a round whose block is inside its transaction:
\* no commit of a dropped round writes beside the next caller
\* (staker.rs:114-131 and 253, storage.rs:309-345).
THEOREM RoundSafety == RoundSpec => []DroppedRoundsWriteNothing
<1>1. RoundInv => DroppedRoundsWriteNothing
  <2> SUFFICES ASSUME RoundInv PROVE DroppedRoundsWriteNothing
    OBVIOUS
  <2>1. orphans = {} /\ DOMAIN history = 1..HighestHeight /\ HighestHeight \in Nat
    BY DEF RoundInv, RoundSettled, IInv, OneCertifiedChain
  <2>2. \A a \in Appliers : pc[a] = "commit" => Height[job[a].blk] = HighestHeight + 1
    BY DEF RoundInv, RoundSettled
  <2> QED BY <2>1, <2>2 DEF DroppedRoundsWriteNothing
<1> QED BY <1>1, RoundInvariance, PTL

\* The process as a whole keeps the promise of Ledger.  No round leaves a
\* transaction behind, so that the chain grows by the commits of live calls
\* only, of the staker or of blksync (staker.rs:114-253, blksync.rs).
THEOREM RoundRefinement == RoundSpec => ImplementsLedger
<1>1. RoundInv /\ RoundInv' /\ [RoundNext]_rvars => [Promise!Next]_(Promise!vars)
  <2> SUFFICES ASSUME RoundInv, RoundInv', [RoundNext]_rvars
               PROVE  Promise!Next \/ UNCHANGED Promise!vars
    OBVIOUS
  <2>1. IInv /\ IInv' /\ orphans = {}
    BY DEF RoundInv, RoundSettled
  <2>2. ASSUME NEW a \in Appliers, Commit(a)
        PROVE  Promise!Extend
    BY <2>1, <2>2, CommitExtends
  <2>3. ASSUME NEW a \in Appliers,
               \/ \E b \in Blocks, sigs \in Proofs : Call(a, b, sigs)
               \/ Acquire(a) \/ ReadHighest(a) \/ Accept(a) \/ Reject(a) \/ Flush(a)
               \/ CommitFails(a) \/ Reread(a) \/ Rebase(a)
        PROVE  UNCHANGED Promise!vars
    BY <2>3, LedgerUntouched
       DEF Call, Acquire, ReadHighest, Accept, Reject, Flush, CommitFails, Reread, Rebase, sqlite
  <2>4. CASE StorageStep
    <3>1. CASE \E a \in Appliers : ApplyStep(a)
      BY <2>2, <2>3, <3>1 DEF ApplyStep, Promise!Next
    <3>2. CASE Sleep(SkipRound) \/ Wake(SkipRound)
      BY <3>2, LedgerUntouched DEF Sleep, Wake, sqlite
    <3> QED BY <2>1, <2>3, <2>4, <3>1, <3>2 DEF StorageStep
  <2>5. ASSUME NEW b \in Blocks, NEW sigs \in Proofs, Decide(b, sigs)
        PROVE  UNCHANGED Promise!vars
    BY <2>3, <2>5, RoundAssumed DEF Decide
  <2>6. CASE BeginRound \/ Mismatch \/ Propose \/ EndRound
    BY <2>6, LedgerUntouched DEF BeginRound, Mismatch, Propose, EndRound, Listen, sqlite
  <2>7. CASE LookInVain \/ Skip \/ SkipAtOnce
    BY <2>7, LedgerUntouched DEF LookInVain, Look, Skip, SkipAtOnce, sqlite
  <2>8. CASE Restart \/ UNCHANGED rvars
    BY <2>8, LedgerUntouched DEF Restart, Crash, rvars, vars, sqlite
  <2> QED BY <2>4, <2>5, <2>6, <2>7, <2>8 DEF RoundNext
<1>2. RoundInit => Promise!Init
  BY InitMaps DEF RoundInit
<1> QED BY <1>1, <1>2, RoundInvariance, PTL DEF RoundSpec, ImplementsLedger, Promise!Spec
=============================================================================
