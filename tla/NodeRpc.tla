------------------------------ MODULE NodeRpc ------------------------------
(***************************************************************************)
(* The reading handlers of NodeRpcImpl with their caches (src/node.rs),    *)
(* the coin indexer behind some of them (src/node/indexer.rs; the crate    *)
(* melblkidx is external), and the self-test of src/main.rs, their client. *)
(* A handler is suspended where it awaits the storage, whose queries all   *)
(* return (module StakerWaits).  Blocks are known by their height (one    *)
(* certified chain, module Storage), a proof by its height and the life of *)
(* the process that stored it: a block that a power failure took away may  *)
(* come back with another proof.                                           *)
(***************************************************************************)
EXTENDS Integers, Sequences, FiniteSets

CONSTANTS
  Tasks,        \* tasks of the RPC server
  Tester,       \* the task that serves the self-test
  Base,         \* the self-test replays from this height (9)
  CacheSize,    \* entries of a cache (10 and 1000)
  MaxHeight,    \* bound on the chain
  MaxRestarts   \* bound on power failures

ASSUME RpcAssumption ==
  /\ Tester \in Tasks
  /\ {Base, CacheSize} \subseteq Nat \ {0} /\ {MaxHeight, MaxRestarts} \subseteq Nat

VARIABLES
  stored,     \* history and consensus_proofs: the life that stored each height
  summary,    \* NodeRpcImpl::summary: proof by height
  abbr,       \* NodeRpcImpl::abbr_block_cache: proof by height
  index,      \* max_height of the indexer, which has a database of its own
  trusted,    \* height of the checkpoint its client trusts
  calls,      \* the call of each task: under way, or its answer
  test,       \* the self-test: [at, next, last]
  restarts,
  indexed     \* the process was started with an indexer (--index-coins)

caches == <<summary, abbr>>
vars == <<stored, caches, index, trusted, calls, test, restarts, indexed>>

Height == Len(stored)

Proof(h, life) == [height |-> h, life |-> life]

NoProof == Proof(0, 0)  \* ConsensusProof::default()

\* get_state stands for get_block and get_stakers_raw as well, get_some_coins
\* for get_coin_spend: they take the same steps.
Ops == {"get_summary", "get_abbr_block", "get_smt_branch", "get_state",
        "get_some_coins", "get_coin_changes"}

\* Where a handler is suspended: an await of the storage, the wait for the
\* indexer, or between its two queries.
Labels == {"highest", "block", "proof", "tree", "limit", "polling", "second"}

NoCall == [op |-> "get_state", at |-> "returned", height |-> 0, found |-> FALSE,
           proof |-> NoProof, limit |-> 0, seen |-> 0, since |-> 0]

TypeOK ==
  /\ stored \in Seq(0..MaxRestarts) /\ Height <= MaxHeight
  /\ DOMAIN summary \subseteq 0..Height /\ DOMAIN abbr \subseteq 1..Height
  /\ index \in 0..MaxHeight /\ trusted \in 0..Height
  /\ calls \in [Tasks -> [op : Ops, at : Labels \cup {"returned"},
                          height : 0..MaxHeight, found : BOOLEAN, proof : [height : 0..MaxHeight, life : 0..MaxRestarts],
                          limit : 0..MaxHeight, seen : 0..MaxHeight, since : 0..MaxHeight]]
  /\ test \in [at : {"pass", "replay", "asking", "stopped", "failed"},
               next : 0..(MaxHeight + 1), last : 0..MaxHeight]
  /\ restarts \in 0..MaxRestarts /\ indexed \in BOOLEAN

NoTest == [at |-> "pass", next |-> 0, last |-> 0]

(***************************************************************************)
(* Calls.  `since`, `limit` and `seen` are heights: of the chain when the  *)
(* call began, of the one get_indexer read, of the index when it answered. *)
(***************************************************************************)
Becomes(t, call) == calls' = [calls EXCEPT ![t] = call]

At(t, label) == calls[t].at = label

\* None, or a value; what no property looks at is forgotten.
Missing == NoCall

Answer(call) ==
  IF call.op \in {"get_state", "get_smt_branch"} THEN [NoCall EXCEPT !.found = TRUE]
  ELSE [call EXCEPT !.at = "returned", !.found = TRUE, !.limit = 0]

ProofOf(h) == IF h \in 1..Height THEN Proof(h, stored[h]) ELSE NoProof

\* The caches that may result when p is put at h: others may have to go.
Puts(cache, h, p) ==
  {[k \in kept \cup {h} |-> IF k = h THEN p ELSE cache[k]] :
     kept \in {K \in SUBSET (DOMAIN cache \ {h}) : Cardinality(K) < CacheSize}}

\* What a handler does before its first await.
Begin(op, h) ==
  LET call == [NoCall EXCEPT !.op = op,
                 !.since = IF op \in {"get_abbr_block", "get_smt_branch", "get_state"} THEN 0 ELSE Height,
                 !.height = IF op \in {"get_summary", "get_some_coins"} THEN 0 ELSE h] IN
  CASE op = "get_summary" -> [call EXCEPT !.at = "highest"]
    [] op = "get_abbr_block" /\ h \in DOMAIN abbr -> Answer([call EXCEPT !.proof = abbr[h]])
    [] op = "get_some_coins" -> [call EXCEPT !.at = "limit"]
    [] OTHER -> [call EXCEPT !.at = "block"]

Call(t, op, h) ==
  /\ calls[t].at = "returned"
  /\ Becomes(t, Begin(op, h))
  /\ UNCHANGED <<stored, caches, index, trusted, test, restarts, indexed>>

\* highest_state().await of get_summary, and the look at its cache.
GetHighest(t) ==
  /\ At(t, "highest")
  /\ LET call == [calls[t] EXCEPT !.height = Height] IN
     Becomes(t, IF Height \in DOMAIN summary
                THEN Answer([call EXCEPT !.proof = summary[Height]])
                ELSE [call EXCEPT !.at = "proof"])
  /\ UNCHANGED <<stored, caches, index, trusted, test, restarts, indexed>>

\* Mutant: the proof is the newest one instead of the header's.
GetProofNewest(t) ==
  /\ At(t, "proof")
  /\ LET call == calls[t] IN
     /\ Becomes(t, Answer([call EXCEPT !.proof = ProofOf(Height)]))
     /\ IF call.op = "get_summary"
        THEN summary' \in Puts(summary, call.height, ProofOf(Height)) /\ UNCHANGED abbr
        ELSE abbr' \in Puts(abbr, call.height, ProofOf(Height)) /\ UNCHANGED summary
  /\ UNCHANGED <<stored, index, trusted, test, restarts, indexed>>

\* get_consensus(height).await: get_summary takes a missing proof for an
\* empty one, get_abbr_block has no answer then; both fill their cache.
GetProof(t) ==
  /\ At(t, "proof")
  /\ LET call == calls[t]
         p == ProofOf(call.height)
     IN  IF call.op = "get_summary"
         THEN /\ summary' \in Puts(summary, call.height, p)
              /\ Becomes(t, Answer([call EXCEPT !.proof = p]))
              /\ UNCHANGED abbr
         ELSE /\ abbr' \in IF p = NoProof THEN {abbr} ELSE Puts(abbr, call.height, p)
              /\ Becomes(t, IF p = NoProof THEN Missing
                            ELSE Answer([call EXCEPT !.proof = p]))
              /\ UNCHANGED summary
  /\ UNCHANGED <<stored, index, trusted, test, restarts, indexed>>

\* get_block or get_state of the wanted height, at the start of the others.
GetBlock(t) ==
  /\ At(t, "block")
  /\ LET call == calls[t] IN
     Becomes(t, IF call.height \notin 1..Height THEN Missing
                ELSE CASE call.op = "get_abbr_block" -> [call EXCEPT !.at = "proof"]
                       [] call.op = "get_coin_changes" -> [call EXCEPT !.at = "limit"]
                       [] call.op = "get_smt_branch" -> [call EXCEPT !.at = "tree"]
                       [] OTHER -> Answer(call))
  /\ UNCHANGED <<stored, caches, index, trusted, test, restarts, indexed>>

\* get_coin_tree reads the state again, unless its own cache (coin_smts,
\* which holds what this builds) saves it the await.
GetTree(t) ==
  /\ At(t, "tree")
  /\ Becomes(t, IF calls[t].height \in 1..Height THEN Answer(calls[t]) ELSE Missing)
  /\ UNCHANGED <<stored, caches, index, trusted, test, restarts, indexed>>

\* get_indexer reads the height it is going to wait for, or there is none.
ReadLimit(t) ==
  /\ At(t, "limit")
  /\ Becomes(t, IF indexed THEN [calls[t] EXCEPT !.at = "polling", !.limit = Height]
                ELSE Missing)
  /\ UNCHANGED <<stored, caches, index, trusted, test, restarts, indexed>>

\* Mutant: get_indexer waits for the block before the highest one.
ReachedBelow(call) == index + 1 >= call.limit

Reached(call) == index >= call.limit

\* The wait is over; the (first) query of the index.
QueryIndex(t) ==
  /\ At(t, "polling") /\ Reached(calls[t])
  /\ LET call == [calls[t] EXCEPT !.seen = index] IN
     Becomes(t, IF call.op = "get_coin_changes" THEN [call EXCEPT !.at = "second"]
                ELSE Answer(call))
  /\ UNCHANGED <<stored, caches, index, trusted, test, restarts, indexed>>

\* The added coins, after the deleted ones; the index may have moved on.
QueryAdded(t) ==
  /\ At(t, "second")
  /\ Becomes(t, Answer(calls[t]))
  /\ UNCHANGED <<stored, caches, index, trusted, test, restarts, indexed>>

Handler(t) ==
  \/ GetHighest(t) \/ GetProof(t) \/ GetBlock(t) \/ GetTree(t)
  \/ ReadLimit(t) \/ QueryIndex(t) \/ QueryAdded(t)

(***************************************************************************)
(* The indexer.                                                            *)
(***************************************************************************)
\* Mutant: the checkpoint is set once, without the loop.
TrustOnce ==
  /\ indexed /\ trusted = 0 /\ trusted' = Height
  /\ UNCHANGED <<stored, caches, index, calls, test, restarts, indexed>>

\* indexer_loop, every second.
Trust ==
  /\ indexed /\ trusted' = Height
  /\ UNCHANGED <<stored, caches, index, calls, test, restarts, indexed>>

\* melblkidx stores one more of the blocks the node serves.
IndexBlock ==
  /\ indexed /\ index < Height
  /\ index' = index + 1
  /\ UNCHANGED <<stored, caches, trusted, calls, test, restarts, indexed>>

(***************************************************************************)
(* The self-test.                                                          *)
(***************************************************************************)
\* Mutant: the range of heights ends one too late.
BeginPassBeyond ==
  /\ test.at = "pass" /\ Base <= Height
  /\ test' = [at |-> "replay", next |-> Base + 1, last |-> Height + 1]
  /\ UNCHANGED <<stored, caches, index, trusted, calls, restarts, indexed>>

\* get_state(9) may be missing, which ends the task; last_height is read once.
BeginPass ==
  /\ test.at = "pass"
  /\ test' = IF Base <= Height
             THEN [at |-> "replay", next |-> Base + 1, last |-> Height]
             ELSE [test EXCEPT !.at = "stopped"]
  /\ UNCHANGED <<stored, caches, index, trusted, calls, restarts, indexed>>

\* A block is replayed; a node with an indexer is asked for the changes of a
\* transaction's recipient or of the proposer, if the block has any.
Replay ==
  /\ test.at = "replay" /\ test.next <= test.last
  /\ \/ /\ test.next > Height
        /\ test' = [test EXCEPT !.at = "failed"]
        /\ UNCHANGED calls
     \/ /\ test.next <= Height
        /\ test' = [test EXCEPT !.next = @ + 1]
        /\ UNCHANGED calls
     \/ /\ test.next <= Height /\ indexed
        /\ test' = [test EXCEPT !.at = "asking"]
        /\ Becomes(Tester, Begin("get_coin_changes", test.next))
  /\ UNCHANGED <<stored, caches, index, trusted, restarts, indexed>>

\* unwrap and assert!(coin_changes.contains(..)).
CheckChanges ==
  /\ test.at = "asking" /\ calls[Tester].at = "returned"
  /\ test' = IF calls[Tester].found /\ calls[Tester].seen >= test.next
             THEN [test EXCEPT !.at = "replay", !.next = @ + 1]
             ELSE [test EXCEPT !.at = "failed"]
  /\ UNCHANGED <<stored, caches, index, trusted, calls, restarts, indexed>>

EndPass ==
  /\ test.at = "replay" /\ test.next > test.last
  /\ test' = NoTest
  /\ UNCHANGED <<stored, caches, index, trusted, calls, restarts, indexed>>

SelfTest == BeginPass \/ Replay \/ CheckChanges \/ EndPass

(***************************************************************************)
(* The environment.                                                        *)
(***************************************************************************)
\* apply_block commits a block and its proof in one transaction.
StoreBlock ==
  /\ Height < MaxHeight
  /\ stored' = Append(stored, restarts)
  /\ UNCHANGED <<caches, index, trusted, calls, test, restarts, indexed>>

\* A power failure: the newest blocks may be gone, from the history and,
\* independently, from the index; memory is, and the options are chosen anew.
Restart ==
  /\ restarts < MaxRestarts
  /\ restarts' = restarts + 1 /\ indexed' \in BOOLEAN
  /\ \E h \in 0..Height : stored' = SubSeq(stored, 1, h)
  /\ index' \in 0..index
  /\ summary' = << >> /\ abbr' = << >>
  /\ trusted' = 0 /\ calls' = [t \in Tasks |-> NoCall] /\ test' = NoTest

(***************************************************************************)
(* The specification.                                                      *)
(***************************************************************************)
Init ==
  /\ stored = << >> /\ index = 0 /\ restarts = 0 /\ indexed \in BOOLEAN
  /\ summary = << >> /\ abbr = << >>
  /\ trusted = 0 /\ calls = [t \in Tasks |-> NoCall] /\ test = NoTest

Next ==
  \/ \E t \in Tasks \ {Tester}, op \in Ops, h \in 1..MaxHeight : Call(t, op, h)
  \/ \E t \in Tasks : Handler(t)
  \/ Trust \/ IndexBlock
  \/ SelfTest
  \/ StoreBlock \/ Restart

Spec == Init /\ [][Next]_vars

\* Tasks run, timers fire, and the indexer gets as far as the height its
\* client trusts.  No client has to call, no block has to be stored.
Fairness ==
  /\ \A t \in Tasks : WF_vars(Handler(t))
  /\ WF_vars(Trust) /\ WF_vars(index < trusted /\ IndexBlock)
  /\ WF_vars(SelfTest)

FairSpec == Spec /\ Fairness

(***************************************************************************)
(* Properties.                                                             *)
(***************************************************************************)
\* Every cached or served summary and abbreviated block carries the proof
\* stored with its own block, although header and proof are read by two
\* awaits between which the chain grows.
CachesHoldTheChain ==
  /\ \A h \in DOMAIN summary : summary[h] = ProofOf(h)
  /\ \A h \in DOMAIN abbr : h > 0 /\ abbr[h] = ProofOf(h)
  /\ \A t \in Tasks : LET call == calls[t] IN
       /\ call.at = "returned" /\ call.found
       /\ call.op \in {"get_summary", "get_abbr_block"}
       => call.proof = ProofOf(call.height)

\* An answer reflects every block stored when the call began: a summary is
\* that recent, an answer of the indexer was given by an index that had
\* reached it, and coin changes come from an index that had their block.
FreshAnswers ==
  \A t \in Tasks : LET call == calls[t] IN
    call.at = "returned" /\ call.found =>
      /\ call.op = "get_summary" => call.height >= call.since
      /\ call.op \in {"get_some_coins", "get_coin_changes"} => call.seen >= call.since
      /\ call.op = "get_coin_changes" => call.seen >= call.height

\* The self-test (src/main.rs) does not report a healthy node: no block of
\* its range is missing, no assertion about the coin changes fails.
SelfTestHolds == test.at # "failed"

\* Every call returns: no handler waits for the indexer in vain, however
\* fast the chain grows while it catches up.
CallsReturn == \A t \in Tasks : calls[t].at # "returned" ~> calls[t].at = "returned"

\* A pass of the self-test comes to its end.
PassEnds == test.at \in {"replay", "asking"} ~> test.at = "pass"
=============================================================================
