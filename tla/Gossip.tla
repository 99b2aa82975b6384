------------------------------- MODULE Gossip -------------------------------
(***************************************************************************)
(* Transactions between nodes: the send_tx handler (src/node.rs) and the   *)
(* Mempool it fills (src/storage/mempool.rs) on every node of a network,   *)
(* the proposals stakers make of it (src/staker.rs), and what commits and  *)
(* restarts do to it.  Handlers of one node run concurrently and meet only *)
(* at its two locks, the one of `recent` and the one of the mempool.       *)
(*                                                                         *)
(* melstf is external: a transaction can be applied when the coins it      *)
(* spends exist and are unspent.  Which of the proposals is decided is     *)
(* external too.  Inside apply_block only the commit and the rebase are    *)
(* told apart here; modules Storage and StakerRound have the rest.         *)
(***************************************************************************)
EXTENDS Integers, Sequences, FiniteSetsExt

CONSTANTS
  Nodes, Routes,       \* Routes[n]: the (at most 16) neighbours of n
  Stakers,             \* the nodes that run the round loop
  Txs, Coins,
  InitialCoins,        \* coins of the genesis state
  Spends, Creates,     \* the coins a transaction spends and creates
  Weight,              \* covenant weight of a transaction
  WEIGHT_LIMIT,
  Client,              \* a wallet, as the sender of a call
  MaxBlocks,           \* bound on decided blocks
  MaxSubmits,          \* bound on the calls of clients
  Restarting,          \* the nodes that may restart
  MaxRestarts          \* bound on their restarts

ASSUME GossipAssumption ==
  /\ Routes \in [Nodes -> SUBSET Nodes] /\ Stakers \subseteq Nodes
  /\ Restarting \subseteq Nodes
  /\ Spends \in [Txs -> SUBSET Coins] /\ Creates \in [Txs -> SUBSET Coins]
  /\ InitialCoins \subseteq Coins
  /\ Weight \in [Txs -> Nat \ {0}] /\ WEIGHT_LIMIT \in Nat
  /\ MaxBlocks \in Nat /\ MaxSubmits \in Nat /\ MaxRestarts \in Nat
  /\ Client \notin Nodes

VARIABLES
  chain,      \* the decided blocks, as sets of transactions
  height,     \* how many of them each node has in its history
  rebasing,   \* an apply_block has committed and not yet rebased the mempool
  next,       \* the height of a node's provisional_state
  pool,       \* the transactions in it
  seen,       \* txx_in_state
  weight,     \* next_weight
  recent,     \* transactions a node has put in `recent` within 10 seconds
  calls,      \* the send_tx calls under way
  round,      \* where the round loop is, and the height of base_state
  proposal,   \* the transactions of my_proposal
  submits, restarts

mempool == <<next, pool, seen, weight>>
ledger == <<chain, height, rebasing>>
rounds == <<round, proposal>>
vars == <<ledger, mempool, recent, calls, rounds, submits, restarts>>

Calls == [from : Nodes \cup {Client}, to : Nodes, tx : Txs,
          at : {"called", "peeked", "put", "applied"}]

WeightOf(txs) == MapThenSumSet(LAMBDA t : Weight[t], txs)

\* What is in the provisional state is in txx_in_state.
TypeOK ==
  /\ chain \in Seq(SUBSET Txs) /\ Len(chain) <= MaxBlocks
  /\ height \in [Nodes -> 0..Len(chain)]
  /\ rebasing \in [Nodes -> BOOLEAN]
  /\ next \in [Nodes -> 0..(Len(chain) + 1)]
  /\ pool \in [Nodes -> SUBSET Txs]
  /\ seen \in [Nodes -> SUBSET Txs]
  /\ \A n \in Nodes : pool[n] \subseteq seen[n]
  /\ weight \in [Nodes -> Nat]
  /\ recent \in [Nodes -> SUBSET Txs]
  /\ calls \subseteq Calls
  /\ round \in [Stakers -> [at : {"begin", "waiting", "deciding"}, base : 0..Len(chain)]]
  /\ proposal \in [Stakers -> SUBSET Txs]
  /\ submits \in 0..MaxSubmits /\ restarts \in 0..MaxRestarts

(***************************************************************************)
(* States of the chain.                                                    *)
(***************************************************************************)
\* What get_state finds confirmed below a height.
Below(h) == UNION {chain[i] : i \in 1..(h - 1)}

\* The coins that exist after these transactions.
CoinsOf(txs) == InitialCoins \cup UNION {Creates[t] : t \in txs}

\* SealedState::apply_block on the state below h accepts these transactions.
Verifies(h, txs) ==
  /\ txs \cap Below(h) = {}
  /\ \A t \in txs : Spends[t] \subseteq CoinsOf(Below(h) \cup txs)
  /\ \A t, u \in Below(h) \cup txs : t # u => Spends[t] \cap Spends[u] = {}

(***************************************************************************)
(* Mempool::apply_transaction and Mempool::rebase.                         *)
(***************************************************************************)
Applied(n) == Below(next[n]) \cup pool[n]

Unspent(n) == CoinsOf(Applied(n)) \ UNION {Spends[t] : t \in Applied(n)}

\* UnsealedState::apply_tx succeeds.
CanApply(n, t) == t \notin Applied(n) /\ Spends[t] \subseteq Unspent(n)

\* Mutant: the weight of a transaction is added before it is applied.
ApplyTransactionEager(n, t) ==
  LET new == weight[n] < WEIGHT_LIMIT /\ t \notin seen[n]
      ok  == new /\ CanApply(n, t)
  IN  /\ seen' = [seen EXCEPT ![n] = IF new THEN @ \cup {t} ELSE @]
      /\ pool' = [pool EXCEPT ![n] = IF ok THEN @ \cup {t} ELSE @]
      /\ weight' = [weight EXCEPT ![n] = IF new THEN @ + Weight[t] ELSE @]

\* The hash is inserted before the transaction is tried, and stays.
ApplyTransaction(n, t) ==
  LET new == weight[n] < WEIGHT_LIMIT /\ t \notin seen[n]
      ok  == new /\ CanApply(n, t)
  IN  /\ seen' = [seen EXCEPT ![n] = IF new THEN @ \cup {t} ELSE @]
      /\ pool' = [pool EXCEPT ![n] = IF ok THEN @ \cup {t} ELSE @]
      /\ weight' = [weight EXCEPT ![n] = IF ok THEN @ + Weight[t] ELSE @]

\* Mutant: transactions the new block left out are kept.
RebaseKeeping(n, h) ==
  /\ next' = [next EXCEPT ![n] = h + 1]
  /\ pool' = [pool EXCEPT ![n] = @ \ Below(h + 1)]
  /\ seen' = [seen EXCEPT ![n] = {}]
  /\ weight' = [weight EXCEPT ![n] = WeightOf(pool'[n])]

\* On the state of height h; everything unconfirmed is thrown away.
Rebase(n, h) ==
  /\ next' = [next EXCEPT ![n] = h + 1]
  /\ pool' = [pool EXCEPT ![n] = {}]
  /\ seen' = [seen EXCEPT ![n] = {}]
  /\ weight' = [weight EXCEPT ![n] = 0]

(***************************************************************************)
(* send_tx, one action per lock it takes.                                  *)
(***************************************************************************)
Goes(c, stage) == calls' = (calls \ {c}) \cup {[c EXCEPT !.at = stage]}
Returns(c) == calls' = calls \ {c}

Submit(n, t) ==
  /\ submits < MaxSubmits
  /\ submits' = submits + 1
  /\ calls' = calls \cup {[from |-> Client, to |-> n, tx |-> t, at |-> "called"]}
  /\ UNCHANGED <<ledger, mempool, recent, rounds, restarts>>

\* RecentlySeen, or on.
Peek(c) ==
  /\ c \in calls /\ c.at = "called"
  /\ IF c.tx \in recent[c.to] THEN Returns(c) ELSE Goes(c, "peeked")
  /\ UNCHANGED <<ledger, mempool, recent, rounds, submits, restarts>>

PutRecent(c) ==
  /\ c \in calls /\ c.at = "peeked"
  /\ recent' = [recent EXCEPT ![c.to] = @ \cup {c.tx}]
  /\ Goes(c, "put")
  /\ UNCHANGED <<ledger, mempool, rounds, submits, restarts>>

\* Mutant: an error of apply_transaction is logged and not returned.
ApplyCarryingOn(c) ==
  /\ c \in calls /\ c.at = "put"
  /\ ApplyTransaction(c.to, c.tx)
  /\ Goes(c, "applied")
  /\ UNCHANGED <<ledger, next, recent, rounds, submits, restarts>>

\* Full, duplicate and invalid transactions end the call.
Apply(c) ==
  /\ c \in calls /\ c.at = "put"
  /\ ApplyTransaction(c.to, c.tx)
  /\ IF pool' = pool THEN Returns(c) ELSE Goes(c, "applied")
  /\ UNCHANGED <<ledger, next, recent, rounds, submits, restarts>>

\* Detached calls to the neighbours, some of which may never arrive.
Broadcast(c) ==
  /\ c \in calls /\ c.at = "applied"
  /\ \E reached \in SUBSET Routes[c.to] :
       calls' = (calls \ {c}) \cup
         {[from |-> c.to, to |-> m, tx |-> c.tx, at |-> "called"] : m \in reached}
  /\ UNCHANGED <<ledger, mempool, recent, rounds, submits, restarts>>

\* Ten seconds have passed since the put, or the LRU cache is full.
Forget(n, t) ==
  /\ t \in recent[n]
  /\ recent' = [recent EXCEPT ![n] = @ \ {t}]
  /\ UNCHANGED <<ledger, mempool, calls, rounds, submits, restarts>>

(***************************************************************************)
(* Rounds of a staker.                                                     *)
(***************************************************************************)
Between == [at |-> "begin", base |-> 0]

\* highest_state is read, and the wait for the time of the block begins.
BeginRound(s) ==
  /\ round[s].at = "begin"
  /\ round' = [round EXCEPT ![s] = [at |-> "waiting", base |-> height[s]]]
  /\ UNCHANGED <<ledger, mempool, recent, calls, proposal, submits, restarts>>

\* The mempool is not at the height of the round, and is rebased on the state
\* the round began with: back, if a block came in meanwhile.
Mismatch(s) ==
  /\ round[s].at = "waiting" /\ next[s] # round[s].base + 1
  /\ Rebase(s, round[s].base)
  /\ round' = [round EXCEPT ![s] = Between]
  /\ UNCHANGED <<ledger, recent, calls, proposal, submits, restarts>>

\* Mutant: the height is not looked at.
ProposeAnyHeight(s) ==
  /\ round[s].at = "waiting"
  /\ proposal' = [proposal EXCEPT ![s] = pool[s]]
  /\ round' = [round EXCEPT ![s].at = "deciding"]
  /\ UNCHANGED <<ledger, mempool, recent, calls, submits, restarts>>

Propose(s) ==
  /\ round[s].at = "waiting" /\ next[s] = round[s].base + 1
  /\ proposal' = [proposal EXCEPT ![s] = pool[s]]
  /\ round' = [round EXCEPT ![s].at = "deciding"]
  /\ UNCHANGED <<ledger, mempool, recent, calls, submits, restarts>>

\* Streamlette decides on a proposal that verify_proposal accepts.
DecideBlock(s) ==
  /\ round[s].at = "deciding" /\ round[s].base = Len(chain)
  /\ Len(chain) < MaxBlocks
  /\ Verifies(Len(chain) + 1, proposal[s])
  /\ chain' = Append(chain, proposal[s])
  /\ UNCHANGED <<height, rebasing, mempool, recent, calls, rounds, submits, restarts>>

\* decide_round has come to an end.
EndRound(s) ==
  /\ round[s].at = "deciding" /\ round[s].base < Len(chain)
  /\ round' = [round EXCEPT ![s] = Between]
  /\ proposal' = [proposal EXCEPT ![s] = {}]
  /\ UNCHANGED <<ledger, mempool, recent, calls, submits, restarts>>

\* skip_round sees the block first and drops decide_round: with it, when the
\* own apply_block has just committed, its rebase.
Skip(s) ==
  /\ round[s].at # "begin" /\ round[s].base < height[s]
  /\ round' = [round EXCEPT ![s] = Between]
  /\ proposal' = [proposal EXCEPT ![s] = {}]
  /\ \/ UNCHANGED rebasing
     \/ round[s].at = "deciding" /\ rebasing' = [rebasing EXCEPT ![s] = FALSE]
  /\ UNCHANGED <<chain, height, mempool, recent, calls, submits, restarts>>

(***************************************************************************)
(* apply_block, called by the round or by blksync, and restarts.           *)
(***************************************************************************)
\* The transaction commits; the lock stays taken.
Commit(n) ==
  /\ height[n] < Len(chain) /\ ~rebasing[n]
  /\ height' = [height EXCEPT ![n] = @ + 1]
  /\ rebasing' = [rebasing EXCEPT ![n] = TRUE]
  /\ UNCHANGED <<chain, mempool, recent, calls, rounds, submits, restarts>>

\* The highest state has been read again.
RebaseNext(n) ==
  /\ rebasing[n]
  /\ rebasing' = [rebasing EXCEPT ![n] = FALSE]
  /\ Rebase(n, height[n])
  /\ UNCHANGED <<chain, height, recent, calls, rounds, submits, restarts>>

\* The process dies and Storage::open makes a mempool of the genesis state;
\* calls that have not reached another node are lost.
Restart(n) ==
  /\ restarts < MaxRestarts
  /\ restarts' = restarts + 1
  /\ rebasing' = [rebasing EXCEPT ![n] = FALSE]
  /\ next' = [next EXCEPT ![n] = 0]
  /\ pool' = [pool EXCEPT ![n] = {}]
  /\ seen' = [seen EXCEPT ![n] = {}]
  /\ weight' = [weight EXCEPT ![n] = 0]
  /\ recent' = [recent EXCEPT ![n] = {}]
  /\ calls' = {c \in calls : c.to # n}
  /\ round' = [s \in Stakers |-> IF s = n THEN Between ELSE round[s]]
  /\ proposal' = [s \in Stakers |-> IF s = n THEN {} ELSE proposal[s]]
  /\ UNCHANGED <<chain, height, submits>>

(***************************************************************************)
(* The specification.                                                      *)
(***************************************************************************)
Init ==
  /\ chain = <<>>
  /\ height = [n \in Nodes |-> 0] /\ rebasing = [n \in Nodes |-> FALSE]
  /\ next = [n \in Nodes |-> 0]
  /\ pool = [n \in Nodes |-> {}] /\ seen = [n \in Nodes |-> {}]
  /\ weight = [n \in Nodes |-> 0]
  /\ recent = [n \in Nodes |-> {}]
  /\ calls = {}
  /\ round = [s \in Stakers |-> Between]
  /\ proposal = [s \in Stakers |-> {}]
  /\ submits = 0 /\ restarts = 0

Handle(c) == Peek(c) \/ PutRecent(c) \/ Apply(c) \/ Broadcast(c)

Next ==
  \/ \E n \in Nodes, t \in Txs : Submit(n, t) \/ Forget(n, t)
  \/ \E n \in Nodes : Commit(n) \/ RebaseNext(n)
  \/ \E n \in Restarting : Restart(n)
  \/ \E s \in Stakers :
       \/ BeginRound(s) \/ Mismatch(s) \/ Propose(s)
       \/ DecideBlock(s) \/ EndRound(s) \/ Skip(s)
  \/ \E c \in calls : Handle(c)

Spec == Init /\ [][Next]_vars

\* Every handler is scheduled; clients, clocks and blocks owe nothing.
FairSpec == Spec /\ WF_vars(\E c \in calls : Handle(c))

(***************************************************************************)
(* Properties.                                                             *)
(***************************************************************************)
\* next_weight is the weight of the provisional state, whatever handlers
\* and rebases do between each other's steps, and overshoots the limit by
\* at most the one transaction that crossed it.
WeightAccounted ==
  \A n \in Nodes :
    /\ weight[n] = WeightOf(pool[n])
    /\ pool[n] # {} => weight[n] < WEIGHT_LIMIT + Max({Weight[t] : t \in pool[n]})

\* A proposal that passes the height test is one that every staker of the
\* same height accepts (staker.rs:134-139, 277-283), although a mempool may
\* be on the genesis state after a restart, behind the chain after a dropped
\* rebase, rebased back, or filled between a commit and its rebase.
ProposalsVerify ==
  \A s \in Stakers :
    round[s].at = "deciding" => Verifies(round[s].base + 1, proposal[s])

\* The flood of a transaction ends: handlers stop calling each other once
\* clients and blocks do, although every node forgets what it has seen.
GossipEnds == <>[](calls = {})
=============================================================================
