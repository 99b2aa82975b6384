---------------------------- MODULE GossipProofs ----------------------------
(***************************************************************************)
(* Proofs about Gossip, for any network, any transactions and any limit.   *)
(* The argument: a mempool is made of the state below some height of the   *)
(* chain, wherever restarts, dropped and backward rebases have put it, and *)
(* a transaction enters it only if it follows from that state; a proposal  *)
(* is the mempool of the height of the round; a block is such a proposal,  *)
(* so that no two transactions of the chain conflict; and the weight grows *)
(* in the step that lets a transaction in, from below the limit.           *)
(***************************************************************************)
EXTENDS Gossip, SumLemmas, SequenceTheorems

\* What a chain confirms below a height.
Under(blocks, h) == UNION {blocks[i] : i \in 1..(h - 1)}

\* No coin is spent by two of these transactions.
Compatible(txs) == \A t, u \in txs : t # u => Spends[t] \cap Spends[u] = {}

\* The transactions can be applied after those below.
Follows(below, txs) ==
  /\ txs \cap below = {}
  /\ \A t \in txs : Spends[t] \subseteq CoinsOf(below \cup txs)
  /\ Compatible(below \cup txs)

LedgerInv ==
  /\ chain \in Seq(SUBSET Txs) /\ Len(chain) <= MaxBlocks
  /\ height \in [Nodes -> 0..Len(chain)]
  /\ rebasing \in [Nodes -> BOOLEAN]
  /\ Compatible(Under(chain, Len(chain) + 1))

\* The weight is that of the pool, and was below the limit when one of its
\* transactions came in.
Weighed ==
  \A n \in Nodes :
    /\ IsFiniteSet(pool[n])
    /\ weight[n] = Total(pool[n], Weight)
    /\ pool[n] # {} => \E t \in pool[n] : weight[n] < WEIGHT_LIMIT + Weight[t]

MempoolTyped ==
  /\ next \in [Nodes -> 0..(Len(chain) + 1)]
  /\ pool \in [Nodes -> SUBSET Txs]
  /\ seen \in [Nodes -> SUBSET Txs]
  /\ \A n \in Nodes : pool[n] \subseteq seen[n]
  /\ weight \in [Nodes -> Nat]

PoolsFollow == \A n \in Nodes : Follows(Under(chain, next[n]), pool[n])

MempoolInv == MempoolTyped /\ Weighed /\ PoolsFollow

CallsInv ==
  /\ recent \in [Nodes -> SUBSET Txs]
  /\ calls \subseteq Calls
  /\ submits \in 0..MaxSubmits /\ restarts \in 0..MaxRestarts

Rounds == [at : {"begin", "waiting", "deciding"}, base : 0..Len(chain)]

RoundsTyped ==
  /\ round \in [Stakers -> Rounds]
  /\ proposal \in [Stakers -> SUBSET Txs]

ProposalsFollow ==
  \A s \in Stakers :
    round[s].at = "deciding" => Follows(Under(chain, round[s].base + 1), proposal[s])

RoundsInv == RoundsTyped /\ ProposalsFollow

IInv == LedgerInv /\ MempoolInv /\ CallsInv /\ RoundsInv

LEMMA Assumed ==
  /\ Routes \in [Nodes -> SUBSET Nodes] /\ Stakers \subseteq Nodes /\ Restarting \subseteq Nodes
  /\ Spends \in [Txs -> SUBSET Coins] /\ Creates \in [Txs -> SUBSET Coins]
  /\ Weight \in [Txs -> Nat \ {0}] /\ WEIGHT_LIMIT \in Nat
  /\ MaxBlocks \in Nat /\ MaxSubmits \in Nat /\ MaxRestarts \in Nat
BY GossipAssumption

LEMMA WeightOfIsTotal == \A txs : WeightOf(txs) = Total(txs, Weight)
BY Zenon DEF WeightOf, Total

LEMMA VerifiesIsFollows ==
  ASSUME NEW h, NEW txs
  PROVE  Verifies(h, txs) <=> Follows(Under(chain, h), txs)
BY Zenon DEF Verifies, Follows, Compatible, Below, Under

LEMMA PropertiesFollow == IInv => TypeOK /\ WeightAccounted /\ ProposalsVerify
<1> SUFFICES ASSUME IInv PROVE TypeOK /\ WeightAccounted /\ ProposalsVerify
  OBVIOUS
<1>1. TypeOK
  BY DEF IInv, LedgerInv, MempoolInv, MempoolTyped, CallsInv, RoundsInv, RoundsTyped, Rounds, TypeOK
<1>2. ASSUME NEW n \in Nodes, pool[n] # {}
      PROVE  weight[n] < WEIGHT_LIMIT + Max({Weight[t] : t \in pool[n]})
  <2> DEFINE W == {Weight[t] : t \in pool[n]}
  <2>1. pool[n] \subseteq Txs /\ IsFiniteSet(pool[n]) /\ weight[n] \in Nat
    BY DEF IInv, MempoolInv, MempoolTyped, Weighed
  <2>2. W \subseteq Nat /\ W # {}
    BY <1>2, <2>1, Assumed
  <2>3. IsFiniteSet(W)
    <3> DEFINE f == [t \in pool[n] |-> Weight[t]]
    <3>1. f \in Surjection(pool[n], W)
      BY DEF Surjection
    <3> QED BY <2>1, <3>1, FS_Surjection
  <2>4. PICK t \in pool[n] : weight[n] < WEIGHT_LIMIT + Weight[t]
    BY <1>2 DEF IInv, MempoolInv, Weighed
  <2>5. Weight[t] \in W /\ Weight[t] \in Nat
    BY <2>1, <2>2
  <2> HIDE DEF W
  <2>6. Max(W) \in Nat /\ Weight[t] <= Max(W)
    BY <2>2, <2>3, <2>5, MaxIs
  <2>7. weight[n] < WEIGHT_LIMIT + Max(W)
    BY <2>1, <2>4, <2>5, <2>6, Assumed
  <2> QED BY <2>7 DEF W
<1>3. WeightAccounted
  BY <1>2, WeightOfIsTotal DEF IInv, MempoolInv, Weighed, WeightAccounted
<1>4. ProposalsVerify
  BY VerifiesIsFollows DEF IInv, RoundsInv, ProposalsFollow, ProposalsVerify
<1> QED BY <1>1, <1>3, <1>4

(***************************************************************************)
(* States of the chain.                                                    *)
(***************************************************************************)
LEMMA CompatiblePart ==
  ASSUME NEW txs, Compatible(txs), NEW part, part \subseteq txs
  PROVE  Compatible(part)
BY DEF Compatible

\* The state of any height is one on which an empty mempool can be based.
LEMMA NothingFollows ==
  ASSUME LedgerInv, NEW h \in 0..(Len(chain) + 1)
  PROVE  Follows(Under(chain, h), {})
<1>1. Len(chain) \in Nat
  BY LenProperties DEF LedgerInv
<1>2. \A i \in 1..(h - 1) : i \in 1..((Len(chain) + 1) - 1)
  BY <1>1
<1>3. Under(chain, h) \subseteq Under(chain, Len(chain) + 1)
  BY <1>2 DEF Under
<1>4. Compatible(Under(chain, h) \cup {})
  BY <1>3, CompatiblePart DEF LedgerInv
<1> QED BY <1>4 DEF Follows

\* A block leaves the states below it what they are.
LEMMA UnderAppended ==
  ASSUME chain \in Seq(SUBSET Txs), NEW block \in SUBSET Txs, chain' = Append(chain, block)
  PROVE  /\ chain' \in Seq(SUBSET Txs) /\ Len(chain) \in Nat /\ Len(chain') = Len(chain) + 1
         /\ \A h \in 0..(Len(chain) + 1) : Under(chain', h) = Under(chain, h)
         /\ Under(chain', Len(chain') + 1) = Under(chain, Len(chain) + 1) \cup block
<1>1. /\ chain' \in Seq(SUBSET Txs) /\ Len(chain') = Len(chain) + 1 /\ Len(chain) \in Nat
      /\ \A i \in 1..Len(chain) : chain'[i] = chain[i]
      /\ chain'[Len(chain) + 1] = block
  BY LenProperties, AppendProperties
<1>2. ASSUME NEW h \in 0..(Len(chain) + 1)
      PROVE  Under(chain', h) = Under(chain, h)
  <2>1. \A i \in 1..(h - 1) : i \in 1..Len(chain)
    BY <1>1
  <2>2. \A i \in 1..(h - 1) : chain'[i] = chain[i]
    BY <1>1, <2>1
  <2> QED BY <2>2 DEF Under
<1>3. Under(chain', Len(chain') + 1) = Under(chain, Len(chain) + 1) \cup block
  <2>1. \A i : i \in 1..((Len(chain') + 1) - 1) <=>
               i \in 1..((Len(chain) + 1) - 1) \/ i = Len(chain) + 1
    BY <1>1
  <2>2. \A i \in 1..((Len(chain) + 1) - 1) : chain'[i] = chain[i]
    BY <1>1
  <2>3. \A t : t \in Under(chain', Len(chain') + 1) <=>
               \E i \in 1..((Len(chain') + 1) - 1) : t \in chain'[i]
    BY DEF Under
  <2>4. \A t : t \in Under(chain, Len(chain) + 1) <=>
               \E i \in 1..((Len(chain) + 1) - 1) : t \in chain[i]
    BY DEF Under
  <2>5. \A t : t \in Under(chain', Len(chain') + 1) <=>
               t \in Under(chain, Len(chain) + 1) \/ t \in block
    BY <1>1, <2>1, <2>2, <2>3, <2>4, Zenon
  <2> QED BY <2>5
<1> QED BY <1>1, <1>2, <1>3

LEMMA InitInv == Init => IInv
<1> SUFFICES ASSUME Init PROVE IInv
  OBVIOUS
<1> USE DEF Init
<1>1. Len(chain) = 0 /\ chain \in Seq(SUBSET Txs)
  BY EmptySeq
<1>2. Under(chain, Len(chain) + 1) = {}
  BY <1>1 DEF Under
<1>3. LedgerInv
  BY <1>1, <1>2, Assumed DEF LedgerInv, Compatible
<1>4. MempoolTyped
  BY <1>1 DEF MempoolTyped
<1>5. Weighed
  BY TotalEmpty, FS_EmptySet DEF Weighed
<1>6. PoolsFollow
  BY <1>1, <1>3, NothingFollows DEF PoolsFollow
<1>7. CallsInv
  BY Assumed DEF CallsInv
<1>8. RoundsInv
  BY <1>1 DEF RoundsInv, RoundsTyped, ProposalsFollow, Rounds, Between
<1> QED BY <1>3, <1>4, <1>5, <1>6, <1>7, <1>8 DEF IInv, MempoolInv

(***************************************************************************)
(* Parts a step leaves alone.                                              *)
(***************************************************************************)
LEMMA LedgerKept ==
  ASSUME LedgerInv, UNCHANGED ledger
  PROVE  LedgerInv' /\ chain' = chain
BY DEF LedgerInv, ledger

LEMMA MempoolKept ==
  ASSUME MempoolInv, UNCHANGED mempool, UNCHANGED chain
  PROVE  MempoolInv'
<1>1. UNCHANGED <<chain, next, pool, seen, weight>>
  BY DEF mempool
<1>2. MempoolTyped' /\ Weighed'
  BY <1>1 DEF MempoolInv, MempoolTyped, Weighed
<1>3. PoolsFollow'
  BY <1>1 DEF MempoolInv, PoolsFollow
<1> QED BY <1>2, <1>3 DEF MempoolInv

LEMMA RoundsKept ==
  ASSUME RoundsInv, UNCHANGED rounds, UNCHANGED chain
  PROVE  RoundsInv'
BY DEF RoundsInv, RoundsTyped, ProposalsFollow, Rounds, rounds

(***************************************************************************)
(* Handlers that leave the mempools alone.                                 *)
(***************************************************************************)
LEMMA CallsTyped ==
  ASSUME NEW c \in Calls
  PROVE  /\ c.to \in Nodes /\ c.tx \in Txs
         /\ \A stage \in {"called", "peeked", "put", "applied"} : [c EXCEPT !.at = stage] \in Calls
BY DEF Calls

LEMMA OutsideInv ==
  ASSUME IInv, UNCHANGED <<ledger, mempool, rounds>>, CallsInv'
  PROVE  IInv'
<1>1. UNCHANGED ledger /\ UNCHANGED mempool /\ UNCHANGED rounds
  OBVIOUS
<1>2. LedgerInv' /\ chain' = chain
  BY <1>1, LedgerKept DEF IInv
<1> QED BY <1>1, <1>2, MempoolKept, RoundsKept DEF IInv

LEMMA HandlerInv ==
  ASSUME IInv, NEW c \in calls, Peek(c) \/ PutRecent(c) \/ Broadcast(c)
  PROVE  IInv'
<1>1. c \in Calls /\ c.to \in Nodes /\ c.tx \in Txs /\ calls \subseteq Calls
  BY CallsTyped DEF IInv, CallsInv
<1>2. recent' \in [Nodes -> SUBSET Txs] /\ submits' \in 0..MaxSubmits /\ restarts' \in 0..MaxRestarts
  <2>1. recent \in [Nodes -> SUBSET Txs] /\ submits \in 0..MaxSubmits /\ restarts \in 0..MaxRestarts
    BY DEF IInv, CallsInv
  <2>2. [recent EXCEPT ![c.to] = @ \cup {c.tx}] \in [Nodes -> SUBSET Txs]
    BY <1>1, <2>1
  <2> QED BY <2>1, <2>2 DEF Peek, PutRecent, Broadcast
<1>3. CASE Peek(c) \/ PutRecent(c)
  <2>1. calls' \subseteq Calls
    BY <1>1, <1>3, CallsTyped DEF Peek, PutRecent, Goes, Returns
  <2> QED BY <1>2, <1>3, <2>1, OutsideInv DEF Peek, PutRecent, CallsInv
<1>4. CASE Broadcast(c)
  <2>1. PICK reached \in SUBSET Routes[c.to] :
          calls' = (calls \ {c}) \cup
            {[from |-> c.to, to |-> m, tx |-> c.tx, at |-> "called"] : m \in reached}
    BY <1>4 DEF Broadcast
  <2>2. reached \subseteq Nodes
    BY <1>1, Assumed
  <2>3. \A m \in reached : [from |-> c.to, to |-> m, tx |-> c.tx, at |-> "called"] \in Calls
    BY <1>1, <2>2 DEF Calls
  <2>4. calls' \subseteq Calls
    BY <1>1, <2>1, <2>3
  <2> QED BY <1>2, <1>4, <2>4, OutsideInv DEF Broadcast, CallsInv
<1> QED BY <1>3, <1>4

LEMMA ClientInv ==
  ASSUME IInv, NEW n \in Nodes, NEW t \in Txs, Submit(n, t) \/ Forget(n, t)
  PROVE  IInv'
<1>1. CASE Submit(n, t)
  <2>1. [from |-> Client, to |-> n, tx |-> t, at |-> "called"] \in Calls
    BY DEF Calls
  <2>2. CallsInv'
    BY <1>1, <2>1, Assumed DEF IInv, CallsInv, Submit
  <2> QED BY <1>1, <2>2, OutsideInv DEF Submit
<1>2. CASE Forget(n, t)
  <2>1. CallsInv'
    BY <1>2 DEF IInv, CallsInv, Forget
  <2> QED BY <1>2, <2>1, OutsideInv DEF Forget
<1> QED BY <1>1, <1>2

(***************************************************************************)
(* The mempool.                                                            *)
(***************************************************************************)
LEMMA MoreCoins ==
  ASSUME NEW txs, NEW more, txs \subseteq more
  PROVE  CoinsOf(txs) \subseteq CoinsOf(more)
BY DEF CoinsOf

\* A transaction that can be applied spends what exists and what nothing
\* before it spent.
LEMMA CanApplyIs ==
  ASSUME NEW n, NEW t \in Txs, CanApply(n, t), Follows(Under(chain, next[n]), pool[n])
  PROVE  /\ t \notin pool[n]
         /\ Follows(Under(chain, next[n]), pool[n] \cup {t})
<1> DEFINE B == Under(chain, next[n])
<1>1. Applied(n) = B \cup pool[n]
  BY Zenon DEF Applied, Below, Under
<1> HIDE DEF B
<1>2. t \notin B \cup pool[n]
  BY <1>1 DEF CanApply
<1>3. \A u \in B \cup pool[n] : Spends[t] \cap Spends[u] = {}
  <2> SUFFICES ASSUME NEW u \in B \cup pool[n], NEW coin \in Spends[t], coin \in Spends[u]
               PROVE  FALSE
    OBVIOUS
  <2>1. coin \in UNION {Spends[v] : v \in Applied(n)}
    BY <1>1
  <2> QED BY <2>1 DEF CanApply, Unspent
<1>4. Spends[t] \subseteq CoinsOf(B \cup pool[n])
  BY <1>1 DEF CanApply, Unspent
<1>5. Follows(B, pool[n])
  BY DEF B
<1>6. Compatible(B \cup (pool[n] \cup {t}))
  <2>1. Compatible(B \cup pool[n])
    BY <1>5 DEF Follows
  <2> QED BY <1>3, <2>1 DEF Compatible
<1>7. ASSUME NEW u \in pool[n] \cup {t}
      PROVE  Spends[u] \subseteq CoinsOf(B \cup (pool[n] \cup {t}))
  <2>1. Spends[u] \subseteq CoinsOf(B \cup pool[n])
    BY <1>4, <1>5, <1>7 DEF Follows
  <2>2. CoinsOf(B \cup pool[n]) \subseteq CoinsOf(B \cup (pool[n] \cup {t}))
    BY MoreCoins
  <2> QED BY <2>1, <2>2
<1>8. (pool[n] \cup {t}) \cap B = {}
  BY <1>2, <1>5 DEF Follows
<1>9. Follows(B, pool[n] \cup {t})
  BY <1>6, <1>7, <1>8 DEF Follows
<1> QED BY <1>2, <1>9 DEF B

LEMMA ApplyInv ==
  ASSUME IInv, NEW c \in calls, Apply(c)
  PROVE  IInv'
<1> DEFINE n == c.to
           t == c.tx
           new == weight[n] < WEIGHT_LIMIT /\ t \notin seen[n]
           ok == new /\ CanApply(n, t)
<1>1. n \in Nodes /\ t \in Txs /\ c \in Calls /\ calls \subseteq Calls
  BY CallsTyped DEF IInv, CallsInv
<1>2. /\ seen' = [seen EXCEPT ![n] = IF new THEN @ \cup {t} ELSE @]
      /\ pool' = [pool EXCEPT ![n] = IF ok THEN @ \cup {t} ELSE @]
      /\ weight' = [weight EXCEPT ![n] = IF ok THEN @ + Weight[t] ELSE @]
      /\ UNCHANGED ledger /\ UNCHANGED rounds /\ UNCHANGED <<next, recent, submits, restarts>>
  BY DEF Apply, ApplyTransaction
<1>3. CallsInv'
  <2>1. calls' \subseteq Calls
    BY <1>1, CallsTyped DEF Apply, Goes, Returns
  <2> QED BY <1>2, <2>1 DEF IInv, CallsInv
<1>4. LedgerInv' /\ chain' = chain /\ RoundsInv'
  BY <1>2, LedgerKept, RoundsKept DEF IInv
<1>5. /\ pool \in [Nodes -> SUBSET Txs] /\ seen \in [Nodes -> SUBSET Txs]
      /\ weight \in [Nodes -> Nat] /\ next' = next
      /\ \A m \in Nodes : pool[m] \subseteq seen[m]
      /\ Weight[t] \in Nat \ {0}
  BY <1>1, <1>2, Assumed DEF IInv, MempoolInv, MempoolTyped
<1> HIDE DEF n, t
<1>6. \A m \in Nodes \ {n} : pool'[m] = pool[m] /\ seen'[m] = seen[m] /\ weight'[m] = weight[m]
  BY <1>2, <1>5
<1>7. CASE ok
  <2>1. /\ pool'[n] = pool[n] \cup {t} /\ seen'[n] = seen[n] \cup {t}
        /\ weight'[n] = weight[n] + Weight[t]
    BY <1>1, <1>2, <1>5, <1>7
  <2>2. pool' \in [Nodes -> SUBSET Txs] /\ seen' \in [Nodes -> SUBSET Txs]
    BY <1>1, <1>2, <1>5
  <2>3. weight' \in [Nodes -> Nat]
    BY <1>1, <1>2, <1>5
  <2>4. \A m \in Nodes : pool'[m] \subseteq seen'[m]
    BY <1>5, <1>6, <2>1
  <2>5. MempoolTyped'
    BY <1>4, <1>5, <2>2, <2>3, <2>4 DEF IInv, MempoolInv, MempoolTyped
  <2>6. t \notin pool[n] /\ Follows(Under(chain, next[n]), pool[n] \cup {t})
    BY <1>1, <1>7, CanApplyIs DEF IInv, MempoolInv, PoolsFollow
  <2>7. IsFiniteSet(pool[n]) /\ weight[n] = Total(pool[n], Weight)
    BY <1>1 DEF IInv, MempoolInv, Weighed
  <2>8. IsFiniteSet(pool[n] \cup {t})
    BY <2>7, FS_AddElement
  <2>9. Total(pool[n] \cup {t}, Weight) = Total(pool[n], Weight) + Weight[t]
    <3>1. \A u \in pool[n] \cup {t} : Weight[u] \in Nat
      BY <1>1, <1>5, Assumed
    <3> QED BY <2>6, <2>7, <3>1, TotalAdd
  <2>10. weight[n] + Weight[t] < WEIGHT_LIMIT + Weight[t]
    BY <1>1, <1>5, <1>7, Assumed
  <2>11. Weighed'
    <3> SUFFICES ASSUME NEW m \in Nodes
                 PROVE  /\ IsFiniteSet(pool'[m]) /\ weight'[m] = Total(pool'[m], Weight)
                        /\ pool'[m] # {} =>
                             \E u \in pool'[m] : weight'[m] < WEIGHT_LIMIT + Weight[u]
      BY DEF Weighed
    <3>1. CASE m = n
      BY <2>1, <2>7, <2>8, <2>9, <2>10, <3>1
    <3>2. CASE m # n
      BY <1>6, <3>2 DEF IInv, MempoolInv, Weighed
    <3> QED BY <3>1, <3>2
  <2>12. PoolsFollow'
    <3> SUFFICES ASSUME NEW m \in Nodes PROVE Follows(Under(chain', next'[m]), pool'[m])
      BY DEF PoolsFollow
    <3>1. CASE m = n
      BY <1>4, <1>5, <2>1, <2>6, <3>1
    <3>2. CASE m # n
      BY <1>4, <1>5, <1>6, <3>2 DEF IInv, MempoolInv, PoolsFollow
    <3> QED BY <3>1, <3>2
  <2> QED BY <1>3, <1>4, <2>5, <2>11, <2>12 DEF IInv, MempoolInv
<1>8. CASE ~ok
  <2>1. pool' = pool /\ weight' = weight
    BY <1>1, <1>2, <1>5, <1>8
  <2>2. seen' \in [Nodes -> SUBSET Txs] /\ \A m \in Nodes : pool'[m] \subseteq seen'[m]
    BY <1>1, <1>2, <1>5, <2>1
  <2>3. MempoolTyped'
    BY <1>4, <1>5, <2>1, <2>2 DEF IInv, MempoolInv, MempoolTyped
  <2>4. Weighed'
    BY <2>1 DEF IInv, MempoolInv, Weighed
  <2>5. PoolsFollow'
    BY <1>4, <1>5, <2>1 DEF IInv, MempoolInv, PoolsFollow
  <2> QED BY <1>3, <1>4, <2>3, <2>4, <2>5 DEF IInv, MempoolInv
<1> QED BY <1>7, <1>8

\* An empty mempool on the state of any height: a rebase, or a new process.
LEMMA EmptiedInv ==
  ASSUME LedgerInv, MempoolInv, UNCHANGED chain, NEW n \in Nodes, NEW h \in 0..(Len(chain) + 1),
         next' = [next EXCEPT ![n] = h], pool' = [pool EXCEPT ![n] = {}],
         seen' = [seen EXCEPT ![n] = {}], weight' = [weight EXCEPT ![n] = 0]
  PROVE  MempoolInv'
<1>1. MempoolTyped
  BY DEF MempoolInv
<1>2. /\ pool'[n] = {} /\ seen'[n] = {} /\ weight'[n] = 0 /\ next'[n] = h
      /\ \A m \in Nodes \ {n} : /\ pool'[m] = pool[m] /\ seen'[m] = seen[m]
                                /\ weight'[m] = weight[m] /\ next'[m] = next[m]
  BY <1>1 DEF MempoolTyped
<1>3. /\ next' \in [Nodes -> 0..(Len(chain) + 1)]
      /\ pool' \in [Nodes -> SUBSET Txs] /\ seen' \in [Nodes -> SUBSET Txs]
      /\ weight' \in [Nodes -> Nat]
  BY <1>1 DEF MempoolTyped
<1>4. \A m \in Nodes : pool'[m] \subseteq seen'[m]
  BY <1>1, <1>2 DEF MempoolTyped
<1>5. MempoolTyped'
  BY <1>3, <1>4 DEF MempoolTyped
<1>6. Weighed'
  <2> SUFFICES ASSUME NEW m \in Nodes
               PROVE  /\ IsFiniteSet(pool'[m]) /\ weight'[m] = Total(pool'[m], Weight)
                      /\ pool'[m] # {} =>
                           \E u \in pool'[m] : weight'[m] < WEIGHT_LIMIT + Weight[u]
    BY DEF Weighed
  <2>1. CASE m = n
    BY <1>2, <2>1, FS_EmptySet, TotalEmpty
  <2>2. CASE m # n
    BY <1>2, <2>2 DEF MempoolInv, Weighed
  <2> QED BY <2>1, <2>2
<1>7. PoolsFollow'
  <2> SUFFICES ASSUME NEW m \in Nodes PROVE Follows(Under(chain', next'[m]), pool'[m])
    BY DEF PoolsFollow
  <2>1. CASE m = n
    BY <1>2, <2>1, NothingFollows
  <2>2. CASE m # n
    BY <1>2, <2>2 DEF MempoolInv, PoolsFollow
  <2> QED BY <2>1, <2>2
<1> QED BY <1>5, <1>6, <1>7 DEF MempoolInv

(***************************************************************************)
(* Rounds.                                                                 *)
(***************************************************************************)
\* A staker goes to a place of the round where nothing is decided.
LEMMA UndecidedInv ==
  ASSUME LedgerInv, RoundsInv, UNCHANGED chain, NEW s \in Stakers, NEW r \in Rounds,
         r.at # "deciding", round' = [round EXCEPT ![s] = r],
         proposal' \in {proposal, [proposal EXCEPT ![s] = {}]}
  PROVE  RoundsInv'
<1>1. RoundsTyped
  BY DEF RoundsInv
<1>2. round' \in [Stakers -> Rounds] /\ proposal' \in [Stakers -> SUBSET Txs]
  BY <1>1 DEF RoundsTyped
<1>3. /\ round'[s] = r
      /\ \A q \in Stakers \ {s} : round'[q] = round[q] /\ proposal'[q] = proposal[q]
  BY <1>1 DEF RoundsTyped
<1>4. RoundsTyped'
  BY <1>2 DEF RoundsTyped, Rounds
<1>5. ProposalsFollow'
  <2> SUFFICES ASSUME NEW q \in Stakers, round'[q].at = "deciding"
               PROVE  Follows(Under(chain', round'[q].base + 1), proposal'[q])
    BY DEF ProposalsFollow
  <2>1. q # s
    BY <1>3
  <2>2. round'[q] = round[q] /\ proposal'[q] = proposal[q]
    BY <1>3, <2>1
  <2> QED BY <2>2 DEF RoundsInv, ProposalsFollow
<1> QED BY <1>4, <1>5 DEF RoundsInv

LEMMA BetweenTyped ==
  ASSUME LedgerInv
  PROVE  Between \in Rounds /\ Between.at # "deciding"
<1>1. Len(chain) \in Nat
  BY LenProperties DEF LedgerInv
<1> QED BY <1>1 DEF Between, Rounds

LEMMA BeginRoundInv ==
  ASSUME IInv, NEW s \in Stakers, BeginRound(s)
  PROVE  IInv'
<1>1. LedgerInv' /\ chain' = chain /\ MempoolInv'
  BY LedgerKept, MempoolKept DEF IInv, BeginRound
<1>2. CallsInv'
  BY DEF IInv, CallsInv, BeginRound
<1> DEFINE r == [at |-> "waiting", base |-> height[s]]
<1>3. r \in Rounds /\ r.at # "deciding"
  BY Assumed DEF IInv, LedgerInv, Rounds
<1>4. round' = [round EXCEPT ![s] = r] /\ proposal' = proposal
  BY DEF BeginRound
<1> HIDE DEF r
<1>5. RoundsInv'
  BY <1>1, <1>3, <1>4, UndecidedInv DEF IInv
<1> QED BY <1>1, <1>2, <1>5 DEF IInv

LEMMA MismatchInv ==
  ASSUME IInv, NEW s \in Stakers, Mismatch(s)
  PROVE  IInv'
<1>1. LedgerInv' /\ chain' = chain
  BY LedgerKept DEF IInv, Mismatch
<1>2. CallsInv'
  BY DEF IInv, CallsInv, Mismatch
<1>3. round[s].base \in 0..Len(chain) /\ s \in Nodes
  BY Assumed DEF IInv, RoundsInv, RoundsTyped, Rounds
<1>4. round[s].base + 1 \in 0..(Len(chain) + 1)
  <2>1. Len(chain) \in Nat
    BY LenProperties DEF IInv, LedgerInv
  <2> QED BY <1>3, <2>1
<1>5. MempoolInv'
  BY <1>1, <1>3, <1>4, EmptiedInv DEF IInv, Mismatch, Rebase
<1>6. RoundsInv'
  BY <1>1, BetweenTyped, UndecidedInv DEF IInv, Mismatch
<1> QED BY <1>1, <1>2, <1>5, <1>6 DEF IInv

LEMMA ProposeInv ==
  ASSUME IInv, NEW s \in Stakers, Propose(s)
  PROVE  IInv'
<1>1. LedgerInv' /\ chain' = chain /\ MempoolInv'
  BY LedgerKept, MempoolKept DEF IInv, Propose
<1>2. CallsInv'
  BY DEF IInv, CallsInv, Propose
<1>3. /\ next[s] = round[s].base + 1 /\ s \in Nodes
      /\ proposal' = [proposal EXCEPT ![s] = pool[s]]
      /\ round' = [round EXCEPT ![s].at = "deciding"]
  BY Assumed DEF Propose
<1>4. round \in [Stakers -> Rounds] /\ proposal \in [Stakers -> SUBSET Txs] /\ pool[s] \in SUBSET Txs
  BY <1>3 DEF IInv, RoundsInv, RoundsTyped, MempoolInv, MempoolTyped
<1>5. /\ round'[s].base = round[s].base /\ proposal'[s] = pool[s]
      /\ \A q \in Stakers \ {s} : round'[q] = round[q] /\ proposal'[q] = proposal[q]
  BY <1>3, <1>4 DEF Rounds
<1>6. RoundsTyped'
  <2>1. round' \in [Stakers -> Rounds]
    BY <1>3, <1>4 DEF Rounds
  <2>2. proposal' \in [Stakers -> SUBSET Txs]
    BY <1>3, <1>4
  <2> QED BY <1>1, <2>1, <2>2 DEF RoundsTyped, Rounds
<1>7. ProposalsFollow'
  <2> SUFFICES ASSUME NEW q \in Stakers, round'[q].at = "deciding"
               PROVE  Follows(Under(chain', round'[q].base + 1), proposal'[q])
    BY DEF ProposalsFollow
  <2>1. CASE q = s
    <3>1. Follows(Under(chain, next[s]), pool[s])
      BY <1>3 DEF IInv, MempoolInv, PoolsFollow
    <3> QED BY <1>1, <1>3, <1>5, <2>1, <3>1
  <2>2. CASE q # s
    BY <1>1, <1>5, <2>2 DEF IInv, RoundsInv, ProposalsFollow
  <2> QED BY <2>1, <2>2
<1> QED BY <1>1, <1>2, <1>6, <1>7 DEF IInv, RoundsInv

LEMMA EndRoundInv ==
  ASSUME IInv, NEW s \in Stakers, EndRound(s)
  PROVE  IInv'
<1>1. LedgerInv' /\ chain' = chain /\ MempoolInv'
  BY LedgerKept, MempoolKept DEF IInv, EndRound
<1>2. CallsInv'
  BY DEF IInv, CallsInv, EndRound
<1>3. RoundsInv'
  BY <1>1, BetweenTyped, UndecidedInv DEF IInv, EndRound
<1> QED BY <1>1, <1>2, <1>3 DEF IInv

LEMMA SkipInv ==
  ASSUME IInv, NEW s \in Stakers, Skip(s)
  PROVE  IInv'
<1>1. chain' = chain /\ height' = height /\ rebasing' \in [Nodes -> BOOLEAN]
  BY DEF IInv, LedgerInv, Skip
<1>2. LedgerInv'
  BY <1>1 DEF IInv, LedgerInv
<1>3. MempoolInv'
  BY <1>1, MempoolKept DEF IInv, Skip
<1>4. CallsInv'
  BY DEF IInv, CallsInv, Skip
<1>5. RoundsInv'
  BY <1>1, BetweenTyped, UndecidedInv DEF IInv, Skip
<1> QED BY <1>2, <1>3, <1>4, <1>5 DEF IInv

(***************************************************************************)
(* Blocks and restarts.                                                    *)
(***************************************************************************)
LEMMA DecideBlockInv ==
  ASSUME IInv, NEW s \in Stakers, DecideBlock(s)
  PROVE  IInv'
<1>1. /\ chain \in Seq(SUBSET Txs) /\ proposal[s] \in SUBSET Txs
      /\ Len(chain) < MaxBlocks /\ chain' = Append(chain, proposal[s])
      /\ UNCHANGED <<height, rebasing, mempool, recent, calls, rounds, submits, restarts>>
  BY DEF IInv, LedgerInv, RoundsInv, RoundsTyped, DecideBlock
<1>2. /\ chain' \in Seq(SUBSET Txs) /\ Len(chain) \in Nat /\ Len(chain') = Len(chain) + 1
      /\ \A h \in 0..(Len(chain) + 1) : Under(chain', h) = Under(chain, h)
      /\ Under(chain', Len(chain') + 1) = Under(chain, Len(chain) + 1) \cup proposal[s]
  BY <1>1, UnderAppended
<1>3. LedgerInv'
  <2>1. Follows(Under(chain, Len(chain) + 1), proposal[s])
    BY VerifiesIsFollows DEF DecideBlock
  <2>2. Compatible(Under(chain', Len(chain') + 1))
    BY <1>2, <2>1 DEF Follows
  <2>3. height' \in [Nodes -> 0..Len(chain')]
    BY <1>1, <1>2 DEF IInv, LedgerInv
  <2>4. Len(chain') <= MaxBlocks
    BY <1>1, <1>2, Assumed
  <2> QED BY <1>1, <1>2, <2>2, <2>3, <2>4 DEF IInv, LedgerInv
<1>4. UNCHANGED <<next, pool, seen, weight, round, proposal>>
  BY <1>1 DEF mempool, rounds
<1>5. MempoolInv'
  <2>1. next' \in [Nodes -> 0..(Len(chain') + 1)]
    BY <1>2, <1>4 DEF IInv, MempoolInv, MempoolTyped
  <2>2. MempoolTyped'
    BY <1>4, <2>1 DEF IInv, MempoolInv, MempoolTyped
  <2>3. Weighed'
    BY <1>4 DEF IInv, MempoolInv, Weighed
  <2>4. \A n \in Nodes : Under(chain', next[n]) = Under(chain, next[n])
    BY <1>2 DEF IInv, MempoolInv, MempoolTyped
  <2>5. PoolsFollow'
    BY <1>4, <2>4 DEF IInv, MempoolInv, PoolsFollow
  <2> QED BY <2>2, <2>3, <2>5 DEF MempoolInv
<1>6. CallsInv'
  BY <1>1 DEF IInv, CallsInv
<1>7. RoundsInv'
  <2>1. \A q \in Stakers : round[q].base \in 0..Len(chain)
    BY DEF IInv, RoundsInv, RoundsTyped, Rounds
  <2>2. \A q \in Stakers : Under(chain', round[q].base + 1) = Under(chain, round[q].base + 1)
    BY <1>2, <2>1
  <2>3. ProposalsFollow'
    BY <1>4, <2>2 DEF IInv, RoundsInv, ProposalsFollow
  <2>4. 0..Len(chain) \subseteq 0..Len(chain')
    BY <1>2
  <2>5. Rounds \subseteq Rounds'
    BY <2>4 DEF Rounds
  <2>6. RoundsTyped'
    BY <1>4, <2>5 DEF IInv, RoundsInv, RoundsTyped
  <2> QED BY <2>3, <2>6 DEF RoundsInv
<1> QED BY <1>3, <1>5, <1>6, <1>7 DEF IInv

LEMMA CommitInv ==
  ASSUME IInv, NEW n \in Nodes, Commit(n)
  PROVE  IInv'
<1>1. chain' = chain /\ MempoolInv' /\ RoundsInv'
  BY MempoolKept, RoundsKept DEF IInv, Commit
<1>2. CallsInv'
  BY DEF IInv, CallsInv, Commit
<1>3. Len(chain) \in Nat /\ height \in [Nodes -> 0..Len(chain)] /\ rebasing \in [Nodes -> BOOLEAN]
  BY LenProperties DEF IInv, LedgerInv
<1>4. height' \in [Nodes -> 0..Len(chain)] /\ rebasing' \in [Nodes -> BOOLEAN]
  BY <1>3 DEF Commit
<1>5. LedgerInv'
  BY <1>1, <1>4 DEF IInv, LedgerInv
<1> QED BY <1>1, <1>2, <1>5 DEF IInv

LEMMA RebaseNextInv ==
  ASSUME IInv, NEW n \in Nodes, RebaseNext(n)
  PROVE  IInv'
<1>1. chain' = chain /\ RoundsInv'
  BY RoundsKept DEF IInv, RebaseNext
<1>2. CallsInv'
  BY DEF IInv, CallsInv, RebaseNext
<1>3. LedgerInv'
  <2>1. rebasing' \in [Nodes -> BOOLEAN] /\ height' = height
    BY DEF IInv, LedgerInv, RebaseNext
  <2> QED BY <1>1, <2>1 DEF IInv, LedgerInv
<1>4. height[n] + 1 \in 0..(Len(chain) + 1)
  <2>1. Len(chain) \in Nat /\ height[n] \in 0..Len(chain)
    BY LenProperties DEF IInv, LedgerInv
  <2> QED BY <2>1
<1>5. MempoolInv'
  BY <1>1, <1>4, EmptiedInv DEF IInv, RebaseNext, Rebase
<1> QED BY <1>1, <1>2, <1>3, <1>5 DEF IInv

LEMMA RestartInv ==
  ASSUME IInv, NEW n \in Nodes, Restart(n)
  PROVE  IInv'
<1>1. /\ chain' = chain /\ height' = height /\ submits' = submits
      /\ restarts' = restarts + 1 /\ restarts < MaxRestarts
      /\ calls' \subseteq calls
  BY DEF Restart
<1>2. LedgerInv'
  <2>1. rebasing' \in [Nodes -> BOOLEAN]
    BY DEF IInv, LedgerInv, Restart
  <2> QED BY <1>1, <2>1 DEF IInv, LedgerInv
<1>3. CallsInv'
  <2>1. recent' \in [Nodes -> SUBSET Txs]
    BY DEF IInv, CallsInv, Restart
  <2>2. restarts' \in 0..MaxRestarts
    BY <1>1, Assumed DEF IInv, CallsInv
  <2> QED BY <1>1, <2>1, <2>2 DEF IInv, CallsInv
<1>4. 0 \in 0..(Len(chain) + 1)
  <2>1. Len(chain) \in Nat
    BY LenProperties DEF IInv, LedgerInv
  <2> QED BY <2>1
<1>5. MempoolInv'
  BY <1>1, <1>4, EmptiedInv DEF IInv, Restart
<1>6. RoundsInv'
  <2>1. /\ round' = [s \in Stakers |-> IF s = n THEN Between ELSE round[s]]
        /\ proposal' = [s \in Stakers |-> IF s = n THEN {} ELSE proposal[s]]
    BY DEF Restart
  <2>2. RoundsTyped'
    <3>1. Rounds' = Rounds /\ Between \in Rounds
      BY <1>1, BetweenTyped DEF IInv, Rounds
    <3>2. round' \in [Stakers -> Rounds]
      BY <2>1, <3>1 DEF IInv, RoundsInv, RoundsTyped
    <3>3. proposal' \in [Stakers -> SUBSET Txs]
      BY <2>1 DEF IInv, RoundsInv, RoundsTyped
    <3> QED BY <3>1, <3>2, <3>3 DEF RoundsTyped
  <2>3. ProposalsFollow'
    <3> SUFFICES ASSUME NEW q \in Stakers, round'[q].at = "deciding"
                 PROVE  Follows(Under(chain', round'[q].base + 1), proposal'[q])
      BY DEF ProposalsFollow
    <3>1. q # n
      BY <2>1 DEF Between
    <3>2. round'[q] = round[q] /\ proposal'[q] = proposal[q]
      BY <2>1, <3>1
    <3> QED BY <1>1, <3>2 DEF IInv, RoundsInv, ProposalsFollow
  <2> QED BY <2>2, <2>3 DEF RoundsInv
<1> QED BY <1>2, <1>3, <1>5, <1>6 DEF IInv

LEMMA StutterInv ==
  ASSUME IInv, UNCHANGED vars
  PROVE  IInv'
<1>1. UNCHANGED <<ledger, mempool, rounds>> /\ UNCHANGED <<recent, calls, submits, restarts>>
  BY DEF vars
<1>2. CallsInv'
  BY <1>1 DEF IInv, CallsInv
<1> QED BY <1>1, <1>2, OutsideInv

LEMMA NextInv == IInv /\ [Next]_vars => IInv'
<1> SUFFICES ASSUME IInv, [Next]_vars PROVE IInv'
  OBVIOUS
<1>1. CASE \E n \in Nodes, t \in Txs : Submit(n, t) \/ Forget(n, t)
  BY <1>1, ClientInv
<1>2. CASE \E n \in Nodes : Commit(n) \/ RebaseNext(n)
  BY <1>2, CommitInv, RebaseNextInv
<1>7. CASE \E n \in Restarting : Restart(n)
  BY <1>7, Assumed, RestartInv
<1>3. CASE \E s \in Stakers : BeginRound(s) \/ Mismatch(s) \/ Propose(s)
  BY <1>3, BeginRoundInv, MismatchInv, ProposeInv
<1>4. CASE \E s \in Stakers : DecideBlock(s) \/ EndRound(s) \/ Skip(s)
  BY <1>4, DecideBlockInv, EndRoundInv, SkipInv
<1>5. CASE \E c \in calls : Handle(c)
  BY <1>5, HandlerInv, ApplyInv DEF Handle
<1>6. CASE UNCHANGED vars
  BY <1>6, StutterInv
<1> QED BY <1>1, <1>2, <1>3, <1>4, <1>5, <1>6, <1>7 DEF Next

\* The invariant of every state of the network (src/storage/mempool.rs),
\* restarts and rebases in either direction included.
THEOREM Invariance == Spec => []IInv
BY InitInv, NextInv, PTL DEF Spec

\* The pools, the calls, the rounds and the chain have their types; what is
\* pooled has been seen.
THEOREM TypeCorrect == Spec => []TypeOK
BY Invariance, PropertiesFollow, PTL

\* next_weight is the weight of the provisional state and passes the limit by
\* at most one transaction (Mempool::apply_transaction).
THEOREM WeightSafety == Spec => []WeightAccounted
BY Invariance, PropertiesFollow, PTL

\* A proposal that passes the height test of the round loop
\* (staker.rs:134-139) verifies after the chain it is made for, wherever
\* restarts, commits and rebases have left the mempool.
THEOREM ProposalSafety == Spec => []ProposalsVerify
BY Invariance, PropertiesFollow, PTL
=============================================================================
