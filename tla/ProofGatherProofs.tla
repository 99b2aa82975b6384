------------------------- MODULE ProofGatherProofs -------------------------
(***************************************************************************)
(* Proofs about ProofGather, for any stakes, any stakers, any height and   *)
(* any answers.  The argument: an entry that verifies gets into a map only *)
(* when its owner decides, and everything that copies, merges or commits a *)
(* map makes up none; apply_block accepts a map for the entries that       *)
(* verify, and what is enough stays so when more stakers decide, by        *)
(* induction along the stakes tree.  Where all entries verify, what        *)
(* get_proof finds sufficient is a quorum of deciders, and apply_block     *)
(* does not refuse it: both follow from the two vote counts.               *)
(***************************************************************************)
EXTENDS ProofGather, SumLemmas, SequenceTheorems

(***************************************************************************)
(* Votes.                                                                  *)
(***************************************************************************)
\* The two weights the sums are of.
Stake(docs) == [d \in docs |-> d.syms_staked]

Votes(docs, epoch, keys) == [k \in keys |-> votes(docs, epoch, k)]

\* The votes of these keys together.
KeyVotes(docs, epoch, keys) == MapThenSumSet(LAMBDA k : votes(docs, epoch, k), keys)

LEMMA Thresholds ==
  ASSUME NEW docs, NEW keys, NEW epoch
  PROVE  /\ GatheredEnough(docs, keys, epoch)
              <=> KeyVotes(docs, epoch, keys) > (total_votes(docs, epoch) * 2) \div 3
         /\ IsQuorum(docs, keys, epoch)
              <=> 3 * KeyVotes(docs, epoch, keys) > 2 * total_votes(docs, epoch)
BY Zenon DEF GatheredEnough, IsQuorum, KeyVotes

LEMMA Assumed ==
  /\ EpochLength \in Nat \ {0} /\ Base \in Nat /\ MaxRestarts \in Nat /\ MaxForeign \in Nat
  /\ Online \subseteq Keys
  /\ Docs \subseteq StakeDocs
  /\ \A d \in StakeDocs : d.pubkey \in Keys /\ d.syms_staked \in Nat
  /\ DocOrder \in Seq(StakeDocs) /\ ToSet(DocOrder) = Docs
  /\ Len(DocOrder) = Cardinality(Docs)
BY StakesAssumption, ProofGatherAssumption

LEMMA DocsFinite == IsFiniteSet(Docs)
<1>1. DOMAIN DocOrder = 1..Len(DocOrder) /\ Len(DocOrder) \in Nat
  BY Assumed
<1>2. IsFiniteSet(DOMAIN DocOrder)
  BY <1>1, FS_Interval
<1>3. DocOrder \in Surjection(DOMAIN DocOrder, Docs)
  BY Assumed, <1>1 DEF ToSet, Surjection
<1> QED BY <1>2, <1>3, FS_Surjection

\* A sum written with an operator is one written with a function.
LEMMA StakeTotal ==
  ASSUME NEW docs, IsFiniteSet(docs), NEW S, S \subseteq docs
  PROVE  MapThenSumSet(LAMBDA d : d.syms_staked, S) = Total(S, Stake(docs))
<1> DEFINE w == Stake(docs)
           iter == CHOOSE g : g = [s \in SUBSET S |->
                     IF s = {} THEN 0 ELSE Pick(s).syms_staked + g[s \ {Pick(s)}]]
<1>1. MapThenSumSet(LAMBDA d : d.syms_staked, S) = iter[S]
  BY Zenon DEF MapThenSumSet, MapThenFoldSet, Pick
<1>2. IsFiniteSet(S)
  BY FS_Subset
<1>3. PICK f : Sums(f, S, w)
  BY <1>2, SumsExist
<1>4. ASSUME NEW s \in SUBSET S, s # {} PROVE w[Pick(s)] = Pick(s).syms_staked
  <2>1. Pick(s) \in docs
    BY <1>4, PickIn
  <2> QED BY <2>1 DEF Stake
<1>5. ASSUME NEW g
      PROVE  Sums(g, S, w) <=> g = [s \in SUBSET S |->
                     IF s = {} THEN 0 ELSE Pick(s).syms_staked + g[s \ {Pick(s)}]]
  <2>1. \A s \in SUBSET S :
           Step(g, s, w) = IF s = {} THEN 0 ELSE Pick(s).syms_staked + g[s \ {Pick(s)}]
    BY <1>4, Zenon DEF Step
  <2>2. [s \in SUBSET S |-> Step(g, s, w)] = [s \in SUBSET S |->
           IF s = {} THEN 0 ELSE Pick(s).syms_staked + g[s \ {Pick(s)}]]
    BY <2>1, Zenon
  <2> QED BY <2>2, Zenon DEF Sums
<1>6. Sums(iter, S, w)
  BY <1>3, <1>5, Zenon
<1> HIDE DEF iter, w
<1>7. Total(S, w) = iter[S]
  BY <1>2, <1>6, TotalIs
<1> QED BY <1>1, <1>7 DEF w

LEMMA VotesTotal ==
  ASSUME NEW docs, NEW epoch, NEW keys, IsFiniteSet(keys), NEW S, S \subseteq keys
  PROVE  KeyVotes(docs, epoch, S) = Total(S, Votes(docs, epoch, keys))
<1> DEFINE w == Votes(docs, epoch, keys)
           iter == CHOOSE g : g = [s \in SUBSET S |->
                     IF s = {} THEN 0 ELSE votes(docs, epoch, Pick(s)) + g[s \ {Pick(s)}]]
<1>1. KeyVotes(docs, epoch, S) = iter[S]
  BY Zenon DEF KeyVotes, MapThenSumSet, MapThenFoldSet, Pick
<1>2. IsFiniteSet(S)
  BY FS_Subset
<1>3. PICK f : Sums(f, S, w)
  BY <1>2, SumsExist
<1>4. ASSUME NEW s \in SUBSET S, s # {} PROVE w[Pick(s)] = votes(docs, epoch, Pick(s))
  <2>1. Pick(s) \in keys
    BY <1>4, PickIn
  <2> QED BY <2>1, Zenon DEF Votes
<1>5. ASSUME NEW g
      PROVE  Sums(g, S, w) <=> g = [s \in SUBSET S |->
                     IF s = {} THEN 0 ELSE votes(docs, epoch, Pick(s)) + g[s \ {Pick(s)}]]
  <2>1. \A s \in SUBSET S :
           Step(g, s, w) = IF s = {} THEN 0 ELSE votes(docs, epoch, Pick(s)) + g[s \ {Pick(s)}]
    BY <1>4, Zenon DEF Step
  <2>2. [s \in SUBSET S |-> Step(g, s, w)] = [s \in SUBSET S |->
           IF s = {} THEN 0 ELSE votes(docs, epoch, Pick(s)) + g[s \ {Pick(s)}]]
    BY <2>1, Zenon
  <2> QED BY <2>2, Zenon DEF Sums
<1>6. Sums(iter, S, w)
  BY <1>3, <1>5, Zenon
<1> HIDE DEF iter, w
<1>7. Total(S, w) = iter[S]
  BY <1>2, <1>6, TotalIs
<1> QED BY <1>1, <1>7 DEF w

\* Stakes and votes are numbers.
LEMMA VotesNat ==
  ASSUME NEW docs, IsFiniteSet(docs), \A d \in docs : d.syms_staked \in Nat, NEW epoch
  PROVE  /\ \A k : votes(docs, epoch, k) \in Nat
         /\ total_votes(docs, epoch) \in Nat
         /\ \A keys : IsFiniteSet(keys) => KeyVotes(docs, epoch, keys) \in Nat
<1>1. ASSUME NEW S, S \subseteq docs
      PROVE  MapThenSumSet(LAMBDA d : d.syms_staked, S) \in Nat
  <2>1. IsFiniteSet(S)
    BY <1>1, FS_Subset
  <2>2. \A d \in S : Stake(docs)[d] \in Nat
    BY <1>1 DEF Stake
  <2>3. Total(S, Stake(docs)) \in Nat
    BY <2>1, <2>2, TotalNat
  <2>4. MapThenSumSet(LAMBDA d : d.syms_staked, S) = Total(S, Stake(docs))
    BY <1>1, StakeTotal
  <2> QED BY <2>3, <2>4, Zenon
<1>2. ASSUME NEW k PROVE votes(docs, epoch, k) \in Nat
  <2> DEFINE S == {d \in docs : d.pubkey = k /\ Active(d, epoch)}
  <2>1. S \subseteq docs
    OBVIOUS
  <2>2. MapThenSumSet(LAMBDA d : d.syms_staked, S) \in Nat
    BY <1>1, <2>1, Zenon
  <2> QED BY <2>2, Zenon DEF votes
<1>3. total_votes(docs, epoch) \in Nat
  <2> DEFINE S == {d \in docs : Active(d, epoch)}
  <2>1. S \subseteq docs
    OBVIOUS
  <2>2. MapThenSumSet(LAMBDA d : d.syms_staked, S) \in Nat
    BY <1>1, <2>1, Zenon
  <2> QED BY <2>2, Zenon DEF total_votes
<1>4. ASSUME NEW keys, IsFiniteSet(keys)
      PROVE  KeyVotes(docs, epoch, keys) \in Nat
  <2>1. \A k \in keys : Votes(docs, epoch, keys)[k] \in Nat
    BY <1>2, Zenon DEF Votes
  <2>2. Total(keys, Votes(docs, epoch, keys)) \in Nat
    BY <1>4, <2>1, TotalNat
  <2>3. KeyVotes(docs, epoch, keys) = Total(keys, Votes(docs, epoch, keys))
    BY <1>4, VotesTotal
  <2> QED BY <2>2, <2>3, Zenon
<1> QED BY <1>2, <1>3, <1>4, Zenon

\* More signers are as good.
LEMMA QuorumGrows ==
  ASSUME NEW docs, IsFiniteSet(docs), \A d \in docs : d.syms_staked \in Nat, NEW epoch,
         NEW more, IsFiniteSet(more), NEW sigs, sigs \subseteq more,
         IsQuorum(docs, sigs, epoch)
  PROVE  IsQuorum(docs, more, epoch)
<1> DEFINE few == KeyVotes(docs, epoch, sigs)
           many == KeyVotes(docs, epoch, more)
           all == total_votes(docs, epoch)
           w == Votes(docs, epoch, more)
<1>1. few \in Nat /\ many \in Nat /\ all \in Nat
  <2>1. IsFiniteSet(sigs)
    BY FS_Subset
  <2> QED BY <2>1, VotesNat
<1>2. few = Total(sigs, w) /\ many = Total(more, w)
  BY VotesTotal
<1>3. \A k \in more : w[k] \in Nat
  <2>1. \A k : votes(docs, epoch, k) \in Nat
    BY VotesNat
  <2> QED BY <2>1, Zenon DEF Votes
<1>4. 3 * few > 2 * all
  BY Thresholds
<1> HIDE DEF few, many, all, w
<1>5. Total(sigs, w) <= Total(more, w)
  BY <1>3, TotalMonotone
<1>6. 3 * many > 2 * all
  BY <1>1, <1>2, <1>4, <1>5
<1> QED BY <1>6, Thresholds DEF many, all

\* The rounded threshold of get_proof asks for no less than a quorum, and
\* for no more.
LEMMA GatheredIsQuorum ==
  ASSUME NEW docs, IsFiniteSet(docs), \A d \in docs : d.syms_staked \in Nat, NEW epoch,
         NEW sigs, IsFiniteSet(sigs)
  PROVE  GatheredEnough(docs, sigs, epoch) <=> IsQuorum(docs, sigs, epoch)
<1> DEFINE present == KeyVotes(docs, epoch, sigs)
           all == total_votes(docs, epoch)
<1>1. present \in Nat /\ all \in Nat
  BY VotesNat
<1>2. /\ GatheredEnough(docs, sigs, epoch) <=> present > (all * 2) \div 3
      /\ IsQuorum(docs, sigs, epoch) <=> 3 * present > 2 * all
  BY Thresholds
<1>3. ASSUME NEW p \in Nat, NEW a \in Nat
      PROVE  p > (a * 2) \div 3 <=> 3 * p > 2 * a
  <2> DEFINE n == a * 2
             q == n \div 3
  <2>1. n \in Nat /\ n = 2 * a
    OBVIOUS
  <2> HIDE DEF n
  <2>2. q \in Nat /\ 3 * q <= n /\ n < 3 * q + 3
    BY <2>1
  <2> HIDE DEF q
  <2>3. p > q <=> 3 * p > n
    BY <2>1, <2>2
  <2> QED BY <2>1, <2>3 DEF n, q
<1> HIDE DEF present, all
<1> QED BY <1>1, <1>2, <1>3, Zenon

(***************************************************************************)
(* The two vote counts.  apply_block adds the total so far for a signed    *)
(* document, which is never less than the document's own stake, so that    *)
(* what get_proof finds sufficient in an epoch is sufficient there.  The   *)
(* converse is false (module Storage, run storage_quorum).                 *)
(***************************************************************************)
ActiveDocs(docs, epoch) == {d \in docs : Active(d, epoch)}

SignedDocs(docs, keys, epoch) == {d \in ActiveDocs(docs, epoch) : d.pubkey \in keys}

\* The votes of keys are the stakes of their documents.
LEMMA VotesAreStakes ==
  ASSUME NEW docs, IsFiniteSet(docs), \A d \in docs : d.syms_staked \in Nat, NEW epoch,
         NEW keys, IsFiniteSet(keys)
  PROVE  KeyVotes(docs, epoch, keys) = Total(SignedDocs(docs, keys, epoch), Stake(docs))
<1> DEFINE v == Votes(docs, epoch, keys)
           w == Stake(docs)
           Of(s) == SignedDocs(docs, s, epoch)
           T == {n \in Nat : \A s \in SUBSET keys : Cardinality(s) = n =>
                                Total(s, v) = Total(Of(s), w)}
<1>0. /\ \A k \in keys : v[k] = votes(docs, epoch, k) /\ v[k] \in Nat
      /\ \A d \in docs : w[d] \in Nat
      /\ \A s : Of(s) \subseteq docs /\ IsFiniteSet(Of(s))
  <2>1. \A k : votes(docs, epoch, k) \in Nat
    BY VotesNat
  <2>2. \A k \in keys : v[k] = votes(docs, epoch, k)
    BY Zenon DEF Votes
  <2>3. \A d \in docs : w[d] \in Nat
    BY DEF Stake
  <2>4. \A s : Of(s) \subseteq docs
    BY DEF SignedDocs, ActiveDocs
  <2>5. \A s : IsFiniteSet(Of(s))
    BY <2>4, FS_Subset
  <2> QED BY <2>1, <2>2, <2>3, <2>4, <2>5, Zenon
<1>1. 0 \in T
  <2> SUFFICES ASSUME NEW s \in SUBSET keys, Cardinality(s) = 0
               PROVE  Total(s, v) = Total(Of(s), w)
    OBVIOUS
  <2>1. IsFiniteSet(s)
    BY FS_Subset
  <2>2. s = {}
    BY <2>1, FS_EmptySet
  <2>3. Of(s) = {}
    BY <2>2 DEF SignedDocs
  <2> QED BY <2>2, <2>3, TotalEmpty, Zenon
<1>2. ASSUME NEW n \in Nat, n \in T PROVE n + 1 \in T
  <2> SUFFICES ASSUME NEW s \in SUBSET keys, Cardinality(s) = n + 1
               PROVE  Total(s, v) = Total(Of(s), w)
    OBVIOUS
  <2> DEFINE k == Pick(s)
             r == s \ {k}
             D == {d \in docs : d.pubkey = k /\ Active(d, epoch)}
  <2>1. IsFiniteSet(s) /\ s # {} /\ k \in s
    BY FS_Subset, FS_EmptySet, PickIn
  <2>2. IsFiniteSet(r) /\ Cardinality(r) = n /\ r \in SUBSET keys
    BY <2>1, Smaller
  <2>3. s = r \cup {k} /\ k \notin r /\ k \in keys
    BY <2>1
  <2>4. D \subseteq docs
    OBVIOUS
  <2>5. IsFiniteSet(D)
    BY <2>4, FS_Subset
  <2>6. Of(s) = Of(r) \cup D /\ Of(r) \cap D = {}
    BY <2>1 DEF SignedDocs, ActiveDocs
  <2>7. v[k] = Total(D, w)
    <3>1. MapThenSumSet(LAMBDA d : d.syms_staked, D) = Total(D, w)
      BY <2>4, StakeTotal, Zenon
    <3>2. votes(docs, epoch, k) = MapThenSumSet(LAMBDA d : d.syms_staked, D)
      BY Zenon DEF votes
    <3> QED BY <1>0, <2>3, <3>1, <3>2, Zenon
  <2> HIDE DEF k, r, D, v, w
  <2>8. Total(r, v) = Total(Of(r), w)
    BY <1>2, <2>2, Zenon
  <2> HIDE DEF T, Of
  <2>9. Total(s, v) = Total(r, v) + v[k]
    <3>1. \A y \in r \cup {k} : v[y] \in Nat
      BY <1>0, <2>3
    <3> QED BY <2>2, <2>3, <3>1, TotalAdd
  <2>10. Total(Of(s), w) = Total(Of(r), w) + Total(D, w)
    <3>1. \A d \in Of(r) \cup D : w[d] \in Nat
      BY <1>0, <2>4
    <3> QED BY <1>0, <2>5, <2>6, <3>1, TotalUnion
  <2> QED BY <2>7, <2>8, <2>9, <2>10, Zenon
<1> HIDE DEF T
<1>3. Nat \subseteq T
  BY <1>1, <1>2, NatSets
<1>4. Cardinality(keys) \in T
  BY <1>3, FS_CardinalityType
<1>5. Total(keys, v) = Total(Of(keys), w)
  BY <1>4 DEF T
<1>6. KeyVotes(docs, epoch, keys) = Total(keys, v)
  BY VotesTotal
<1> QED BY <1>5, <1>6, Zenon

LEMMA AllVotes ==
  ASSUME NEW docs, IsFiniteSet(docs), NEW epoch
  PROVE  total_votes(docs, epoch) = Total(ActiveDocs(docs, epoch), Stake(docs))
<1> DEFINE S == ActiveDocs(docs, epoch)
<1>1. S \subseteq docs
  BY DEF ActiveDocs
<1>2. MapThenSumSet(LAMBDA d : d.syms_staked, S) = Total(S, Stake(docs))
  BY <1>1, StakeTotal, Zenon
<1> QED BY <1>2, Zenon DEF total_votes, ActiveDocs

(***************************************************************************)
(* The recursive function inside the fold of Tally.                        *)
(***************************************************************************)
NoVotes == [total |-> 0, present |-> 0]

\* What the function f of the sets of indices is at s.
Counted(f, s, smt, sigs, epoch) ==
  IF s = {} THEN NoVotes ELSE CountStake(f[s \ {Max(s)}], smt[Max(s)], sigs, epoch)

Counts(f, smt, sigs, epoch) ==
  f = [s \in SUBSET (DOMAIN smt) |-> Counted(f, s, smt, sigs, epoch)]

LEMMA CountsExist ==
  ASSUME NEW smt, IsFiniteSet(DOMAIN smt), DOMAIN smt \subseteq Nat, NEW sigs, NEW epoch
  PROVE  \E f : Counts(f, smt, sigs, epoch)
<1> DEFINE X == DOMAIN smt
           At(f, s) == Counted(f, s, smt, sigs, epoch)
           UpTo(f, n) == \A s \in SUBSET X : Cardinality(s) <= n => f[s] = At(f, s)
           T == {n \in Nat : \E f : /\ f = [s \in SUBSET X |-> f[s]]
                                    /\ UpTo(f, n)}
<1>1. 0 \in T
  <2> DEFINE f == [s \in SUBSET X |-> NoVotes]
  <2>1. UpTo(f, 0)
    <3> SUFFICES ASSUME NEW s \in SUBSET X, Cardinality(s) <= 0 PROVE f[s] = At(f, s)
      OBVIOUS
    <3>1. s = {}
      BY FS_Subset, FS_EmptySet, FS_CardinalityType
    <3> QED BY <3>1 DEF Counted
  <2> QED BY <2>1
<1>2. ASSUME NEW n \in Nat, n \in T PROVE n + 1 \in T
  <2>1. PICK f : f = [s \in SUBSET X |-> f[s]] /\ UpTo(f, n)
    BY <1>2
  <2> DEFINE g == [s \in SUBSET X |-> IF Cardinality(s) <= n THEN f[s] ELSE At(f, s)]
  <2>2. ASSUME NEW s \in SUBSET X, Cardinality(s) <= n + 1 PROVE g[s] = At(g, s)
    <3>1. IsFiniteSet(s) /\ Cardinality(s) \in Nat
      BY FS_Subset, FS_CardinalityType
    <3>2. g[s] = At(f, s)
      BY <2>1
    <3>3. CASE s = {}
      BY <3>2, <3>3, Zenon DEF Counted
    <3>4. CASE s # {}
      <4>1. Max(s) \in s
        BY <3>1, <3>4, MaxIs
      <4>2. Cardinality(s \ {Max(s)}) <= n
        <5>1. Cardinality(s \ {Max(s)}) = Cardinality(s) - 1
          BY <3>1, <4>1, FS_RemoveElement
        <5> QED BY <2>2, <3>1, <5>1
      <4>3. g[s \ {Max(s)}] = f[s \ {Max(s)}]
        BY <4>2
      <4> HIDE DEF g
      <4> QED BY <3>2, <4>3, Zenon DEF Counted
    <3> QED BY <3>3, <3>4
  <2>3. UpTo(g, n + 1)
    BY <2>2
  <2>4. g = [s \in SUBSET X |-> g[s]]
    OBVIOUS
  <2> HIDE DEF g, UpTo
  <2>5. \E h : h = [s \in SUBSET X |-> h[s]] /\ UpTo(h, n + 1)
    BY <2>3, <2>4
  <2> QED BY <2>5
<1> HIDE DEF T
<1>3. Nat \subseteq T
  BY <1>1, <1>2, NatSets
<1>4. Cardinality(X) \in T
  BY <1>3, FS_CardinalityType
<1>5. PICK f : f = [s \in SUBSET X |-> f[s]] /\ UpTo(f, Cardinality(X))
  BY <1>4 DEF T
<1>6. ASSUME NEW s \in SUBSET X PROVE f[s] = At(f, s)
  <2>1. Cardinality(s) <= Cardinality(X)
    BY FS_Subset
  <2> QED BY <1>5, <2>1
<1>7. Counts(f, smt, sigs, epoch)
  BY <1>5, <1>6, Zenon DEF Counts
<1> QED BY <1>7

\* Tally is such a function at the whole sequence.
LEMMA TallyIs ==
  ASSUME NEW smt, IsFiniteSet(DOMAIN smt), DOMAIN smt \subseteq Nat, NEW sigs, NEW epoch
  PROVE  \E f : Counts(f, smt, sigs, epoch) /\ Tally(smt, sigs, epoch) = f[DOMAIN smt]
<1> DEFINE iter == CHOOSE g : g = [s \in SUBSET (DOMAIN smt) |->
                     IF s = {} THEN [total |-> 0, present |-> 0]
                     ELSE CountStake(g[s \ {Max(s)}], smt[Max(s)], sigs, epoch)]
<1>1. Tally(smt, sigs, epoch) = iter[DOMAIN smt]
  BY Zenon DEF Tally, FoldLeft, MapThenFoldSet
<1>2. \E g : Counts(g, smt, sigs, epoch)
  BY CountsExist
<1>3. Counts(iter, smt, sigs, epoch)
  BY <1>2, Zenon DEF Counts, Counted, NoVotes
<1> QED BY <1>1, <1>3, Zenon

\* What the count knows after the documents of a part of the stakes.
Covers(tally, part, docs, sigs, epoch) ==
  /\ tally.total \in Nat /\ tally.present \in Nat
  /\ tally.total = Total(ActiveDocs(part, epoch), Stake(docs))
  /\ Total(SignedDocs(part, sigs, epoch), Stake(docs)) <= tally.present

\* One document more.
LEMMA CountCovers ==
  ASSUME NEW docs, IsFiniteSet(docs), \A d \in docs : d.syms_staked \in Nat,
         NEW sigs, NEW epoch, NEW part, part \subseteq docs, NEW d \in docs, d \notin part,
         NEW tally, Covers(tally, part, docs, sigs, epoch)
  PROVE  Covers(CountStake(tally, d, sigs, epoch), part \cup {d}, docs, sigs, epoch)
<1> DEFINE w == Stake(docs)
           more == part \cup {d}
           A == ActiveDocs(part, epoch)
           S == SignedDocs(part, sigs, epoch)
<1>1. /\ A \subseteq docs /\ S \subseteq docs
      /\ d \notin A /\ d \notin S
      /\ \A e \in docs : w[e] = e.syms_staked /\ w[e] \in Nat
  BY DEF ActiveDocs, SignedDocs, Stake
<1>2. IsFiniteSet(A) /\ IsFiniteSet(S)
  BY <1>1, FS_Subset
<1>3. /\ tally.total \in Nat /\ tally.present \in Nat
      /\ tally.total = Total(A, w) /\ Total(S, w) <= tally.present
      /\ Total(S, w) \in Nat
  BY <1>1, <1>2, TotalNat DEF Covers
<1>4. /\ \A e \in A \cup {d} : w[e] \in Nat
      /\ \A e \in S \cup {d} : w[e] \in Nat
  BY <1>1
<1>5. Total(A \cup {d}, w) = Total(A, w) + w[d] /\ Total(S \cup {d}, w) = Total(S, w) + w[d]
  BY <1>1, <1>2, <1>4, TotalAdd
<1>6. CASE ~Active(d, epoch)
  <2>1. ActiveDocs(more, epoch) = A /\ SignedDocs(more, sigs, epoch) = S
    BY <1>6 DEF ActiveDocs, SignedDocs
  <2>2. CountStake(tally, d, sigs, epoch) = tally
    BY <1>6, Zenon DEF CountStake
  <2> QED BY <1>3, <2>1, <2>2, Zenon DEF Covers
<1>7. CASE Active(d, epoch) /\ d.pubkey \notin sigs
  <2>1. ActiveDocs(more, epoch) = A \cup {d} /\ SignedDocs(more, sigs, epoch) = S
    BY <1>7 DEF ActiveDocs, SignedDocs
  <2> DEFINE c == CountStake(tally, d, sigs, epoch)
  <2>2. c.total = tally.total + d.syms_staked /\ c.present = tally.present + 0
    BY <1>7 DEF CountStake
  <2> HIDE DEF c, w, A, S, more
  <2>3. c.total \in Nat /\ c.present \in Nat
    BY <1>3, <2>2
  <2>4. c.total = Total(A, w) + w[d] /\ Total(S, w) <= c.present
    BY <1>1, <1>3, <2>2
  <2>5. Covers(c, more, docs, sigs, epoch)
    BY <1>5, <2>1, <2>3, <2>4, Zenon DEF Covers, w
  <2> QED BY <2>5 DEF c, more
<1>8. CASE Active(d, epoch) /\ d.pubkey \in sigs
  <2>1. ActiveDocs(more, epoch) = A \cup {d} /\ SignedDocs(more, sigs, epoch) = S \cup {d}
    BY <1>8 DEF ActiveDocs, SignedDocs
  <2> DEFINE c == CountStake(tally, d, sigs, epoch)
  <2>2. /\ c.total = tally.total + d.syms_staked
        /\ c.present = tally.present + (tally.total + d.syms_staked)
    BY <1>8 DEF CountStake
  <2> HIDE DEF c, w, A, S, more
  <2>3. c.total \in Nat /\ c.present \in Nat
    BY <1>3, <2>2
  \* The total so far is no less than the own stake.
  <2>4. c.total = Total(A, w) + w[d] /\ Total(S, w) + w[d] <= c.present
    BY <1>1, <1>3, <2>2
  <2>5. Covers(c, more, docs, sigs, epoch)
    BY <1>5, <2>1, <2>3, <2>4, Zenon DEF Covers, w
  <2> QED BY <2>5 DEF c, more
<1> QED BY <1>6, <1>7, <1>8

\* smt lists the documents, each once.
Lists(smt, docs) ==
  /\ smt \in [1..Len(smt) -> docs] /\ Len(smt) \in Nat
  /\ ToSet(smt) = docs
  /\ \A i, j \in 1..Len(smt) : smt[i] = smt[j] => i = j

LEMMA TallyCovers ==
  ASSUME NEW docs, \A d \in docs : d.syms_staked \in Nat, IsFiniteSet(docs),
         NEW smt, Lists(smt, docs), NEW sigs, NEW epoch
  PROVE  Covers(Tally(smt, sigs, epoch), docs, docs, sigs, epoch)
<1> DEFINE N == Len(smt)
           First(n) == {smt[i] : i \in 1..n}
<1>1. N \in Nat /\ DOMAIN smt = 1..N /\ IsFiniteSet(DOMAIN smt) /\ DOMAIN smt \subseteq Nat
  BY FS_Interval DEF Lists
<1>2. PICK f : Counts(f, smt, sigs, epoch) /\ Tally(smt, sigs, epoch) = f[1..N]
  BY <1>1, TallyIs
<1> DEFINE Good(n) == Covers(f[1..n], First(n), docs, sigs, epoch)
           T == {n \in Nat : n <= N => Good(n)}
<1>3. \A n \in 0..N : f[1..n] = Counted(f, 1..n, smt, sigs, epoch)
  <2>1. \A n \in 0..N : 1..n \in SUBSET (DOMAIN smt)
    BY <1>1
  <2> QED BY <1>2, <2>1, Zenon DEF Counts
<1>4. 0 \in T
  <2>1. 1..0 = {} /\ First(0) = {} /\ 0 \in 0..N
    BY <1>1
  <2>2. f[1..0] = NoVotes
    BY <1>3, <2>1, Zenon DEF Counted
  <2>3. ActiveDocs({}, epoch) = {} /\ SignedDocs({}, sigs, epoch) = {}
    BY DEF ActiveDocs, SignedDocs
  <2>4. NoVotes.total = 0 /\ NoVotes.present = 0
    BY DEF NoVotes
  <2> HIDE DEF First
  <2>5. Covers(NoVotes, {}, docs, sigs, epoch)
    <3>1. Total({}, Stake(docs)) = 0
      BY TotalEmpty
    <3>2. NoVotes.total \in Nat /\ NoVotes.present \in Nat /\ 0 <= NoVotes.present
      BY <2>4
    <3> QED BY <2>3, <2>4, <3>1, <3>2, Zenon DEF Covers
  <2>6. Good(0)
    BY <2>1, <2>2, <2>5, Zenon
  <2> QED BY <2>6
<1>5. ASSUME NEW n \in Nat, n \in T PROVE n + 1 \in T
  <2> SUFFICES ASSUME n + 1 <= N PROVE Good(n + 1)
    OBVIOUS
  <2> DEFINE d == smt[n + 1]
  <2>1. n + 1 \in 0..N /\ n + 1 \in 1..N /\ n <= N
    BY <1>1
  <2>2. Good(n)
    BY <1>5, <2>1
  <2>3. d \in docs /\ d \notin First(n) /\ First(n) \subseteq docs
    BY <1>1, <2>1 DEF Lists
  <2>4. First(n + 1) = First(n) \cup {d}
    BY <1>1, <2>1
  <2>5. f[1..(n + 1)] = CountStake(f[1..n], d, sigs, epoch)
    <3> DEFINE s == 1..(n + 1)
    <3>0. IsFiniteSet(s)
      <4>1. 1 \in Int /\ n + 1 \in Int
        OBVIOUS
      <4> QED BY <4>1, FS_Interval, Zenon
    <3>1. IsFiniteSet(s) /\ s # {} /\ s \subseteq Nat /\ n + 1 \in s
      <4>1. s \subseteq Nat
        OBVIOUS
      <4>2. n + 1 \in s
        OBVIOUS
      <4> QED BY <3>0, <4>1, <4>2, Zenon
    <3>2. Max(s) \in s /\ \A y \in s : y <= Max(s)
      BY <3>1, MaxIs
    <3>3. Max(s) = n + 1
      BY <3>1, <3>2
    <3>4. s \ {n + 1} = 1..n
      OBVIOUS
    <3>5. f[s] = Counted(f, s, smt, sigs, epoch)
      BY <1>3, <2>1, Zenon
    <3> HIDE DEF s
    <3>6. f[s] = CountStake(f[s \ {Max(s)}], smt[Max(s)], sigs, epoch)
      BY <3>1, <3>5, Zenon DEF Counted
    <3> QED BY <3>3, <3>4, <3>6, Zenon DEF s
  <2> HIDE DEF First, d
  <2>6. Covers(CountStake(f[1..n], d, sigs, epoch), First(n) \cup {d}, docs, sigs, epoch)
    BY <2>2, <2>3, CountCovers
  <2> QED BY <2>4, <2>5, <2>6, Zenon
<1>6. First(N) = docs
  BY <1>1 DEF Lists, ToSet
<1> HIDE DEF First, Good
<1>7. N \in T
  BY <1>1, <1>4, <1>5, NatSets
<1>8. Good(N)
  BY <1>1, <1>7
<1> QED BY <1>2, <1>6, <1>8, Zenon DEF Good

\* A proof that the staker finds sufficient (staker.rs:193-199) passes the
\* check of apply_block (storage.rs:277-300) when both count the stakes of
\* the same epoch, in whatever order the stakes tree lists them.
THEOREM EnoughFollows ==
  ASSUME NEW docs, \A d \in docs : d.syms_staked \in Nat, IsFiniteSet(docs),
         NEW smt, Lists(smt, docs), NEW sigs, IsFiniteSet(sigs), NEW epoch,
         GatheredEnough(docs, sigs, epoch)
  PROVE  EnoughVotes(smt, sigs, epoch)
<1> DEFINE t == Tally(smt, sigs, epoch)
           signed == Total(SignedDocs(docs, sigs, epoch), Stake(docs))
<1>1. Covers(t, docs, docs, sigs, epoch)
  BY TallyCovers
<1>2. /\ t.total \in Nat /\ t.present \in Nat
      /\ t.total = total_votes(docs, epoch) /\ signed <= t.present
  BY <1>1, AllVotes, Zenon DEF Covers
<1>3. signed = KeyVotes(docs, epoch, sigs)
  BY VotesAreStakes
<1>4. signed \in Nat
  BY <1>3, VotesNat
<1>5. signed > (t.total * 2) \div 3
  BY <1>2, <1>3, Thresholds
<1> HIDE DEF t, signed
<1>6. ASSUME NEW a \in Nat, NEW p \in Nat, NEW s \in Nat, s <= p, s > (a * 2) \div 3
      PROVE  p > (2 * a) \div 3
  <2>1. a * 2 = 2 * a /\ (2 * a) \div 3 \in Nat
    OBVIOUS
  <2> QED BY <1>6, <2>1
<1>7. t.present > (2 * t.total) \div 3
  BY <1>2, <1>4, <1>5, <1>6
<1> QED BY <1>7, Zenon DEF EnoughVotes, t

LEMMA OrderLists == Lists(DocOrder, Docs)
<1>1. /\ DOMAIN DocOrder = 1..Len(DocOrder) /\ Len(DocOrder) \in Nat
      /\ ToSet(DocOrder) = Docs /\ Len(DocOrder) = Cardinality(Docs)
      /\ DocOrder = [i \in 1..Len(DocOrder) |-> DocOrder[i]]
  BY Assumed
<1> DEFINE I == 1..Len(DocOrder)
<1>2. DocOrder \in [I -> Docs] /\ \A d \in Docs : \E i \in I : DocOrder[i] = d
  BY <1>1 DEF ToSet
<1>3. IsFiniteSet(I) /\ Cardinality(I) = Len(DocOrder)
  BY <1>1, FS_Interval
<1>4. DocOrder \in Surjection(I, Docs)
  BY <1>2 DEF Surjection
<1>5. DocOrder \in Injection(I, Docs)
  BY <1>1, <1>3, <1>4, FS_SurjSameCardinalityImpliesInj
<1> QED BY <1>1, <1>2, <1>5 DEF Lists, Injection, IsInjective

(***************************************************************************)
(* More signers are as good for apply_block, too.                          *)
(***************************************************************************)
\* Two counts over the same documents, of which the second has more signers.
NoFewer(few, many) ==
  /\ few.total = many.total
  /\ few.total \in Nat /\ few.present \in Nat /\ many.present \in Nat
  /\ few.present <= many.present

LEMMA CountGrows ==
  ASSUME NEW sigs, NEW more, sigs \subseteq more, NEW epoch,
         NEW d, d.syms_staked \in Nat, NEW few, NEW many, NoFewer(few, many)
  PROVE  NoFewer(CountStake(few, d, sigs, epoch), CountStake(many, d, more, epoch))
<1> DEFINE a == CountStake(few, d, sigs, epoch)
           b == CountStake(many, d, more, epoch)
<1>1. CASE ~Active(d, epoch)
  BY <1>1, Zenon DEF CountStake
<1>2. CASE Active(d, epoch)
  <2>1. /\ a.total = few.total + d.syms_staked /\ b.total = many.total + d.syms_staked
        /\ a.present = few.present + IF d.pubkey \in sigs THEN a.total ELSE 0
        /\ b.present = many.present + IF d.pubkey \in more THEN b.total ELSE 0
    BY <1>2 DEF CountStake
  <2>2. d.pubkey \in sigs => d.pubkey \in more
    OBVIOUS
  <2> HIDE DEF a, b
  <2>3. a.total = b.total /\ a.total \in Nat
    BY <2>1 DEF NoFewer
  <2>4. a.present \in Nat /\ b.present \in Nat /\ a.present <= b.present
    BY <2>1, <2>2, <2>3 DEF NoFewer
  <2>5. NoFewer(a, b)
    BY <2>3, <2>4, Zenon DEF NoFewer
  <2> QED BY <2>5 DEF a, b
<1> QED BY <1>1, <1>2

LEMMA EnoughGrows ==
  ASSUME NEW smt, smt \in Seq(StakeDocs), NEW sigs, NEW more, sigs \subseteq more, NEW epoch,
         EnoughVotes(smt, sigs, epoch)
  PROVE  EnoughVotes(smt, more, epoch)
<1> DEFINE N == Len(smt)
<1>1. /\ N \in Nat /\ DOMAIN smt = 1..N /\ IsFiniteSet(DOMAIN smt) /\ DOMAIN smt \subseteq Nat
      /\ \A i \in 1..N : smt[i].syms_staked \in Nat
  <2>1. N \in Nat /\ DOMAIN smt = 1..N /\ \A i \in 1..N : smt[i] \in StakeDocs
    OBVIOUS
  <2>2. IsFiniteSet(1..N)
    BY <2>1, FS_Interval
  <2> QED BY <2>1, <2>2, Assumed
<1>2. PICK f : Counts(f, smt, sigs, epoch) /\ Tally(smt, sigs, epoch) = f[1..N]
  BY <1>1, TallyIs
<1>3. PICK g : Counts(g, smt, more, epoch) /\ Tally(smt, more, epoch) = g[1..N]
  BY <1>1, TallyIs
<1> DEFINE T == {n \in Nat : n <= N => NoFewer(f[1..n], g[1..n])}
<1>4. \A n \in 0..N : /\ f[1..n] = Counted(f, 1..n, smt, sigs, epoch)
                      /\ g[1..n] = Counted(g, 1..n, smt, more, epoch)
  <2>1. \A n \in 0..N : 1..n \in SUBSET (DOMAIN smt)
    BY <1>1
  <2> QED BY <1>2, <1>3, <2>1, Zenon DEF Counts
<1>5. 0 \in T
  <2>1. 1..0 = {} /\ 0 \in 0..N
    BY <1>1
  <2>2. f[1..0] = NoVotes /\ g[1..0] = NoVotes
    BY <1>4, <2>1, Zenon DEF Counted
  <2>3. NoFewer(NoVotes, NoVotes)
    BY DEF NoFewer, NoVotes
  <2> QED BY <2>2, <2>3
<1>6. ASSUME NEW n \in Nat, n \in T PROVE n + 1 \in T
  <2> SUFFICES ASSUME n + 1 <= N PROVE NoFewer(f[1..(n + 1)], g[1..(n + 1)])
    OBVIOUS
  <2> DEFINE d == smt[n + 1]
             s == 1..(n + 1)
  <2>1. n + 1 \in 0..N /\ n + 1 \in 1..N /\ n <= N
    BY <1>1
  <2>2. NoFewer(f[1..n], g[1..n])
    BY <1>6, <2>1
  <2>3. IsFiniteSet(s)
    <3>1. 1 \in Int /\ n + 1 \in Int
      OBVIOUS
    <3> QED BY <3>1, FS_Interval, Zenon
  <2>4. s # {} /\ s \subseteq Nat /\ n + 1 \in s /\ s \ {n + 1} = 1..n
    <3>1. n + 1 \in s
      OBVIOUS
    <3>2. s \ {n + 1} = 1..n
      OBVIOUS
    <3>3. s \subseteq Nat
      OBVIOUS
    <3> HIDE DEF s
    <3> QED BY <3>1, <3>2, <3>3, Zenon
  <2>5. Max(s) \in s /\ \A y \in s : y <= Max(s)
    BY <2>3, <2>4, MaxIs, Zenon
  <2>6. Max(s) = n + 1
    BY <2>4, <2>5
  <2>7. f[s] = Counted(f, s, smt, sigs, epoch) /\ g[s] = Counted(g, s, smt, more, epoch)
    BY <1>4, <2>1, Zenon
  <2> HIDE DEF s
  <2>8. f[s] = CountStake(f[1..n], d, sigs, epoch) /\ g[s] = CountStake(g[1..n], d, more, epoch)
    BY <2>4, <2>6, <2>7, Zenon DEF Counted
  <2>9. d.syms_staked \in Nat
    BY <1>1, <2>1
  <2> HIDE DEF d
  <2>10. NoFewer(f[s], g[s])
    BY <2>2, <2>8, <2>9, CountGrows, Zenon
  <2> QED BY <2>10 DEF s
<1> HIDE DEF T
<1>7. N \in T
  BY <1>1, <1>5, <1>6, NatSets
<1> DEFINE few == Tally(smt, sigs, epoch)
           many == Tally(smt, more, epoch)
<1>8. NoFewer(few, many)
  BY <1>1, <1>2, <1>3, <1>7 DEF T
<1>9. few.present > (2 * few.total) \div 3
  BY Zenon DEF EnoughVotes
<1> HIDE DEF few, many
<1>10. many.present > (2 * many.total) \div 3
  BY <1>8, <1>9 DEF NoFewer
<1> QED BY <1>10, Zenon DEF EnoughVotes, many

(***************************************************************************)
(* The invariant.                                                          *)
(***************************************************************************)
IInv ==
  /\ TypeOK /\ IsFiniteSet(decided)
  /\ DecidersAreEnough /\ QuorumDecidedBeforeCommit

LEMMA NoEntriesIs ==
  NoEntries \in Maps /\ DOMAIN NoEntries = {} /\ Verified(NoEntries) = {}
BY DEF NoEntries, Maps, Verified

LEMMA EntryIs ==
  ASSUME NEW k \in Keys, NEW b \in BOOLEAN
  PROVE  /\ Entry(k, b) \in Maps /\ DOMAIN Entry(k, b) = {k}
         /\ Verified(Entry(k, b)) = IF b THEN {k} ELSE {}
<1> DEFINE e == Entry(k, b)
<1>1. e = [x \in {k} |-> b]
  BY Zenon DEF Entry
<1> HIDE DEF e
<1>2. DOMAIN e = {k} /\ e[k] = b
  BY <1>1
<1>3. e \in [{k} -> BOOLEAN] /\ {k} \in SUBSET Keys
  BY <1>1
<1>4. e \in Maps
  BY <1>3, Zenon DEF Maps
<1>5. Verified(e) = IF b THEN {k} ELSE {}
  BY <1>2 DEF Verified
<1> QED BY <1>2, <1>4, <1>5, Zenon DEF e

\* Merging brings no signature neither map had, and no other entries.
LEMMA MergeIs ==
  ASSUME NEW map \in Maps, NEW answer \in Maps
  PROVE  /\ Merge(map, answer) \in Maps
         /\ DOMAIN Merge(map, answer) = DOMAIN map \cup DOMAIN answer
         /\ Verified(Merge(map, answer)) \subseteq Verified(map) \cup Verified(answer)
<1> DEFINE m == Merge(map, answer)
           K == DOMAIN map \cup DOMAIN answer
<1>1. /\ DOMAIN map \in SUBSET Keys /\ \A k \in DOMAIN map : map[k] \in BOOLEAN
      /\ DOMAIN answer \in SUBSET Keys /\ \A k \in DOMAIN answer : answer[k] \in BOOLEAN
  BY DEF Maps
<1>2. m = [k \in K |-> IF k \in DOMAIN answer THEN answer[k] ELSE map[k]]
  BY Zenon DEF Merge
<1> HIDE DEF m
<1>3. DOMAIN m = K /\ \A k \in K : m[k] = IF k \in DOMAIN answer THEN answer[k] ELSE map[k]
  BY <1>2
<1>4. m \in [K -> BOOLEAN] /\ K \in SUBSET Keys
  BY <1>1, <1>2
<1>5. m \in Maps
  BY <1>4, Zenon DEF Maps
<1>6. Verified(m) \subseteq Verified(map) \cup Verified(answer)
  BY <1>3 DEF Verified
<1> QED BY <1>3, <1>5, <1>6, Zenon DEF m

LEMMA InitInv == Init => IInv
<1> SUFFICES ASSUME Init PROVE IInv
  OBVIOUS
<1>1. \A s \in Keys : gather[s] = NoEntries /\ stored[s] = NoEntries /\ at[s] = "waiting"
  BY DEF Init
<1>2. TypeOK
  <2>1. gather \in [Keys -> Maps] /\ stored \in [Keys -> Maps]
    BY NoEntriesIs DEF Init
  <2>2. 0 \in 0..MaxRestarts /\ 0 \in 0..MaxForeign
    BY Assumed
  <2> QED BY <1>1, <2>1, <2>2, NoEntriesIs DEF Init, TypeOK
<1>3. \A s \in Keys : ~HasBlock(s)
  BY <1>1, NoEntriesIs DEF HasBlock
<1>4. IsFiniteSet(decided)
  BY FS_EmptySet DEF Init
<1> QED BY <1>2, <1>3, <1>4, Zenon DEF IInv, DecidersAreEnough, QuorumDecidedBeforeCommit

\* What a staker answers to get_sigs.
LEMMA AnswersAre ==
  ASSUME TypeOK, NEW t \in Keys
  PROVE  /\ get_sigs(t) \in Maps /\ Verified(get_sigs(t)) \subseteq decided
<1>1. get_sigs(t) = stored[t] \/ get_sigs(t) = gather[t]
  BY Zenon DEF get_sigs
<1>2. /\ gather[t] \in Maps /\ stored[t] \in Maps
      /\ Verified(gather[t]) \subseteq decided /\ Verified(stored[t]) \subseteq decided
  BY DEF TypeOK
<1> QED BY <1>1, <1>2, Zenon

\* A map of the staker changes, or none: the parts of the invariant that are
\* about maps.
LEMMA GatherInv ==
  ASSUME IInv, NEW s \in Keys, NEW map \in Maps, gather' = [gather EXCEPT ![s] = map],
         stored' = stored, decided \subseteq decided', decided' \subseteq Keys,
         IsFiniteSet(decided'), Verified(map) \subseteq decided'
  PROVE  /\ gather' \in [Keys -> Maps] /\ IsFiniteSet(decided')
         /\ \A t \in Keys : Verified(gather'[t]) \cup Verified(stored'[t]) \subseteq decided'
         /\ DecidersAreEnough'
         /\ QuorumDecidedBeforeCommit'
<1>1. /\ gather \in [Keys -> Maps]
      /\ \A t \in Keys : Verified(gather[t]) \cup Verified(stored[t]) \subseteq decided
  BY DEF IInv, TypeOK
<1>2. gather' \in [Keys -> Maps]
  BY <1>1
<1>3. gather'[s] = map /\ \A t \in Keys \ {s} : gather'[t] = gather[t]
  BY <1>1
<1>4. \A t \in Keys : Verified(gather'[t]) \cup Verified(stored'[t]) \subseteq decided'
  <2> SUFFICES ASSUME NEW t \in Keys
               PROVE  Verified(gather'[t]) \subseteq decided' /\ Verified(stored[t]) \subseteq decided'
    OBVIOUS
  <2>1. Verified(gather[t]) \subseteq decided' /\ Verified(stored[t]) \subseteq decided'
    BY <1>1
  <2> QED BY <1>3, <2>1
<1>5. \A t \in Keys : HasBlock(t)' <=> HasBlock(t)
  BY DEF HasBlock
<1>6. DecidersAreEnough'
  <2> SUFFICES ASSUME NEW t \in Keys, HasBlock(t)
               PROVE  EnoughVotes(DocOrder, decided', Epoch(Base + 1))
    BY <1>5, Zenon DEF DecidersAreEnough
  <2>1. EnoughVotes(DocOrder, decided, Epoch(Base + 1))
    BY Zenon DEF IInv, DecidersAreEnough
  <2> QED BY <2>1, EnoughGrows, Assumed
<1>7. QuorumDecidedBeforeCommit'
  <2> SUFFICES ASSUME NEW t \in Keys, HasBlock(t), Genuine(stored[t])
               PROVE  IsQuorum(Docs, decided', Epoch(Base))
    BY <1>5, Zenon DEF QuorumDecidedBeforeCommit, Genuine, Verified
  <2>1. IsQuorum(Docs, decided, Epoch(Base))
    BY Zenon DEF IInv, QuorumDecidedBeforeCommit
  <2>2. \A d \in Docs : d.syms_staked \in Nat
    BY Assumed
  <2> QED BY <2>1, <2>2, DocsFinite, QuorumGrows
<1> QED BY <1>2, <1>4, <1>6, <1>7

\* A proof is stored that passes the check.
LEMMA StoredInv ==
  ASSUME IInv, NEW s \in Keys, NEW map \in Maps, stored' = [stored EXCEPT ![s] = map],
         gather' = gather, decided' = decided, Verified(map) \subseteq decided, Accepted(map),
         Genuine(map) => IsQuorum(Docs, decided, Epoch(Base))
  PROVE  /\ stored' \in [Keys -> Maps] /\ IsFiniteSet(decided')
         /\ \A t \in Keys : Verified(gather'[t]) \cup Verified(stored'[t]) \subseteq decided'
         /\ DecidersAreEnough'
         /\ QuorumDecidedBeforeCommit'
<1>1. /\ stored \in [Keys -> Maps] /\ IsFiniteSet(decided)
      /\ \A t \in Keys : Verified(gather[t]) \cup Verified(stored[t]) \subseteq decided
  BY DEF IInv, TypeOK
<1>2. stored' \in [Keys -> Maps]
  BY <1>1
<1>3. stored'[s] = map /\ \A t \in Keys \ {s} : stored'[t] = stored[t]
  BY <1>1
<1>4. \A t \in Keys : Verified(gather'[t]) \cup Verified(stored'[t]) \subseteq decided'
  BY <1>1, <1>3
<1>5. EnoughVotes(DocOrder, decided, Epoch(Base + 1))
  <2>1. EnoughVotes(DocOrder, Verified(map), Epoch(Base + 1))
    BY Zenon DEF Accepted
  <2> QED BY <2>1, EnoughGrows, Assumed
<1>6. DecidersAreEnough'
  BY <1>5, Zenon DEF DecidersAreEnough
<1>7. QuorumDecidedBeforeCommit'
  <2>1. \A t \in Keys : HasBlock(t) /\ Genuine(stored[t]) => IsQuorum(Docs, decided, Epoch(Base))
    BY Zenon DEF IInv, QuorumDecidedBeforeCommit
  <2> SUFFICES ASSUME NEW t \in Keys, HasBlock(t)', Genuine(stored[t])'
               PROVE  IsQuorum(Docs, decided, Epoch(Base))
    BY Zenon DEF QuorumDecidedBeforeCommit
  <2>2. CASE t = s
    <3>1. Genuine(map)
      BY <1>3, <2>2 DEF Genuine, Verified
    <3> QED BY <3>1
  <2>3. CASE t # s
    <3>1. HasBlock(t) /\ Genuine(stored[t])
      BY <1>3, <2>3 DEF HasBlock, Genuine, Verified
    <3> QED BY <2>1, <3>1
  <2> QED BY <2>2, <2>3
<1> QED BY <1>1, <1>2, <1>4, <1>6, <1>7

\* Nothing but where the stakers are changes.
LEMMA MapsUnchangedInv ==
  ASSUME IInv, gather' = gather, stored' = stored, decided' = decided
  PROVE  /\ IsFiniteSet(decided')
         /\ \A t \in Keys : Verified(gather'[t]) \cup Verified(stored'[t]) \subseteq decided'
         /\ DecidersAreEnough'
         /\ QuorumDecidedBeforeCommit'
BY DEF IInv, TypeOK, DecidersAreEnough, QuorumDecidedBeforeCommit, HasBlock, Genuine, Verified

LEMMA NextInv == IInv /\ [Next]_vars => IInv'
<1> SUFFICES ASSUME IInv, [Next]_vars PROVE IInv'
  OBVIOUS
<1>0. TypeOK /\ IsFiniteSet(decided) /\ decided \subseteq Keys
  BY DEF IInv, TypeOK
<1>2. \A s \in Online : s \in Keys
  BY Assumed
<1>3. ASSUME NEW s \in Online, Begin(s) PROVE IInv'
  <2>1. TypeOK'
    BY <1>0, <1>2, <1>3 DEF Begin, TypeOK
  <2> QED BY <1>3, <2>1, MapsUnchangedInv, Zenon DEF Begin, IInv
<1>4. ASSUME NEW s \in Online, Decide(s) PROVE IInv'
  <2> DEFINE map == Entry(s, TRUE)
  <2>1. s \in Keys /\ IsFiniteSet(decided') /\ decided' = decided \cup {s}
    BY <1>0, <1>2, <1>4, FS_AddElement DEF Decide
  <2>2. map \in Maps /\ DOMAIN map = {s} /\ Verified(map) = {s}
    BY <2>1, EntryIs
  <2>3. gather' = [gather EXCEPT ![s] = map] /\ stored' = stored
    BY <1>4 DEF Decide
  <2> HIDE DEF map
  <2>4. /\ gather' \in [Keys -> Maps] /\ IsFiniteSet(decided')
        /\ \A t \in Keys : Verified(gather'[t]) \cup Verified(stored'[t]) \subseteq decided'
        /\ DecidersAreEnough'
        /\ QuorumDecidedBeforeCommit'
    <3>1. decided \subseteq decided' /\ decided' \subseteq Keys /\ Verified(map) \subseteq decided'
      BY <1>0, <2>1, <2>2
    <3> QED BY <2>1, <2>2, <2>3, <3>1, GatherInv
  <2>5. \A t \in Keys : at'[t] = "gathering" => t \in DOMAIN gather'[t] /\ t \in decided'
    BY <1>0, <1>4, <2>1, <2>2, <2>3 DEF Decide, TypeOK
  <2>6. /\ at' \in [Keys -> {"waiting", "deciding", "gathering"}] /\ stored' \in [Keys -> Maps]
        /\ restarts' \in 0..MaxRestarts /\ foreign' \in 0..MaxForeign /\ decided' \subseteq Keys
    BY <1>0, <1>4, <2>1 DEF Decide, TypeOK
  <2>7. TypeOK'
    BY <2>4, <2>5, <2>6, Zenon DEF TypeOK
  <2> QED BY <2>4, <2>7, Zenon DEF IInv
\* A map is only committed when get_proof found it sufficient.
<1>5. ASSUME NEW s \in Online, Assemble(s) PROVE IInv'
  <2>1. s \in Keys /\ gather[s] \in Maps /\ Verified(gather[s]) \subseteq decided
    BY <1>0, <1>2 DEF TypeOK
  <2>2. gather' = gather /\ decided' = decided
    BY <1>5 DEF Assemble
  <2>3. /\ at' \in [Keys -> {"waiting", "deciding", "gathering"}]
        /\ restarts' \in 0..MaxRestarts /\ foreign' \in 0..MaxForeign
        /\ \A t \in Keys : at'[t] = "gathering" => at[t] = "gathering"
    BY <1>0, <1>5, <2>1 DEF Assemble, TypeOK
  <2>4. /\ stored' \in [Keys -> Maps] /\ IsFiniteSet(decided')
        /\ \A t \in Keys : Verified(gather'[t]) \cup Verified(stored'[t]) \subseteq decided'
        /\ DecidersAreEnough'
        /\ QuorumDecidedBeforeCommit'
    <3>1. CASE ~HasBlock(s) /\ Accepted(gather[s])
      <4>1. stored' = [stored EXCEPT ![s] = gather[s]]
        BY <1>5, <3>1 DEF Assemble
      <4>2. ASSUME Genuine(gather[s]) PROVE IsQuorum(Docs, decided, Epoch(Base))
        <5>1. DOMAIN gather[s] = Verified(gather[s])
          BY <4>2 DEF Genuine
        <5>2. IsFiniteSet(DOMAIN gather[s]) /\ DOMAIN gather[s] \subseteq decided
          BY <1>0, <2>1, <5>1, FS_Subset
        <5>3. \A d \in Docs : d.syms_staked \in Nat
          BY Assumed
        <5>4. GatheredEnough(Docs, DOMAIN gather[s], Epoch(Base))
          BY <1>5, Zenon DEF Assemble, get_proof
        <5>5. IsQuorum(Docs, DOMAIN gather[s], Epoch(Base))
          BY <5>2, <5>3, <5>4, DocsFinite, GatheredIsQuorum
        <5> QED BY <1>0, <5>1, <5>2, <5>3, <5>5, DocsFinite, QuorumGrows
      <4> QED BY <2>1, <2>2, <3>1, <4>1, <4>2, StoredInv
    <3>2. CASE ~(~HasBlock(s) /\ Accepted(gather[s]))
      <4>1. stored' = stored
        BY <1>0, <1>5, <2>1, <3>2 DEF Assemble, TypeOK
      <4>2. stored' \in [Keys -> Maps]
        BY <1>0, <4>1 DEF TypeOK
      <4> QED BY <2>2, <4>1, <4>2, MapsUnchangedInv, Zenon
    <3> QED BY <3>1, <3>2
  <2>5. TypeOK'
    BY <1>0, <2>2, <2>3, <2>4 DEF TypeOK
  <2> QED BY <2>4, <2>5, Zenon DEF IInv
<1>6. ASSUME NEW s \in Online, Skip(s) PROVE IInv'
  <2>1. TypeOK'
    BY <1>0, <1>2, <1>6 DEF Skip, TypeOK
  <2> QED BY <1>6, <2>1, MapsUnchangedInv, Zenon DEF Skip, IInv
<1>7. ASSUME NEW s \in Online, Restart(s) PROVE IInv'
  <2>1. s \in Keys /\ gather' = [gather EXCEPT ![s] = NoEntries] /\ stored' = stored /\ decided' = decided
    BY <1>2, <1>7 DEF Restart
  <2>2. /\ gather' \in [Keys -> Maps] /\ IsFiniteSet(decided')
        /\ \A t \in Keys : Verified(gather'[t]) \cup Verified(stored'[t]) \subseteq decided'
        /\ DecidersAreEnough'
        /\ QuorumDecidedBeforeCommit'
    <3>1. Verified(NoEntries) \subseteq decided'
      BY NoEntriesIs
    <3> QED BY <1>0, <2>1, <3>1, NoEntriesIs, GatherInv
  <2>3. /\ at' \in [Keys -> {"waiting", "deciding", "gathering"}]
        /\ restarts' \in 0..MaxRestarts /\ foreign' \in 0..MaxForeign
        /\ \A t \in Keys : at'[t] = "gathering" => t # s /\ at[t] = "gathering"
    BY <1>0, <1>7, <2>1, Assumed DEF Restart, TypeOK
  <2>4. \A t \in Keys \ {s} : gather'[t] = gather[t]
    BY <1>0, <2>1 DEF TypeOK
  <2>5. \A t \in Keys : at'[t] = "gathering" => t \in DOMAIN gather'[t] /\ t \in decided'
    BY <1>0, <2>1, <2>3, <2>4 DEF TypeOK
  <2>6. stored' \in [Keys -> Maps] /\ decided' \subseteq Keys
    BY <1>0, <2>1 DEF TypeOK
  <2>7. TypeOK'
    BY <2>2, <2>3, <2>5, <2>6, Zenon DEF TypeOK
  <2> QED BY <2>2, <2>7, Zenon DEF IInv
\* What is merged in was signed by deciders, or does not verify.
<1>8. ASSUME NEW s \in Keys, NEW answer \in Maps, at[s] = "gathering",
             gather' = [gather EXCEPT ![s] = Merge(gather[s], answer)],
             Verified(answer) \subseteq decided,
             foreign' \in 0..MaxForeign, UNCHANGED <<at, stored, decided, restarts>>
      PROVE  IInv'
  <2> DEFINE map == Merge(gather[s], answer)
  <2>1. gather[s] \in Maps /\ Verified(gather[s]) \subseteq decided
    BY <1>0 DEF TypeOK
  <2>2. /\ map \in Maps /\ DOMAIN map = DOMAIN gather[s] \cup DOMAIN answer
        /\ Verified(map) \subseteq Verified(gather[s]) \cup Verified(answer)
    BY <1>8, <2>1, MergeIs, Zenon
  <2>4. gather' = [gather EXCEPT ![s] = map]
    BY <1>8
  <2> HIDE DEF map
  <2>5. stored' = stored /\ decided' = decided /\ at' = at /\ restarts' = restarts
    BY <1>8
  <2>6. /\ gather' \in [Keys -> Maps] /\ IsFiniteSet(decided')
        /\ \A t \in Keys : Verified(gather'[t]) \cup Verified(stored'[t]) \subseteq decided'
        /\ DecidersAreEnough'
        /\ QuorumDecidedBeforeCommit'
    <3>1. Verified(map) \subseteq decided'
      BY <1>8, <2>1, <2>2, <2>5
    <3> QED BY <1>0, <2>2, <2>4, <2>5, <3>1, GatherInv
  <2>7. \A t \in Keys : at'[t] = "gathering" => t \in DOMAIN gather'[t] /\ t \in decided'
    BY <1>0, <2>2, <2>4, <2>5 DEF TypeOK
  <2>8. TypeOK'
    BY <1>0, <1>8, <2>5, <2>6, <2>7 DEF TypeOK
  <2> QED BY <2>6, <2>8, Zenon DEF IInv
<1>9. ASSUME NEW s \in Online, NEW t \in Online, Sync(s, t) PROVE IInv'
  <2>1. s \in Keys /\ t \in Keys /\ foreign' \in 0..MaxForeign
    BY <1>0, <1>2, <1>9 DEF Sync, TypeOK
  <2>2. /\ get_sigs(t) \in Maps /\ Verified(get_sigs(t)) \subseteq decided
    BY <1>0, <2>1, AnswersAre, Zenon
  <2> QED BY <1>8, <1>9, <2>1, <2>2 DEF Sync
<1>10. ASSUME NEW s \in Online, NEW k \in Keys, SyncForeign(s, k) PROVE IInv'
  <2>1. s \in Keys /\ foreign' \in 0..MaxForeign
    BY <1>0, <1>2, <1>10, Assumed DEF SyncForeign, TypeOK
  <2>2. Entry(k, FALSE) \in Maps /\ Verified(Entry(k, FALSE)) \subseteq decided
    BY EntryIs
  <2> QED BY <1>8, <1>10, <2>1, <2>2 DEF SyncForeign
<1>11. ASSUME NEW s \in Online, NEW t \in Online, BlkSync(s, t) PROVE IInv'
  <2>1. s \in Keys /\ t \in Keys /\ stored' = [stored EXCEPT ![s] = stored[t]]
    BY <1>2, <1>11 DEF BlkSync
  <2>2. stored[t] \in Maps /\ Verified(stored[t]) \subseteq decided
    BY <1>0, <2>1 DEF TypeOK
  <2>3. gather' = gather /\ decided' = decided /\ at' = at /\ restarts' = restarts /\ foreign' = foreign
    BY <1>11 DEF BlkSync
  <2>4. Genuine(stored[t]) => IsQuorum(Docs, decided, Epoch(Base))
    BY <1>11, <2>1, Zenon DEF BlkSync, IInv, QuorumDecidedBeforeCommit
  <2>5. /\ stored' \in [Keys -> Maps] /\ IsFiniteSet(decided')
        /\ \A u \in Keys : Verified(gather'[u]) \cup Verified(stored'[u]) \subseteq decided'
        /\ DecidersAreEnough'
        /\ QuorumDecidedBeforeCommit'
    <3>1. Accepted(stored[t])
      BY <1>11 DEF BlkSync
    <3> QED BY <2>1, <2>2, <2>3, <2>4, <3>1, StoredInv
  <2>6. TypeOK'
    BY <1>0, <2>3, <2>5 DEF TypeOK
  <2> QED BY <2>5, <2>6, Zenon DEF IInv
<1>12. CASE UNCHANGED vars
  <2>1. TypeOK'
    BY <1>0, <1>12 DEF vars, TypeOK
  <2> QED BY <1>12, <2>1, MapsUnchangedInv, Zenon DEF vars, IInv
<1> QED BY <1>3, <1>4, <1>5, <1>6, <1>7, <1>9, <1>10, <1>11, <1>12 DEF Next

LEMMA Invariance == Spec => []IInv
<1>1. Init => IInv
  BY InitInv
<1>2. IInv /\ [Next]_vars => IInv'
  BY NextInv
<1> QED BY <1>1, <1>2, PTL DEF Spec

\* A staker that holds a round open has an entry of its own in its map and
\* is among those that decided (staker.rs:179-188), and no merging, storing
\* or syncing makes up a signature of somebody who did not.
THEOREM TypeCorrect == Spec => []TypeOK
<1>1. IInv => TypeOK
  BY DEF IInv
<1> QED BY <1>1, Invariance, PTL

\* Whatever neighbours answer to get_sigs (staker.rs:237-240), no node stores
\* the block before stakers have decided on it whose votes are enough, as
\* apply_block counts them (storage.rs:277-300).
THEOREM DecidersSafety == Spec => []DecidersAreEnough
<1>1. IInv => DecidersAreEnough
  BY DEF IInv
<1> QED BY <1>1, Invariance, PTL

\* A node that stores the block with a proof whose entries all verify does so
\* after stakers with more than two thirds of the votes have decided on it
\* (staker.rs:193-217), whatever else neighbours have answered to others.
THEOREM QuorumSafety == Spec => []QuorumDecidedBeforeCommit
<1>1. IInv => QuorumDecidedBeforeCommit
  BY DEF IInv
<1> QED BY <1>1, Invariance, PTL

LEMMA RefusalsAre ==
  ASSUME Epoch(Base + 1) = Epoch(Base), IInv, [Next]_vars,
         NEW s \in Keys, Ends(s), ~HasBlock(s)'
  PROVE  \E k \in DOMAIN gather[s] : ~gather[s][k]
<1>1. /\ at[s] = "gathering" /\ at'[s] = "waiting" /\ ~HasBlock(s) /\ gather'[s] = gather[s]
      /\ s \in DOMAIN gather[s] /\ IsFiniteSet(decided) /\ Verified(gather[s]) \subseteq decided
  BY DEF IInv, TypeOK, Ends
<1>2. /\ at \in [Keys -> {"waiting", "deciding", "gathering"}] /\ Online \subseteq Keys
      /\ gather \in [Keys -> Maps] /\ stored \in [Keys -> Maps]
  BY Assumed DEF IInv, TypeOK
\* Only the end of a round and a restart put a staker back to waiting, and
\* a restart forgets its map.
<1>3. Assemble(s)
  <2>1. ASSUME NEW t \in Online, Begin(t) \/ Decide(t) PROVE FALSE
    BY <1>1, <1>2, <2>1 DEF Begin, Decide
  <2>2. ASSUME NEW t \in Online, Skip(t) PROVE FALSE
    BY <1>1, <1>2, <2>2 DEF Skip
  <2>3. ASSUME NEW t \in Online, Restart(t) PROVE FALSE
    <3>1. t = s
      BY <1>1, <1>2, <2>3 DEF Restart
    <3>2. gather'[s] = NoEntries
      BY <1>2, <2>3, <3>1 DEF Restart
    <3> QED BY <1>1, <3>2, NoEntriesIs
  <2>4. ASSUME NEW t \in Online, Assemble(t) PROVE t = s
    BY <1>1, <1>2, <2>4 DEF Assemble
  <2>5. ASSUME NEW t \in Online, NEW u \in Online, Sync(t, u) \/ BlkSync(t, u) PROVE FALSE
    BY <1>1, <2>5 DEF Sync, BlkSync
  <2>6. ASSUME NEW t \in Online, NEW k \in Keys, SyncForeign(t, k) PROVE FALSE
    BY <1>1, <2>6 DEF SyncForeign
  <2>7. CASE UNCHANGED vars
    BY <1>1, <2>7 DEF vars
  <2> QED BY <2>1, <2>2, <2>3, <2>4, <2>5, <2>6, <2>7 DEF Next
<1>4. ~Accepted(gather[s])
  BY <1>1, <1>2, <1>3 DEF Assemble, HasBlock
<1> SUFFICES ASSUME \A k \in DOMAIN gather[s] : gather[s][k]
             PROVE  FALSE
  OBVIOUS
<1>5. DOMAIN gather[s] = Verified(gather[s])
  BY DEF Verified
<1>6. EnoughVotes(DocOrder, Verified(gather[s]), Epoch(Base))
  <2>1. IsFiniteSet(DOMAIN gather[s])
    BY <1>1, <1>5, FS_Subset
  <2>2. GatheredEnough(Docs, DOMAIN gather[s], Epoch(Base))
    BY <1>3, Zenon DEF Assemble, get_proof
  <2>3. \A d \in Docs : d.syms_staked \in Nat
    BY Assumed
  <2>4. EnoughVotes(DocOrder, DOMAIN gather[s], Epoch(Base))
    BY <2>1, <2>2, <2>3, DocsFinite, OrderLists, EnoughFollows
  <2> QED BY <1>5, <2>4, Zenon
<1>7. Accepted(gather[s])
  BY <1>6, Zenon DEF Accepted
<1> QED BY <1>4, <1>7

\* A proof that get_proof finds sufficient (staker.rs:193-199, by counting
\* keys) is refused by apply_block (storage.rs:277-293, by verifying
\* signatures) only because of an entry that does not verify, for any
\* stakes and any order of their tree, except where the new block begins an
\* epoch: there the two count the stakes of different epochs.
THEOREM RefusalsExplained ==
  ASSUME Epoch(Base + 1) = Epoch(Base)
  PROVE  Spec => RefusedOnlyUnverified
<1>1. IInv /\ [Next]_vars =>
        [\A s \in Keys :
           Ends(s) /\ ~HasBlock(s)' => \E k \in DOMAIN gather[s] : ~gather[s][k]]_vars
  BY RefusalsAre
<1> QED BY <1>1, Invariance, PTL DEF Spec, RefusedOnlyUnverified
=============================================================================
