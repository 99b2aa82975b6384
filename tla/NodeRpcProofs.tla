---------------------------- MODULE NodeRpcProofs ----------------------------
(***************************************************************************)
(* Proofs about NodeRpc, for any number of tasks, any size of the caches   *)
(* and any bounds.  The argument: what a handler learns about the chain    *)
(* before an await - a height it has seen, a proof it has read - stays     *)
(* true while the chain only grows, and the loss of blocks ends the        *)
(* process and every call with it.                                         *)
(***************************************************************************)
EXTENDS NodeRpc, SequenceTheorems, TLAPS

CallType ==
  [op : Ops, at : Labels \cup {"returned"}, height : 0..MaxHeight, found : BOOLEAN,
   proof : [height : 0..MaxHeight, life : 0..MaxRestarts],
   limit : 0..MaxHeight, seen : 0..MaxHeight, since : 0..MaxHeight]

Chains == {chain \in Seq(0..MaxRestarts) : Len(chain) <= MaxHeight}

ProofIn(chain, h) == IF h \in 1..Len(chain) THEN Proof(h, chain[h]) ELSE NoProof

(***************************************************************************)
(* The inductive invariant.                                                *)
(***************************************************************************)
\* The operations that may be suspended at a label.
OpsAt ==
  [label \in Labels |->
     CASE label = "highest" -> {"get_summary"}
       [] label = "proof" -> {"get_summary", "get_abbr_block"}
       [] label = "tree" -> {"get_smt_branch"}
       [] label \in {"limit", "polling"} -> {"get_some_coins", "get_coin_changes"}
       [] label = "second" -> {"get_coin_changes"}
       [] OTHER -> {"get_abbr_block", "get_smt_branch", "get_state", "get_coin_changes"}]

\* The height of a call and the proof that goes with it.
HeightGood(c, chain) ==
  /\ c.height <= Len(chain)
  /\ c.op = "get_summary" => c.since <= c.height
  /\ c.op = "get_abbr_block" => 1 <= c.height

\* What a call knows of the chain and of the index, where it is suspended and
\* in its answer.
Good(c, chain) ==
  /\ c.since <= Len(chain)
  /\ c.at \in Labels => c.op \in OpsAt[c.at]
  /\ c.at = "proof" => HeightGood(c, chain)
  /\ c.at \in {"limit", "polling"} => c.height <= Len(chain)
  /\ c.at = "polling" => c.since <= c.limit /\ c.height <= c.limit
  /\ c.at = "second" => c.since <= c.seen /\ c.height <= c.seen
  /\ c.at = "returned" /\ c.found =>
       /\ c.op \in {"get_summary", "get_abbr_block"} =>
            HeightGood(c, chain) /\ c.proof = ProofIn(chain, c.height)
       /\ c.op \in {"get_some_coins", "get_coin_changes"} => c.since <= c.seen
       /\ c.op = "get_coin_changes" => c.height <= c.seen

CacheGood(cache, first) ==
  \A h \in DOMAIN cache : h \in first..Height /\ cache[h] = ProofIn(stored, h)

\* The call the self-test waits for: it cannot be without an answer.
Asked(c, n) ==
  /\ c.op = "get_coin_changes" /\ c.height = n
  /\ c.at = "returned" => c.found

Typed ==
  /\ stored \in Chains
  /\ index \in 0..MaxHeight /\ trusted \in 0..Height
  /\ calls \in [Tasks -> CallType]
  /\ test \in [at : {"pass", "replay", "asking", "stopped", "failed"},
               next : 0..(MaxHeight + 1), last : 0..MaxHeight]
  /\ restarts \in 0..MaxRestarts /\ indexed \in BOOLEAN

CallsGood == \A t \in Tasks : Good(calls[t], stored)

CachesGood == CacheGood(summary, 0) /\ CacheGood(abbr, 1)

TestGood ==
  /\ test.at # "failed"
  /\ test.at \in {"replay", "asking"} =>
       test.last <= Height /\ 1 <= test.next /\ test.next <= test.last + 1
  /\ test.at = "asking" => indexed /\ test.next <= test.last /\ Asked(calls[Tester], test.next)

IInv == Typed /\ CallsGood /\ CachesGood /\ TestGood

LEMMA Bounds ==
  /\ MaxHeight \in Nat /\ MaxRestarts \in Nat /\ Base \in Nat \ {0}
  /\ Tester \in Tasks
BY RpcAssumption

LEMMA ProofIsProofIn == \A h : ProofOf(h) = ProofIn(stored, h)
BY DEF ProofOf, ProofIn, Height

LEMMA ProofsTyped ==
  ASSUME NEW chain \in Chains, NEW h
  PROVE  ProofIn(chain, h) \in [height : 0..MaxHeight, life : 0..MaxRestarts]
<1>1. CASE h \in 1..Len(chain)
  <2>1. chain[h] \in 0..MaxRestarts /\ Len(chain) \in Nat /\ h \in 0..MaxHeight
    BY <1>1, Bounds DEF Chains
  <2> QED BY <1>1, <2>1 DEF ProofIn, Proof
<1>2. CASE h \notin 1..Len(chain)
  BY <1>2, Bounds DEF ProofIn, Proof, NoProof
<1> QED BY <1>1, <1>2

LEMMA HeightTyped ==
  ASSUME Typed
  PROVE  Height \in 0..MaxHeight /\ Height = Len(stored)
BY Bounds, LenProperties DEF Typed, Chains, Height

LEMMA TypesFollow == IInv => TypeOK
<1> SUFFICES ASSUME IInv PROVE TypeOK
  OBVIOUS
<1>1. DOMAIN summary \subseteq 0..Height /\ DOMAIN abbr \subseteq 1..Height
  BY DEF IInv, CachesGood, CacheGood
<1> QED BY <1>1 DEF IInv, Typed, TypeOK, CallType, Chains, Height

LEMMA PropertiesFollow == IInv => CachesHoldTheChain /\ FreshAnswers /\ SelfTestHolds
<1> SUFFICES ASSUME IInv PROVE CachesHoldTheChain /\ FreshAnswers /\ SelfTestHolds
  OBVIOUS
<1>1. Height \in Nat
  BY HeightTyped, Bounds DEF IInv
<1>2. CachesHoldTheChain
  BY <1>1, ProofIsProofIn
  DEF IInv, CachesGood, CacheGood, CallsGood, Good, HeightGood, CachesHoldTheChain
<1>3. FreshAnswers
  <2> SUFFICES ASSUME NEW t \in Tasks, calls[t].at = "returned", calls[t].found
               PROVE  /\ calls[t].op = "get_summary" => calls[t].height >= calls[t].since
                      /\ calls[t].op \in {"get_some_coins", "get_coin_changes"} =>
                           calls[t].seen >= calls[t].since
                      /\ calls[t].op = "get_coin_changes" => calls[t].seen >= calls[t].height
    BY DEF FreshAnswers
  <2> QED BY DEF IInv, CallsGood, Good, HeightGood, Typed, CallType
<1>4. SelfTestHolds
  BY DEF IInv, TestGood, SelfTestHolds
<1> QED BY <1>2, <1>3, <1>4

(***************************************************************************)
(* Calls.                                                                  *)
(***************************************************************************)
LEMMA NoCallGood == NoCall \in CallType /\ \A chain \in Chains : Good(NoCall, chain)
<1>1. NoCall \in CallType
  BY Bounds DEF NoCall, CallType, NoProof, Proof, Ops
<1>2. NoCall.at = "returned" /\ ~NoCall.found /\ NoCall.since = 0
  BY DEF NoCall
<1>3. "returned" \notin Labels
  BY DEF Labels
<1> QED BY <1>1, <1>2, <1>3, LenProperties DEF Good, Chains

\* What was good stays good on a longer chain.
LEMMA GoodStays ==
  ASSUME NEW c \in CallType, NEW chain \in Chains, NEW life \in 0..MaxRestarts,
         Len(chain) < MaxHeight, Good(c, chain)
  PROVE  /\ Append(chain, life) \in Chains
         /\ Len(Append(chain, life)) = Len(chain) + 1
         /\ Good(c, Append(chain, life))
         /\ \A h \in 0..Len(chain) : ProofIn(Append(chain, life), h) = ProofIn(chain, h)
<1> DEFINE longer == Append(chain, life)
<1>1. /\ longer \in Seq(0..MaxRestarts) /\ Len(longer) = Len(chain) + 1 /\ Len(chain) \in Nat
      /\ \A h \in 1..Len(chain) : longer[h] = chain[h]
  BY AppendProperties, LenProperties DEF Chains
<1>2. \A h \in 0..Len(chain) : ProofIn(longer, h) = ProofIn(chain, h)
  BY <1>1 DEF ProofIn
<1>3. longer \in Chains
  BY <1>1, Bounds DEF Chains
<1> HIDE DEF longer
<1>4. c.height \in Nat /\ c.since \in Nat
  BY Bounds DEF CallType
<1>5. HeightGood(c, chain) => HeightGood(c, longer) /\ c.height \in 0..Len(chain)
  BY <1>1, <1>4 DEF HeightGood
<1>6. Good(c, longer)
  BY <1>1, <1>2, <1>4, <1>5 DEF Good
<1> QED BY <1>1, <1>2, <1>3, <1>6 DEF longer

\* An answer keeps what the call has learnt.
LEMMA AnswerGood ==
  ASSUME NEW chain \in Chains, NEW c \in CallType, c.since <= Len(chain),
         c.op \in {"get_summary", "get_abbr_block"} =>
           HeightGood(c, chain) /\ c.proof = ProofIn(chain, c.height),
         c.op \in {"get_some_coins", "get_coin_changes"} => c.since <= c.seen,
         c.op = "get_coin_changes" => c.height <= c.seen
  PROVE  /\ Answer(c) \in CallType /\ Good(Answer(c), chain)
         /\ \A n : c.op = "get_coin_changes" /\ c.height = n => Asked(Answer(c), n)
<1>0. "returned" \notin Labels /\ Len(chain) \in Nat
  BY LenProperties DEF Labels, Chains
<1>1. CASE c.op \in {"get_state", "get_smt_branch"}
  <2> DEFINE a == [NoCall EXCEPT !.found = TRUE]
  <2>1. Answer(c) = a
    BY <1>1 DEF Answer
  <2>2. /\ a \in CallType /\ a.at = "returned" /\ a.since = 0 /\ a.op = "get_state"
    BY NoCallGood DEF CallType, NoCall, Ops
  <2> HIDE DEF a
  <2>3. Good(a, chain)
    BY <2>2, <1>0 DEF Good
  <2> QED BY <1>1, <2>1, <2>2, <2>3
<1>2. CASE c.op \notin {"get_state", "get_smt_branch"}
  <2> DEFINE a == [c EXCEPT !.at = "returned", !.found = TRUE, !.limit = 0]
  <2>1. Answer(c) = a
    BY <1>2 DEF Answer
  <2>2. a \in CallType
    <3>1. 0 \in 0..MaxHeight
      BY Bounds
    <3> QED BY <3>1 DEF CallType
  <2>3. /\ a.at = "returned" /\ a.found /\ a.since = c.since /\ a.op = c.op
        /\ a.height = c.height /\ a.proof = c.proof /\ a.seen = c.seen
    BY DEF CallType
  <2> HIDE DEF a
  <2>4. Good(a, chain)
    BY <2>3, <1>0 DEF Good, HeightGood
  <2> QED BY <2>1, <2>2, <2>3, <2>4 DEF Asked
<1> QED BY <1>1, <1>2

\* One call goes on and keeps what it knows.
LEMMA GoesOn ==
  ASSUME IInv, NEW t \in Tasks, NEW c \in CallType, Good(c, stored), Becomes(t, c),
         t = Tester /\ test.at = "asking" => \A n \in 1..Height : Asked(calls[t], n) => Asked(c, n),
         UNCHANGED <<stored, index, trusted, test, restarts, indexed>>, CachesGood'
  PROVE  IInv'
<1>1. calls' = [calls EXCEPT ![t] = c] /\ calls \in [Tasks -> CallType]
  BY DEF Becomes, IInv, Typed
<1>2. Typed'
  BY <1>1 DEF IInv, Typed, Height
<1>3. CallsGood'
  BY <1>1 DEF IInv, CallsGood
<1>4. TestGood'
  <2>1. test.at = "asking" => test.next \in 1..Height
    BY HeightTyped, Bounds DEF IInv, TestGood, Typed
  <2>2. test.at = "asking" => Asked(calls'[Tester], test.next)
    BY <1>1, <2>1, Bounds DEF IInv, TestGood
  <2> QED BY <2>2 DEF IInv, TestGood, Height
<1> QED BY <1>2, <1>3, <1>4 DEF IInv

LEMMA CachesKept ==
  ASSUME IInv, UNCHANGED <<stored, caches>>
  PROVE  CachesGood'
BY DEF IInv, CachesGood, CacheGood, caches, Height

\* What a cache is given is the proof stored with its key.
LEMMA PutsGood ==
  ASSUME IInv, NEW cache, NEW first \in Nat, CacheGood(cache, first),
         NEW h \in first..Height, NEW new \in Puts(cache, h, ProofIn(stored, h))
  PROVE  CacheGood(new, first)
<1>1. PICK kept \in SUBSET (DOMAIN cache \ {h}) :
        new = [k \in kept \cup {h} |-> IF k = h THEN ProofIn(stored, h) ELSE cache[k]]
  BY DEF Puts
<1> QED BY <1>1 DEF CacheGood

LEMMA GetHighestInv ==
  ASSUME IInv, NEW t \in Tasks, GetHighest(t)
  PROVE  IInv'
<1> DEFINE old == calls[t]
           call == [old EXCEPT !.height = Height]
           hit == [call EXCEPT !.proof = summary[Height]]
           miss == [call EXCEPT !.at = "proof"]
<1>1. old \in CallType /\ Good(old, stored) /\ old.at = "highest" /\ old.op = "get_summary"
  BY DEF IInv, Typed, CallsGood, GetHighest, At, Good, OpsAt, Labels
<1>2. Height \in 0..MaxHeight /\ Height = Len(stored) /\ stored \in Chains
  BY HeightTyped DEF IInv, Typed
<1>3. call \in CallType /\ call.op = old.op /\ call.height = Height /\ call.since = old.since
  BY <1>1, <1>2 DEF CallType
<1>4. old.since <= Height
  BY <1>1, <1>2 DEF Good
<1>5. \A n : ~Asked(old, n)
  BY <1>1 DEF Asked
<1>6. CASE Height \in DOMAIN summary
  <2>1. summary[Height] = ProofIn(stored, Height)
    BY <1>6 DEF IInv, CachesGood, CacheGood
  <2>2. /\ hit \in CallType /\ hit.op = "get_summary" /\ hit.height = Height
        /\ hit.since = old.since /\ hit.proof = ProofIn(stored, Height)
    <3>1. ProofIn(stored, Height) \in [height : 0..MaxHeight, life : 0..MaxRestarts]
      BY <1>2, ProofsTyped
    <3> HIDE DEF call
    <3> QED BY <1>1, <1>3, <2>1, <3>1 DEF CallType
  <2> HIDE DEF hit, call
  <2>3. Answer(hit) \in CallType /\ Good(Answer(hit), stored)
    BY <1>2, <1>4, <2>2, AnswerGood DEF HeightGood, CallType
  <2>4. Becomes(t, Answer(hit)) /\ UNCHANGED <<stored, caches, index, trusted, test, restarts, indexed>>
    BY <1>6 DEF GetHighest, hit, call
  <2> QED BY <1>5, <2>3, <2>4, CachesKept, GoesOn DEF caches
<1>7. CASE Height \notin DOMAIN summary
  <2>1. /\ miss \in CallType /\ miss.at = "proof" /\ miss.op = "get_summary"
        /\ miss.height = Height /\ miss.since = old.since
    <3> HIDE DEF call
    <3> QED BY <1>1, <1>3 DEF CallType, Labels
  <2> HIDE DEF miss, call
  <2>2. Good(miss, stored)
    BY <1>2, <1>4, <2>1 DEF Good, HeightGood, OpsAt, Labels, CallType
  <2>3. Becomes(t, miss) /\ UNCHANGED <<stored, caches, index, trusted, test, restarts, indexed>>
    BY <1>7 DEF GetHighest, miss, call
  <2> QED BY <1>5, <2>1, <2>2, <2>3, CachesKept, GoesOn DEF caches
<1> QED BY <1>6, <1>7

LEMMA GetProofInv ==
  ASSUME IInv, NEW t \in Tasks, GetProof(t)
  PROVE  IInv'
<1> DEFINE old == calls[t]
           p == ProofIn(stored, old.height)
           call == [old EXCEPT !.proof = p]
<1>1. /\ old \in CallType /\ Good(old, stored) /\ old.at = "proof"
      /\ old.op \in {"get_summary", "get_abbr_block"} /\ HeightGood(old, stored)
  BY DEF IInv, Typed, CallsGood, GetProof, At, Good, OpsAt, Labels
<1>2. /\ old.height \in 0..Height /\ Height = Len(stored) /\ stored \in Chains
      /\ Height \in 0..MaxHeight /\ (old.op = "get_abbr_block" => old.height \in 1..Height)
      /\ old.since <= Len(stored)
  <2>1. stored \in Chains /\ Height \in 0..MaxHeight /\ Height = Len(stored)
    BY HeightTyped DEF IInv, Typed
  <2>2. /\ old.height <= Len(stored) /\ old.since <= Len(stored)
        /\ old.op = "get_abbr_block" => 1 <= old.height
    BY <1>1 DEF HeightGood, Good
  <2>3. old.height \in 0..MaxHeight
    BY <1>1 DEF CallType
  <2> HIDE DEF old
  <2> QED BY <2>1, <2>2, <2>3, Bounds
<1>3. \A n : ~Asked(old, n)
  BY <1>1 DEF Asked
<1>4. p = ProofOf(old.height) /\ p \in [height : 0..MaxHeight, life : 0..MaxRestarts]
  BY <1>2, ProofsTyped, ProofIsProofIn
<1>5. Answer(call) \in CallType /\ Good(Answer(call), stored)
  <2> HIDE DEF p
  <2>1. /\ call \in CallType /\ call.op = old.op /\ call.height = old.height
        /\ call.since = old.since /\ call.proof = p
    BY <1>1, <1>4 DEF CallType
  <2> HIDE DEF call
  <2> QED BY <1>1, <1>2, <2>1, AnswerGood DEF HeightGood, p
<1>6. UNCHANGED <<stored, index, trusted, test, restarts, indexed>>
  BY DEF GetProof
<1> HIDE DEF p, call
<1>7. CASE old.op = "get_summary"
  <2>1. summary' \in Puts(summary, old.height, p) /\ UNCHANGED abbr /\ Becomes(t, Answer(call))
    BY <1>4, <1>7 DEF GetProof, call
  <2>2. CacheGood(summary', 0)
    BY <1>2, <2>1, PutsGood DEF p, IInv, CachesGood
  <2>3. CachesGood'
    BY <1>6, <2>1, <2>2 DEF IInv, CachesGood, CacheGood, Height
  <2> QED BY <1>3, <1>5, <1>6, <2>1, <2>3, GoesOn
<1>8. CASE old.op = "get_abbr_block" /\ p = NoProof
  <2>1. UNCHANGED caches /\ Becomes(t, Missing)
    BY <1>4, <1>8 DEF GetProof, caches
  <2> QED BY <1>2, <1>3, <1>6, <2>1, NoCallGood, CachesKept, GoesOn DEF Missing
<1>9. CASE old.op = "get_abbr_block" /\ p # NoProof
  <2>1. abbr' \in Puts(abbr, old.height, p) /\ UNCHANGED summary /\ Becomes(t, Answer(call))
    BY <1>4, <1>9 DEF GetProof, call
  <2>2. CacheGood(abbr', 1)
    BY <1>2, <1>9, <2>1, PutsGood DEF p, IInv, CachesGood
  <2>3. CachesGood'
    BY <1>6, <2>1, <2>2 DEF IInv, CachesGood, CacheGood, Height
  <2> QED BY <1>3, <1>5, <1>6, <2>1, <2>3, GoesOn
<1> QED BY <1>1, <1>7, <1>8, <1>9

\* A block that is not there ends the call; the self-test never asks for one.
LEMMA GetBlockInv ==
  ASSUME IInv, NEW t \in Tasks, GetBlock(t)
  PROVE  IInv'
<1> DEFINE old == calls[t]
<1>1. /\ old \in CallType /\ Good(old, stored) /\ old.at = "block" /\ old.since <= Len(stored)
      /\ old.op \in {"get_abbr_block", "get_smt_branch", "get_state", "get_coin_changes"}
  BY DEF IInv, Typed, CallsGood, GetBlock, At, Good, OpsAt, Labels
<1>2. Height \in 0..MaxHeight /\ Height = Len(stored) /\ stored \in Chains
  BY HeightTyped DEF IInv, Typed
<1>3. UNCHANGED <<stored, caches, index, trusted, test, restarts, indexed>>
  BY DEF GetBlock
<1>4. CASE old.height \notin 1..Height
  <2>1. Becomes(t, Missing)
    BY <1>4 DEF GetBlock
  <2>2. \A n \in 1..Height : ~Asked(old, n)
    BY <1>4 DEF Asked
  <2> QED BY <1>2, <1>3, <2>1, <2>2, NoCallGood, CachesKept, GoesOn DEF Missing, caches
<1>5. ASSUME NEW label \in {"proof", "limit", "tree"}, old.height \in 1..Height,
             Becomes(t, [old EXCEPT !.at = label]), old.op \in OpsAt[label],
             label = "proof" => old.op = "get_abbr_block"
      PROVE  IInv'
  <2> DEFINE call == [old EXCEPT !.at = label]
  <2>1. /\ call \in CallType /\ call.at = label /\ call.op = old.op
        /\ call.height = old.height /\ call.since = old.since
    BY <1>1 DEF CallType, Labels
  <2> HIDE DEF call
  <2>2. Good(call, stored)
    BY <1>1, <1>2, <1>5, <2>1 DEF Good, HeightGood, Labels
  <2>3. \A n \in 1..Height : Asked(old, n) => Asked(call, n)
    BY <2>1 DEF Asked
  <2> QED BY <1>3, <1>5, <2>1, <2>2, <2>3, CachesKept, GoesOn DEF caches, call
<1>6. CASE old.height \in 1..Height /\ old.op = "get_state"
  <2>1. Becomes(t, Answer(old))
    BY <1>6 DEF GetBlock
  <2>2. Answer(old) \in CallType /\ Good(Answer(old), stored)
    BY <1>1, <1>2, <1>6, AnswerGood
  <2>3. \A n \in 1..Height : ~Asked(old, n)
    BY <1>6 DEF Asked
  <2> QED BY <1>3, <2>1, <2>2, <2>3, CachesKept, GoesOn DEF caches
<1>7. CASE old.height \in 1..Height /\ old.op = "get_abbr_block"
  BY <1>5, <1>7 DEF GetBlock, OpsAt, Labels
<1>8. CASE old.height \in 1..Height /\ old.op = "get_coin_changes"
  BY <1>5, <1>8 DEF GetBlock, OpsAt, Labels
<1>9. CASE old.height \in 1..Height /\ old.op = "get_smt_branch"
  BY <1>5, <1>9 DEF GetBlock, OpsAt, Labels
<1> QED BY <1>1, <1>4, <1>6, <1>7, <1>8, <1>9

LEMMA GetTreeInv ==
  ASSUME IInv, NEW t \in Tasks, GetTree(t)
  PROVE  IInv'
<1> DEFINE old == calls[t]
<1>1. old \in CallType /\ Good(old, stored) /\ old.op = "get_smt_branch" /\ old.since <= Len(stored)
  BY DEF IInv, Typed, CallsGood, GetTree, At, Good, OpsAt, Labels
<1>2. stored \in Chains
  BY DEF IInv, Typed
<1>3. /\ Answer(old) \in CallType /\ Good(Answer(old), stored)
      /\ Missing \in CallType /\ Good(Missing, stored)
  BY <1>1, <1>2, AnswerGood, NoCallGood DEF Missing
<1>4. \A n : ~Asked(old, n)
  BY <1>1 DEF Asked
<1>5. /\ Becomes(t, Answer(old)) \/ Becomes(t, Missing)
      /\ UNCHANGED <<stored, caches, index, trusted, test, restarts, indexed>>
  BY DEF GetTree
<1> QED BY <1>3, <1>4, <1>5, CachesKept, GoesOn DEF caches

\* The height it waits for is at least that of the call and of its block.
LEMMA ReadLimitInv ==
  ASSUME IInv, NEW t \in Tasks, ReadLimit(t)
  PROVE  IInv'
<1> DEFINE old == calls[t]
           call == [old EXCEPT !.at = "polling", !.limit = Height]
<1>1. /\ old \in CallType /\ Good(old, stored) /\ old.at = "limit" /\ old.since <= Len(stored)
      /\ old.op \in {"get_some_coins", "get_coin_changes"} /\ old.height <= Len(stored)
  BY DEF IInv, Typed, CallsGood, ReadLimit, At, Good, OpsAt, Labels
<1>2. Height \in 0..MaxHeight /\ Height = Len(stored)
  BY HeightTyped DEF IInv
<1>3. /\ call \in CallType /\ call.at = "polling" /\ call.limit = Height
      /\ call.op = old.op /\ call.height = old.height /\ call.since = old.since
  <2>1. call \in CallType
    BY <1>1, <1>2 DEF CallType, Labels
  <2>2. /\ call.at = "polling" /\ call.limit = Height
        /\ call.op = old.op /\ call.height = old.height /\ call.since = old.since
    BY <1>1 DEF CallType
  <2> QED BY <2>1, <2>2
<1>4. UNCHANGED <<stored, caches, index, trusted, test, restarts, indexed>>
  BY DEF ReadLimit
<1>5. CASE indexed
  <2>1. Becomes(t, call)
    BY <1>5 DEF ReadLimit
  <2> HIDE DEF call
  <2>2. Good(call, stored)
    BY <1>1, <1>2, <1>3 DEF Good, OpsAt, Labels
  <2>3. \A n \in 1..Height : Asked(old, n) => Asked(call, n)
    BY <1>3 DEF Asked
  <2> QED BY <1>3, <1>4, <2>1, <2>2, <2>3, CachesKept, GoesOn DEF caches
<1>6. CASE ~indexed
  <2>1. Becomes(t, Missing) /\ test.at # "asking"
    BY <1>6 DEF ReadLimit, IInv, TestGood
  <2>2. stored \in Chains
    BY DEF IInv, Typed
  <2> QED BY <1>4, <2>1, <2>2, NoCallGood, CachesKept, GoesOn DEF caches, Missing
<1> QED BY <1>5, <1>6

LEMMA QueryIndexInv ==
  ASSUME IInv, NEW t \in Tasks, QueryIndex(t)
  PROVE  IInv'
<1> DEFINE old == calls[t]
           call == [old EXCEPT !.seen = index]
           next == [call EXCEPT !.at = "second"]
<1>1. /\ old \in CallType /\ Good(old, stored) /\ old.at = "polling" /\ old.since <= Len(stored)
      /\ old.op \in {"get_some_coins", "get_coin_changes"}
      /\ old.since <= old.limit /\ old.height <= old.limit /\ index >= old.limit
  BY DEF IInv, Typed, CallsGood, QueryIndex, Reached, At, Good, OpsAt, Labels
<1>2. index \in 0..MaxHeight /\ stored \in Chains
  BY DEF IInv, Typed
<1>3. /\ call \in CallType /\ call.seen = index
      /\ call.op = old.op /\ call.height = old.height /\ call.since = old.since
  BY <1>1, <1>2 DEF CallType
<1>4. call.since <= call.seen /\ call.height <= call.seen
  <2>1. old.since \in Nat /\ old.height \in Nat /\ old.limit \in Nat /\ index \in Nat
    BY <1>1, <1>2, Bounds DEF CallType
  <2>2. old.since <= index /\ old.height <= index
    <3> HIDE DEF old
    <3> QED BY <1>1, <2>1
  <2> QED BY <1>3, <2>2
<1>5. UNCHANGED <<stored, caches, index, trusted, test, restarts, indexed>>
  BY DEF QueryIndex
<1>6. CASE old.op = "get_coin_changes"
  <2>1. Becomes(t, next)
    BY <1>6 DEF QueryIndex
  <2> HIDE DEF call
  <2>2. /\ next \in CallType /\ next.at = "second" /\ next.seen = call.seen
        /\ next.op = old.op /\ next.height = old.height /\ next.since = old.since
    BY <1>3 DEF CallType, Labels
  <2> HIDE DEF next
  <2>3. Good(next, stored)
    BY <1>1, <1>3, <1>4, <1>6, <2>2 DEF Good, OpsAt, Labels
  <2>4. \A n \in 1..Height : Asked(old, n) => Asked(next, n)
    BY <2>2 DEF Asked
  <2> QED BY <1>5, <2>1, <2>2, <2>3, <2>4, CachesKept, GoesOn DEF caches
<1>7. CASE old.op = "get_some_coins"
  <2>1. Becomes(t, Answer(call))
    BY <1>7 DEF QueryIndex
  <2> HIDE DEF call
  <2>2. Answer(call) \in CallType /\ Good(Answer(call), stored)
    BY <1>1, <1>2, <1>3, <1>4, <1>7, AnswerGood
  <2>3. \A n : ~Asked(old, n)
    BY <1>7 DEF Asked
  <2> QED BY <1>5, <2>1, <2>2, <2>3, CachesKept, GoesOn DEF caches
<1> QED BY <1>1, <1>6, <1>7

LEMMA QueryAddedInv ==
  ASSUME IInv, NEW t \in Tasks, QueryAdded(t)
  PROVE  IInv'
<1> DEFINE old == calls[t]
<1>1. /\ old \in CallType /\ Good(old, stored) /\ old.op = "get_coin_changes"
      /\ old.since <= Len(stored) /\ old.since <= old.seen /\ old.height <= old.seen
  BY DEF IInv, Typed, CallsGood, QueryAdded, At, Good, OpsAt, Labels
<1>2. stored \in Chains
  BY DEF IInv, Typed
<1>3. Becomes(t, Answer(old)) /\ UNCHANGED <<stored, caches, index, trusted, test, restarts, indexed>>
  BY DEF QueryAdded
<1>4. /\ Answer(old) \in CallType /\ Good(Answer(old), stored)
      /\ \A n : Asked(old, n) => Asked(Answer(old), n)
  BY <1>1, <1>2, AnswerGood DEF Asked
<1> QED BY <1>3, <1>4, CachesKept, GoesOn DEF caches

\* What a handler knows before its first await.
LEMMA BeginGood ==
  ASSUME IInv, NEW op \in Ops, NEW h \in 1..MaxHeight
  PROVE  /\ Begin(op, h) \in CallType /\ Good(Begin(op, h), stored)
         /\ op = "get_coin_changes" => Asked(Begin(op, h), h)
<1> DEFINE since == IF op \in {"get_abbr_block", "get_smt_branch", "get_state"} THEN 0 ELSE Height
           height == IF op \in {"get_summary", "get_some_coins"} THEN 0 ELSE h
           call == [NoCall EXCEPT !.op = op, !.since = since, !.height = height]
           hit == [call EXCEPT !.proof = abbr[h]]
<1>1. /\ Height \in 0..MaxHeight /\ Height = Len(stored) /\ stored \in Chains
      /\ since \in 0..Height /\ height \in 0..MaxHeight
      /\ op \in {"get_abbr_block", "get_coin_changes"} => height = h
      /\ op \in {"get_some_coins", "get_summary"} => height = 0
  BY HeightTyped, Bounds DEF IInv, Typed
<1>2. since \in 0..MaxHeight
  BY <1>1, Bounds
<1> HIDE DEF since, height
<1>3. call \in CallType /\ call.op = op /\ call.since = since /\ call.height = height
  BY <1>1, <1>2, NoCallGood DEF CallType, NoCall
<1>4. ASSUME NEW label \in {"highest", "limit", "block"}, op \in OpsAt[label],
             label = "limit" => op = "get_some_coins",
             Begin(op, h) = [call EXCEPT !.at = label]
      PROVE  /\ Begin(op, h) \in CallType /\ Good(Begin(op, h), stored)
             /\ op = "get_coin_changes" => Asked(Begin(op, h), h)
  <2> DEFINE asked == [call EXCEPT !.at = label]
  <2> HIDE DEF call
  <2>1. /\ asked \in CallType /\ asked.at = label /\ asked.op = op /\ asked.since = since
        /\ asked.height = height
    BY <1>3 DEF CallType, Labels
  <2> HIDE DEF asked
  <2>2. Good(asked, stored)
    BY <1>1, <1>4, <2>1 DEF Good, Labels
  <2> QED BY <1>1, <1>4, <2>1, <2>2 DEF Asked, asked, call
<1>5. CASE op = "get_summary"
  BY <1>4, <1>5 DEF Begin, OpsAt, Labels, since, height
<1>6. CASE op = "get_abbr_block" /\ h \in DOMAIN abbr
  <2>1. Begin(op, h) = Answer(hit)
    BY <1>6 DEF Begin, since, height
  <2>2. h \in 1..Height /\ abbr[h] = ProofIn(stored, h)
    BY <1>6 DEF IInv, CachesGood, CacheGood
  <2>3. ProofIn(stored, h) \in [height : 0..MaxHeight, life : 0..MaxRestarts]
    BY <1>1, ProofsTyped
  <2> HIDE DEF call
  <2>4. /\ hit \in CallType /\ hit.op = op /\ hit.height = h /\ hit.since = since
        /\ hit.proof = ProofIn(stored, h)
    BY <1>1, <1>3, <1>6, <2>2, <2>3 DEF CallType
  <2> HIDE DEF hit
  <2> QED BY <1>1, <1>6, <2>1, <2>2, <2>4, AnswerGood DEF HeightGood
<1>7. CASE op = "get_some_coins"
  BY <1>4, <1>7 DEF Begin, OpsAt, Labels, since, height
<1>8. CASE /\ op \notin {"get_summary", "get_some_coins"}
           /\ ~(op = "get_abbr_block" /\ h \in DOMAIN abbr)
  <2>1. op \in OpsAt["block"]
    BY <1>8 DEF OpsAt, Labels, Ops
  <2>2. Begin(op, h) = [call EXCEPT !.at = "block"]
    BY <1>8 DEF Begin, since, height
  <2> QED BY <1>4, <2>1, <2>2
<1> QED BY <1>5, <1>6, <1>7, <1>8

LEMMA CallInv ==
  ASSUME IInv, NEW t \in Tasks \ {Tester}, NEW op \in Ops, NEW h \in 1..MaxHeight, Call(t, op, h)
  PROVE  IInv'
BY BeginGood, GoesOn, CachesKept DEF Call, caches

LEMMA HandlerInv ==
  ASSUME IInv, NEW t \in Tasks, Handler(t)
  PROVE  IInv'
BY GetHighestInv, GetProofInv, GetBlockInv, GetTreeInv, ReadLimitInv, QueryIndexInv, QueryAddedInv
DEF Handler

(***************************************************************************)
(* The indexer, the self-test and the environment.                         *)
(***************************************************************************)
LEMMA IndexerInv ==
  ASSUME IInv, Trust \/ IndexBlock
  PROVE  IInv'
<1>1. UNCHANGED <<stored, caches, calls, test, restarts, indexed>>
  BY DEF Trust, IndexBlock
<1>2. CachesGood'
  BY <1>1, CachesKept
<1>3. index' \in 0..MaxHeight /\ trusted' \in 0..Height
  BY HeightTyped, Bounds DEF Trust, IndexBlock, IInv, Typed
<1> QED BY <1>1, <1>2, <1>3 DEF IInv, Typed, CallsGood, TestGood, Height

\* The range of a pass is stored, and stays stored as long as the process lives.
LEMMA SelfTestInv ==
  ASSUME IInv, SelfTest
  PROVE  IInv'
<1>1. UNCHANGED <<stored, caches, index, trusted, restarts, indexed>>
  BY DEF SelfTest, BeginPass, Replay, CheckChanges, EndPass
<1>2. CachesGood'
  BY <1>1, CachesKept
<1>3. Height \in 0..MaxHeight /\ Height = Len(stored) /\ Height' = Height
  BY <1>1, HeightTyped DEF IInv, Height
<1>4. /\ test.at \in {"pass", "replay", "asking", "stopped"}
      /\ test.next \in 0..(MaxHeight + 1) /\ test.last \in 0..MaxHeight
      /\ test.at \in {"replay", "asking"} =>
           test.last <= Height /\ 1 <= test.next /\ test.next <= test.last + 1
      /\ test.at = "asking" => test.next <= test.last
  BY DEF IInv, Typed, TestGood
<1>5. ASSUME UNCHANGED calls, test' \in [at : {"pass", "replay", "stopped"},
                                         next : 0..(MaxHeight + 1), last : 0..MaxHeight],
             test'.at = "replay" =>
               test'.last <= Height /\ 1 <= test'.next /\ test'.next <= test'.last + 1
      PROVE  IInv'
  <2>1. Typed' /\ CallsGood'
    BY <1>1, <1>3, <1>5 DEF IInv, Typed, CallsGood
  <2>2. TestGood'
    BY <1>3, <1>5 DEF TestGood
  <2> QED BY <1>2, <2>1, <2>2 DEF IInv
<1>6. CASE BeginPass
  <2>1. CASE Base <= Height
    <3>1. test' = [at |-> "replay", next |-> Base + 1, last |-> Height]
      BY <1>6, <2>1 DEF BeginPass
    <3> QED BY <1>3, <1>5, <1>6, <2>1, <3>1, Bounds DEF BeginPass
  <2>2. CASE ~(Base <= Height)
    <3>1. test' = [test EXCEPT !.at = "stopped"]
      BY <1>6, <2>2 DEF BeginPass
    <3>2. /\ test'.at = "stopped"
          /\ test' \in [at : {"pass", "replay", "stopped"},
                        next : 0..(MaxHeight + 1), last : 0..MaxHeight]
      BY <3>1 DEF IInv, Typed
    <3> QED BY <1>5, <1>6, <3>2 DEF BeginPass
  <2> QED BY <2>1, <2>2
<1>7. CASE EndPass
  BY <1>5, <1>7, Bounds DEF EndPass, NoTest
<1>8. ASSUME test.at \in {"replay", "asking"}, test.next <= test.last, UNCHANGED calls,
             test' = [test EXCEPT !.at = "replay", !.next = @ + 1]
      PROVE  IInv'
  <2>1. test'.at = "replay" /\ test'.next = test.next + 1 /\ test'.last = test.last
    BY <1>8 DEF IInv, Typed
  <2>2. test.next + 1 \in 0..(MaxHeight + 1)
    BY <1>4, <1>8, Bounds
  <2>3. test' \in [at : {"pass", "replay", "stopped"},
                   next : 0..(MaxHeight + 1), last : 0..MaxHeight]
    BY <1>8, <2>2 DEF IInv, Typed
  <2> QED BY <1>3, <1>4, <1>5, <1>8, <2>1, <2>3
<1>9. CASE CheckChanges
  <2>1. /\ calls[Tester].found /\ calls[Tester].at = "returned"
        /\ calls[Tester].op = "get_coin_changes" /\ calls[Tester].height = test.next
    BY <1>9 DEF IInv, TestGood, CheckChanges, Asked
  <2>2. calls[Tester].seen >= test.next
    BY <2>1, Bounds DEF IInv, Typed, CallType, CallsGood, Good
  <2> QED BY <1>4, <1>8, <1>9, <2>1, <2>2 DEF CheckChanges
<1>10. CASE Replay
  <2>1. test.next \in 1..Height /\ test.at = "replay" /\ test.next <= test.last
    BY <1>3, <1>4, <1>10 DEF Replay
  <2>2. CASE test' = [test EXCEPT !.next = @ + 1] /\ UNCHANGED calls
    <3>1. test' = [test EXCEPT !.at = "replay", !.next = @ + 1]
      BY <2>1, <2>2 DEF IInv, Typed
    <3> QED BY <1>8, <2>1, <2>2, <3>1
  <2>3. CASE /\ test' = [test EXCEPT !.at = "asking"] /\ indexed
             /\ Becomes(Tester, Begin("get_coin_changes", test.next))
    <3> DEFINE c == Begin("get_coin_changes", test.next)
    <3>1. test.next \in 1..MaxHeight /\ "get_coin_changes" \in Ops
      BY <1>3, <2>1, Bounds DEF Ops
    <3>2. c \in CallType /\ Good(c, stored) /\ Asked(c, test.next)
      BY <3>1, BeginGood
    <3> HIDE DEF c
    <3>3. calls' = [calls EXCEPT ![Tester] = c]
      BY <2>3 DEF Becomes, c
    <3>4. /\ test'.at = "asking" /\ test'.next = test.next /\ test'.last = test.last
          /\ test' \in [at : {"pass", "replay", "asking", "stopped", "failed"},
                        next : 0..(MaxHeight + 1), last : 0..MaxHeight]
      BY <2>3 DEF IInv, Typed
    <3>5. Typed' /\ CallsGood'
      BY <1>1, <1>3, <3>2, <3>3, <3>4 DEF IInv, Typed, CallsGood
    <3>6. TestGood'
      BY <1>1, <1>3, <1>4, <2>1, <2>3, <3>2, <3>3, <3>4, Bounds DEF TestGood, IInv, Typed
    <3> QED BY <1>2, <3>5, <3>6 DEF IInv
  <2> QED BY <1>3, <1>10, <2>1, <2>2, <2>3 DEF Replay
<1> QED BY <1>6, <1>7, <1>9, <1>10 DEF SelfTest

LEMMA StoreBlockInv ==
  ASSUME IInv, StoreBlock
  PROVE  IInv'
<1>1. /\ stored' = Append(stored, restarts) /\ Len(stored) < MaxHeight
      /\ stored \in Chains /\ restarts \in 0..MaxRestarts
  BY HeightTyped DEF IInv, Typed, StoreBlock
<1>2. UNCHANGED <<caches, index, trusted, calls, test, restarts, indexed>>
  BY DEF StoreBlock
<1>3. /\ stored' \in Chains /\ Len(stored') = Len(stored) + 1
      /\ \A h \in 0..Len(stored) : ProofIn(stored', h) = ProofIn(stored, h)
      /\ \A c \in CallType : Good(c, stored) => Good(c, stored')
  BY <1>1, GoodStays, NoCallGood
<1>4. Height \in 0..MaxHeight /\ Height = Len(stored) /\ Height' = Height + 1
  BY <1>3, HeightTyped DEF IInv, Height
<1>5. Typed'
  BY <1>2, <1>3, <1>4 DEF IInv, Typed
<1>6. CallsGood'
  BY <1>2, <1>3 DEF IInv, Typed, CallsGood
<1>7. CachesGood'
  BY <1>2, <1>3, <1>4 DEF IInv, CachesGood, CacheGood, caches
<1>8. TestGood'
  BY <1>2, <1>4 DEF IInv, Typed, TestGood
<1> QED BY <1>5, <1>6, <1>7, <1>8 DEF IInv

LEMMA FreshInv ==
  ASSUME stored' \in Chains, index' \in 0..MaxHeight, restarts' \in 0..MaxRestarts, indexed' \in BOOLEAN,
         summary' = << >>, abbr' = << >>, trusted' = 0,
         calls' = [t \in Tasks |-> NoCall], test' = NoTest
  PROVE  IInv'
<1>1. Height' \in Nat
  BY LenProperties DEF Chains, Height
<1>2. Typed'
  BY <1>1, NoCallGood, Bounds DEF Typed, NoTest
<1>3. CallsGood' /\ CachesGood' /\ TestGood'
  BY NoCallGood DEF CallsGood, CachesGood, CacheGood, TestGood, NoTest
<1> QED BY <1>2, <1>3 DEF IInv

LEMMA RestartInv ==
  ASSUME IInv, Restart
  PROVE  IInv'
<1>1. PICK h \in 0..Height : stored' = SubSeq(stored, 1, h)
  BY DEF Restart
<1>2. stored \in Seq(0..MaxRestarts) /\ Height = Len(stored) /\ Height \in 0..MaxHeight
  BY HeightTyped DEF IInv, Typed, Chains
<1>3. stored' \in Chains
  <2>1. SubSeq(stored, 1, h) \in Seq(0..MaxRestarts) /\ Len(SubSeq(stored, 1, h)) = h
    <3>1. h \in Int /\ 1 \in Int /\ \A i \in 1..h : stored[i] \in 0..MaxRestarts
      BY <1>2, Bounds
    <3>2. SubSeq(stored, 1, h) \in Seq(0..MaxRestarts)
      BY <3>1, SubSeqProperties
    <3>3. Len(SubSeq(stored, 1, h)) = IF 1 <= h THEN h - 1 + 1 ELSE 0
      BY <3>1, SubSeqProperties
    <3> QED BY <1>2, <3>2, <3>3, Bounds
  <2> QED BY <1>1, <1>2, <2>1, Bounds DEF Chains
<1>4. index' \in 0..MaxHeight /\ restarts' \in 0..MaxRestarts /\ indexed' \in BOOLEAN
  BY Bounds DEF IInv, Typed, Restart
<1> QED BY <1>3, <1>4, FreshInv DEF Restart

LEMMA InitInv == Init => IInv
<1> SUFFICES ASSUME Init PROVE IInv
  OBVIOUS
<1> USE DEF Init
<1>1. stored \in Chains /\ Height = 0
  BY EmptySeq, Bounds DEF Chains, Height
<1>2. Typed
  BY <1>1, NoCallGood, Bounds DEF Typed, NoTest
<1>3. CallsGood /\ CachesGood /\ TestGood
  BY <1>1, NoCallGood DEF CallsGood, CachesGood, CacheGood, TestGood, NoTest
<1> QED BY <1>2, <1>3 DEF IInv

LEMMA StutterInv ==
  ASSUME IInv, UNCHANGED vars
  PROVE  IInv'
BY DEF IInv, vars, caches, Typed, CallsGood, CachesGood, CacheGood, TestGood, Height

\* The invariant of every state: what the calls, the caches and the self-test
\* know of the chain is true of it (src/node.rs, src/main.rs).
THEOREM Invariance == Spec => []IInv
<1>1. IInv /\ [Next]_vars => IInv'
  BY CallInv, HandlerInv, IndexerInv, SelfTestInv, StoreBlockInv, RestartInv, StutterInv DEF Next
<1> QED BY <1>1, InitInv, PTL DEF Spec

\* The caches, the calls and the self-test have their types.
THEOREM TypeCorrect == Spec => []TypeOK
BY Invariance, TypesFollow, PTL

\* Every cached or served header goes with its own proof.
THEOREM CachesSafety == Spec => []CachesHoldTheChain
BY Invariance, PropertiesFollow, PTL

\* Every answer is as recent as its call, whatever the awaits in between.
THEOREM FreshSafety == Spec => []FreshAnswers
BY Invariance, PropertiesFollow, PTL

\* The self-test never finds a healthy node wanting.
THEOREM SelfTestSafety == Spec => []SelfTestHolds
BY Invariance, PropertiesFollow, PTL
=============================================================================
