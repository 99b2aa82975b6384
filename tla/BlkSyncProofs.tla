---------------------------- MODULE BlkSyncProofs ----------------------------
(***************************************************************************)
(* Proofs about BlkSync, for any number of peers, heights, sizes and       *)
(* limits.  The argument: a batch is a run of heights that starts at the   *)
(* one the attempt wants next, popping a block shortens the run of blocks  *)
(* at its far end only, and the node's own height never falls below what   *)
(* the attempt has applied.                                                *)
(***************************************************************************)
EXTENDS BlkSync, SumLemmas, SequenceTheorems

LEMMA Bounds ==
  /\ MaxHeight \in Nat /\ MaxHeight >= 1 /\ Batch \in Nat \ {0} /\ Limit \in Nat /\ MaxFailures \in Nat
  /\ MaxLosses \in Nat /\ Size \in [Heights -> Nat \ {0}]
BY BlkSyncAssumption DEF Heights

LEMMA MinOfTwo ==
  ASSUME NEW x \in Nat, NEW y \in Nat
  PROVE  Min({x, y}) \in {x, y} /\ Min({x, y}) <= x /\ Min({x, y}) <= y
<1>1. {x, y} \subseteq Nat /\ {x, y} # {}
  OBVIOUS
<1> QED BY <1>1, MinIs

(***************************************************************************)
(* get_lz4_blocks.                                                         *)
(***************************************************************************)
LEMMA RunIs ==
  ASSUME NEW first \in Nat \ {0}, NEW n \in Nat, first + n - 1 <= MaxHeight
  PROVE  /\ Run(first, n) \in Seq(Heights) /\ Len(Run(first, n)) = n
         /\ \A i \in 1..n : Run(first, n)[i] = first + i - 1
<1>1. \A i \in 1..n : first + i - 1 \in Heights
  BY Bounds DEF Heights
<1>2. Run(first, n) \in [1..n -> Heights]
  BY <1>1 DEF Run
<1> QED BY <1>2 DEF Run

LEMMA SizeOfNat ==
  ASSUME NEW first \in Nat \ {0}, NEW n \in Nat, first + n - 1 <= MaxHeight
  PROVE  SizeOf(first, n) \in Nat
<1> DEFINE X == first..(first + n - 1)
<1>1. IsFiniteSet(X)
  BY FS_Interval
<1>2. \A h \in X : Size[h] \in Nat
  BY Bounds DEF Heights
<1> HIDE DEF X
<1>3. Total(X, Size) \in Nat
  BY <1>1, <1>2, TotalNat
<1> QED BY <1>3, Zenon DEF SizeOf, Total, X

\* The handler pushes at least one pair, and what it pushed before the last
\* one is within the limit.
LEMMA PushedIs ==
  ASSUME NEW first \in Nat \ {0}, NEW last \in first..MaxHeight
  PROVE  /\ Pushed(first, last) \in 1..(last - first + 1)
         /\ \A m \in 1..(Pushed(first, last) - 1) : SizeOf(first, m) <= Limit
<1> DEFINE available == last - first + 1
           over == {n \in 1..available : SizeOf(first, n) > Limit}
<1>1. available \in Nat \ {0} /\ \A m \in 1..available : m \in Nat /\ first + m - 1 <= MaxHeight
  BY Bounds
<1>2. \A m \in 1..available : SizeOf(first, m) \in Nat
  BY <1>1, SizeOfNat
<1>3. Pushed(first, last) = IF over = {} THEN available ELSE Min(over)
  BY DEF Pushed
<1>4. CASE over = {}
  <2>1. \A m \in 1..available : ~(SizeOf(first, m) > Limit)
    BY <1>4
  <2> HIDE DEF over, available
  <2>2. \A m \in 1..(available - 1) : m \in 1..available
    BY <1>1
  <2> QED BY <1>1, <1>2, <1>3, <1>4, <2>1, <2>2, Bounds DEF available
<1>5. CASE over # {}
  <2>1. over \subseteq Nat
    BY <1>1
  <2>2. Min(over) \in over /\ \A m \in over : Min(over) <= m
    BY <1>5, <2>1, MinIs
  <2>3. Min(over) \in 1..available
    BY <2>2
  <2>4. ASSUME NEW m \in 1..(Min(over) - 1) PROVE SizeOf(first, m) <= Limit
    <3>1. m \in 1..available /\ m \notin over
      BY <1>1, <2>2, <2>3
    <3>2. ~(SizeOf(first, m) > Limit)
      BY <3>1
    <3> QED BY <1>2, <3>1, <3>2, Bounds
  <2> QED BY <1>3, <1>5, <2>3, <2>4
<1> QED BY <1>4, <1>5

\* The batch a peer answers with.
GoodBatch(batch, first) ==
  /\ batch \in [blocks : Seq(Heights), proofs : Seq(Heights)]
  /\ 1 <= Len(batch.blocks) /\ Len(batch.blocks) <= Len(batch.proofs)
  /\ \A i \in 1..Len(batch.blocks) :
       batch.blocks[i] = first + i - 1 /\ batch.proofs[i] = batch.blocks[i]
  /\ Len(batch.blocks) > 1 => SizeOf(first, Len(batch.blocks)) <= Limit

LEMMA BatchIs ==
  ASSUME NEW first \in Nat \ {0}, NEW last \in first..MaxHeight
  PROVE  GoodBatch(get_lz4_blocks(first, last), first)
<1> DEFINE batch == get_lz4_blocks(first, last)
           n == Pushed(first, last)
           m == Popped(first, n)
<1>1. n \in 1..(last - first + 1) /\ \A k \in 1..(n - 1) : SizeOf(first, k) <= Limit
  BY PushedIs
<1>2. n \in Nat /\ first + n - 1 <= MaxHeight /\ first \in Nat
  BY <1>1, Bounds
<1> HIDE DEF n
<1>3. m \in 1..n /\ (m > 1 => SizeOf(first, m) <= Limit)
  <2>1. SizeOf(first, n) \in Nat
    BY <1>2, SizeOfNat
  <2>2. CASE SizeOf(first, n) > Limit /\ n > 1
    <3>1. m = n - 1
      BY <2>2 DEF Popped
    <3> QED BY <1>1, <1>2, <2>2, <3>1
  <2>3. CASE SizeOf(first, n) > Limit /\ ~(n > 1)
    <3>1. m = n
      BY <2>3 DEF Popped
    <3> QED BY <1>1, <1>2, <2>3, <3>1
  <2>4. CASE ~(SizeOf(first, n) > Limit)
    <3>1. m = n
      BY <2>4 DEF Popped
    <3> QED BY <1>1, <1>2, <2>1, <2>4, <3>1, Bounds
  <2> QED BY <2>2, <2>3, <2>4
<1> HIDE DEF m
<1>4. m \in Nat /\ first + m - 1 <= MaxHeight
  BY <1>2, <1>3, Bounds
<1>5. batch = [blocks |-> Run(first, m), proofs |-> Run(first, n)]
  BY DEF get_lz4_blocks, n, m
<1> HIDE DEF batch
<1>6. /\ Run(first, m) \in Seq(Heights) /\ Len(Run(first, m)) = m
      /\ \A i \in 1..m : Run(first, m)[i] = first + i - 1
  BY <1>4, RunIs
<1>7. /\ Run(first, n) \in Seq(Heights) /\ Len(Run(first, n)) = n
      /\ \A i \in 1..n : Run(first, n)[i] = first + i - 1
  BY <1>2, RunIs
<1>8. \A i \in 1..m : i \in 1..n
  BY <1>2, <1>3
<1>9. batch.blocks = Run(first, m) /\ batch.proofs = Run(first, n)
  BY <1>5
<1>10. batch \in [blocks : Seq(Heights), proofs : Seq(Heights)]
  BY <1>5, <1>6, <1>7
<1>11. \A i \in 1..Len(batch.blocks) :
         batch.blocks[i] = first + i - 1 /\ batch.proofs[i] = batch.blocks[i]
  BY <1>6, <1>7, <1>8, <1>9
<1>12. GoodBatch(batch, first)
  BY <1>2, <1>3, <1>6, <1>7, <1>9, <1>10, <1>11 DEF GoodBatch
<1> QED BY <1>12 DEF batch

(***************************************************************************)
(* The inductive invariant.                                                *)
(***************************************************************************)
Typed ==
  /\ top \in [Peers -> 0..MaxHeight]
  /\ mine \in 0..MaxHeight
  /\ at \in {"idle", "asking", "comparing", "fetching", "applying", "streaming"}
  /\ peer \in Peers
  /\ target \in 0..MaxHeight
  /\ next \in 1..(MaxHeight + 1)
  /\ reply \in [blocks : Seq(Heights), proofs : Seq(Heights)]
  /\ failures \in 0..MaxFailures /\ losses \in 0..MaxLosses
  /\ legacy \in BOOLEAN

\* The batch is a run of heights from the next one on, each with its proof.
RunOfBlocks ==
  /\ Len(reply.blocks) <= Len(reply.proofs)
  /\ \A i \in 1..Len(reply.blocks) :
       reply.blocks[i] = next + i - 1 /\ reply.proofs[i] = reply.blocks[i]

Places ==
  /\ at # "applying" => reply = NoReply
  /\ at # "streaming" => got = {}
  /\ at = "fetching" => next <= target
  /\ at \in {"fetching", "applying", "streaming"} => next <= mine + 1
  /\ got \subseteq next..target

IInv == Typed /\ RunOfBlocks /\ Places

LEMMA EmptyReply ==
  /\ NoReply \in [blocks : Seq(Heights), proofs : Seq(Heights)]
  /\ Len(NoReply.blocks) = 0 /\ Len(NoReply.proofs) = 0
BY EmptySeq DEF NoReply

LEMMA ReplyLengths ==
  ASSUME Typed
  PROVE  /\ reply.blocks \in Seq(Heights) /\ reply.proofs \in Seq(Heights)
         /\ Len(reply.blocks) \in Nat /\ Len(reply.proofs) \in Nat
         /\ Left \in {Len(reply.blocks), Len(reply.proofs)}
         /\ Left <= Len(reply.blocks) /\ Left <= Len(reply.proofs)
<1>1. reply.blocks \in Seq(Heights) /\ reply.proofs \in Seq(Heights)
  BY DEF Typed
<1>2. Len(reply.blocks) \in Nat /\ Len(reply.proofs) \in Nat
  BY <1>1, LenProperties
<1> QED BY <1>1, <1>2, MinOfTwo DEF Left

LEMMA PropertiesFollow == IInv => TypeOK /\ AttemptInOrder
<1> SUFFICES ASSUME IInv PROVE TypeOK /\ AttemptInOrder
  OBVIOUS
<1>1. TypeOK
  BY DEF IInv, Typed, Places, TypeOK
<1>2. \A i \in 1..Left : i \in 1..Len(reply.blocks)
  BY ReplyLengths DEF IInv
<1>3. AttemptInOrder
  BY <1>2 DEF IInv, RunOfBlocks, Places, AttemptInOrder
<1> QED BY <1>1, <1>3

LEMMA InitInv == Init => IInv
<1> SUFFICES ASSUME Init PROVE IInv
  OBVIOUS
<1>1. Typed
  BY EmptyReply, Bounds DEF Init, Typed
<1>2. RunOfBlocks /\ Places
  BY EmptyReply DEF Init, RunOfBlocks, Places
<1> QED BY <1>1, <1>2 DEF IInv

\* Wherever the attempt was.
LEMMA EndAttemptInv ==
  ASSUME IInv, EndAttempt, top' \in [Peers -> 0..MaxHeight], mine' \in 0..MaxHeight,
         failures' \in 0..MaxFailures, losses' \in 0..MaxLosses, UNCHANGED legacy
  PROVE  IInv'
<1>1. Typed'
  BY EmptyReply, Bounds DEF IInv, Typed, EndAttempt
<1>2. RunOfBlocks' /\ Places'
  BY EmptyReply DEF RunOfBlocks, Places, EndAttempt
<1> QED BY <1>1, <1>2 DEF IInv

\* Steps that leave the attempt alone; mine may grow under it.
LEMMA EnvironmentInv ==
  ASSUME IInv, UNCHANGED <<at, attempt, legacy>>, top' \in [Peers -> 0..MaxHeight],
         mine' \in mine..MaxHeight, failures' \in 0..MaxFailures, losses' \in 0..MaxLosses
  PROVE  IInv'
<1>1. mine \in Nat /\ next \in Nat
  BY Bounds DEF IInv, Typed
<1>2. mine' \in 0..MaxHeight /\ (next <= mine + 1 => next <= mine' + 1)
  <2>1. mine' \in Nat /\ mine <= mine' /\ mine' <= MaxHeight
    BY <1>1, Bounds
  <2>2. mine' \in 0..MaxHeight
    BY <2>1
  <2>3. \A a, b, c \in Nat : a <= b => (c <= a + 1 => c <= b + 1)
    OBVIOUS
  <2> QED BY <1>1, <2>1, <2>2, <2>3, Zenon
<1>3. Typed' /\ RunOfBlocks'
  BY <1>2 DEF IInv, Typed, RunOfBlocks, attempt
<1>4. Places'
  BY <1>2 DEF IInv, Places, attempt
<1> QED BY <1>3, <1>4 DEF IInv

LEMMA OutsideInv ==
  ASSUME IInv, LocalCommit \/ Restart \/ Fail \/ (\E p \in Peers : PeerGrows(p) \/ PeerLoses(p))
  PROVE  IInv'
<1> USE DEF IInv, Typed
<1>1. CASE LocalCommit
  <2>1. mine' \in mine..MaxHeight
    BY <1>1, Bounds DEF LocalCommit
  <2> QED BY <1>1, <2>1, EnvironmentInv DEF LocalCommit
<1>2. CASE Restart
  <2>1. mine' \in 0..MaxHeight /\ losses' \in 0..MaxLosses
    BY <1>2, Bounds DEF Restart
  <2> QED BY <1>2, <2>1, EndAttemptInv DEF Restart
<1>3. CASE Fail
  <2>1. failures' \in 0..MaxFailures
    BY <1>3, Bounds DEF Fail
  <2> QED BY <1>3, <2>1, EndAttemptInv DEF Fail
<1>4. ASSUME NEW p \in Peers, PeerGrows(p) PROVE IInv'
  <2>1. top' \in [Peers -> 0..MaxHeight] /\ mine \in mine..MaxHeight
    BY <1>4, Bounds DEF PeerGrows
  <2> QED BY <1>4, <2>1, EnvironmentInv DEF PeerGrows
<1>5. ASSUME NEW p \in Peers, PeerLoses(p) PROVE IInv'
  <2>1. /\ top' \in [Peers -> 0..MaxHeight] /\ mine \in mine..MaxHeight
        /\ losses' \in 0..MaxLosses
    BY <1>5, Bounds DEF PeerLoses
  <2> QED BY <1>5, <2>1, EnvironmentInv DEF PeerLoses
<1> QED BY <1>1, <1>2, <1>3, <1>4, <1>5

(***************************************************************************)
(* The steps of an attempt.                                                *)
(***************************************************************************)
LEMMA BeforeFetchInv ==
  ASSUME IInv, GetSummary \/ Compare \/ (\E p \in Peers : Ask(p))
  PROVE  IInv'
<1> USE DEF IInv, Typed
<1>1. CASE \E p \in Peers : Ask(p)
  BY <1>1 DEF Ask, RunOfBlocks, Places
<1>2. CASE GetSummary
  BY <1>2 DEF GetSummary, RunOfBlocks, Places
<1>3. CASE Compare /\ target <= mine
  BY <1>3, EndAttemptInv, Bounds DEF Compare
<1>4. CASE Compare /\ target > mine
  <2> DEFINE bounded == Min({target, mine + Batch})
  <2>1. /\ target \in Nat /\ mine \in Nat /\ mine + Batch \in Nat /\ mine + 1 <= mine + Batch
        /\ mine + 1 <= target /\ target <= MaxHeight
    BY <1>4, Bounds
  <2>2. bounded \in {target, mine + Batch} /\ bounded <= target
    BY <2>1, MinOfTwo
  <2> HIDE DEF bounded
  <2>3. /\ next' = mine + 1 /\ target' = IF legacy THEN bounded ELSE target
        /\ at' = IF legacy THEN "streaming" ELSE "fetching"
        /\ UNCHANGED <<peer, reply, got, top, mine, failures, losses, legacy>>
    BY <1>4, <2>1, Bounds DEF Compare, bounded
  <2>4. target' \in 0..MaxHeight /\ mine + 1 <= target'
    BY <2>1, <2>2, <2>3, Bounds
  <2>5. reply = NoReply /\ got = {}
    BY <1>4 DEF Places, Compare
  <2>6. Typed'
    BY <2>1, <2>3, <2>4, Bounds
  <2>7. RunOfBlocks' /\ Places'
    BY <2>1, <2>3, <2>4, <2>5, EmptyReply DEF RunOfBlocks, Places
  <2> QED BY <2>6, <2>7
<1> QED BY <1>1, <1>2, <1>3, <1>4, Bounds DEF Compare

LEMMA FetchInv ==
  ASSUME IInv, Fetch
  PROVE  /\ IInv'
         /\ Len(reply'.blocks) >= 1
         /\ Len(reply'.blocks) > 1 => SizeOf(next, Len(reply'.blocks)) <= Limit
<1>1. next \in Nat \ {0} /\ top[peer] \in next..MaxHeight
  BY Bounds DEF IInv, Typed, Fetch
<1>2. /\ reply' \in [blocks : Seq(Heights), proofs : Seq(Heights)]
      /\ 1 <= Len(reply'.blocks) /\ Len(reply'.blocks) <= Len(reply'.proofs)
      /\ \A i \in 1..Len(reply'.blocks) :
           reply'.blocks[i] = next + i - 1 /\ reply'.proofs[i] = reply'.blocks[i]
      /\ Len(reply'.blocks) > 1 => SizeOf(next, Len(reply'.blocks)) <= Limit
  <2>1. reply' = get_lz4_blocks(next, top[peer])
    BY DEF Fetch
  <2>2. GoodBatch(get_lz4_blocks(next, top[peer]), next)
    BY <1>1, BatchIs
  <2> QED BY <2>1, <2>2 DEF GoodBatch
<1>3. Typed'
  BY <1>2 DEF IInv, Typed, Fetch
<1>4. RunOfBlocks'
  BY <1>2 DEF RunOfBlocks, Fetch
<1>5. Places'
  BY DEF IInv, Places, Fetch
<1>6. Len(reply'.blocks) >= 1
  BY <1>2, LenProperties
<1> QED BY <1>2, <1>3, <1>4, <1>5, <1>6 DEF IInv

LEMMA ApplyBatchInv ==
  ASSUME IInv, ApplyBatch
  PROVE  IInv'
<1> DEFINE blocks == reply.blocks
           proofs == reply.proofs
<1>1. /\ blocks \in Seq(Heights) /\ proofs \in Seq(Heights)
      /\ Len(blocks) \in Nat /\ Len(proofs) \in Nat
      /\ blocks # << >> /\ proofs # << >>
  BY ReplyLengths, EmptySeq, Bounds DEF IInv, ApplyBatch
<1>2. CASE Head(blocks) = next /\ Applies(Head(blocks), Head(proofs))
  <2>1. /\ mine' = next /\ next' = next + 1 /\ next = mine + 1
        /\ reply' = [blocks |-> Tail(blocks), proofs |-> Tail(proofs)]
        /\ UNCHANGED <<at, peer, target, got, top, failures, losses, legacy>>
    BY <1>2 DEF ApplyBatch, Applies
  <2>2. /\ Tail(blocks) \in Seq(Heights) /\ Tail(proofs) \in Seq(Heights)
        /\ Len(Tail(blocks)) = Len(blocks) - 1 /\ Len(Tail(proofs)) = Len(proofs) - 1
        /\ \A i \in 1..Len(Tail(blocks)) : Tail(blocks)[i] = blocks[i + 1]
        /\ \A i \in 1..Len(Tail(proofs)) : Tail(proofs)[i] = proofs[i + 1]
        /\ Head(blocks) \in Heights
    BY <1>1, HeadTailProperties
  <2>3. next \in Heights
    BY <1>2, <2>2
  <2>4. Typed'
    BY <2>1, <2>2, <2>3, Bounds DEF IInv, Typed, Heights
  <2>5. reply'.blocks = Tail(blocks) /\ reply'.proofs = Tail(proofs)
    BY <2>1
  <2>6. Len(blocks) <= Len(proofs) /\ next \in Nat
    BY <2>3 DEF IInv, RunOfBlocks, Heights
  <2>7. ASSUME NEW i \in 1..Len(Tail(blocks))
        PROVE  Tail(blocks)[i] = next + 1 + i - 1 /\ Tail(proofs)[i] = Tail(blocks)[i]
    <3>1. i + 1 \in 1..Len(blocks) /\ i \in 1..Len(Tail(proofs)) /\ i \in Nat
      BY <1>1, <2>2, <2>6
    <3>2. blocks[i + 1] = next + (i + 1) - 1 /\ proofs[i + 1] = blocks[i + 1]
      BY <3>1 DEF IInv, RunOfBlocks
    <3> QED BY <2>2, <2>6, <3>1, <3>2
  <2>8. RunOfBlocks'
    BY <1>1, <2>1, <2>2, <2>5, <2>6, <2>7 DEF RunOfBlocks
  <2>9. Places'
    BY <2>1, <2>6 DEF IInv, Places, ApplyBatch
  <2> QED BY <2>4, <2>8, <2>9 DEF IInv
<1>3. CASE ~(Head(blocks) = next /\ Applies(Head(blocks), Head(proofs)))
  <2>1. EndAttempt /\ UNCHANGED <<mine, top, failures, losses, legacy>>
    BY <1>3 DEF ApplyBatch
  <2> QED BY <2>1, EndAttemptInv DEF IInv, Typed
<1> QED BY <1>2, <1>3

LEMMA EndBatchInv ==
  ASSUME IInv, EndBatch
  PROVE  IInv'
<1>1. Len(reply.blocks) = 0
  BY ReplyLengths DEF IInv, RunOfBlocks, EndBatch
<1>2. next \in Nat /\ target \in Nat /\ next + Len(reply.blocks) = next
  BY <1>1, Bounds DEF IInv, Typed
<1>3. CASE next <= target
  <2>1. /\ at' = "fetching" /\ next' = next /\ reply' = NoReply
        /\ UNCHANGED <<peer, target, got, top, mine, failures, losses, legacy>>
    BY <1>2, <1>3 DEF EndBatch
  <2>2. Typed' /\ RunOfBlocks'
    BY <2>1, EmptyReply DEF IInv, Typed, RunOfBlocks
  <2>3. Places'
    BY <1>3, <2>1 DEF IInv, Places, EndBatch
  <2> QED BY <2>2, <2>3 DEF IInv
<1>4. CASE ~(next <= target)
  <2>1. EndAttempt /\ UNCHANGED <<top, mine, failures, losses, legacy>>
    BY <1>2, <1>4 DEF EndBatch
  <2> QED BY <2>1, EndAttemptInv DEF IInv, Typed
<1> QED BY <1>3, <1>4

LEMMA StreamInv ==
  ASSUME IInv, ApplyStream \/ EndStream \/ MissingBlock \/ (\E h \in Heights : FetchFull(h))
  PROVE  IInv'
<1>1. CASE EndStream \/ MissingBlock
  BY <1>1, EndAttemptInv DEF IInv, Typed, EndStream, MissingBlock
<1>2. ASSUME NEW h \in Heights, FetchFull(h) PROVE IInv'
  <2>1. target \in Nat /\ next \in Nat /\ next + Buffered - 1 \in Nat /\ h \in Nat
    BY Bounds, BlkSyncAssumption DEF IInv, Typed, Heights
  <2>2. Min({target, next + Buffered - 1}) <= target /\ Min({target, next + Buffered - 1}) \in Nat
    BY <2>1, MinOfTwo
  <2>3. h \in next..target
    BY <1>2, <2>1, <2>2 DEF FetchFull
  <2>4. Typed' /\ RunOfBlocks'
    BY <1>2 DEF IInv, Typed, RunOfBlocks, FetchFull
  <2>5. Places'
    BY <1>2, <2>3 DEF IInv, Places, FetchFull
  <2> QED BY <2>4, <2>5 DEF IInv
<1>3. CASE ApplyStream
  <2>1. next \in next..target /\ next \in Nat /\ target \in 0..MaxHeight /\ at = "streaming"
    BY <1>3, Bounds DEF IInv, Typed, Places, ApplyStream
  <2>2. CASE Applies(next, next)
    <3>1. /\ mine' = next /\ next' = next + 1 /\ got' = got \ {next}
          /\ UNCHANGED <<at, peer, target, reply, top, failures, losses, legacy>>
      BY <1>3, <2>2 DEF ApplyStream
    <3>2. reply = NoReply /\ next \in 0..MaxHeight /\ next + 1 \in 1..(MaxHeight + 1)
      BY <2>1, Bounds DEF IInv, Places
    <3>3. Typed' /\ RunOfBlocks'
      BY <3>1, <3>2, EmptyReply DEF IInv, Typed, RunOfBlocks
    <3>4. Places'
      BY <2>1, <3>1, <3>2 DEF IInv, Places
    <3> QED BY <3>3, <3>4 DEF IInv
  <2>3. CASE ~Applies(next, next)
    <3>1. EndAttempt /\ UNCHANGED <<mine, top, failures, losses, legacy>>
      BY <1>3, <2>3 DEF ApplyStream
    <3> QED BY <3>1, EndAttemptInv DEF IInv, Typed
  <2> QED BY <2>2, <2>3
<1> QED BY <1>1, <1>2, <1>3

LEMMA StutterInv ==
  ASSUME IInv, UNCHANGED vars
  PROVE  IInv'
BY DEF vars, attempt, IInv, Typed, RunOfBlocks, Places

LEMMA NextInv == IInv /\ [Next]_vars => IInv'
BY OutsideInv, BeforeFetchInv, FetchInv, ApplyBatchInv, EndBatchInv, StreamInv, StutterInv
DEF Next, Progress

\* The invariant of every state of the node and its attempt (src/node/blksync.rs).
THEOREM Invariance == Spec => []IInv
BY InitInv, NextInv, PTL DEF Spec

\* The heights, the batch and the buffered blocks have their types.
THEOREM TypeCorrect == Spec => []TypeOK
BY Invariance, PropertiesFollow, PTL

\* No attempt skips a height or pairs a block with the proof of another one,
\* however the handler popped and the staker overtook it.
THEOREM OrderSafety == Spec => []AttemptInOrder
BY Invariance, PropertiesFollow, PTL

\* Every batch that arrives is not empty and keeps to the limit, unless it is
\* a single block (get_lz4_blocks, src/node.rs).
THEOREM BatchSafety == Spec => BatchFits
<1> DEFINE Fits == at = "fetching" /\ at' = "applying" =>
                     /\ reply'.blocks # <<>>
                     /\ Len(reply'.blocks) > 1 => SizeOf(next, Len(reply'.blocks)) <= Limit
<1>1. IInv /\ [Next]_vars => [Fits]_vars
  <2> SUFFICES ASSUME IInv, Next, at = "fetching", at' = "applying" PROVE Fits
    BY DEF Fits
  <2>1. Fetch
    BY DEF Next, Progress, PeerGrows, PeerLoses, Ask, LocalCommit, Restart, Fail, GetSummary,
           Compare, MissingBlock, ApplyBatch, EndBatch, ApplyStream, EndStream, FetchFull,
           EndAttempt
  <2>2. Len(reply'.blocks) >= 1
    BY <2>1, FetchInv
  <2>3. reply'.blocks # << >>
    BY <2>2, EmptySeq
  <2> QED BY <2>1, <2>3, FetchInv
<1> HIDE DEF Fits
<1>2. Spec => [][Fits]_vars
  BY <1>1, Invariance, PTL DEF Spec
<1> QED BY <1>2 DEF BatchFits, Fits
=============================================================================
