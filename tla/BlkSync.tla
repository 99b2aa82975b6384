------------------------------ MODULE BlkSync ------------------------------
(***************************************************************************)
(* A node that catches up with its peers: blksync_loop (src/node.rs),      *)
(* attempt_blksync and its legacy form (src/node/blksync.rs), and the      *)
(* handler get_lz4_blocks that answers them.  Peers hold prefixes of one   *)
(* chain, so that a block is known by its height and a proof by the height *)
(* of its block.  The node's own staker may commit the same blocks while   *)
(* an attempt is under way; apply_block is one step (see module Storage).  *)
(***************************************************************************)
EXTENDS Integers, Sequences, FiniteSetsExt

CONSTANTS
  Peers,
  MaxHeight,    \* bound: the chain ends here
  Size,         \* encoded size of the block and the proof of a height
  Limit,        \* size_limit of a request, at most 10_000_000
  Batch,        \* heights of one legacy attempt (1000, THEMELIO_BLKSYNC_BATCH)
  Buffered,     \* concurrent legacy requests (64)
  MaxFailures,  \* bound on requests that time out or fail
  MaxLosses     \* bound on power failures, of peers or of this node

ASSUME BlkSyncAssumption ==
  /\ {MaxHeight, Batch, Buffered} \subseteq Nat \ {0}
  /\ {Limit, MaxFailures, MaxLosses} \subseteq Nat
  /\ Size \in [1..MaxHeight -> Nat \ {0}]

VARIABLES
  top,        \* the highest block of each peer
  mine,       \* the highest block of this node
  at,         \* where the attempt is suspended
  peer,       \* the peer it talks to
  target,     \* their_highest
  next,       \* the height it wants next
  reply,      \* the batch it is applying, as heights
  got,        \* heights of buffered full blocks not yet applied (legacy)
  failures, losses,
  legacy      \* MELNODE_OLD_BLKSYNC is set, for the life of the process

attempt == <<peer, target, next, reply, got>>
vars == <<top, mine, at, attempt, failures, losses, legacy>>

NoReply == [blocks |-> <<>>, proofs |-> <<>>]

Heights == 1..MaxHeight

TypeOK ==
  /\ top \in [Peers -> 0..MaxHeight]
  /\ mine \in 0..MaxHeight
  /\ at \in {"idle", "asking", "comparing", "fetching", "applying", "streaming"}
  /\ peer \in Peers
  /\ target \in 0..MaxHeight
  /\ next \in 1..(MaxHeight + 1)
  /\ reply \in [blocks : Seq(Heights), proofs : Seq(Heights)]
  /\ got \subseteq next..target
  /\ failures \in 0..MaxFailures /\ losses \in 0..MaxLosses
  /\ legacy \in BOOLEAN

(***************************************************************************)
(* get_lz4_blocks: blocks and proofs are pushed until their size exceeds   *)
(* the limit or a height is missing; a block that exceeds it is popped     *)
(* again unless it is the only one, its proof stays.                       *)
(***************************************************************************)
Run(first, n) == [i \in 1..n |-> first + i - 1]

SizeOf(first, n) == MapThenSumSet(LAMBDA h : Size[h], first..(first + n - 1))

Pushed(first, last) ==
  LET available == last - first + 1
      over == {n \in 1..available : SizeOf(first, n) > Limit}
  IN  IF over = {} THEN available ELSE Min(over)

\* Mutant: a block that exceeds the limit is popped even if it is the only one.
PoppedAlways(first, n) == IF SizeOf(first, n) > Limit THEN n - 1 ELSE n

Popped(first, n) == IF SizeOf(first, n) > Limit /\ n > 1 THEN n - 1 ELSE n

get_lz4_blocks(first, last) ==
  LET n == Pushed(first, last)
  IN  [blocks |-> Run(first, Popped(first, n)), proofs |-> Run(first, n)]

\* An attempt returns or bails; blksync_loop sleeps and picks a peer again.
EndAttempt ==
  /\ at' = "idle"
  /\ reply' = NoReply /\ got' = {}
  /\ target' = 0 /\ next' = 1
  /\ UNCHANGED peer

(***************************************************************************)
(* The environment: peers and the local staker commit blocks; a power      *)
(* failure takes the newest blocks from a peer, or from this node together *)
(* with its attempt.                                                       *)
(***************************************************************************)
PeerGrows(p) ==
  /\ top[p] < MaxHeight
  /\ top' = [top EXCEPT ![p] = @ + 1]
  /\ UNCHANGED <<mine, at, attempt, failures, losses, legacy>>

LocalCommit ==
  /\ mine < MaxHeight
  /\ mine' = mine + 1
  /\ UNCHANGED <<top, at, attempt, failures, losses, legacy>>

PeerLoses(p) ==
  /\ losses < MaxLosses /\ losses' = losses + 1
  /\ top[p] > 0
  /\ \E h \in 0..(top[p] - 1) : top' = [top EXCEPT ![p] = h]
  /\ UNCHANGED <<mine, at, attempt, failures, legacy>>

Restart ==
  /\ losses < MaxLosses /\ losses' = losses + 1
  /\ mine' \in 0..mine
  /\ EndAttempt
  /\ UNCHANGED <<top, failures, legacy>>

(***************************************************************************)
(* One attempt.                                                            *)
(***************************************************************************)
Ask(p) ==
  /\ at = "idle"
  /\ at' = "asking" /\ peer' = p
  /\ UNCHANGED <<top, mine, target, next, reply, got, failures, losses, legacy>>

GetSummary ==
  /\ at = "asking"
  /\ at' = "comparing" /\ target' = top[peer]
  /\ UNCHANGED <<top, mine, peer, next, reply, got, failures, losses, legacy>>

\* Mutant: a height is passed over ("+ 1", "skip(1)").
CompareBeyond ==
  /\ at = "comparing"
  /\ \/ target <= mine /\ EndAttempt
     \/ /\ target > mine
        /\ next' = mine + 2
        /\ at' = IF legacy THEN "streaming" ELSE "fetching"
        /\ UNCHANGED <<peer, target, reply, got>>
  /\ UNCHANGED <<top, mine, failures, losses, legacy>>

\* get_summary has answered: the own highest height is read.
Compare ==
  /\ at = "comparing"
  /\ \/ target <= mine /\ EndAttempt
     \/ /\ target > mine
        /\ next' = mine + 1
        /\ target' = IF legacy THEN Min({target, mine + Batch}) ELSE target
        /\ at' = IF legacy THEN "streaming" ELSE "fetching"
        /\ UNCHANGED <<peer, reply, got>>
  /\ UNCHANGED <<top, mine, failures, losses, legacy>>

Fetch ==
  /\ at = "fetching" /\ next <= top[peer]
  /\ reply' = get_lz4_blocks(next, top[peer])
  /\ at' = "applying"
  /\ UNCHANGED <<top, mine, peer, target, next, got, failures, losses, legacy>>

\* The peer no longer has the next block: None, "missing block", and in the
\* legacy stream "mysteriously missing block", in the order of the heights.
MissingBlock ==
  /\ at \in {"fetching", "streaming"} /\ next \notin got
  /\ top[peer] < next /\ next <= target
  /\ EndAttempt
  /\ UNCHANGED <<top, mine, failures, losses, legacy>>

\* A timeout, a refused connection or an undecodable answer.
Fail ==
  /\ at \in {"asking", "fetching", "streaming"}
  /\ failures < MaxFailures
  /\ failures' = failures + 1
  /\ EndAttempt
  /\ UNCHANGED <<top, mine, losses, legacy>>

\* The pairs of the batch that are left, and what apply_block takes.
Left == Min({Len(reply.blocks), Len(reply.proofs)})

Applies(block, proof) == block = mine + 1 /\ proof = block

\* zip ends with the shorter list, the height moves by the blocks.
ApplyBatch ==
  /\ at = "applying" /\ Left > 0
  /\ LET block == Head(reply.blocks) IN
     IF block = next /\ Applies(block, Head(reply.proofs))
     THEN /\ mine' = block
          /\ next' = next + 1
          /\ reply' = [blocks |-> Tail(reply.blocks), proofs |-> Tail(reply.proofs)]
          /\ UNCHANGED <<at, peer, target, got>>
     ELSE EndAttempt /\ UNCHANGED mine
  /\ UNCHANGED <<top, failures, losses, legacy>>

EndBatch ==
  /\ at = "applying" /\ Left = 0
  /\ \/ /\ next + Len(reply.blocks) <= target
        /\ at' = "fetching"
        /\ next' = next + Len(reply.blocks)
        /\ reply' = NoReply
        /\ UNCHANGED <<peer, target, got>>
     \/ /\ next + Len(reply.blocks) > target
        /\ EndAttempt
  /\ UNCHANGED <<top, mine, failures, losses, legacy>>

\* Mutant: the stream of heights does not end at their_highest.
FetchFullPast(h) ==
  /\ at = "streaming"
  /\ h \in next..(next + Buffered - 1) \ got
  /\ got' = got \cup {h}
  /\ UNCHANGED <<top, mine, at, peer, target, next, reply, failures, losses, legacy>>

\* The legacy stream: requests for the next Buffered heights run at once
\* and may be answered in any order, their blocks are applied in order.
FetchFull(h) ==
  /\ at = "streaming"
  /\ h \in next..Min({target, next + Buffered - 1}) \ got /\ h <= top[peer]
  /\ got' = got \cup {h}
  /\ UNCHANGED <<top, mine, at, peer, target, next, reply, failures, losses, legacy>>

\* Mutant: the stream yields blocks as they arrive (try_buffer_unordered).
ApplyStreamUnordered ==
  /\ at = "streaming" /\ got # {}
  /\ LET h == CHOOSE x \in got : \A y \in got : x >= y IN
     IF Applies(h, h)
     THEN /\ mine' = h
          /\ next' = next + 1
          /\ got' = got \ {h}
          /\ UNCHANGED <<at, peer, target, reply>>
     ELSE EndAttempt /\ UNCHANGED mine
  /\ UNCHANGED <<top, failures, losses, legacy>>

ApplyStream ==
  /\ at = "streaming" /\ next \in got
  /\ IF Applies(next, next)
     THEN /\ mine' = next
          /\ next' = next + 1
          /\ got' = got \ {next}
          /\ UNCHANGED <<at, peer, target, reply>>
     ELSE EndAttempt /\ UNCHANGED mine
  /\ UNCHANGED <<top, failures, losses, legacy>>

EndStream ==
  /\ at = "streaming" /\ next > target
  /\ EndAttempt
  /\ UNCHANGED <<top, mine, failures, losses, legacy>>

(***************************************************************************)
(* The specification.                                                      *)
(***************************************************************************)
Init ==
  /\ top \in [Peers -> 0..1]
  /\ mine = 0
  /\ at = "idle"
  /\ peer \in Peers
  /\ target = 0 /\ next = 1
  /\ reply = NoReply /\ got = {}
  /\ failures = 0 /\ losses = 0
  /\ legacy \in BOOLEAN

Progress ==
  \/ GetSummary \/ Compare \/ Fetch \/ MissingBlock \/ ApplyBatch \/ EndBatch
  \/ ApplyStream \/ EndStream \/ \E h \in Heights : FetchFull(h)

Next ==
  \/ \E p \in Peers : PeerGrows(p) \/ PeerLoses(p) \/ Ask(p)
  \/ LocalCommit \/ Restart \/ Fail \/ Progress

Spec == Init /\ [][Next]_vars

\* Every call returns or times out, and the random choice of a peer gives
\* each its turn.  Nothing obliges the staker or the peers to commit.
Fairness == WF_vars(Progress) /\ \A p \in Peers : SF_vars(Ask(p))

FairSpec == Spec /\ Fairness

(***************************************************************************)
(* Properties.                                                             *)
(***************************************************************************)
\* Inside an attempt no height is skipped: what is wanted next is at most
\* one above what the node has, and each block still to be applied sits at
\* its height with its own proof - although a popped block leaves its proof
\* behind, requests are answered in any order, and the staker may commit.
\* So apply_block refuses a block only if the staker has overtaken it.
AttemptInOrder ==
  /\ at \in {"fetching", "applying", "streaming"} => next <= mine + 1
  /\ \A i \in 1..Left : reply.blocks[i] = next + i - 1 /\ reply.proofs[i] = reply.blocks[i]
  /\ Len(reply.blocks) <= Len(reply.proofs)

\* Every batch moves the attempt on and respects the limit it asked for,
\* except that a block larger than the limit comes alone.
BatchFits ==
  [][at = "fetching" /\ at' = "applying" =>
       /\ reply'.blocks # <<>>
       /\ Len(reply'.blocks) > 1 => SizeOf(next, Len(reply'.blocks)) <= Limit]_vars

\* A node reaches whatever height a peer has - unless the peer loses it in a
\* power failure - in either mode, although its own staker overtakes it and
\* a peer may no longer have what its summary promised.
CatchesUp ==
  \A p \in Peers : \A h \in Heights : top[p] >= h ~> mine >= h \/ top[p] < h
=============================================================================
