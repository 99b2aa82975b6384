---------------------------- MODULE DiffExchange ----------------------------
(***************************************************************************)
(* How stakers bring streamlette's messages to each other (src/staker.rs): *)
(* sync_core, which asks the others for what they know and races the loop  *)
(* that answers them; the get_diff handler, which puts a request into a    *)
(* bounded queue and waits; and the rounds that start and stop both, while *)
(* the queue and the handlers live on.  Streamlette (external) is reduced  *)
(* to this: a staker that knows the messages of a quorum decides.  Since a *)
(* core only grows, a diff is all that the answering core holds.           *)
(***************************************************************************)
EXTENDS Integers, Sequences, FiniteSets

CONSTANTS
  Stakers,
  Routes,      \* swarm.routes() of each; the bootstrap route can be oneself
  Quorum,      \* how many stakers make a decision, and a consensus proof
  QueueSize,   \* of the diff requests (100)
  MaxRound,    \* bound on the rounds
  MaxLate      \* bound on answers that come after their client's timeout

ASSUME ExchangeAssumption ==
  /\ IsFiniteSet(Stakers)
  /\ Routes \in [Stakers -> SUBSET Stakers]
  /\ Quorum \in 1..Cardinality(Stakers)
  /\ {QueueSize, MaxRound} \subseteq Nat \ {0} /\ MaxLate \in Nat

VARIABLES
  round,     \* the height a staker works on, which is its nonce
  phase,     \* "between" rounds, "deciding", "gathering" signatures
  core,      \* streamlette::Core: the messages [round, from] it holds
  queue,     \* diff requests whose handlers wait; a dead one has no client
  call,      \* the get_diff call of sync_core's main loop
  decided,   \* who has decided, by round
  late

vars == <<round, phase, core, queue, call, decided, late>>

Rounds == 1..MaxRound

Messages == [round : Rounds, from : Stakers]

Request(s) == [from |-> s, nonce |-> round[s], dead |-> FALSE]

NoCall == [at |-> "none", diff |-> {}]

TypeOK ==
  /\ round \in [Stakers -> 1..(MaxRound + 1)]
  /\ phase \in [Stakers -> {"between", "deciding", "gathering"}]
  /\ core \in [Stakers -> SUBSET Messages]
  /\ \A s \in Stakers :
       /\ Len(queue[s]) <= QueueSize
       /\ \A i \in 1..Len(queue[s]) :
            queue[s][i] \in [from : Stakers, nonce : Rounds, dead : BOOLEAN]
       /\ call[s].at \in {"none", "waiting", "answered"} /\ call[s].diff \subseteq Messages
       /\ phase[s] = "between" => call[s] = NoCall /\ core[s] = {}
       \* a waiting client has exactly one live request
       /\ call[s].at = "waiting" <=>
            \E p \in Stakers : \E i \in 1..Len(queue[p]) : queue[p][i].from = s /\ ~queue[p][i].dead
  /\ decided \in [Rounds -> SUBSET Stakers]
  /\ late \in 0..MaxLate

Running(s) == phase[s] # "between"

(***************************************************************************)
(* The client: main_loop of sync_core.                                     *)
(***************************************************************************)
\* The call reaches p's handler: try_send, and the answer to a full queue
\* is empty at once.
Ask(s, p) ==
  /\ Running(s) /\ call[s].at = "none"
  /\ IF Len(queue[p]) < QueueSize
     THEN /\ queue' = [queue EXCEPT ![p] = Append(@, Request(s))]
          /\ call' = [call EXCEPT ![s].at = "waiting"]
     ELSE /\ call' = [call EXCEPT ![s].at = "answered"]
          /\ UNCHANGED queue
  /\ UNCHANGED <<round, phase, core, decided, late>>

\* apply_one_diff.
ApplyDiff(s) ==
  /\ call[s].at = "answered"
  /\ core' = [core EXCEPT ![s] = @ \cup call[s].diff]
  /\ call' = [call EXCEPT ![s] = NoCall]
  /\ UNCHANGED <<round, phase, queue, decided, late>>

\* The client is gone, its request stays in the queue.
Abandoned(s) ==
  [p \in Stakers |-> [i \in 1..Len(queue[p]) |->
     IF queue[p][i].from = s THEN [queue[p][i] EXCEPT !.dead = TRUE] ELSE queue[p][i]]]

\* The five seconds are over: whoever is asked is between rounds, or late.
Timeout(s) ==
  /\ call[s].at = "waiting"
  /\ \/ /\ \A p \in Stakers : Running(p) =>
             \A i \in 1..Len(queue[p]) : queue[p][i].from = s => queue[p][i].dead
        /\ UNCHANGED late
     \/ late < MaxLate /\ late' = late + 1
  /\ queue' = Abandoned(s)
  /\ call' = [call EXCEPT ![s] = NoCall]
  /\ UNCHANGED <<round, phase, core, decided>>

(***************************************************************************)
(* The server: respond_loop, which runs as long as the round.              *)
(***************************************************************************)
Answers(s, diff) ==
  LET request == Head(queue[s]) IN
  /\ queue' = [queue EXCEPT ![s] = Tail(@)]
  /\ call' = IF request.dead THEN call
             ELSE [call EXCEPT ![request.from] = [at |-> "answered", diff |-> diff]]
  /\ UNCHANGED <<round, phase, core, decided, late>>

\* Mutant: whatever the nonce of the request.
RespondAny(s) ==
  /\ Running(s) /\ queue[s] # << >>
  /\ Answers(s, core[s])

\* Mutant: no _spammer goes on answering once the staker has decided.
RespondDeciding(s) ==
  /\ phase[s] = "deciding" /\ queue[s] # << >>
  /\ Answers(s, IF Head(queue[s]).nonce = round[s] THEN core[s] ELSE {})

Respond(s) ==
  /\ Running(s) /\ queue[s] # << >>
  /\ Answers(s, IF Head(queue[s]).nonce = round[s] THEN core[s] ELSE {})

(***************************************************************************)
(* The rounds.                                                             *)
(***************************************************************************)
BeginRound(s) ==
  /\ phase[s] = "between" /\ round[s] <= MaxRound
  /\ phase' = [phase EXCEPT ![s] = "deciding"]
  /\ core' = [core EXCEPT ![s] = {[round |-> round[s], from |-> s]}]
  /\ UNCHANGED <<round, queue, call, decided, late>>

Decide(s) ==
  /\ phase[s] = "deciding" /\ Cardinality(core[s]) >= Quorum
  /\ phase' = [phase EXCEPT ![s] = "gathering"]
  /\ decided' = [decided EXCEPT ![round[s]] = @ \cup {s}]
  /\ UNCHANGED <<round, core, queue, call, late>>

\* Mutant: the main loop of sync_core outlives its round.
EndRoundKeeping(s) ==
  /\ phase' = [phase EXCEPT ![s] = "between"]
  /\ round' = [round EXCEPT ![s] = @ + 1]
  /\ core' = [core EXCEPT ![s] = {}]
  /\ UNCHANGED <<queue, call, decided, late>>

\* The round ends, with sync_core and its call; the handlers stay.
EndRound(s) ==
  /\ phase' = [phase EXCEPT ![s] = "between"]
  /\ round' = [round EXCEPT ![s] = @ + 1]
  /\ core' = [core EXCEPT ![s] = {}]
  /\ call' = [call EXCEPT ![s] = NoCall]
  /\ queue' = Abandoned(s)
  /\ UNCHANGED <<decided, late>>

\* Enough signatures (module ProofGather): apply_block.
Commit(s) ==
  /\ phase[s] = "gathering" /\ Cardinality(decided[round[s]]) >= Quorum
  /\ EndRound(s)

\* skip_round: blksync has brought the block from a staker that has it.
Skip(s) ==
  /\ \E p \in Stakers : round[p] > round[s]
  /\ EndRound(s)

(***************************************************************************)
(* The specification.                                                      *)
(***************************************************************************)
Init ==
  /\ round = [s \in Stakers |-> 1]
  /\ phase = [s \in Stakers |-> "between"]
  /\ core = [s \in Stakers |-> {}]
  /\ queue = [s \in Stakers |-> << >>]
  /\ call = [s \in Stakers |-> NoCall]
  /\ decided = [r \in Rounds |-> {}]
  /\ late = 0

TaskStep(s) ==
  \/ ApplyDiff(s) \/ Respond(s) \/ BeginRound(s) \/ Decide(s) \/ Commit(s) \/ Skip(s)

Next == \E s \in Stakers : TaskStep(s) \/ Timeout(s) \/ \E p \in Routes[s] : Ask(s, p)

Spec == Init /\ [][Next]_vars

\* The tasks run, timers fire, blksync delivers; the main loop asks every
\* route in each of its passes.
Fairness ==
  \A s \in Stakers :
    /\ WF_vars(ApplyDiff(s) \/ Timeout(s)) /\ WF_vars(Respond(s))
    /\ WF_vars(BeginRound(s) \/ Decide(s) \/ Commit(s) \/ Skip(s))
    /\ \A p \in Routes[s] : SF_vars(Ask(s, p))

FairSpec == Spec /\ Fairness

(***************************************************************************)
(* Properties.                                                             *)
(***************************************************************************)
\* A core only ever holds messages of its own round, although requests stay
\* queued across rounds, clients move on while they wait, and stakers are
\* in different rounds.
RightRound ==
  \A s \in Stakers : \A m \in core[s] \cup call[s].diff : m.round = round[s]


\* Every round ends: who decides goes on answering until it has a proof, so
\* that the others can decide as well, and skip_round ends the round of one
\* that was left behind (the TODO at src/staker.rs:80 fears for it).
RoundsEnd == <>[](\A s \in Stakers : round[s] > MaxRound)
=============================================================================
