------------------------- MODULE DiffExchangeProofs -------------------------
(***************************************************************************)
(* Proofs about DiffExchange, for any stakers, routes, queue and number of *)
(* rounds.  The argument: a client has at most one live request anywhere,  *)
(* and leaving a round kills it; so a request that is answered as live     *)
(* carries the round its client is still in, and what an answer of that    *)
(* round brings can be merged whenever the client gets to it.              *)
(***************************************************************************)
EXTENDS DiffExchange, SequenceTheorems, TLAPS

Requests == [from : Stakers, nonce : Rounds, dead : BOOLEAN]

Calls == [at : {"none", "waiting", "answered"}, diff : SUBSET Messages]

\* The i-th request at p is one that s waits for.
Live(p, i, s) == queue[p][i].from = s /\ ~queue[p][i].dead

Typed ==
  /\ round \in [Stakers -> 1..(MaxRound + 1)]
  /\ phase \in [Stakers -> {"between", "deciding", "gathering"}]
  /\ core \in [Stakers -> SUBSET Messages]
  /\ queue \in [Stakers -> Seq(Requests)]
  /\ call \in [Stakers -> Calls]
  /\ decided \in [Rounds -> SUBSET Stakers]
  /\ late \in 0..MaxLate

QueuesBounded == \A p \in Stakers : Len(queue[p]) <= QueueSize

\* Between rounds a staker knows nothing and asks nobody.
BetweenRounds ==
  \A s \in Stakers : IF Running(s) THEN round[s] <= MaxRound
                                   ELSE call[s] = NoCall /\ core[s] = {}

\* A staker waits exactly while it has a live request; this is the only one
\* and of its present round.
OneRequest ==
  /\ \A s \in Stakers :
       call[s].at = "waiting" <=> \E p \in Stakers : \E i \in 1..Len(queue[p]) : Live(p, i, s)
  /\ \A s, p, q \in Stakers : \A i \in 1..Len(queue[p]), j \in 1..Len(queue[q]) :
       Live(p, i, s) /\ Live(q, j, s) => p = q /\ i = j
  /\ \A s, p \in Stakers : \A i \in 1..Len(queue[p]) :
       Live(p, i, s) => queue[p][i].nonce = round[s]

NoEarlyDiff == \A s \in Stakers : call[s].at # "answered" => call[s].diff = {}

IInv ==
  /\ Typed
  /\ QueuesBounded
  /\ BetweenRounds
  /\ OneRequest
  /\ NoEarlyDiff
  /\ RightRound

\* The invariant contains the type invariant of the module.
LEMMA TypesFollow == IInv => TypeOK
<1> SUFFICES ASSUME IInv PROVE TypeOK
  OBVIOUS
<1>1. ASSUME NEW s \in Stakers
      PROVE  /\ Len(queue[s]) <= QueueSize
             /\ \A i \in 1..Len(queue[s]) : queue[s][i] \in Requests
             /\ call[s].at \in {"none", "waiting", "answered"} /\ call[s].diff \subseteq Messages
             /\ phase[s] = "between" => call[s] = NoCall /\ core[s] = {}
  <2>1. queue[s] \in Seq(Requests) /\ call[s] \in Calls
    BY DEF IInv, Typed
  <2>2. \A i \in 1..Len(queue[s]) : queue[s][i] \in Requests
    BY <2>1, ElementOfSeq
  <2> QED BY <2>1, <2>2 DEF IInv, QueuesBounded, BetweenRounds, Running, Calls
<1> QED BY <1>1 DEF IInv, Typed, OneRequest, Live, Requests, TypeOK

LEMMA InitInv == Init => IInv
<1> SUFFICES ASSUME Init PROVE IInv
  OBVIOUS
<1>1. \A s \in Stakers : Len(queue[s]) = 0 /\ queue[s] = << >>
  BY DEF Init
<1>2. Typed
  BY ExchangeAssumption, EmptySeq DEF Init, Typed, Calls, NoCall
<1>3. \A p \in Stakers : 1..Len(queue[p]) = {}
  BY <1>1
<1>4. OneRequest
  BY <1>3 DEF Init, OneRequest, NoCall
<1>5. QueuesBounded
  BY <1>1, ExchangeAssumption DEF QueuesBounded
<1>6. BetweenRounds /\ NoEarlyDiff /\ RightRound
  BY DEF Init, BetweenRounds, Running, NoEarlyDiff, RightRound, NoCall
<1> QED BY <1>2, <1>4, <1>5, <1>6 DEF IInv

(***************************************************************************)
(* What the operations on the queues do to the live requests.              *)
(***************************************************************************)
LEMMA AbandonedKills ==
  ASSUME Typed, NEW s \in Stakers, queue' = Abandoned(s)
  PROVE  /\ queue' \in [Stakers -> Seq(Requests)]
         /\ \A p \in Stakers : Len(queue'[p]) = Len(queue[p])
         /\ \A c, p \in Stakers : \A i \in 1..Len(queue[p]) :
              /\ Live(p, i, c)' <=> Live(p, i, c) /\ c # s
              /\ queue'[p][i].nonce = queue[p][i].nonce
<1>1. ASSUME NEW p \in Stakers
      PROVE  /\ queue'[p] \in Seq(Requests)
             /\ Len(queue'[p]) = Len(queue[p])
             /\ \A c \in Stakers : \A i \in 1..Len(queue[p]) :
                  /\ Live(p, i, c)' <=> Live(p, i, c) /\ c # s
                  /\ queue'[p][i].nonce = queue[p][i].nonce
  <2> DEFINE n == Len(queue[p])
             new(i) == IF queue[p][i].from = s THEN [queue[p][i] EXCEPT !.dead = TRUE] ELSE queue[p][i]
  <2>1. n \in Nat /\ \A i \in 1..n : queue[p][i] \in Requests
    BY LenProperties, ElementOfSeq DEF Typed
  <2>2. queue'[p] = [i \in 1..n |-> new(i)]
    BY DEF Abandoned
  <2>3. \A i \in 1..n : /\ new(i) \in Requests
                        /\ new(i).from = queue[p][i].from /\ new(i).nonce = queue[p][i].nonce
                        /\ new(i).dead <=> queue[p][i].dead \/ queue[p][i].from = s
    BY <2>1 DEF Requests
  <2> HIDE DEF n, new
  <2>4. queue'[p] \in [1..n -> Requests]
    BY <2>1, <2>2, <2>3
  <2>5. queue'[p] \in Seq(Requests) /\ Len(queue'[p]) = n
    BY <2>1, <2>4
  <2>6. \A i \in 1..n : queue'[p][i] = new(i)
    BY <2>2
  <2> QED BY <2>3, <2>5, <2>6 DEF Live, n
<1>2. queue' = [p \in Stakers |-> queue'[p]]
  BY DEF Abandoned
<1> QED BY <1>1, <1>2

LEMMA AppendAdds ==
  ASSUME Typed, NEW p \in Stakers, NEW r \in Requests,
         queue' = [queue EXCEPT ![p] = Append(@, r)]
  PROVE  /\ queue' \in [Stakers -> Seq(Requests)]
         /\ Len(queue[p]) \in Nat /\ Len(queue'[p]) = Len(queue[p]) + 1
         /\ \A q \in Stakers : q # p => queue'[q] = queue[q]
         /\ \A i \in 1..Len(queue[p]) : queue'[p][i] = queue[p][i]
         /\ queue'[p][Len(queue[p]) + 1] = r
<1>1. queue[p] \in Seq(Requests) /\ queue'[p] = Append(queue[p], r)
  BY DEF Typed
<1>2. Len(queue[p]) \in Nat
  BY <1>1, LenProperties
<1>3. /\ queue'[p] \in Seq(Requests) /\ Len(queue'[p]) = Len(queue[p]) + 1
      /\ \A i \in 1..Len(queue[p]) : queue'[p][i] = queue[p][i]
      /\ queue'[p][Len(queue[p]) + 1] = r
  BY <1>1, AppendProperties
<1>4. queue' \in [Stakers -> Seq(Requests)] /\ \A q \in Stakers : q # p => queue'[q] = queue[q]
  BY <1>1, <1>3 DEF Typed
<1> QED BY <1>2, <1>3, <1>4

LEMMA TailShifts ==
  ASSUME Typed, NEW s \in Stakers, queue[s] # << >>,
         queue' = [queue EXCEPT ![s] = Tail(@)]
  PROVE  /\ queue' \in [Stakers -> Seq(Requests)]
         /\ Len(queue[s]) \in Nat \ {0} /\ Len(queue'[s]) = Len(queue[s]) - 1
         /\ Head(queue[s]) \in Requests /\ Head(queue[s]) = queue[s][1]
         /\ \A q \in Stakers : q # s => queue'[q] = queue[q]
         /\ \A i \in 1..Len(queue'[s]) : queue'[s][i] = queue[s][i + 1]
<1>1. queue[s] \in Seq(Requests) /\ queue'[s] = Tail(queue[s])
  BY DEF Typed
<1>2. Len(queue[s]) \in Nat \ {0}
  BY <1>1, EmptySeq
<1>3. /\ Head(queue[s]) \in Requests /\ queue'[s] \in Seq(Requests)
      /\ Len(queue'[s]) = Len(queue[s]) - 1
      /\ \A i \in 1..Len(queue'[s]) : queue'[s][i] = queue[s][i + 1]
  BY <1>1, HeadTailProperties
<1>4. Head(queue[s]) = queue[s][1]
  BY <1>1
<1>5. queue' \in [Stakers -> Seq(Requests)] /\ \A q \in Stakers : q # s => queue'[q] = queue[q]
  BY <1>1, <1>3 DEF Typed
<1> QED BY <1>2, <1>3, <1>4, <1>5

(***************************************************************************)
(* The client.                                                             *)
(***************************************************************************)
LEMMA AskInv ==
  ASSUME IInv, NEW s \in Stakers, NEW p \in Stakers, Ask(s, p)
  PROVE  IInv'
<1>1. /\ UNCHANGED <<round, phase, core, decided, late>>
      /\ call[s].at = "none" /\ call[s].diff = {} /\ call[s] \in Calls
      /\ Running(s) /\ round[s] \in Rounds
  <2>1. UNCHANGED <<round, phase, core, decided, late>> /\ call[s].at = "none" /\ Running(s)
    BY DEF Ask
  <2>2. call[s].diff = {} /\ call[s] \in Calls
    BY <2>1 DEF IInv, Typed, NoEarlyDiff
  <2>3. round[s] \in 1..(MaxRound + 1) /\ round[s] <= MaxRound
    BY <2>1 DEF IInv, Typed, BetweenRounds
  <2> QED BY <2>1, <2>2, <2>3, ExchangeAssumption DEF Rounds
<1>2. \A q \in Stakers : \A i \in 1..Len(queue[q]) : ~Live(q, i, s)
  BY <1>1 DEF IInv, OneRequest
<1>3. CASE Len(queue[p]) < QueueSize
  <2> DEFINE n == Len(queue[p])
  <2>1. Request(s) \in Requests /\ Request(s).from = s /\ ~Request(s).dead /\ Request(s).nonce = round[s]
    BY <1>1 DEF Request, Requests
  <2>2. call' = [call EXCEPT ![s].at = "waiting"]
    BY <1>3 DEF Ask
  <2>3. /\ queue' \in [Stakers -> Seq(Requests)]
        /\ n \in Nat /\ Len(queue'[p]) = n + 1
        /\ \A q \in Stakers : q # p => queue'[q] = queue[q]
        /\ \A i \in 1..n : queue'[p][i] = queue[p][i]
        /\ queue'[p][n + 1] = Request(s)
    BY <1>3, <2>1, AppendAdds DEF Ask, IInv
  <2> HIDE DEF n
  <2>4. /\ call' \in [Stakers -> Calls] /\ call'[s].at = "waiting" /\ call'[s].diff = {}
        /\ \A c \in Stakers : c # s => call'[c] = call[c]
    BY <1>1, <2>2 DEF IInv, Typed, Calls
  <2>5. \A q, c \in Stakers : \A i \in 1..Len(queue'[q]) :
          \/ q = p /\ i = n + 1 /\ (Live(q, i, c)' <=> c = s) /\ queue'[q][i].nonce = round[s]
          \/ /\ i \in 1..Len(queue[q]) /\ (q = p => i # n + 1)
             /\ Live(q, i, c)' <=> Live(q, i, c)
             /\ queue'[q][i].nonce = queue[q][i].nonce
    <3>1. \A c \in Stakers : \A i \in 1..(n + 1) :
            \/ i = n + 1 /\ (Live(p, i, c)' <=> c = s) /\ queue'[p][i].nonce = round[s]
            \/ /\ i \in 1..n /\ i # n + 1
               /\ Live(p, i, c)' <=> Live(p, i, c)
               /\ queue'[p][i].nonce = queue[p][i].nonce
      BY <2>1, <2>3 DEF Live
    <3>2. \A q, c \in Stakers : q # p => \A i \in 1..Len(queue'[q]) :
            /\ i \in 1..Len(queue[q])
            /\ Live(q, i, c)' <=> Live(q, i, c)
            /\ queue'[q][i].nonce = queue[q][i].nonce
      BY <2>3 DEF Live
    <3> QED BY <2>3, <3>1, <3>2 DEF n
  <2>6. \A q \in Stakers : \A i \in 1..Len(queue[q]) : i \in 1..Len(queue'[q]) /\ (q = p => i # n + 1)
    BY <2>3 DEF n
  <2>7. OneRequest'
    <3>1. \A c \in Stakers :
            call'[c].at = "waiting" <=> \E q \in Stakers : \E i \in 1..Len(queue'[q]) : Live(q, i, c)'
      <4> SUFFICES ASSUME NEW c \in Stakers
                   PROVE  call'[c].at = "waiting" <=> \E q \in Stakers : \E i \in 1..Len(queue'[q]) : Live(q, i, c)'
        OBVIOUS
      <4>1. CASE c = s
        <5>1. n + 1 \in 1..Len(queue'[p])
          BY <2>3
        <5> QED BY <2>4, <2>5, <4>1, <5>1
      <4>2. CASE c # s
        BY <2>4, <2>5, <2>6, <4>2 DEF IInv, OneRequest
      <4> QED BY <4>1, <4>2
    <3>2. ASSUME NEW c \in Stakers, NEW q \in Stakers, NEW r \in Stakers,
                 NEW i \in 1..Len(queue'[q]), NEW j \in 1..Len(queue'[r]),
                 Live(q, i, c)', Live(r, j, c)'
          PROVE  q = r /\ i = j
      BY <1>2, <2>5, <3>2 DEF IInv, OneRequest
    <3>3. ASSUME NEW c \in Stakers, NEW q \in Stakers, NEW i \in 1..Len(queue'[q]), Live(q, i, c)'
          PROVE  queue'[q][i].nonce = round'[c]
      BY <1>1, <2>5, <3>3 DEF IInv, OneRequest
    <3> QED BY <3>1, <3>2, <3>3 DEF OneRequest
  <2>8. QueuesBounded'
    BY <1>3, <2>3, ExchangeAssumption DEF IInv, QueuesBounded, n
  <2>9. BetweenRounds' /\ NoEarlyDiff' /\ RightRound'
    BY <1>1, <2>4 DEF IInv, BetweenRounds, NoEarlyDiff, RightRound, Running
  <2> QED BY <1>1, <2>3, <2>4, <2>7, <2>8, <2>9 DEF IInv, Typed
<1>4. CASE ~(Len(queue[p]) < QueueSize)
  <2>1. queue' = queue /\ call' = [call EXCEPT ![s].at = "answered"]
    BY <1>4 DEF Ask
  <2>2. /\ call' \in [Stakers -> Calls] /\ call'[s].at = "answered" /\ call'[s].diff = {}
        /\ \A c \in Stakers : c # s => call'[c] = call[c]
    BY <1>1, <2>1 DEF IInv, Typed, Calls
  <2>3. OneRequest'
    <3>1. \A p2, c \in Stakers : \A i \in 1..Len(queue[p2]) :
            (Live(p2, i, c)' <=> Live(p2, i, c)) /\ ~Live(p2, i, s)
      BY <1>1, <2>1 DEF IInv, OneRequest, Live
    <3>2. \A c \in Stakers : call'[c].at = "waiting" <=> call[c].at = "waiting"
      BY <1>1, <2>2
    <3>3. \A c \in Stakers : call'[c].at = "waiting"
                               <=> \E q \in Stakers : \E i \in 1..Len(queue'[q]) : Live(q, i, c)'
      BY <2>1, <3>1, <3>2 DEF IInv, OneRequest
    <3> QED BY <1>1, <2>1, <3>1, <3>3 DEF IInv, OneRequest
  <2>4. BetweenRounds' /\ NoEarlyDiff' /\ RightRound' /\ QueuesBounded'
    BY <1>1, <2>1, <2>2 DEF IInv, BetweenRounds, NoEarlyDiff, RightRound, QueuesBounded, Running
  <2> QED BY <1>1, <2>1, <2>2, <2>3, <2>4 DEF IInv, Typed
<1> QED BY <1>3, <1>4

LEMMA ApplyDiffInv ==
  ASSUME IInv, NEW s \in Stakers, ApplyDiff(s)
  PROVE  IInv'
<1> USE DEF ApplyDiff
<1>1. call[s] \in Calls /\ core[s] \subseteq Messages /\ NoCall \in Calls
  BY DEF IInv, Typed, Calls, NoCall
<1>2. Typed'
  BY <1>1 DEF IInv, Typed, Calls
<1>3. OneRequest'
  BY DEF IInv, Typed, OneRequest, Live, NoCall
<1>4. Running(s)
  BY DEF IInv, BetweenRounds, NoCall
<1>5. BetweenRounds'
  BY <1>4 DEF IInv, Typed, BetweenRounds, Running
<1>6. RightRound' /\ NoEarlyDiff' /\ QueuesBounded'
  BY DEF IInv, Typed, RightRound, NoEarlyDiff, QueuesBounded, NoCall
<1> QED BY <1>2, <1>3, <1>5, <1>6 DEF IInv

(***************************************************************************)
(* A client that gives up, with or without its round.                      *)
(***************************************************************************)
LEMMA OneRequestLeft ==
  ASSUME IInv, NEW s \in Stakers, queue' = Abandoned(s), call' = [call EXCEPT ![s] = NoCall],
         \A c \in Stakers : c # s => round'[c] = round[c]
  PROVE  /\ queue' \in [Stakers -> Seq(Requests)] /\ QueuesBounded'
         /\ call' \in [Stakers -> Calls] /\ NoEarlyDiff'
         /\ OneRequest'
<1>1. /\ queue' \in [Stakers -> Seq(Requests)]
      /\ \A p \in Stakers : Len(queue'[p]) = Len(queue[p])
      /\ \A c, p \in Stakers : \A i \in 1..Len(queue[p]) :
           /\ Live(p, i, c)' <=> Live(p, i, c) /\ c # s
           /\ queue'[p][i].nonce = queue[p][i].nonce
  BY AbandonedKills DEF IInv
<1>2. /\ call' \in [Stakers -> Calls]
      /\ call'[s].at = "none" /\ call'[s].diff = {}
      /\ \A c \in Stakers : c # s => call'[c] = call[c]
  BY DEF IInv, Typed, Calls, NoCall
<1>3. OneRequest'
  <2>1. ASSUME NEW c \in Stakers
        PROVE  call'[c].at = "waiting" <=> \E p \in Stakers : \E i \in 1..Len(queue'[p]) : Live(p, i, c)'
    <3>1. CASE c = s
      BY <1>1, <1>2, <3>1
    <3>2. CASE c # s
      <4>1. call'[c].at = "waiting" <=> \E p \in Stakers : \E i \in 1..Len(queue[p]) : Live(p, i, c)
        BY <1>2, <3>2 DEF IInv, OneRequest
      <4>2. ASSUME NEW p \in Stakers
            PROVE  /\ 1..Len(queue'[p]) = 1..Len(queue[p])
                   /\ \A i \in 1..Len(queue[p]) : Live(p, i, c)' <=> Live(p, i, c)
        BY <1>1, <3>2
      <4> QED BY <4>1, <4>2, Zenon
    <3> QED BY <3>1, <3>2
  <2>2. ASSUME NEW c \in Stakers, NEW q \in Stakers, NEW r \in Stakers,
               NEW i \in 1..Len(queue'[q]), NEW j \in 1..Len(queue'[r]),
               Live(q, i, c)', Live(r, j, c)'
        PROVE  q = r /\ i = j
    <3>1. i \in 1..Len(queue[q]) /\ j \in 1..Len(queue[r])
      BY <1>1
    <3>2. Live(q, i, c) /\ Live(r, j, c)
      BY <1>1, <2>2, <3>1
    <3> QED BY <3>1, <3>2 DEF IInv, OneRequest
  <2>3. ASSUME NEW c \in Stakers, NEW q \in Stakers, NEW i \in 1..Len(queue'[q]), Live(q, i, c)'
        PROVE  queue'[q][i].nonce = round'[c]
    BY <1>1, <2>3 DEF IInv, OneRequest
  <2> QED BY <2>1, <2>2, <2>3 DEF OneRequest
<1>4. QueuesBounded' /\ NoEarlyDiff'
  BY <1>1, <1>2 DEF IInv, QueuesBounded, NoEarlyDiff
<1> QED BY <1>1, <1>2, <1>3, <1>4

LEMMA TimeoutInv ==
  ASSUME IInv, NEW s \in Stakers, Timeout(s)
  PROVE  IInv'
<1> USE DEF Timeout
<1>1. /\ queue' \in [Stakers -> Seq(Requests)] /\ QueuesBounded'
      /\ call' \in [Stakers -> Calls] /\ NoEarlyDiff'
      /\ OneRequest'
  BY OneRequestLeft
<1>2. late' \in 0..MaxLate
  BY ExchangeAssumption DEF IInv, Typed
<1>3. Running(s)
  BY DEF IInv, BetweenRounds, NoCall
<1>4. BetweenRounds' /\ RightRound'
  BY <1>3 DEF IInv, Typed, BetweenRounds, RightRound, Running, NoCall
<1> QED BY <1>1, <1>2, <1>4 DEF IInv, Typed

\* Leaving a round takes the call and its request along, so that nothing of
\* the old round reaches the new one.
LEMMA EndRoundInv ==
  ASSUME IInv, NEW s \in Stakers, Commit(s) \/ Skip(s)
  PROVE  IInv'
<1>1. EndRound(s)
  BY DEF Commit, Skip
<1>2. round[s] \in Nat /\ round[s] + 1 \in 1..(MaxRound + 1)
  <2>1. \A p \in Stakers : round[p] \in 1..(MaxRound + 1)
    BY DEF IInv, Typed
  <2>2. CASE Commit(s)
    <3>1. round[s] <= MaxRound
      BY <2>2 DEF Commit, IInv, BetweenRounds, Running
    <3> QED BY <2>1, <3>1, ExchangeAssumption
  <2>3. CASE Skip(s)
    BY <2>1, <2>3, ExchangeAssumption DEF Skip
  <2> QED BY <2>2, <2>3
<1>3. /\ queue' \in [Stakers -> Seq(Requests)] /\ QueuesBounded'
      /\ call' \in [Stakers -> Calls] /\ NoEarlyDiff'
      /\ OneRequest'
  <2>1. \A c \in Stakers : c # s => round'[c] = round[c]
    BY <1>1 DEF EndRound, IInv, Typed
  <2> QED BY <1>1, <2>1, OneRequestLeft DEF EndRound
<1>4. BetweenRounds' /\ RightRound'
  BY <1>1 DEF IInv, Typed, BetweenRounds, RightRound, Running, NoCall, EndRound
<1> QED BY <1>1, <1>2, <1>3, <1>4 DEF IInv, Typed, EndRound

(***************************************************************************)
(* The server.  A live request is of the client's present round, so that   *)
(* an answer given for the own round meets a client that is in it, too.    *)
(***************************************************************************)
LEMMA RespondInv ==
  ASSUME IInv, NEW s \in Stakers, Respond(s)
  PROVE  IInv'
<1> DEFINE request == Head(queue[s])
           diff == IF request.nonce = round[s] THEN core[s] ELSE {}
           c == request.from
<1>1. /\ UNCHANGED <<round, phase, core, decided, late>>
      /\ Running(s) /\ queue[s] # << >>
      /\ queue' = [queue EXCEPT ![s] = Tail(@)]
      /\ call' = IF request.dead THEN call
                 ELSE [call EXCEPT ![c] = [at |-> "answered", diff |-> diff]]
  BY DEF Respond, Answers
<1>2. /\ queue' \in [Stakers -> Seq(Requests)]
      /\ Len(queue[s]) \in Nat \ {0} /\ Len(queue'[s]) = Len(queue[s]) - 1
      /\ request \in Requests /\ request = queue[s][1]
      /\ \A q \in Stakers : q # s => queue'[q] = queue[q]
      /\ \A i \in 1..Len(queue'[s]) : queue'[s][i] = queue[s][i + 1]
  BY <1>1, TailShifts DEF IInv
<1>3. c \in Stakers /\ request.dead \in BOOLEAN
  BY <1>2 DEF Requests
<1>4. core[s] \subseteq Messages /\ diff \subseteq Messages
  BY DEF IInv, Typed
<1>5. 1 \in 1..Len(queue[s]) /\ (Live(s, 1, c) <=> ~request.dead)
  BY <1>2 DEF Live
\* Every request but the answered one is where it was, or one place on.
<1>6. \A q, d \in Stakers : \A i \in 1..Len(queue'[q]) :
        \E k \in 1..Len(queue[q]) :
          /\ k = (IF q = s THEN i + 1 ELSE i)
          /\ (Live(q, i, d)' <=> Live(q, k, d)) /\ queue'[q][i].nonce = queue[q][k].nonce
  <2>1. \A d \in Stakers : \A i \in 1..Len(queue'[s]) :
          /\ i + 1 \in 1..Len(queue[s])
          /\ (Live(s, i, d)' <=> Live(s, i + 1, d)) /\ queue'[s][i].nonce = queue[s][i + 1].nonce
    <3>1. \A i \in 1..Len(queue'[s]) : i + 1 \in 1..Len(queue[s])
      BY <1>2
    <3>2. \A i \in 1..Len(queue'[s]) : queue'[s][i] = queue[s][i + 1]
      BY <1>2
    <3> QED BY <3>1, <3>2 DEF Live
  <2>2. \A q, d \in Stakers : q # s => \A i \in 1..Len(queue'[q]) :
          /\ i \in 1..Len(queue[q])
          /\ (Live(q, i, d)' <=> Live(q, i, d)) /\ queue'[q][i].nonce = queue[q][i].nonce
    BY <1>2 DEF Live
  <2> QED BY <2>1, <2>2
<1>7. \A q \in Stakers : \A k \in 1..Len(queue[q]) :
        \/ q = s /\ k = 1
        \/ \E i \in 1..Len(queue'[q]) : k = (IF q = s THEN i + 1 ELSE i)
  <2>1. \A k \in 1..Len(queue[s]) : k = 1 \/ (k - 1 \in 1..Len(queue'[s]) /\ k = (k - 1) + 1)
    BY <1>2
  <2> QED BY <1>2, <2>1
<1> HIDE DEF request, diff, c
<1>8. /\ call' \in [Stakers -> Calls]
      /\ \A d \in Stakers : (d # c \/ request.dead) => call'[d] = call[d]
      /\ ~request.dead => call'[c].at = "answered" /\ call'[c].diff = diff
  BY <1>1, <1>3, <1>4 DEF IInv, Typed, Calls
<1>9. ~request.dead => call[c].at = "waiting" /\ request.nonce = round[c] /\ Running(c)
  BY <1>2, <1>3, <1>5 DEF IInv, OneRequest, BetweenRounds, NoCall
<1>10. OneRequest'
  <2>1. ASSUME NEW d \in Stakers
        PROVE  call'[d].at = "waiting" <=> \E q \in Stakers : \E i \in 1..Len(queue'[q]) : Live(q, i, d)'
    <3>1. CASE d = c /\ ~request.dead
      <4>1. \A q \in Stakers : \A k \in 1..Len(queue[q]) : Live(q, k, d) => q = s /\ k = 1
        BY <1>5, <3>1 DEF IInv, OneRequest
      <4>2. \A q \in Stakers : \A i \in 1..Len(queue'[q]) : ~Live(q, i, d)'
        BY <1>2, <1>6, <4>1
      <4> QED BY <1>8, <3>1, <4>2
    <3>2. CASE d # c \/ request.dead
      <4>1. ~Live(s, 1, d)
        BY <1>2, <1>3, <3>2 DEF Live, c
      <4>2. (\E q \in Stakers : \E i \in 1..Len(queue'[q]) : Live(q, i, d)')
              <=> (\E q \in Stakers : \E k \in 1..Len(queue[q]) : Live(q, k, d))
        BY <1>6, <1>7, <4>1
      <4> QED BY <1>8, <3>2, <4>2 DEF IInv, OneRequest
    <3> QED BY <3>1, <3>2
  <2>2. ASSUME NEW d \in Stakers, NEW q \in Stakers, NEW r \in Stakers,
               NEW i \in 1..Len(queue'[q]), NEW j \in 1..Len(queue'[r]),
               Live(q, i, d)', Live(r, j, d)'
        PROVE  q = r /\ i = j
    <3>1. PICK k \in 1..Len(queue[q]) : k = (IF q = s THEN i + 1 ELSE i) /\ Live(q, k, d)
      BY <1>6, <2>2
    <3>2. PICK l \in 1..Len(queue[r]) : l = (IF r = s THEN j + 1 ELSE j) /\ Live(r, l, d)
      BY <1>6, <2>2
    <3>3. q = r /\ k = l
      BY <3>1, <3>2 DEF IInv, OneRequest
    <3> QED BY <3>1, <3>2, <3>3
  <2>3. ASSUME NEW d \in Stakers, NEW q \in Stakers, NEW i \in 1..Len(queue'[q]), Live(q, i, d)'
        PROVE  queue'[q][i].nonce = round'[d]
    BY <1>1, <1>6, <2>3 DEF IInv, OneRequest
  <2> QED BY <2>1, <2>2, <2>3 DEF OneRequest
<1>11. QueuesBounded'
  <2>1. Len(queue'[s]) <= Len(queue[s]) /\ \A q \in Stakers : q # s => Len(queue'[q]) = Len(queue[q])
    BY <1>2
  <2>2. QueueSize \in Nat /\ Len(queue[s]) \in Nat /\ Len(queue'[s]) \in Nat
    BY <1>2, ExchangeAssumption
  <2> QED BY <2>1, <2>2 DEF IInv, QueuesBounded
<1>12. BetweenRounds' /\ NoEarlyDiff'
  BY <1>1, <1>3, <1>8, <1>9 DEF IInv, BetweenRounds, NoEarlyDiff, Running
<1>13. RightRound'
  <2>1. ~request.dead => \A m \in diff : m.round = round[c]
    BY <1>9 DEF IInv, RightRound, diff
  <2> QED BY <1>1, <1>3, <1>8, <2>1 DEF IInv, RightRound
<1> QED BY <1>1, <1>2, <1>8, <1>10, <1>11, <1>12, <1>13 DEF IInv, Typed

(***************************************************************************)
(* The rounds.                                                             *)
(***************************************************************************)
LEMMA RoundInv ==
  ASSUME IInv, NEW s \in Stakers, BeginRound(s) \/ Decide(s)
  PROVE  IInv'
<1> USE DEF BeginRound, Decide
<1>1. UNCHANGED <<round, queue, call, late>>
  OBVIOUS
<1>2. round[s] \in 1..(MaxRound + 1) /\ round[s] <= MaxRound
  <2>1. CASE BeginRound(s)
    BY <2>1 DEF IInv, Typed
  <2>2. CASE Decide(s)
    BY <2>2 DEF IInv, Typed, BetweenRounds, Running
  <2> QED BY <2>1, <2>2
<1>3. round[s] \in Rounds
  BY <1>2, ExchangeAssumption DEF Rounds
<1>4. Typed'
  <2>1. phase' \in [Stakers -> {"between", "deciding", "gathering"}]
    BY DEF IInv, Typed
  <2>2. core' \in [Stakers -> SUBSET Messages] /\ decided' \in [Rounds -> SUBSET Stakers]
    <3>1. CASE BeginRound(s)
      <4>1. {[round |-> round[s], from |-> s]} \subseteq Messages
        BY <1>3 DEF Messages
      <4> QED BY <3>1, <4>1 DEF IInv, Typed
    <3>2. CASE Decide(s)
      BY <1>3, <3>2 DEF IInv, Typed
    <3> QED BY <3>1, <3>2
  <2> QED BY <1>1, <2>1, <2>2 DEF IInv, Typed
<1>5. OneRequest' /\ QueuesBounded' /\ NoEarlyDiff'
  BY <1>1 DEF IInv, OneRequest, Live, QueuesBounded, NoEarlyDiff
<1>6. BetweenRounds' /\ RightRound'
  <2>1. CASE BeginRound(s)
    BY <1>1, <1>2, <2>1 DEF IInv, Typed, BetweenRounds, RightRound, Running
  <2>2. CASE Decide(s)
    BY <1>1, <1>2, <2>2 DEF IInv, Typed, BetweenRounds, RightRound, Running
  <2> QED BY <2>1, <2>2
<1> QED BY <1>4, <1>5, <1>6 DEF IInv

LEMMA StutterInv ==
  ASSUME IInv, UNCHANGED vars
  PROVE  IInv'
<1> USE DEF vars
<1>1. Typed' /\ QueuesBounded' /\ BetweenRounds'
  BY DEF IInv, Typed, QueuesBounded, BetweenRounds, Running
<1>2. OneRequest' /\ NoEarlyDiff' /\ RightRound'
  BY DEF IInv, OneRequest, Live, NoEarlyDiff, RightRound
<1> QED BY <1>1, <1>2 DEF IInv

\* The inductive invariant holds in every reachable state, for any number of
\* stakers and rounds, any routes and any size of the queue.
THEOREM Invariance == Spec => []IInv
<1>1. IInv /\ [Next]_vars => IInv'
  <2> SUFFICES ASSUME IInv, [Next]_vars PROVE IInv'
    OBVIOUS
  <2>1. ASSUME NEW s \in Stakers, TaskStep(s)
        PROVE  IInv'
    BY <2>1, ApplyDiffInv, RespondInv, RoundInv, EndRoundInv DEF TaskStep
  <2>2. ASSUME NEW s \in Stakers, NEW p \in Routes[s], Ask(s, p)
        PROVE  IInv'
    <3>1. p \in Stakers
      BY ExchangeAssumption
    <3> QED BY <2>2, <3>1, AskInv
  <2> QED BY <2>1, <2>2, TimeoutInv, StutterInv DEF Next
<1> QED BY <1>1, InitInv, PTL DEF Spec

\* Types; a staker waits for an answer exactly while a live request of its
\* own is in somebody's queue.
THEOREM TypeCorrect == Spec => []TypeOK
BY Invariance, TypesFollow, PTL

\* No core ever takes in a message of another round, however long requests
\* stay queued and however far apart the stakers' rounds are.
THEOREM RoundSafety == Spec => []RightRound
<1>1. IInv => RightRound
  BY DEF IInv
<1> QED BY <1>1, Invariance, PTL
=============================================================================
