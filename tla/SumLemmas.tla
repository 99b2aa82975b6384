------------------------------ MODULE SumLemmas ------------------------------
(***************************************************************************)
(* Facts about the sums MapThenSumSet computes over finite sets: they are  *)
(* what weights, sizes and votes are made of (modules Gossip, BlkSync and  *)
(* Stakes).  Induction is on numbers, with sets of numbers standing for    *)
(* predicates, so that no fact has an operator for a parameter; a sum is   *)
(* that of the values of a function w.                                     *)
(***************************************************************************)
EXTENDS Integers, FiniteSetsExt, FiniteSetTheorems, WellFoundedInduction, TLAPS

Total(X, w) == MapThenSumSet(LAMBDA x : w[x], X)

(***************************************************************************)
(* Numbers.                                                                *)
(***************************************************************************)
LEMMA Least ==
  ASSUME NEW T, T \subseteq Nat, T # {}
  PROVE  \E x \in T : \A y \in T : x <= y
<1> DEFINE R == OpToRel(<, Nat)
<1>1. IsWellFoundedOn(R, Nat)
  BY NatLessThanWellFounded, Zenon
<1>2. \A x, y \in Nat : y < x => <<y, x>> \in R
  BY Zenon DEF OpToRel
<1> HIDE DEF R
<1>3. PICK x \in T : \A y \in T : ~ (<<y, x>> \in R)
  BY <1>1, WFMin, Zenon
<1>4. ASSUME NEW y \in T PROVE x <= y
  <2>1. x \in Nat /\ y \in Nat /\ ~(y < x)
    BY <1>2, <1>3
  <2> QED BY <2>1
<1> QED BY <1>4

LEMMA MinIs ==
  ASSUME NEW T, T \subseteq Nat, T # {}
  PROVE  Min(T) \in T /\ \A y \in T : Min(T) <= y
BY Least DEF Min

\* Induction, with a set for the predicate.
LEMMA NatSets ==
  ASSUME NEW T, 0 \in T, \A n \in Nat : n \in T => n + 1 \in T
  PROVE  Nat \subseteq T
<1> SUFFICES ASSUME Nat \ T # {} PROVE FALSE
  OBVIOUS
<1>1. PICK n \in Nat \ T : \A m \in Nat \ T : n <= m
  BY Least
<1>2. n # 0 /\ n - 1 \in Nat /\ n - 1 \in T
  BY <1>1
<1> QED BY <1>1, <1>2

\* The largest number of a finite set, by induction on its size.
LEMMA MaxIs ==
  ASSUME NEW S, IsFiniteSet(S), S \subseteq Nat, S # {}
  PROVE  Max(S) \in S /\ \A y \in S : y <= Max(S)
<1> DEFINE T == {n \in Nat : \A s \in SUBSET S : Cardinality(s) = n + 1 =>
                                \E x \in s : \A y \in s : y <= x}
<1>1. 0 \in T
  <2> SUFFICES ASSUME NEW s \in SUBSET S, Cardinality(s) = 1
               PROVE  \E x \in s : \A y \in s : y <= x
    OBVIOUS
  <2>1. IsFiniteSet(s)
    BY FS_Subset
  <2>2. PICK x : s = {x}
    BY <2>1, FS_Singleton
  <2> QED BY <2>2
<1>2. ASSUME NEW n \in Nat, n \in T PROVE n + 1 \in T
  <2> SUFFICES ASSUME NEW s \in SUBSET S, Cardinality(s) = n + 2
               PROVE  \E x \in s : \A y \in s : y <= x
    OBVIOUS
  <2>1. IsFiniteSet(s) /\ s # {}
    <3>1. IsFiniteSet(s)
      BY FS_Subset
    <3>2. Cardinality({}) = 0
      BY FS_EmptySet
    <3> QED BY <3>1, <3>2
  <2>2. PICK z \in s : TRUE
    BY <2>1
  <2>3. Cardinality(s \ {z}) = n + 1
    <3>1. Cardinality(s \ {z}) = Cardinality(s) - 1
      BY <2>1, FS_RemoveElement
    <3> QED BY <3>1
  <2>4. PICK x \in s \ {z} : \A y \in s \ {z} : y <= x
    BY <1>2, <2>3
  <2>5. x \in Nat /\ z \in Nat /\ \A y \in s : y \in Nat
    OBVIOUS
  <2>6. CASE z <= x
    BY <2>4, <2>6
  <2>7. CASE x <= z
    <3> WITNESS z \in s
    <3> QED BY <2>4, <2>5, <2>7
  <2> QED BY <2>5, <2>6, <2>7
<1> HIDE DEF T
<1>3. Nat \subseteq T
  BY <1>1, <1>2, NatSets
<1>4. \E x \in S : \A y \in S : y <= x
  <2>1. Cardinality(S) \in Nat /\ Cardinality(S) # 0
    BY FS_CardinalityType, FS_EmptySet
  <2>2. Cardinality(S) - 1 \in T
    BY <1>3, <2>1
  <2> QED BY <2>1, <2>2 DEF T
<1>5. \E x \in S : \A y \in S : x >= y
  BY <1>4
<1>6. Max(S) \in S /\ \A y \in S : Max(S) >= y
  BY <1>5 DEF Max
<1> QED BY <1>6

(***************************************************************************)
(* The recursive function inside MapThenSumSet.                            *)
(***************************************************************************)
Pick(s) == CHOOSE x \in s : TRUE

\* What the function f of the parts of X is at s.
Step(f, s, w) == IF s = {} THEN 0 ELSE w[Pick(s)] + f[s \ {Pick(s)}]

Sums(f, X, w) == f = [s \in SUBSET X |-> Step(f, s, w)]

LEMMA PickIn == ASSUME NEW s, s # {} PROVE Pick(s) \in s
BY DEF Pick

LEMMA Smaller ==
  ASSUME NEW s, IsFiniteSet(s), NEW n \in Nat, Cardinality(s) = n + 1, NEW x \in s
  PROVE  s # {} /\ IsFiniteSet(s \ {x}) /\ Cardinality(s \ {x}) = n
BY FS_RemoveElement, FS_EmptySet

LEMMA SumsTyped ==
  ASSUME NEW X, IsFiniteSet(X), NEW w, \A x \in X : w[x] \in Nat,
         NEW f, Sums(f, X, w)
  PROVE  \A s \in SUBSET X : f[s] \in Nat
<1> DEFINE T == {n \in Nat : \A s \in SUBSET X : Cardinality(s) = n => f[s] \in Nat}
<1>1. 0 \in T
  <2> SUFFICES ASSUME NEW s \in SUBSET X, Cardinality(s) = 0 PROVE f[s] \in Nat
    OBVIOUS
  <2>1. s = {}
    BY FS_Subset, FS_EmptySet
  <2> QED BY <2>1 DEF Sums, Step
<1>2. ASSUME NEW n \in Nat, n \in T PROVE n + 1 \in T
  <2> SUFFICES ASSUME NEW s \in SUBSET X, Cardinality(s) = n + 1 PROVE f[s] \in Nat
    OBVIOUS
  <2>1. IsFiniteSet(s) /\ s # {}
    BY FS_Subset, FS_EmptySet
  <2>2. Pick(s) \in s /\ Cardinality(s \ {Pick(s)}) = n
    BY <2>1, PickIn, Smaller
  <2>3. f[s \ {Pick(s)}] \in Nat /\ w[Pick(s)] \in Nat
    BY <1>2, <2>2
  <2>4. f[s] = w[Pick(s)] + f[s \ {Pick(s)}]
    BY <2>1 DEF Sums, Step
  <2> QED BY <2>3, <2>4
<1> HIDE DEF T
<1>3. Nat \subseteq T
  BY <1>1, <1>2, NatSets
<1> SUFFICES ASSUME NEW s \in SUBSET X PROVE f[s] \in Nat
  OBVIOUS
<1>4. Cardinality(s) \in T
  BY <1>3, FS_Subset, FS_CardinalityType
<1> QED BY <1>4 DEF T

LEMMA SumsAt ==
  ASSUME NEW X, NEW w, NEW f, Sums(f, X, w), NEW s \in SUBSET X
  PROVE  f[s] = Step(f, s, w)
BY DEF Sums

\* Only the weights of the elements count.
LEMMA SumsReweigh ==
  ASSUME NEW X, NEW w, NEW f, Sums(f, X, w), NEW v, \A x \in X : w[x] = v[x]
  PROVE  Sums(f, X, v)
<1>1. \A s \in SUBSET X : s # {} => w[Pick(s)] = v[Pick(s)]
  BY PickIn
<1>2. \A s \in SUBSET X : Step(f, s, w) = Step(f, s, v)
  BY <1>1, Zenon DEF Step
<1>3. [s \in SUBSET X |-> Step(f, s, w)] = [s \in SUBSET X |-> Step(f, s, v)]
  BY <1>2, Zenon
<1> QED BY <1>3, Zenon DEF Sums

\* The sums over the parts of X do not depend on what else there is.
LEMMA SumsAgree ==
  ASSUME NEW Y, NEW w, NEW g, Sums(g, Y, w),
         NEW X, IsFiniteSet(X), X \subseteq Y, NEW f, Sums(f, X, w)
  PROVE  \A s \in SUBSET X : f[s] = g[s]
<1> DEFINE T == {n \in Nat : \A s \in SUBSET X : Cardinality(s) = n => f[s] = g[s]}
<1>1. 0 \in T
  <2> SUFFICES ASSUME NEW s \in SUBSET X, Cardinality(s) = 0 PROVE f[s] = g[s]
    OBVIOUS
  <2>1. IsFiniteSet(s)
    BY FS_Subset
  <2>2. s = {} /\ s \in SUBSET Y
    BY <2>1, FS_EmptySet
  <2> QED BY <2>2, SumsAt DEF Step
<1>2. ASSUME NEW n \in Nat, n \in T PROVE n + 1 \in T
  <2> SUFFICES ASSUME NEW s \in SUBSET X, Cardinality(s) = n + 1 PROVE f[s] = g[s]
    OBVIOUS
  <2>1. IsFiniteSet(s) /\ s # {} /\ s \in SUBSET Y
    BY FS_Subset, FS_EmptySet
  <2>2. Pick(s) \in s /\ Cardinality(s \ {Pick(s)}) = n
    BY <2>1, PickIn, Smaller
  <2>3. f[s \ {Pick(s)}] = g[s \ {Pick(s)}]
    BY <1>2, <2>2
  <2>4. f[s] = Step(f, s, w) /\ g[s] = Step(g, s, w)
    BY <2>1, SumsAt
  <2> QED BY <2>3, <2>4, Zenon DEF Step
<1> HIDE DEF T
<1>3. Nat \subseteq T
  BY <1>1, <1>2, NatSets
<1> SUFFICES ASSUME NEW s \in SUBSET X PROVE f[s] = g[s]
  OBVIOUS
<1>4. Cardinality(s) \in T
  BY <1>3, FS_Subset, FS_CardinalityType
<1> QED BY <1>4 DEF T

\* There is such a function: it is built up by the size of the parts.
LEMMA SumsExist ==
  ASSUME NEW X, IsFiniteSet(X), NEW w
  PROVE  \E f : Sums(f, X, w)
<1> DEFINE UpTo(f, n) == \A s \in SUBSET X : Cardinality(s) <= n => f[s] = Step(f, s, w)
           T == {n \in Nat : \E f : /\ f = [s \in SUBSET X |-> f[s]]
                                    /\ UpTo(f, n)}
<1>1. 0 \in T
  <2> DEFINE f == [s \in SUBSET X |-> 0]
  <2>1. UpTo(f, 0)
    <3> SUFFICES ASSUME NEW s \in SUBSET X, Cardinality(s) <= 0 PROVE f[s] = Step(f, s, w)
      OBVIOUS
    <3>1. s = {}
      BY FS_Subset, FS_EmptySet, FS_CardinalityType
    <3> QED BY <3>1 DEF Step
  <2> QED BY <2>1
<1>2. ASSUME NEW n \in Nat, n \in T PROVE n + 1 \in T
  <2>1. PICK f : f = [s \in SUBSET X |-> f[s]] /\ UpTo(f, n)
    BY <1>2
  <2> DEFINE g == [s \in SUBSET X |-> IF Cardinality(s) <= n THEN f[s] ELSE Step(f, s, w)]
  <2>2. ASSUME NEW s \in SUBSET X, Cardinality(s) <= n + 1 PROVE g[s] = Step(g, s, w)
    <3>1. IsFiniteSet(s) /\ Cardinality(s) \in Nat
      BY FS_Subset, FS_CardinalityType
    <3>2. g[s] = Step(f, s, w)
      BY <2>1
    <3>3. CASE s = {}
      BY <3>2, <3>3 DEF Step
    <3>4. CASE s # {}
      <4>1. Pick(s) \in s
        BY <3>4, PickIn
      <4>2. Cardinality(s \ {Pick(s)}) <= n
        <5>1. Cardinality(s \ {Pick(s)}) = Cardinality(s) - 1
          BY <3>1, <4>1, FS_RemoveElement
        <5> QED BY <2>2, <3>1, <5>1
      <4>3. g[s \ {Pick(s)}] = f[s \ {Pick(s)}]
        BY <4>2
      <4> HIDE DEF g
      <4> QED BY <3>2, <4>3 DEF Step
    <3> QED BY <3>3, <3>4
  <2>3. UpTo(g, n + 1)
    BY <2>2
  <2>4. g = [s \in SUBSET X |-> g[s]]
    OBVIOUS
  <2> HIDE DEF g, UpTo
  <2>5. \E h : h = [s \in SUBSET X |-> h[s]] /\ UpTo(h, n + 1)
    BY <2>3, <2>4
  <2> QED BY <2>5
<1> HIDE DEF T
<1>3. Nat \subseteq T
  BY <1>1, <1>2, NatSets
<1>4. Cardinality(X) \in T
  BY <1>3, FS_CardinalityType
<1>5. PICK f : f = [s \in SUBSET X |-> f[s]] /\ UpTo(f, Cardinality(X))
  BY <1>4 DEF T
<1>6. ASSUME NEW s \in SUBSET X PROVE f[s] = Step(f, s, w)
  <2>1. Cardinality(s) <= Cardinality(X)
    BY FS_Subset
  <2> QED BY <1>5, <2>1
<1>7. Sums(f, X, w)
  BY <1>5, <1>6, Zenon DEF Sums
<1> QED BY <1>7

\* The order in which elements are picked does not matter.
LEMMA SumsAdd ==
  ASSUME NEW X, IsFiniteSet(X), NEW w, \A x \in X : w[x] \in Nat,
         NEW f, Sums(f, X, w)
  PROVE  \A s \in SUBSET X : \A x \in s : f[s] = w[x] + f[s \ {x}]
<1> DEFINE T == {n \in Nat : \A s \in SUBSET X : Cardinality(s) = n =>
                                \A x \in s : f[s] = w[x] + f[s \ {x}]}
<1>1. 0 \in T
  <2> SUFFICES ASSUME NEW s \in SUBSET X, Cardinality(s) = 0
               PROVE  \A x \in s : f[s] = w[x] + f[s \ {x}]
    OBVIOUS
  <2>1. IsFiniteSet(s)
    BY FS_Subset
  <2>2. s = {}
    BY <2>1, FS_EmptySet
  <2> QED BY <2>2
<1>2. ASSUME NEW n \in Nat, n \in T PROVE n + 1 \in T
  <2> SUFFICES ASSUME NEW s \in SUBSET X, Cardinality(s) = n + 1, NEW x \in s
               PROVE  f[s] = w[x] + f[s \ {x}]
    OBVIOUS
  <2> DEFINE p == Pick(s)
  <2>1. IsFiniteSet(s) /\ s # {} /\ p \in s
    BY FS_Subset, PickIn
  <2>2. f[s] = w[p] + f[s \ {p}]
    BY <2>1 DEF Sums, Step
  <2> HIDE DEF p
  <2>3. CASE x = p
    BY <2>2, <2>3
  <2>4. CASE x # p
    <3>1. Cardinality(s \ {p}) = n /\ Cardinality(s \ {x}) = n
      BY <2>1, Smaller
    <3>2. x \in s \ {p} /\ p \in s \ {x}
      BY <2>1, <2>4
    <3>3. f[s \ {p}] = w[x] + f[(s \ {p}) \ {x}]
      BY <1>2, <3>1, <3>2
    <3>4. f[s \ {x}] = w[p] + f[(s \ {x}) \ {p}]
      BY <1>2, <3>1, <3>2
    <3>5. (s \ {p}) \ {x} = (s \ {x}) \ {p}
      OBVIOUS
    <3>6. w[p] \in Nat /\ w[x] \in Nat /\ f[(s \ {x}) \ {p}] \in Nat
      <4>1. w[p] \in Nat /\ w[x] \in Nat /\ (s \ {x}) \ {p} \in SUBSET X
        BY <2>1
      <4>2. \A r \in SUBSET X : f[r] \in Nat
        BY SumsTyped
      <4> QED BY <4>1, <4>2
    <3>7. \A a, b, c \in Nat : a + (b + c) = b + (a + c)
      OBVIOUS
    <3> HIDE DEF T
    <3> DEFINE r == (s \ {x}) \ {p}
    <3>8. f[s] = w[p] + (w[x] + f[r])
      BY <2>2, <3>3, <3>5, Zenon
    <3>9. w[x] + f[s \ {x}] = w[x] + (w[p] + f[r])
      BY <3>4, Zenon
    <3>10. w[p] + (w[x] + f[r]) = w[x] + (w[p] + f[r])
      BY <3>6, <3>7, Zenon
    <3> QED BY <3>8, <3>9, <3>10, Zenon
  <2> QED BY <2>3, <2>4
<1> HIDE DEF T
<1>3. Nat \subseteq T
  BY <1>1, <1>2, NatSets
<1> SUFFICES ASSUME NEW s \in SUBSET X PROVE \A x \in s : f[s] = w[x] + f[s \ {x}]
  OBVIOUS
<1>4. Cardinality(s) \in T
  BY <1>3, FS_Subset, FS_CardinalityType
<1> QED BY <1>4 DEF T

\* A sum over a part is not larger.
LEMMA SumsMonotone ==
  ASSUME NEW X, IsFiniteSet(X), NEW w, \A x \in X : w[x] \in Nat,
         NEW f, Sums(f, X, w)
  PROVE  \A s \in SUBSET X : \A r \in SUBSET s : f[r] <= f[s]
<1> DEFINE T == {n \in Nat : \A s \in SUBSET X : Cardinality(s) = n =>
                                \A r \in SUBSET s : f[r] <= f[s]}
<1>0. \A s \in SUBSET X : f[s] \in Nat
  BY SumsTyped
<1>1. 0 \in T
  <2> SUFFICES ASSUME NEW s \in SUBSET X, Cardinality(s) = 0, NEW r \in SUBSET s
               PROVE  f[r] <= f[s]
    OBVIOUS
  <2>1. IsFiniteSet(s)
    BY FS_Subset
  <2>2. s = {}
    BY <2>1, FS_EmptySet
  <2>3. r = s
    BY <2>2
  <2> QED BY <1>0, <2>3
<1>2. ASSUME NEW n \in Nat, n \in T PROVE n + 1 \in T
  <2> SUFFICES ASSUME NEW s \in SUBSET X, Cardinality(s) = n + 1, NEW r \in SUBSET s
               PROVE  f[r] <= f[s]
    OBVIOUS
  <2>1. CASE r = s
    BY <1>0, <2>1
  <2>2. CASE r # s
    <3>1. PICK x \in s : x \notin r
      BY <2>2
    <3>2. IsFiniteSet(s)
      BY FS_Subset
    <3>3. Cardinality(s \ {x}) = n
      BY <3>2, Smaller
    <3>4. f[r] <= f[s \ {x}]
      BY <1>2, <3>1, <3>3
    <3>5. f[s] = w[x] + f[s \ {x}]
      BY SumsAdd
    <3>6. f[r] \in Nat /\ f[s \ {x}] \in Nat /\ w[x] \in Nat
      BY <1>0
    <3>7. \A a, b, c \in Nat : a <= b => a <= c + b
      OBVIOUS
    <3> HIDE DEF T
    <3> QED BY <3>4, <3>5, <3>6, <3>7, Zenon
  <2> QED BY <2>1, <2>2
<1> HIDE DEF T
<1>3. Nat \subseteq T
  BY <1>1, <1>2, NatSets
<1> SUFFICES ASSUME NEW s \in SUBSET X PROVE \A r \in SUBSET s : f[r] <= f[s]
  OBVIOUS
<1>4. Cardinality(s) \in T
  BY <1>3, FS_Subset, FS_CardinalityType
<1> QED BY <1>4 DEF T

(***************************************************************************)
(* Sums.                                                                   *)
(***************************************************************************)
LEMMA TotalIs ==
  ASSUME NEW X, IsFiniteSet(X), NEW w, NEW Y, IsFiniteSet(Y), X \subseteq Y,
         NEW f, Sums(f, Y, w)
  PROVE  Total(X, w) = f[X]
<1> DEFINE iter == CHOOSE g : g = [s \in SUBSET X |->
                     IF s = {} THEN 0 ELSE w[Pick(s)] + g[s \ {Pick(s)}]]
<1>1. Total(X, w) = iter[X]
  BY Zenon DEF Total, MapThenSumSet, MapThenFoldSet, Pick
<1>2. \E g : Sums(g, X, w)
  BY SumsExist
<1>3. Sums(iter, X, w)
  BY <1>2, Zenon DEF Sums, Step
<1> HIDE DEF iter
<1>4. iter[X] = f[X]
  BY <1>3, SumsAgree
<1> QED BY <1>1, <1>4

LEMMA TotalNat ==
  ASSUME NEW X, IsFiniteSet(X), NEW w, \A x \in X : w[x] \in Nat
  PROVE  Total(X, w) \in Nat
<1>1. PICK f : Sums(f, X, w)
  BY SumsExist
<1>2. f[X] \in Nat
  BY <1>1, SumsTyped
<1> QED BY <1>1, <1>2, TotalIs

LEMMA TotalEmpty == ASSUME NEW w PROVE Total({}, w) = 0
<1>1. IsFiniteSet({})
  BY FS_EmptySet
<1>2. PICK f : Sums(f, {}, w)
  BY <1>1, SumsExist
<1>3. f[{}] = 0
  BY <1>2 DEF Sums, Step
<1> QED BY <1>1, <1>2, <1>3, TotalIs

\* One element more.
LEMMA TotalAdd ==
  ASSUME NEW X, IsFiniteSet(X), NEW x, x \notin X,
         NEW w, \A y \in X \cup {x} : w[y] \in Nat
  PROVE  Total(X \cup {x}, w) = Total(X, w) + w[x]
<1> DEFINE Y == X \cup {x}
<1>1. IsFiniteSet(Y)
  BY FS_AddElement
<1>2. Y \ {x} = X /\ x \in Y /\ X \subseteq Y /\ \A y \in Y : w[y] \in Nat
  OBVIOUS
<1> HIDE DEF Y
<1>3. PICK f : Sums(f, Y, w)
  BY <1>1, SumsExist
<1>4. f[Y] = w[x] + f[X]
  BY <1>1, <1>2, <1>3, SumsAdd
<1>5. Total(Y, w) = f[Y] /\ Total(X, w) = f[X]
  BY <1>1, <1>2, <1>3, TotalIs
<1>6. f[X] \in Nat /\ w[x] \in Nat
  BY <1>1, <1>2, <1>3, SumsTyped
<1> QED BY <1>4, <1>5, <1>6 DEF Y

LEMMA TotalMonotone ==
  ASSUME NEW Y, IsFiniteSet(Y), NEW X, X \subseteq Y, NEW w, \A y \in Y : w[y] \in Nat
  PROVE  Total(X, w) <= Total(Y, w)
<1>1. IsFiniteSet(X)
  BY FS_Subset
<1>2. PICK f : Sums(f, Y, w)
  BY SumsExist
<1>3. f[X] <= f[Y]
  BY <1>2, SumsMonotone
<1> QED BY <1>1, <1>2, <1>3, TotalIs

\* Two sets without a common element.
LEMMA TotalUnion ==
  ASSUME NEW A, IsFiniteSet(A), NEW B, IsFiniteSet(B), A \cap B = {},
         NEW w, \A x \in A \cup B : w[x] \in Nat
  PROVE  Total(A \cup B, w) = Total(A, w) + Total(B, w)
<1> DEFINE T == {n \in Nat : \A s \in SUBSET B : Cardinality(s) = n =>
                                Total(A \cup s, w) = Total(A, w) + Total(s, w)}
<1>1. 0 \in T
  <2> SUFFICES ASSUME NEW s \in SUBSET B, Cardinality(s) = 0
               PROVE  Total(A \cup s, w) = Total(A, w) + Total(s, w)
    OBVIOUS
  <2>1. IsFiniteSet(s)
    BY FS_Subset
  <2>2. s = {} /\ A \cup s = A
    BY <2>1, FS_EmptySet
  <2>3. Total(A, w) \in Nat
    BY TotalNat
  <2> QED BY <2>2, <2>3, TotalEmpty
<1>2. ASSUME NEW n \in Nat, n \in T PROVE n + 1 \in T
  <2> SUFFICES ASSUME NEW s \in SUBSET B, Cardinality(s) = n + 1
               PROVE  Total(A \cup s, w) = Total(A, w) + Total(s, w)
    OBVIOUS
  <2> DEFINE x == Pick(s)
             r == s \ {x}
  <2>1. IsFiniteSet(s) /\ s # {} /\ x \in s
    BY FS_Subset, FS_EmptySet, PickIn
  <2>2. IsFiniteSet(r) /\ Cardinality(r) = n /\ r \in SUBSET B
    BY <2>1, Smaller
  <2>3. s = r \cup {x} /\ x \notin r /\ A \cup s = (A \cup r) \cup {x} /\ x \notin A \cup r
    BY <2>1
  <2> HIDE DEF x, r
  <2>4. Total(A \cup r, w) = Total(A, w) + Total(r, w)
    BY <1>2, <2>2
  <2>5. IsFiniteSet(A \cup r)
    BY <2>2, FS_Union
  <2>6. /\ \A y \in r \cup {x} : w[y] \in Nat
        /\ \A y \in (A \cup r) \cup {x} : w[y] \in Nat
    BY <2>3
  <2> HIDE DEF T
  <2>7. Total(s, w) = Total(r, w) + w[x]
    BY <2>2, <2>3, <2>6, TotalAdd
  <2>8. Total(A \cup s, w) = Total(A \cup r, w) + w[x]
    BY <2>3, <2>5, <2>6, TotalAdd
  <2>9. Total(A, w) \in Nat /\ Total(r, w) \in Nat /\ w[x] \in Nat
    BY <2>2, <2>6, TotalNat
  <2>10. \A a, b, c \in Nat : (a + b) + c = a + (b + c)
    OBVIOUS
  <2> QED BY <2>4, <2>7, <2>8, <2>9, <2>10
<1> HIDE DEF T
<1>3. Nat \subseteq T
  BY <1>1, <1>2, NatSets
<1>4. Cardinality(B) \in T
  BY <1>3, FS_CardinalityType
<1> QED BY <1>4 DEF T
=============================================================================
