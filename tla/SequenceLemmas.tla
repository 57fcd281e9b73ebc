--------------------------- MODULE SequenceLemmas ---------------------------
(***************************************************************************)
(* Facts about the contents of a queue that the proofs about channels      *)
(* share: what a send adds, what a receive takes away, and how many        *)
(* messages without repetition there are; the least of a set of numbers;   *)
(* and recursion and induction over positions, stated for sets, so that    *)
(* the provers can instantiate them.                                       *)
(***************************************************************************)
EXTENDS Integers, SequencesExt, SequenceTheorems, FiniteSetTheorems, WellFoundedInduction,
        TLAPS

\* The elements of a sequence are those at the positions up to its length.
LEMMA ToSetByPosition ==
  ASSUME NEW S, NEW s \in Seq(S)
  PROVE  /\ ToSet(s) = {s[k] : k \in 1..Len(s)}
         /\ ToSet(s) \in SUBSET S
BY DEF ToSet

\* An empty queue holds nothing and repeats nothing.
LEMMA ToSetEmpty == ToSet(<<>>) = {} /\ IsInjective(<<>>)
BY DEF ToSet, IsInjective

\* A send adds one element; a new element keeps the queue free of repetitions.
LEMMA ToSetAppend ==
  ASSUME NEW S, NEW s \in Seq(S), NEW e \in S
  PROVE  /\ ToSet(Append(s, e)) = ToSet(s) \cup {e}
         /\ IsInjective(s) /\ e \notin ToSet(s) => IsInjective(Append(s, e))
<1>. DEFINE t == Append(s, e)
<1>1. /\ t \in Seq(S) /\ Len(t) = Len(s) + 1 /\ Len(s) \in Nat
      /\ \A i \in 1..Len(s) : t[i] = s[i]
      /\ t[Len(s) + 1] = e
      /\ DOMAIN t = 1..Len(s) + 1 /\ DOMAIN s = 1..Len(s)
  BY AppendProperties, LenProperties
<1>2. ToSet(t) = ToSet(s) \cup {e}
  BY <1>1 DEF ToSet
<1>3. ASSUME IsInjective(s), e \notin ToSet(s) PROVE IsInjective(t)
  <2>1. SUFFICES ASSUME NEW a \in DOMAIN t, NEW b \in DOMAIN t, t[a] = t[b] PROVE a = b
    BY DEF IsInjective
  <2>. HIDE DEF t
  <2>2. \A i \in 1..Len(s) : s[i] # e
    BY <1>1, <1>3 DEF ToSet
  <2>. QED BY <1>1, <1>3, <2>1, <2>2 DEF IsInjective
<1>. QED BY <1>2, <1>3

\* A receive takes the head away.
LEMMA ToSetTail ==
  ASSUME NEW S, NEW s \in Seq(S), s # <<>>
  PROVE  /\ Head(s) \in ToSet(s)
         /\ ToSet(s) = ToSet(Tail(s)) \cup {Head(s)}
         /\ IsInjective(s) => IsInjective(Tail(s)) /\ Head(s) \notin ToSet(Tail(s))
<1>. DEFINE t == Tail(s)
<1>1. /\ t \in Seq(S) /\ Len(t) = Len(s) - 1 /\ Len(s) \in Nat \ {0}
      /\ \A i \in 1..Len(t) : t[i] = s[i + 1]
      /\ DOMAIN t = 1..Len(s) - 1 /\ DOMAIN s = 1..Len(s)
  BY HeadTailProperties, LenProperties, EmptySeq
<1>2. Head(s) = s[1]
  OBVIOUS
<1>. HIDE DEF t
<1>3. Head(s) \in ToSet(s)
  BY <1>1, <1>2 DEF ToSet
<1>4. ToSet(s) = ToSet(t) \cup {Head(s)}
  <2>1. ASSUME NEW i \in 1..Len(s) PROVE s[i] \in ToSet(t) \cup {Head(s)}
    <3>1. CASE i = 1
      BY <3>1, <1>2
    <3>2. CASE i # 1
      <4>1. i - 1 \in 1..Len(t) /\ t[i - 1] = s[(i - 1) + 1] /\ (i - 1) + 1 = i
        BY <3>2, <1>1
      <4>. QED BY <4>1, <1>1 DEF ToSet
    <3>. QED BY <3>1, <3>2
  <2>2. ASSUME NEW i \in 1..Len(t) PROVE t[i] \in ToSet(s)
    BY <1>1 DEF ToSet
  <2>. QED BY <2>1, <2>2, <1>1, <1>3 DEF ToSet
<1>5. ASSUME IsInjective(s) PROVE IsInjective(t) /\ Head(s) \notin ToSet(t)
  <2>1. \A i \in 1..Len(t) : t[i] = s[i + 1] /\ i + 1 \in DOMAIN s /\ i + 1 # 1
    BY <1>1
  <2>2. 1 \in DOMAIN s /\ \A a, b \in DOMAIN s : s[a] = s[b] => a = b
    BY <1>1, <1>5 DEF IsInjective
  <2>3. ASSUME NEW a \in DOMAIN t, NEW b \in DOMAIN t, t[a] = t[b] PROVE a = b
    <3>1. DOMAIN t = 1..Len(t) /\ a \in Int /\ b \in Int
      BY <1>1
    <3>2. s[a + 1] = s[b + 1] /\ a + 1 \in DOMAIN s /\ b + 1 \in DOMAIN s
      BY <2>1, <2>3, <3>1
    <3>3. a + 1 = b + 1
      BY <2>2, <3>2
    <3>. QED BY <3>1, <3>3
  <2>4. \A i \in 1..Len(t) : t[i] # Head(s)
    BY <1>2, <2>1, <2>2
  <2>. QED BY <1>1, <2>3, <2>4 DEF IsInjective, ToSet
<1>. QED BY <1>3, <1>4, <1>5 DEF t

\* A queue without repetitions is as long as its elements are many.
LEMMA ToSetCardinality ==
  ASSUME NEW S, NEW s \in Seq(S), IsInjective(s)
  PROVE  IsFiniteSet(ToSet(s)) /\ Cardinality(ToSet(s)) = Len(s)
<1>1. Len(s) \in Nat /\ DOMAIN s = 1..Len(s)
  BY LenProperties
<1>2. s \in [1..Len(s) -> ToSet(s)]
  BY <1>1, LenProperties DEF ToSet
<1>3. s \in Bijection(1..Len(s), ToSet(s))
  BY <1>1, <1>2 DEF Bijection, Injection, Surjection, IsInjective, ToSet
<1>4. ExistsBijection(1..Len(s), ToSet(s))
  BY <1>3 DEF ExistsBijection
<1>. QED BY <1>1, <1>4, FS_CountingElements, FS_NatBijection

\* Disjoint finite sets add up.
LEMMA DisjointCardinality ==
  ASSUME NEW S, NEW T, IsFiniteSet(S), IsFiniteSet(T), S \cap T = {}
  PROVE  /\ IsFiniteSet(S \cup T)
         /\ Cardinality(S) \in Nat /\ Cardinality(T) \in Nat
         /\ Cardinality(S \cup T) = Cardinality(S) + Cardinality(T)
<1>1. Cardinality(S) \in Nat /\ Cardinality(T) \in Nat /\ Cardinality(S \cap T) = 0
  BY FS_CardinalityType, FS_EmptySet
<1>2. /\ IsFiniteSet(S \cup T)
      /\ Cardinality(S \cup T) = Cardinality(S) + Cardinality(T) - Cardinality(S \cap T)
  BY FS_Union
<1>. QED BY <1>1, <1>2

\* A set of numbers that is not empty has a least one.
LEMMA LeastNumber ==
  ASSUME NEW S \in SUBSET Nat, S # {}
  PROVE  \E k \in S : \A l \in S : k <= l
<1>1. PICK k \in S : \A l \in S : ~(<<l, k>> \in OpToRel(<, Nat))
  BY NatLessThanWellFounded, WFMin
<1>2. ASSUME NEW l \in S, l < k PROVE FALSE
  <2>1. <<l, k>> \in OpToRel(<, Nat)
    BY <1>2 DEF OpToRel
  <2>. QED BY <1>1, <2>1
<1>. QED BY <1>2

\* A recursion over the positions up to n whose steps stay in a set, and its
\* solutions.
IsRecursion(n, V, a, G) == n \in Nat /\ a \in V /\ G \in [1..n -> [V -> V]]
Solutions(n, V, a, G) ==
    {f \in [0..n -> V] : f[0] = a /\ \A k \in 1..n : f[k] = G[k][f[k - 1]]}

\* Such a recursion has a solution: what a recursive function definition
\* chooses exists.
LEMMA RecursionExists ==
  ASSUME NEW n, NEW V, NEW a, NEW G, IsRecursion(n, V, a, G)
  PROVE  Solutions(n, V, a, G) # {}
<1>. USE DEF IsRecursion
<1>. DEFINE Solves(m, f) == f[0] = a /\ \A k \in 1..m : f[k] = G[k][f[k - 1]]
            Bad == {m \in 0..n : ~\E f \in [0..m -> V] : Solves(m, f)}
<1>1. ASSUME Bad # {} PROVE FALSE
  <2>1. PICK m \in Bad : \A l \in Bad : m <= l
    <3>1. Bad \in SUBSET Nat
      OBVIOUS
    <3>. HIDE DEF Bad
    <3>. QED BY <1>1, <3>1, LeastNumber
  <2>2. m # 0
    <3>1. [x \in 0..0 |-> a] \in [0..0 -> V] /\ Solves(0, [x \in 0..0 |-> a])
      OBVIOUS
    <3>. QED BY <3>1
  <2>3. m \in 1..n /\ m - 1 \in 0..n /\ m - 1 \notin Bad
    BY <2>1, <2>2
  <2>4. PICK f \in [0..(m - 1) -> V] : Solves(m - 1, f)
    BY <2>3
  <2>. DEFINE g == [x \in 0..m |-> IF x = m THEN G[m][f[m - 1]] ELSE f[x]]
  <2>5. f[m - 1] \in V /\ G[m][f[m - 1]] \in V
    BY <2>3, <2>4
  <2>6. g \in [0..m -> V]
    BY <2>3, <2>4, <2>5
  <2>7. Solves(m, g)
    <3>1. g[0] = a
      BY <2>3, <2>4
    <3>2. ASSUME NEW k \in 1..m PROVE g[k] = G[k][g[k - 1]]
      <4>1. CASE k = m
        BY <2>3, <4>1
      <4>2. CASE k # m
        <5>1. k \in 1..(m - 1) /\ k \in 0..m /\ k - 1 \in 0..m /\ k - 1 # m
          BY <2>3, <4>2
        <5>2. g[k] = f[k] /\ g[k - 1] = f[k - 1]
          BY <4>2, <5>1
        <5>. QED BY <2>4, <5>1, <5>2
      <4>. QED BY <4>1, <4>2
    <3>. QED BY <3>1, <3>2
  <2>. QED BY <2>1, <2>6, <2>7
<1>2. n \in 0..n /\ n \notin Bad
  <2>. HIDE DEF Bad
  <2>. QED BY <1>1
<1>3. PICK f \in [0..n -> V] : Solves(n, f)
  BY <1>2
<1>. QED BY <1>3 DEF Solutions

\* Induction over the positions up to n, for a set of positions.
LEMMA PositionInduction ==
  ASSUME NEW n \in Nat, NEW S, 0 \in S, \A k \in 1..n : k - 1 \in S => k \in S
  PROVE  0..n \subseteq S
<1>. DEFINE Bad == (0..n) \ S
<1>1. ASSUME Bad # {} PROVE FALSE
  <2>1. PICK m \in Bad : \A l \in Bad : m <= l
    <3>1. Bad \in SUBSET Nat
      OBVIOUS
    <3>. HIDE DEF Bad
    <3>. QED BY <1>1, <3>1, LeastNumber
  <2>2. m \in 1..n /\ m - 1 \in 0..n /\ m - 1 \notin Bad
    BY <2>1
  <2>. QED BY <2>1, <2>2
<1>. QED BY <1>1
=============================================================================
