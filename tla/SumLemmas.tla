----------------------------- MODULE SumLemmas -------------------------------
(***************************************************************************)
(* Sums over finite sets, which reports and ledgers take and never store:  *)
(* what SumFunctionOnSet of the community modules gives when an element is *)
(* taken out, when a value changes, and when every value does.             *)
(***************************************************************************)
EXTENDS Functions, FiniteSetTheorems, TLAPS

(* A family of subsets of a finite set that contains every set all of      *)
(* whose proper subsets it contains is the whole power set.                *)
LEMMA SubsetInduction ==
    ASSUME NEW S, IsFiniteSet(S), NEW T, T \subseteq SUBSET S,
           \A s \in SUBSET S : (\A t \in SUBSET s : t # s => t \in T) => s \in T
    PROVE  T = SUBSET S
<1> DEFINE U == (SUBSET S) \ T
<1> SUFFICES ASSUME U # {} PROVE FALSE
  OBVIOUS
<1>1. IsWellFoundedOn(StrictSubsetOrdering(S), SUBSET S)
  BY FS_StrictSubsetOrderingWellFounded, FS_FiniteSubsetsOfFinite
<1>2. PICK s \in U : \A t \in U : <<t, s>> \notin StrictSubsetOrdering(S)
  <2>1. U \subseteq SUBSET S
    OBVIOUS
  <2> HIDE DEF U
  <2> QED BY <1>1, <2>1, WFMin
<1>3. \A t \in SUBSET s : t # s => t \in T
  BY <1>2 DEF StrictSubsetOrdering
<1> QED BY <1>2, <1>3

\* The same from one number to the next.
LEMMA CountingInduction ==
    ASSUME NEW n \in Nat, NEW T, 0 \in T, \A r \in 1 .. n : r - 1 \in T => r \in T
    PROVE  0 .. n \subseteq T
<1> DEFINE S == 0 .. n
           F == {s \in SUBSET S : \A r \in S : s = 0 .. r => r \in T}
<1>1. IsFiniteSet(S)
  BY FS_Interval
<1>2. ASSUME NEW s \in SUBSET S, \A t \in SUBSET s : t # s => t \in F
      PROVE  s \in F
  <2> SUFFICES ASSUME NEW r \in S, s = 0 .. r, r # 0 PROVE r \in T
    OBVIOUS
  <2>1. 0 .. (r - 1) \in SUBSET s /\ r \in s /\ r \notin 0 .. (r - 1)
    OBVIOUS
  <2>2. 0 .. (r - 1) \in F
    BY <1>2, <2>1
  <2>3. r - 1 \in S /\ r \in 1 .. n
    OBVIOUS
  <2>4. r - 1 \in T
    BY <2>2, <2>3
  <2> QED BY <2>3, <2>4
<1>3. F \subseteq SUBSET S
  OBVIOUS
<1> HIDE DEF F
<1>4. F = SUBSET S
  BY <1>1, <1>2, <1>3, SubsetInduction
<1>5. ASSUME NEW r \in S PROVE r \in T
  <2>1. 0 .. r \in F
    BY <1>4
  <2> QED BY <2>1 DEF F
<1> QED BY <1>5

-----------------------------------------------------------------------------
(* The function that the fold iterates exists, and is the only one.        *)

First(s) == CHOOSE x \in s : TRUE

Iteration(f, S, g) ==
    [s \in SUBSET S |-> IF s = {} THEN 0 ELSE f[First(s)] + g[s \ {First(s)}]]

\* g iterates over s.
Iterates(g, f, s) == g = Iteration(f, s, g)

LEMMA FirstIn == ASSUME NEW s, s # {} PROVE First(s) \in s
  BY DEF First

LEMMA IterateApply ==
    ASSUME NEW f, NEW S, NEW g, Iterates(g, f, S), NEW s \in SUBSET S
    PROVE  /\ s = {} => g[s] = 0
           /\ s # {} => g[s] = f[First(s)] + g[s \ {First(s)}]
  BY DEF Iterates, Iteration

LEMMA IterateUnique ==
    ASSUME NEW f, NEW S, NEW Q, IsFiniteSet(S), NEW g, NEW h,
           Iterates(g, f, S), Iterates(h, f, Q)
    PROVE  \A s \in SUBSET S : s \in SUBSET Q => g[s] = h[s]
<1> DEFINE T == {s \in SUBSET S : s \in SUBSET Q => g[s] = h[s]}
<1>1. ASSUME NEW s \in SUBSET S, \A t \in SUBSET s : t # s => t \in T
      PROVE  s \in T
  <2> SUFFICES ASSUME s \in SUBSET Q PROVE g[s] = h[s]
    OBVIOUS
  <2>1. CASE s = {}
    <3>1. g[s] = 0
      BY <2>1, IterateApply
    <3>2. h[s] = 0
      BY <2>1, IterateApply
    <3> QED BY <3>1, <3>2
  <2>2. CASE s # {}
    <3> DEFINE r == s \ {First(s)}
    <3>1. First(s) \in s
      BY <2>2, FirstIn
    <3>2. r \in T /\ r \in SUBSET Q
      BY <1>1, <3>1
    <3>3. g[s] = f[First(s)] + g[r]
      BY <2>2, IterateApply
    <3>4. h[s] = f[First(s)] + h[r]
      BY <2>2, IterateApply
    <3> QED BY <3>2, <3>3, <3>4
  <2> QED BY <2>1, <2>2
<1>2. T = SUBSET S
  <2>1. T \subseteq SUBSET S
    OBVIOUS
  <2> HIDE DEF T
  <2> QED BY <1>1, <2>1, SubsetInduction
<1> QED BY <1>2

LEMMA IterateExists ==
    ASSUME NEW f, NEW S, IsFiniteSet(S)
    PROVE  \E g : Iterates(g, f, S)
<1> DEFINE T == {s \in SUBSET S : \E g : Iterates(g, f, s)}
           At(s) == (CHOOSE g : Iterates(g, f, s))[s]
<1>1. ASSUME NEW s \in SUBSET S, \A t \in SUBSET s : t # s => t \in T
      PROVE  s \in T
  <2> DEFINE G == [t \in SUBSET s |->
                     IF t = {} THEN 0 ELSE f[First(t)] + At(t \ {First(t)})]
  <2>1. ASSUME NEW t \in SUBSET s, t # s
        PROVE  G[t] = At(t)
    <3> DEFINE h == CHOOSE g : Iterates(g, f, t)
    <3>1. Iterates(h, f, t)
      BY <1>1, <2>1
    <3>2. CASE t = {}
      <4> HIDE DEF h
      <4>1. h[t] = 0
        BY <3>1, <3>2, IterateApply
      <4> QED BY <3>2, <4>1 DEF h
    <3>3. CASE t # {}
      <4> DEFINE u == t \ {First(t)}
                 k == CHOOSE g : Iterates(g, f, u)
      <4>1. First(t) \in t
        BY <3>3, FirstIn
      <4>2. u \in SUBSET s /\ u # s /\ u \in SUBSET t
        BY <4>1
      <4>3. Iterates(k, f, u)
        BY <1>1, <4>2
      <4>4. IsFiniteSet(u)
        BY FS_Subset
      <4> HIDE DEF h, k
      <4>5. k[u] = h[u]
        <5> HIDE DEF u
        <5> QED BY <3>1, <4>2, <4>3, <4>4, IterateUnique
      <4>6. h[t] = f[First(t)] + h[u]
        BY <3>1, <3>3, IterateApply
      <4>7. G[t] = f[First(t)] + k[u]
        BY <3>3 DEF k
      <4> QED BY <4>5, <4>6, <4>7 DEF h
    <3> QED BY <3>2, <3>3
  <2>2. \A t \in SUBSET s : t # {} => G[t \ {First(t)}] = At(t \ {First(t)})
    <3> TAKE t \in SUBSET s
    <3> HAVE t # {}
    <3>1. First(t) \in t
      BY FirstIn
    <3> QED BY <2>1, <3>1
  <2>3. Iterates(G, f, s)
    <3>1. \A t \in SUBSET s :
            G[t] = IF t = {} THEN 0 ELSE f[First(t)] + At(t \ {First(t)})
      OBVIOUS
    <3>2. \A t \in SUBSET s :
            G[t] = IF t = {} THEN 0 ELSE f[First(t)] + G[t \ {First(t)}]
      <4> HIDE DEF G, At
      <4> QED BY <2>2, <3>1
    <3>3. G = [t \in SUBSET s |-> G[t]]
      OBVIOUS
    <3> HIDE DEF G
    <3> QED BY <3>2, <3>3 DEF Iterates, Iteration
  <2> QED BY <2>3
<1>2. T = SUBSET S
  <2>1. T \subseteq SUBSET S
    OBVIOUS
  <2> HIDE DEF T
  <2> QED BY <1>1, <2>1, SubsetInduction
<1> QED BY <1>2

(* What the fold computes.                                                 *)
LEMMA SumIterates ==
    ASSUME NEW f, NEW S, IsFiniteSet(S)
    PROVE  \E g : Iterates(g, f, S) /\ \A s \in SUBSET S : SumFunctionOnSet(f, s) = g[s]
<1>1. ASSUME NEW s
      PROVE SumFunctionOnSet(f, s) = (CHOOSE g : g = Iteration(f, s, g))[s]
  BY DEF SumFunctionOnSet, FoldFunctionOnSet, MapThenFoldSet, Iteration, First
<1>2. ASSUME NEW s \in SUBSET S
      PROVE \E h : Iterates(h, f, s) /\ SumFunctionOnSet(f, s) = h[s]
  <2>1. IsFiniteSet(s)
    BY FS_Subset
  <2>2. \E h : Iterates(h, f, s)
    BY <2>1, IterateExists
  <2> QED BY <1>1, <2>2 DEF Iterates
<1>3. PICK g : Iterates(g, f, S)
  BY IterateExists
<1>4. ASSUME NEW s \in SUBSET S
      PROVE SumFunctionOnSet(f, s) = g[s]
  <2>1. PICK h : Iterates(h, f, s) /\ SumFunctionOnSet(f, s) = h[s]
    BY <1>2
  <2>2. s \in SUBSET s /\ IsFiniteSet(s)
    BY FS_Subset
  <2>3. h[s] = g[s]
    BY <1>3, <2>1, <2>2, IterateUnique
  <2> QED BY <2>1, <2>3
<1> QED BY <1>3, <1>4

-----------------------------------------------------------------------------
LEMMA SumEmpty == ASSUME NEW f PROVE SumFunctionOnSet(f, {}) = 0
<1> DEFINE S == {}
<1>1. IsFiniteSet(S)
  BY FS_EmptySet
<1>2. PICK g : Iterates(g, f, S) /\ \A s \in SUBSET S : SumFunctionOnSet(f, s) = g[s]
  BY <1>1, SumIterates
<1>3. S \in SUBSET S
  OBVIOUS
<1>4. g[S] = 0
  BY <1>2, <1>3, IterateApply
<1> QED BY <1>2, <1>3, <1>4

LEMMA SumFirst ==
    ASSUME NEW f, NEW S, IsFiniteSet(S), S # {}
    PROVE  SumFunctionOnSet(f, S) = f[First(S)] + SumFunctionOnSet(f, S \ {First(S)})
<1>1. PICK g : Iterates(g, f, S) /\ \A s \in SUBSET S : SumFunctionOnSet(f, s) = g[s]
  BY SumIterates
<1>2. S \in SUBSET S /\ S \ {First(S)} \in SUBSET S
  OBVIOUS
<1>3. g[S] = f[First(S)] + g[S \ {First(S)}]
  BY <1>1, <1>2, IterateApply
<1> QED BY <1>1, <1>2, <1>3

\* Sums of whole numbers are whole numbers, of natural numbers natural.
LEMMA SumType ==
    ASSUME NEW f, NEW S, IsFiniteSet(S), NEW R \in {Int, Nat}, \A x \in S : f[x] \in R
    PROVE  SumFunctionOnSet(f, S) \in R
<1> DEFINE T == {s \in SUBSET S : SumFunctionOnSet(f, s) \in R}
<1>1. ASSUME NEW s \in SUBSET S, \A t \in SUBSET s : t # s => t \in T
      PROVE  s \in T
  <2>1. CASE s = {}
    BY <2>1, SumEmpty
  <2>2. CASE s # {}
    <3>1. First(s) \in s /\ IsFiniteSet(s)
      BY <2>2, FirstIn, FS_Subset
    <3>2. SumFunctionOnSet(f, s \ {First(s)}) \in R /\ f[First(s)] \in R
      BY <1>1, <3>1
    <3> QED BY <2>2, <3>1, <3>2, SumFirst
  <2> QED BY <2>1, <2>2
<1>2. T = SUBSET S
  <2>1. T \subseteq SUBSET S
    OBVIOUS
  <2> HIDE DEF T
  <2> QED BY <1>1, <2>1, SubsetInduction
<1> QED BY <1>2

(* Any element can be taken out first.                                     *)
LEMMA SumRemove ==
    ASSUME NEW f, NEW S, IsFiniteSet(S), \A x \in S : f[x] \in Int, NEW y \in S
    PROVE  SumFunctionOnSet(f, S) = f[y] + SumFunctionOnSet(f, S \ {y})
<1> DEFINE Sum(s) == SumFunctionOnSet(f, s)
           T == {s \in SUBSET S : \A x \in s : Sum(s) = f[x] + Sum(s \ {x})}
<1>1. ASSUME NEW s \in SUBSET S, \A t \in SUBSET s : t # s => t \in T,
             NEW x \in s
      PROVE  Sum(s) = f[x] + Sum(s \ {x})
  <2> DEFINE a == First(s)
  <2>1. a \in s /\ IsFiniteSet(s) /\ Sum(s) = f[a] + Sum(s \ {a})
    BY FirstIn, FS_Subset, SumFirst
  <2>2. CASE x = a
    BY <2>1, <2>2
  <2>3. CASE x # a
    <3>1. Sum(s \ {a}) = f[x] + Sum((s \ {a}) \ {x})
      BY <1>1, <2>1, <2>3
    <3>2. Sum(s \ {x}) = f[a] + Sum((s \ {x}) \ {a})
      BY <1>1, <2>1, <2>3
    <3>3. (s \ {a}) \ {x} = (s \ {x}) \ {a}
      OBVIOUS
    <3>4. f[a] \in Int /\ f[x] \in Int /\ Sum((s \ {a}) \ {x}) \in Int
      <4>1. IsFiniteSet((s \ {a}) \ {x})
        BY FS_Subset
      <4> QED BY <2>1, <4>1, SumType
    <3>5. Sum(s) = f[a] + (f[x] + Sum((s \ {a}) \ {x}))
      BY <2>1, <3>1
    <3>6. f[x] + Sum(s \ {x}) = f[x] + (f[a] + Sum((s \ {a}) \ {x}))
      BY <3>2, <3>3
    <3> DEFINE p == f[a]  q == f[x]  r == Sum((s \ {a}) \ {x})
    <3>7. p + (q + r) = q + (p + r)
      <4>1. p \in Int /\ q \in Int /\ r \in Int
        BY <3>4
      <4> HIDE DEF p, q, r
      <4> QED BY <4>1
    <3> QED BY <3>5, <3>6, <3>7
  <2> QED BY <2>2, <2>3
<1>2. T = SUBSET S
  <2>1. T \subseteq SUBSET S
    OBVIOUS
  <2>2. ASSUME NEW s \in SUBSET S, \A t \in SUBSET s : t # s => t \in T
        PROVE  s \in T
    <3> HIDE DEF T
    <3>1. \A x \in s : Sum(s) = f[x] + Sum(s \ {x})
      BY <1>1, <2>2
    <3> QED BY <3>1 DEF T
  <2> HIDE DEF T
  <2> QED BY <2>1, <2>2, SubsetInduction
<1> QED BY <1>2

(* The sum depends on the values over the set only.                        *)
LEMMA SumCongruence ==
    ASSUME NEW f, NEW g, NEW S, IsFiniteSet(S), \A x \in S : f[x] = g[x]
    PROVE  SumFunctionOnSet(f, S) = SumFunctionOnSet(g, S)
<1> DEFINE T == {s \in SUBSET S : SumFunctionOnSet(f, s) = SumFunctionOnSet(g, s)}
<1>1. ASSUME NEW s \in SUBSET S, \A t \in SUBSET s : t # s => t \in T
      PROVE  s \in T
  <2>1. CASE s = {}
    BY <2>1, SumEmpty
  <2>2. CASE s # {}
    <3>1. First(s) \in s /\ IsFiniteSet(s)
      BY <2>2, FirstIn, FS_Subset
    <3>2. SumFunctionOnSet(f, s \ {First(s)}) = SumFunctionOnSet(g, s \ {First(s)})
      BY <1>1, <3>1
    <3> QED BY <2>2, <3>1, <3>2, SumFirst
  <2> QED BY <2>1, <2>2
<1>2. T = SUBSET S
  <2>1. T \subseteq SUBSET S
    OBVIOUS
  <2> HIDE DEF T
  <2> QED BY <1>1, <2>1, SubsetInduction
<1> QED BY <1>2

(* When the value of one element changes, the sum changes by as much.      *)
LEMMA SumChange ==
    ASSUME NEW f, NEW g, NEW S, IsFiniteSet(S),
           \A x \in S : f[x] \in Int /\ g[x] \in Int,
           NEW y \in S, \A x \in S \ {y} : f[x] = g[x]
    PROVE  SumFunctionOnSet(g, S) = SumFunctionOnSet(f, S) + g[y] - f[y]
<1> DEFINE R == S \ {y}
<1>1. IsFiniteSet(R)
  BY FS_Subset
<1>2. SumFunctionOnSet(f, R) = SumFunctionOnSet(g, R) /\ SumFunctionOnSet(f, R) \in Int
  BY <1>1, SumCongruence, SumType
<1>3. SumFunctionOnSet(f, S) = f[y] + SumFunctionOnSet(f, R)
  BY SumRemove
<1>4. SumFunctionOnSet(g, S) = g[y] + SumFunctionOnSet(g, R)
  BY SumRemove
<1> HIDE DEF R
<1> QED BY <1>2, <1>3, <1>4

LEMMA SumAdd ==
    ASSUME NEW f, NEW S, IsFiniteSet(S), NEW y, y \notin S,
           \A x \in S : f[x] \in Int, f[y] \in Int
    PROVE  SumFunctionOnSet(f, S \cup {y}) = SumFunctionOnSet(f, S) + f[y]
<1>1. IsFiniteSet(S \cup {y}) /\ (S \cup {y}) \ {y} = S
  BY FS_AddElement
<1>2. SumFunctionOnSet(f, S) \in Int
  BY SumType
<1>3. SumFunctionOnSet(f, S \cup {y}) = f[y] + SumFunctionOnSet(f, S)
  BY <1>1, SumRemove
<1> QED BY <1>2, <1>3

(* Larger values, larger sum.                                              *)
LEMMA SumMonotone ==
    ASSUME NEW f, NEW g, NEW S, IsFiniteSet(S),
           \A x \in S : f[x] \in Int /\ g[x] \in Int /\ f[x] <= g[x]
    PROVE  SumFunctionOnSet(f, S) <= SumFunctionOnSet(g, S)
<1> DEFINE T == {s \in SUBSET S : SumFunctionOnSet(f, s) <= SumFunctionOnSet(g, s)}
<1>1. ASSUME NEW s \in SUBSET S, \A t \in SUBSET s : t # s => t \in T
      PROVE  s \in T
  <2>1. CASE s = {}
    BY <2>1, SumEmpty
  <2>2. CASE s # {}
    <3> DEFINE a == First(s)  r == s \ {a}
    <3>1. a \in s /\ IsFiniteSet(s) /\ IsFiniteSet(r)
      BY <2>2, FirstIn, FS_Subset
    <3>2. SumFunctionOnSet(f, r) <= SumFunctionOnSet(g, r)
      BY <1>1, <3>1
    <3>3. SumFunctionOnSet(f, r) \in Int /\ SumFunctionOnSet(g, r) \in Int
      BY <3>1, SumType
    <3>4. SumFunctionOnSet(f, s) = f[a] + SumFunctionOnSet(f, r)
      BY <2>2, <3>1, SumFirst
    <3>5. SumFunctionOnSet(g, s) = g[a] + SumFunctionOnSet(g, r)
      BY <2>2, <3>1, SumFirst
    <3>6. f[a] \in Int /\ g[a] \in Int /\ f[a] <= g[a]
      BY <3>1
    <3> HIDE DEF a, r
    <3> QED BY <3>2, <3>3, <3>4, <3>5, <3>6
  <2> QED BY <2>1, <2>2
<1>2. T = SUBSET S
  <2>1. T \subseteq SUBSET S
    OBVIOUS
  <2> HIDE DEF T
  <2> QED BY <1>1, <2>1, SubsetInduction
<1> QED BY <1>2

(* A sum of values none of which is above q.                               *)
LEMMA SumBound ==
    ASSUME NEW f, NEW S, IsFiniteSet(S), NEW q \in Nat,
           \A x \in S : f[x] \in Int /\ f[x] <= q
    PROVE  SumFunctionOnSet(f, S) <= Cardinality(S) * q
<1> DEFINE T == {s \in SUBSET S : SumFunctionOnSet(f, s) <= Cardinality(s) * q}
<1>1. ASSUME NEW s \in SUBSET S, \A t \in SUBSET s : t # s => t \in T
      PROVE  s \in T
  <2>1. CASE s = {}
    BY <2>1, SumEmpty, FS_EmptySet
  <2>2. CASE s # {}
    <3> DEFINE a == First(s)  r == s \ {a}  n == Cardinality(r)
    <3>1. a \in s /\ IsFiniteSet(s) /\ IsFiniteSet(r)
      BY <2>2, FirstIn, FS_Subset
    <3>2. n \in Nat /\ Cardinality(s) = n + 1
      BY <3>1, FS_RemoveElement, FS_CardinalityType
    <3>3. SumFunctionOnSet(f, r) <= n * q
      BY <1>1, <3>1
    <3>4. SumFunctionOnSet(f, r) \in Int
      BY <3>1, SumType
    <3>5. SumFunctionOnSet(f, s) = f[a] + SumFunctionOnSet(f, r)
      BY <2>2, <3>1, SumFirst
    <3>6. f[a] \in Int /\ f[a] <= q
      BY <3>1
    <3> DEFINE m == n * q
    <3>7. m \in Int /\ (n + 1) * q = m + q
      BY <3>2
    <3> HIDE DEF a, r, n, m
    <3>8. SumFunctionOnSet(f, s) <= m + q
      BY <3>3, <3>4, <3>5, <3>6, <3>7 DEF m
    <3> QED BY <3>2, <3>7, <3>8
  <2> QED BY <2>1, <2>2
<1>2. T = SUBSET S
  <2>1. T \subseteq SUBSET S
    OBVIOUS
  <2> HIDE DEF T
  <2> QED BY <1>1, <2>1, SubsetInduction
<1> QED BY <1>2

\* A sum of zeros.
LEMMA SumZero ==
    ASSUME NEW f, NEW S, IsFiniteSet(S), \A x \in S : f[x] = 0
    PROVE  SumFunctionOnSet(f, S) = 0
<1>1. SumFunctionOnSet(f, S) \in Nat
  BY SumType
<1>2. SumFunctionOnSet(f, S) <= Cardinality(S) * 0
  BY SumBound
<1>3. Cardinality(S) \in Nat
  BY FS_CardinalityType
<1> QED BY <1>1, <1>2, <1>3
=============================================================================
