---------------------------- MODULE SumTheorems ----------------------------
(***************************************************************************)
(* Sums of a function over a finite set: what SumFunctionOnSet of the      *)
(* community modules computes, whatever order it picks the elements in.    *)
(***************************************************************************)
EXTENDS Functions, FiniteSetTheorems, TLAPS

\* What the recursion behind SumFunctionOnSet says of the subset s, if g
\* holds the sums of the smaller ones.
SumStep(f, g, s) ==
  IF s = {} THEN 0
  ELSE f[CHOOSE x \in s : TRUE] + g[s \ {CHOOSE x \in s : TRUE}]

\* The sums of f over the subsets of S.
Sums(f, S) == CHOOSE g : g = [s \in SUBSET S |-> SumStep(f, g, s)]

LEMMA SumUnfolds ==
  ASSUME NEW f, NEW S
  PROVE  SumFunctionOnSet(f, S) = Sums(f, S)[S]
  BY DEF SumFunctionOnSet, FoldFunctionOnSet, MapThenFoldSet, Sums, SumStep

\* Of the sets in a collection of subsets of a finite set, one contains no other.
LEMMA SmallestSet ==
  ASSUME NEW S, NEW C, IsFiniteSet(S), C \subseteq SUBSET S, C # {}
  PROVE  \E T \in C : \A U \in C : U \subseteq T => U = T
<1>1. IsWellFoundedOn(StrictSubsetOrdering(S), FiniteSubsetsOf(S))
  BY FS_StrictSubsetOrderingWellFounded
<1>2. C \subseteq FiniteSubsetsOf(S)
  BY FS_FiniteSubsetsOfFinite
<1>3. PICK T \in C : \A U \in C : <<U, T>> \notin StrictSubsetOrdering(S)
  BY <1>1, <1>2, WFMin
<1> QED
  BY <1>3 DEF StrictSubsetOrdering

\* Of a set of naturals, one is the smallest.
LEMMA SmallestNumber ==
  ASSUME NEW N, N \subseteq Nat, N # {}
  PROVE  \E n \in N : \A m \in N : n <= m
<1> DEFINE R == {p \in Nat \X Nat : p[1] < p[2]}
<1>1. IsWellFoundedOn(R, Nat)
  BY NatLessThanWellFounded DEF OpToRel
<1>2. PICK n \in N : \A m \in N : <<m, n>> \notin R
  <2> HIDE DEF R
  <2> QED
    BY <1>1, WFMin
<1>3. \A m \in N : ~ (m < n)
  BY <1>2
<1> QED
  BY <1>3

\* The recursion has a solution: for ever larger subsets.
LEMMA SumsExist ==
  ASSUME NEW f, NEW S, IsFiniteSet(S)
  PROVE  \E g : g = [s \in SUBSET S |-> SumStep(f, g, s)]
<1> DEFINE Good(g, n) == \A s \in SUBSET S : Cardinality(s) <= n => g[s] = SumStep(f, g, s)
           N == {n \in Nat : ~ \E g : Good(g, n)}
<1>1. \A s \in SUBSET S : IsFiniteSet(s) /\ Cardinality(s) \in Nat
  BY FS_Subset, FS_CardinalityType
<1>2. \A s \in SUBSET S : Cardinality(s) = 0 <=> s = {}
  BY <1>1, FS_EmptySet
<1>3. ASSUME NEW n \in Nat, NEW g, n = 0 \/ Good(g, n - 1)
      PROVE  Good([s \in SUBSET S |-> SumStep(f, g, s)], n)
  <2> DEFINE h == [s \in SUBSET S |-> SumStep(f, g, s)]
  <2>1. SUFFICES ASSUME NEW s \in SUBSET S, Cardinality(s) <= n
                 PROVE  SumStep(f, g, s) = SumStep(f, h, s)
    OBVIOUS
  <2>2. CASE s = {}
    BY <2>2 DEF SumStep
  <2>3. CASE s # {}
    <3> DEFINE x == CHOOSE x \in s : TRUE
    <3>1. x \in s
      BY <2>3
    <3>2. Cardinality(s \ {x}) = Cardinality(s) - 1 /\ s \ {x} \in SUBSET S
      BY <1>1, <3>1, FS_RemoveElement
    <3>3. n # 0
      BY <1>1, <1>2, <2>1, <2>3
    <3>4. Cardinality(s \ {x}) <= n - 1
      BY <1>1, <2>1, <3>2
    <3>5. g[s \ {x}] = SumStep(f, g, s \ {x})
      BY <1>3, <3>2, <3>3, <3>4
    <3>6. h[s \ {x}] = g[s \ {x}]
      BY <3>2, <3>5
    <3> QED
      BY <2>3, <3>6 DEF SumStep
  <2> QED
    BY <2>2, <2>3
<1>4. N = {}
  <2>1. SUFFICES ASSUME N # {} PROVE FALSE
    OBVIOUS
  <2>2. PICK n \in N : \A m \in N : n <= m
    <3>1. N \subseteq Nat
      OBVIOUS
    <3> HIDE DEF N
    <3> QED
      BY <2>1, <3>1, SmallestNumber
  <2>3. n \in Nat /\ ~ \E g : Good(g, n)
    OBVIOUS
  <2>4. n = 0 \/ n - 1 \in Nat \ N
    BY <2>2, <2>3
  <2>5. n = 0 \/ \E g : Good(g, n - 1)
    BY <2>4
  <2>6. \E g : n = 0 \/ Good(g, n - 1)
    <3> HIDE DEF Good
    <3> QED BY <2>5
  <2> HIDE DEF Good, N
  <2> QED
    BY <1>3, <2>3, <2>6
<1>5. PICK g : Good(g, Cardinality(S))
  <2>1. Cardinality(S) \in Nat
    BY <1>1
  <2> HIDE DEF Good
  <2> QED
    BY <1>4, <2>1
<1>6. \A s \in SUBSET S : g[s] = SumStep(f, g, s)
  BY <1>1, <1>5, FS_Subset
<1> DEFINE h == [s \in SUBSET S |-> SumStep(f, g, s)]
<1>7. ASSUME NEW s \in SUBSET S
      PROVE  SumStep(f, g, s) = SumStep(f, h, s)
  <2>1. CASE s = {}
    BY <2>1 DEF SumStep
  <2>2. CASE s # {}
    BY <1>6, <2>2 DEF SumStep
  <2> QED
    BY <2>1, <2>2
<1>8. h = [s \in SUBSET S |-> SumStep(f, h, s)]
  BY <1>7
<1> HIDE DEF h
<1> QED
  BY <1>8
\* What the sum of a subset is does not depend on the set it is a subset of.
LEMMA SumsAgree ==
  ASSUME NEW f, NEW S, IsFiniteSet(S), NEW T \in SUBSET S
  PROVE  Sums(f, S)[T] = SumFunctionOnSet(f, T)
<1> DEFINE g == Sums(f, S)
           h == Sums(f, T)
           C == {U \in SUBSET T : g[U] # h[U]}
<1>1. g = [s \in SUBSET S |-> SumStep(f, g, s)]
  BY SumsExist DEF Sums
<1>2. IsFiniteSet(T)
  BY FS_Subset
<1>3. h = [s \in SUBSET T |-> SumStep(f, h, s)]
  BY <1>2, SumsExist DEF Sums
<1> HIDE DEF g, h
<1>4. \A s \in SUBSET T : g[s] = SumStep(f, g, s) /\ h[s] = SumStep(f, h, s)
  BY <1>1, <1>3
<1>5. ASSUME NEW U \in C, \A V \in C : V \subseteq U => V = U
      PROVE  FALSE
  <2>1. U \in SUBSET T /\ g[U] # h[U]
    OBVIOUS
  <2>2. U # {}
    BY <1>4, <2>1 DEF SumStep
  <2> DEFINE x == CHOOSE x \in U : TRUE
  <2>3. x \in U
    BY <2>2
  <2>4. U \ {x} \in SUBSET T /\ U \ {x} \notin C
    BY <1>5, <2>1, <2>3
  <2>5. g[U \ {x}] = h[U \ {x}]
    BY <2>4
  <2> QED
    BY <1>4, <2>1, <2>2, <2>5 DEF SumStep
<1>6. C = {}
  <2>1. C \subseteq SUBSET T
    OBVIOUS
  <2> HIDE DEF C
  <2> QED
    BY <1>2, <1>5, <2>1, SmallestSet
<1>7. g[T] = h[T]
  BY <1>6
<1> QED
  BY <1>7, SumUnfolds DEF g, h

\* Nothing sums up to nothing.
LEMMA SumOfNone ==
  ASSUME NEW f
  PROVE  SumFunctionOnSet(f, {}) = 0
<1> DEFINE g == Sums(f, {})
<1>1. g = [s \in SUBSET {} |-> SumStep(f, g, s)]
  BY FS_EmptySet, SumsExist DEF Sums
<1> HIDE DEF g
<1>2. g[{}] = SumStep(f, g, {})
  BY <1>1
<1> QED
  BY <1>2, SumUnfolds DEF g, SumStep

\* The sum is that of the element picked first and of the others.
LEMMA SumPicks ==
  ASSUME NEW f, NEW S, IsFiniteSet(S), S # {}
  PROVE  \E x \in S : SumFunctionOnSet(f, S) = f[x] + SumFunctionOnSet(f, S \ {x})
<1> DEFINE g == Sums(f, S)
           x == CHOOSE x \in S : TRUE
<1>1. g = [s \in SUBSET S |-> SumStep(f, g, s)]
  BY SumsExist DEF Sums
<1>2. x \in S
  OBVIOUS
<1>3. g[S \ {x}] = SumFunctionOnSet(f, S \ {x})
  BY SumsAgree
<1> HIDE DEF g
<1>4. g[S] = SumStep(f, g, S)
  BY <1>1
<1>5. g[S] = f[x] + g[S \ {x}]
  BY <1>4 DEF SumStep
<1> QED
  BY <1>2, <1>3, <1>5, SumUnfolds DEF g

\* A sum of naturals is a natural.
THEOREM SumIsNat ==
  ASSUME NEW S, IsFiniteSet(S), NEW f, \A x \in S : f[x] \in Nat
  PROVE  SumFunctionOnSet(f, S) \in Nat
<1> DEFINE C == {T \in SUBSET S : SumFunctionOnSet(f, T) \notin Nat}
<1>1. ASSUME NEW T \in C, \A U \in C : U \subseteq T => U = T
      PROVE  FALSE
  <2>1. T \in SUBSET S /\ SumFunctionOnSet(f, T) \notin Nat /\ IsFiniteSet(T)
    BY FS_Subset
  <2>2. T # {}
    BY <2>1, SumOfNone
  <2>3. PICK x \in T : SumFunctionOnSet(f, T) = f[x] + SumFunctionOnSet(f, T \ {x})
    BY <2>1, <2>2, SumPicks
  <2>4. T \ {x} \in SUBSET S /\ T \ {x} \notin C
    BY <1>1, <2>1
  <2> QED
    BY <2>1, <2>3, <2>4
<1>2. C = {}
  <2>1. C \subseteq SUBSET S
    OBVIOUS
  <2> HIDE DEF C
  <2> QED
    BY <1>1, <2>1, SmallestSet
<1> QED
  BY <1>2

\* Any element may be taken out first.
THEOREM SumSplits ==
  ASSUME NEW S, IsFiniteSet(S), NEW f, \A x \in S : f[x] \in Nat, NEW y \in S
  PROVE  SumFunctionOnSet(f, S) = f[y] + SumFunctionOnSet(f, S \ {y})
<1> DEFINE Sum(T) == SumFunctionOnSet(f, T)
           C == {T \in SUBSET S : \E z \in T : Sum(T) # f[z] + Sum(T \ {z})}
<1>1. \A T \in SUBSET S : IsFiniteSet(T) /\ Sum(T) \in Nat
  BY FS_Subset, SumIsNat
<1>2. ASSUME NEW T \in C, \A U \in C : U \subseteq T => U = T
      PROVE  FALSE
  <2>1. PICK z \in T : Sum(T) # f[z] + Sum(T \ {z})
    OBVIOUS
  <2>2. PICK x \in T : Sum(T) = f[x] + Sum(T \ {x})
    BY <1>1, SumPicks
  <2>3. x # z
    BY <2>1, <2>2
  <2>4. T \ {x} \notin C /\ T \ {z} \notin C
    BY <1>2
  <2>5. Sum(T \ {x}) = f[z] + Sum((T \ {x}) \ {z})
    BY <2>3, <2>4
  <2>6. Sum(T \ {z}) = f[x] + Sum((T \ {z}) \ {x})
    BY <2>3, <2>4
  <2>7. (T \ {x}) \ {z} = (T \ {z}) \ {x} /\ (T \ {x}) \ {z} \in SUBSET S
    OBVIOUS
  <2>8. f[x] \in Nat /\ f[z] \in Nat /\ Sum((T \ {x}) \ {z}) \in Nat
    BY <1>1, <2>7
  <2> HIDE DEF Sum
  <2> QED
    BY <2>1, <2>2, <2>5, <2>6, <2>7, <2>8
<1>3. C = {}
  <2>1. C \subseteq SUBSET S
    OBVIOUS
  <2> HIDE DEF C
  <2> QED
    BY <1>2, <2>1, SmallestSet
<1> QED
  BY <1>3

\* Where a function is nowhere larger than another, its sum is not either.
THEOREM SumMonotone ==
  ASSUME NEW S, IsFiniteSet(S), NEW f, NEW g, \A x \in S : f[x] \in Nat /\ g[x] \in Nat,
         \A x \in S : f[x] <= g[x]
  PROVE  SumFunctionOnSet(f, S) <= SumFunctionOnSet(g, S)
<1> DEFINE C == {T \in SUBSET S : ~ (SumFunctionOnSet(f, T) <= SumFunctionOnSet(g, T))}
<1>1. ASSUME NEW T \in C, \A U \in C : U \subseteq T => U = T
      PROVE  FALSE
  <2>1. /\ T \in SUBSET S /\ IsFiniteSet(T)
        /\ ~ (SumFunctionOnSet(f, T) <= SumFunctionOnSet(g, T))
    BY FS_Subset
  <2>2. T # {}
    BY <2>1, SumOfNone
  <2>3. PICK x \in T : TRUE
    BY <2>2
  <2>4. T \ {x} \in SUBSET S /\ T \ {x} \notin C
    BY <1>1, <2>1
  <2>5. SumFunctionOnSet(f, T \ {x}) <= SumFunctionOnSet(g, T \ {x})
    BY <2>4
  <2>6. SumFunctionOnSet(f, T) = f[x] + SumFunctionOnSet(f, T \ {x})
    BY <2>1, SumSplits
  <2>7. SumFunctionOnSet(g, T) = g[x] + SumFunctionOnSet(g, T \ {x})
    BY <2>1, SumSplits
  <2>8. /\ SumFunctionOnSet(f, T \ {x}) \in Nat /\ SumFunctionOnSet(g, T \ {x}) \in Nat
        /\ f[x] \in Nat /\ g[x] \in Nat /\ f[x] <= g[x]
    BY <2>1, <2>4, FS_Subset, SumIsNat
  <2> QED
    BY <2>1, <2>5, <2>6, <2>7, <2>8
<1>2. C = {}
  <2>1. C \subseteq SUBSET S
    OBVIOUS
  <2> HIDE DEF C
  <2> QED
    BY <1>1, <2>1, SmallestSet
<1> QED
  BY <1>2

\* Functions that agree on a set have the same sum over it.
THEOREM SumAgrees ==
  ASSUME NEW S, IsFiniteSet(S), NEW f, NEW g, \A x \in S : f[x] \in Nat,
         \A x \in S : f[x] = g[x]
  PROVE  SumFunctionOnSet(f, S) = SumFunctionOnSet(g, S)
<1>1. SumFunctionOnSet(f, S) \in Nat /\ SumFunctionOnSet(g, S) \in Nat
  BY SumIsNat
<1>2. SumFunctionOnSet(f, S) <= SumFunctionOnSet(g, S)
  BY SumMonotone
<1>3. SumFunctionOnSet(g, S) <= SumFunctionOnSet(f, S)
  BY SumMonotone
<1> QED
  BY <1>1, <1>2, <1>3

\* A sum follows its function where that changes.
THEOREM SumChanges ==
  ASSUME NEW S, IsFiniteSet(S), NEW f, NEW g, \A x \in S : f[x] \in Nat /\ g[x] \in Nat,
         NEW y \in S, \A x \in S \ {y} : f[x] = g[x]
  PROVE  SumFunctionOnSet(g, S) + f[y] = SumFunctionOnSet(f, S) + g[y]
<1>1. IsFiniteSet(S \ {y})
  BY FS_RemoveElement
<1>2. SumFunctionOnSet(f, S \ {y}) = SumFunctionOnSet(g, S \ {y})
  BY <1>1, SumAgrees
<1>3. SumFunctionOnSet(f, S \ {y}) \in Nat
  BY <1>1, SumIsNat
<1>4. SumFunctionOnSet(f, S) = f[y] + SumFunctionOnSet(f, S \ {y})
  BY SumSplits
<1>5. SumFunctionOnSet(g, S) = g[y] + SumFunctionOnSet(g, S \ {y})
  BY SumSplits
<1> QED
  BY <1>2, <1>3, <1>4, <1>5

\* No element exceeds the sum.
THEOREM SumCovers ==
  ASSUME NEW S, IsFiniteSet(S), NEW f, \A x \in S : f[x] \in Nat, NEW y \in S
  PROVE  f[y] <= SumFunctionOnSet(f, S)
<1>1. SumFunctionOnSet(f, S) = f[y] + SumFunctionOnSet(f, S \ {y})
  BY SumSplits
<1>2. SumFunctionOnSet(f, S \ {y}) \in Nat
  BY FS_RemoveElement, SumIsNat
<1> QED
  BY <1>1, <1>2

\* A sum of naturals is zero only if each of them is.
THEOREM SumOfZeros ==
  ASSUME NEW S, IsFiniteSet(S), NEW f, \A x \in S : f[x] \in Nat
  PROVE  SumFunctionOnSet(f, S) = 0 <=> \A x \in S : f[x] = 0
<1>1. ASSUME SumFunctionOnSet(f, S) = 0, NEW x \in S
      PROVE  f[x] = 0
  BY <1>1, SumCovers
<1>2. ASSUME \A x \in S : f[x] = 0
      PROVE  SumFunctionOnSet(f, S) = 0
  <2>1. CASE S = {}
    BY <2>1, SumOfNone
  <2>2. CASE S # {}
    <3> DEFINE C == {T \in SUBSET S : SumFunctionOnSet(f, T) # 0}
    <3>1. ASSUME NEW T \in C, \A U \in C : U \subseteq T => U = T
          PROVE  FALSE
      <4>1. T \in SUBSET S /\ SumFunctionOnSet(f, T) # 0 /\ IsFiniteSet(T)
        BY FS_Subset
      <4>2. PICK x \in T : SumFunctionOnSet(f, T) = f[x] + SumFunctionOnSet(f, T \ {x})
        BY <4>1, SumOfNone, SumPicks
      <4>3. T \ {x} \in SUBSET S /\ T \ {x} \notin C
        BY <3>1, <4>1
      <4> QED
        BY <1>2, <4>1, <4>2, <4>3
    <3>2. C = {}
      <4>1. C \subseteq SUBSET S
        OBVIOUS
      <4> HIDE DEF C
      <4> QED
        BY <3>1, <4>1, SmallestSet
    <3> QED
      BY <3>2
  <2> QED
    BY <2>1, <2>2
<1> QED
  BY <1>1, <1>2
\* The sum over a part of a set is no more than the sum over all of it.
THEOREM SumOfPart ==
  ASSUME NEW S, IsFiniteSet(S), NEW f, \A x \in S : f[x] \in Nat, NEW T \in SUBSET S
  PROVE  SumFunctionOnSet(f, T) <= SumFunctionOnSet(f, S)
<1> DEFINE C == {U \in SUBSET S : T \subseteq U /\ ~ (SumFunctionOnSet(f, T) <= SumFunctionOnSet(f, U))}
<1>1. \A U \in SUBSET S : IsFiniteSet(U) /\ SumFunctionOnSet(f, U) \in Nat
  BY FS_Subset, SumIsNat
<1>2. ASSUME NEW U \in C, \A V \in C : V \subseteq U => V = U
      PROVE  FALSE
  <2>1. /\ U \in SUBSET S /\ T \subseteq U
        /\ ~ (SumFunctionOnSet(f, T) <= SumFunctionOnSet(f, U))
    OBVIOUS
  <2>2. PICK x \in U : x \notin T
    BY <1>1, <2>1
  <2>3. SumFunctionOnSet(f, T) <= SumFunctionOnSet(f, U \ {x})
    BY <1>2, <2>1, <2>2
  <2>4. SumFunctionOnSet(f, U) = f[x] + SumFunctionOnSet(f, U \ {x})
    BY <1>1, <2>1, <2>2, SumSplits
  <2>5. /\ f[x] \in Nat /\ SumFunctionOnSet(f, U \ {x}) \in Nat
        /\ SumFunctionOnSet(f, T) \in Nat
    BY <1>1, <2>1, <2>2
  <2> QED
    BY <2>1, <2>3, <2>4, <2>5
<1>3. C = {}
  <2> HIDE DEF C
  <2>1. C \subseteq SUBSET S
    BY DEF C
  <2> QED
    BY <1>2, <2>1, SmallestSet
<1> QED
  BY <1>1, <1>3
\* What is zero outside a part of a set has its whole sum there.
THEOREM SumWithinPart ==
  ASSUME NEW S, IsFiniteSet(S), NEW f, \A x \in S : f[x] \in Nat, NEW T \in SUBSET S,
         \A x \in S \ T : f[x] = 0
  PROVE  SumFunctionOnSet(f, S) = SumFunctionOnSet(f, T)
<1> DEFINE C == {U \in SUBSET S : T \subseteq U /\ SumFunctionOnSet(f, U) # SumFunctionOnSet(f, T)}
<1>1. \A U \in SUBSET S : IsFiniteSet(U) /\ SumFunctionOnSet(f, U) \in Nat
  BY FS_Subset, SumIsNat
<1>2. ASSUME NEW U \in C, \A V \in C : V \subseteq U => V = U
      PROVE  FALSE
  <2>1. /\ U \in SUBSET S /\ T \subseteq U
        /\ SumFunctionOnSet(f, U) # SumFunctionOnSet(f, T)
    OBVIOUS
  <2>2. PICK x \in U : x \notin T
    BY <1>1, <2>1
  <2>3. SumFunctionOnSet(f, U \ {x}) = SumFunctionOnSet(f, T)
    BY <1>2, <2>1, <2>2
  <2>4. SumFunctionOnSet(f, U) = f[x] + SumFunctionOnSet(f, U \ {x})
    BY <1>1, <2>1, <2>2, SumSplits
  <2>5. f[x] = 0 /\ SumFunctionOnSet(f, T) \in Nat
    BY <1>1, <2>1, <2>2
  <2> QED
    BY <2>1, <2>3, <2>4, <2>5
<1>3. C = {}
  <2> HIDE DEF C
  <2>1. C \subseteq SUBSET S
    BY DEF C
  <2> QED
    BY <1>2, <2>1, SmallestSet
<1> QED
  BY <1>1, <1>3
=============================================================================
