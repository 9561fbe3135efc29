------------------------------ MODULE SetSums ------------------------------
(***************************************************************************)
(* Facts about sums over finite sets, which the proofs about collectors    *)
(* and queries rest on.  Sums are those of the community modules, of a     *)
(* function over a set of its arguments.  Induction is stated for a set of *)
(* sets instead of a predicate: the set holds what the predicate is true   *)
(* of.                                                                     *)
(***************************************************************************)
EXTENDS FiniteSetTheorems, FiniteSetsExt, TLAPS

-----------------------------------------------------------------------------
(* Induction.                                                              *)

\* What holds of a set when it holds of all its strict subsets holds of every
\* subset of a finite set.
LEMMA SubsetInduction ==
    ASSUME NEW S, IsFiniteSet(S), NEW U,
           \A T \in SUBSET S : (\A V \in SUBSET T : V # T => V \in U) => T \in U
    PROVE  \A T \in SUBSET S : T \in U
  <1> DEFINE Out == {T \in SUBSET S : T \notin U}
  <1> SUFFICES ASSUME Out # {}
               PROVE  FALSE
    OBVIOUS
  <1>1. IsWellFoundedOn(StrictSubsetOrdering(S), FiniteSubsetsOf(S))
    BY FS_StrictSubsetOrderingWellFounded
  <1>2. Out \subseteq FiniteSubsetsOf(S)
    BY FS_FiniteSubsetsOfFinite
  <1>3. PICK T \in Out : \A V \in Out : <<V, T>> \notin StrictSubsetOrdering(S)
    <2> HIDE DEF Out
    <2> QED
      BY <1>1, <1>2, WFMin
  <1>4. ASSUME NEW V \in SUBSET T, V # T
        PROVE  V \in U
    <2>1. V \in SUBSET S /\ T \in SUBSET S
      BY <1>3
    <2>2. <<V, T>> \in StrictSubsetOrdering(S)
      BY <1>4, <2>1 DEF StrictSubsetOrdering
    <2> QED
      BY <1>3, <2>1, <2>2
  <1> QED
    BY <1>3, <1>4

\* What holds of the empty set, and with a set of the set with one more element,
\* holds of every finite set.
LEMMA ElementInduction ==
    ASSUME NEW S, IsFiniteSet(S), NEW U, {} \in U,
           \A T \in SUBSET S : \A x \in S \ T : T \in U => T \cup {x} \in U
    PROVE  S \in U
  <1>1. ASSUME NEW T \in SUBSET S, \A V \in SUBSET T : V # T => V \in U
        PROVE  T \in U
    <2>1. CASE T = {}
      BY <2>1
    <2>2. ASSUME NEW x \in T
          PROVE  T \in U
      <3>1. T \ {x} \in SUBSET T /\ T \ {x} # T
        OBVIOUS
      <3>2. T \ {x} \in U
        BY <1>1, <3>1
      <3>3. T = (T \ {x}) \cup {x} /\ x \in S \ (T \ {x}) /\ T \ {x} \in SUBSET S
        OBVIOUS
      <3> QED
        BY <3>2, <3>3
    <2> QED
      BY <2>1, <2>2
  <1> QED
    BY <1>1, SubsetInduction

-----------------------------------------------------------------------------
(* The recursion of a sum.                                                 *)

Pick(s) == CHOOSE x \in s : TRUE

\* g is the sum of f for each set in the family D.
Sums(f, D, g) ==
    g = [s \in D |-> IF s = {} THEN 0 ELSE f[Pick(s)] + g[s \ {Pick(s)}]]

\* ... for each subset of S.
SumsWithin(f, S, g) == Sums(f, SUBSET S, g)

LEMMA SumIsRecursive ==
    ASSUME NEW f, NEW S
    PROVE  SumFunctionOnSet(f, S) = (CHOOSE g : SumsWithin(f, S, g))[S]
  BY DEF SumFunctionOnSet, FoldFunctionOnSet, MapThenFoldSet, SumsWithin, Sums, Pick

LEMMA PickIn == ASSUME NEW s, s # {} PROVE Pick(s) \in s
  BY DEF Pick

LEMMA SumsExist ==
    ASSUME NEW f, NEW S, IsFiniteSet(S)
    PROVE  \E g : SumsWithin(f, S, g)
  <1> DEFINE Small(n) == {s \in SUBSET S : Cardinality(s) <= n}
             U == {N \in SUBSET (1..Cardinality(S)) :
                     \E g : Sums(f, Small(Cardinality(N)), g)}
  <1>0. /\ Cardinality(S) \in Nat
        /\ IsFiniteSet(1..Cardinality(S))
        /\ Cardinality(1..Cardinality(S)) = Cardinality(S)
    BY FS_CardinalityType, FS_Interval
  <1>1. \A s \in SUBSET S : IsFiniteSet(s) /\ Cardinality(s) \in Nat
    BY FS_Subset, FS_CardinalityType
  <1>2. {} \in U
    <2>1. Small(0) = {{}}
      BY <1>1, FS_EmptySet
    <2>2. Sums(f, {{}}, [s \in {{}} |-> 0])
      BY DEF Sums
    <2>3. Cardinality({}) = 0
      BY FS_EmptySet
    <2> QED
      BY <2>1, <2>2, <2>3
  <1>3. ASSUME NEW N \in SUBSET (1..Cardinality(S)),
               NEW i \in (1..Cardinality(S)) \ N, N \in U
        PROVE  N \cup {i} \in U
    <2> DEFINE n == Cardinality(N)
    <2>1. IsFiniteSet(N) /\ n \in Nat /\ Cardinality(N \cup {i}) = n + 1
      BY <1>0, FS_Subset, FS_CardinalityType, FS_AddElement
    <2>2. PICK g : Sums(f, Small(n), g)
      BY <1>3
    <2> DEFINE h == [s \in Small(n + 1) |->
                       IF s = {} THEN 0 ELSE f[Pick(s)] + g[s \ {Pick(s)}]]
    <2>3. ASSUME NEW s \in Small(n + 1), s # {}
          PROVE  g[s \ {Pick(s)}] = h[s \ {Pick(s)}]
      <3> DEFINE t == s \ {Pick(s)}
      <3>1. Pick(s) \in s
        BY <2>3, PickIn
      <3>2. Cardinality(t) = Cardinality(s) - 1
        BY <1>1, <3>1, FS_RemoveElement
      <3>3. t \in Small(n) /\ t \in Small(n + 1)
        BY <1>1, <2>1, <3>2
      <3>4. g[t] = IF t = {} THEN 0 ELSE f[Pick(t)] + g[t \ {Pick(t)}]
        <4> HIDE DEF t
        <4> QED
          BY <2>2, <3>3 DEF Sums
      <3> QED
        BY <3>3, <3>4
    <2>4. Sums(f, Small(n + 1), h)
      BY <2>3 DEF Sums
    <2> QED
      BY <2>1, <2>4
  <1>4. 1..Cardinality(S) \in U
    <2> HIDE DEF U
    <2> QED
      BY <1>0, <1>2, <1>3, ElementInduction
  <1>5. Small(Cardinality(S)) = SUBSET S
    BY FS_Subset
  <1> QED
    BY <1>0, <1>4, <1>5 DEF SumsWithin

\* Sums are the same in every family that has the smaller sets.
LEMMA SumsAgree ==
    ASSUME NEW f, NEW S, IsFiniteSet(S), NEW T \in SUBSET S,
           NEW g, SumsWithin(f, S, g), NEW h, SumsWithin(f, T, h)
    PROVE  g[T] = h[T]
  <1> DEFINE U == {s \in SUBSET T : g[s] = h[s]}
  <1>1. IsFiniteSet(T)
    BY FS_Subset
  <1>2. ASSUME NEW s \in SUBSET T, \A v \in SUBSET s : v # s => v \in U
        PROVE  s \in U
    <2>1. CASE s = {}
      BY <2>1 DEF SumsWithin, Sums
    <2>2. CASE s # {}
      <3>1. Pick(s) \in s
        BY <2>2, PickIn
      <3>2. s \ {Pick(s)} \in U
        BY <1>2, <3>1
      <3>3. /\ g[s] = f[Pick(s)] + g[s \ {Pick(s)}]
            /\ h[s] = f[Pick(s)] + h[s \ {Pick(s)}]
        BY <2>2 DEF SumsWithin, Sums
      <3> QED
        BY <3>2, <3>3
    <2> QED
      BY <2>1, <2>2
  <1>3. \A s \in SUBSET T : s \in U
    <2> HIDE DEF U
    <2> QED
      BY <1>1, <1>2, SubsetInduction
  <1> QED
    BY <1>3

LEMMA SumPicked ==
    ASSUME NEW f, NEW S, IsFiniteSet(S), S # {}
    PROVE  SumFunctionOnSet(f, S) =
             f[Pick(S)] + SumFunctionOnSet(f, S \ {Pick(S)})
  <1> DEFINE T == S \ {Pick(S)}
             g == CHOOSE x : SumsWithin(f, S, x)
             h == CHOOSE x : SumsWithin(f, T, x)
  <1>1. IsFiniteSet(T)
    BY FS_RemoveElement
  <1>2. SumsWithin(f, S, g) /\ SumsWithin(f, T, h)
    <2> HIDE DEF T
    <2> QED
      BY <1>1, SumsExist
  <1>3. g[S] = f[Pick(S)] + g[T]
    BY <1>2 DEF SumsWithin, Sums
  <1>4. g[T] = h[T]
    <2>1. T \in SUBSET S
      OBVIOUS
    <2> HIDE DEF g, h, T
    <2> QED
      BY <1>2, <2>1, SumsAgree
  <1>5. SumFunctionOnSet(f, S) = g[S] /\ SumFunctionOnSet(f, T) = h[T]
    BY SumIsRecursive
  <1> QED
    BY <1>3, <1>4, <1>5

LEMMA SumFunctionIs == \A f : SumFunction(f) = SumFunctionOnSet(f, DOMAIN f)
  BY DEF SumFunction

LEMMA SumEmpty == ASSUME NEW f PROVE SumFunctionOnSet(f, {}) = 0
  <1> DEFINE g == CHOOSE x : SumsWithin(f, {}, x)
  <1>1. SumsWithin(f, {}, g)
    BY FS_EmptySet, SumsExist
  <1>2. g[{}] = 0
    <2> HIDE DEF g
    <2> QED
      BY <1>1 DEF SumsWithin, Sums
  <1> QED
    BY <1>2, SumIsRecursive

-----------------------------------------------------------------------------
(* Sums of natural numbers.                                                *)

LEMMA SumType ==
    ASSUME NEW f, NEW S, IsFiniteSet(S), \A x \in S : f[x] \in Nat
    PROVE  SumFunctionOnSet(f, S) \in Nat
  <1> DEFINE U == {T \in SUBSET S : SumFunctionOnSet(f, T) \in Nat}
  <1>1. ASSUME NEW T \in SUBSET S, \A V \in SUBSET T : V # T => V \in U
        PROVE  T \in U
    <2>1. CASE T = {}
      BY <2>1, SumEmpty
    <2>2. CASE T # {}
      <3>1. Pick(T) \in T /\ IsFiniteSet(T)
        BY <2>2, PickIn, FS_Subset
      <3>2. T \ {Pick(T)} \in U
        BY <1>1, <3>1
      <3>3. f[Pick(T)] \in Nat
        BY <3>1
      <3> QED
        BY <2>2, <3>1, <3>2, <3>3, SumPicked
    <2> QED
      BY <2>1, <2>2
  <1>2. \A T \in SUBSET S : T \in U
    <2> HIDE DEF U
    <2> QED
      BY <1>1, SubsetInduction
  <1> QED
    BY <1>2

\* Any element may be the one that is taken first.
LEMMA SumRemove ==
    ASSUME NEW f, NEW S, IsFiniteSet(S), \A x \in S : f[x] \in Nat, NEW x \in S
    PROVE  SumFunctionOnSet(f, S) = f[x] + SumFunctionOnSet(f, S \ {x})
  <1> DEFINE Sum(T) == SumFunctionOnSet(f, T)
             U == {T \in SUBSET S : \A y \in T : Sum(T) = f[y] + Sum(T \ {y})}
  <1>1. \A T \in SUBSET S : IsFiniteSet(T) /\ Sum(T) \in Nat
    BY SumType, FS_Subset
  <1>2. ASSUME NEW T \in SUBSET S, \A V \in SUBSET T : V # T => V \in U
        PROVE  T \in U
    <2> SUFFICES ASSUME NEW y \in T
                 PROVE  Sum(T) = f[y] + Sum(T \ {y})
      OBVIOUS
    <2> DEFINE z == Pick(T)
    <2>1. z \in T
      BY PickIn
    <2>2. Sum(T) = f[z] + Sum(T \ {z})
      BY <1>1, SumPicked
    <2>3. CASE y # z
      <3>1. T \ {z} \in U /\ T \ {y} \in U
        BY <1>2, <2>1
      <3>2. Sum(T \ {z}) = f[y] + Sum((T \ {z}) \ {y})
        BY <2>3, <3>1
      <3>3. Sum(T \ {y}) = f[z] + Sum((T \ {y}) \ {z})
        BY <2>1, <2>3, <3>1
      <3>4. (T \ {z}) \ {y} = (T \ {y}) \ {z}
        OBVIOUS
      <3>5. /\ f[y] \in Nat /\ f[z] \in Nat
            /\ Sum((T \ {z}) \ {y}) \in Nat
        BY <1>1, <2>1
      <3>6. \A a, b, c, d, e, s : /\ a \in Nat /\ b \in Nat /\ c \in Nat
                                 /\ s = b + d /\ d = a + c /\ e = b + c
                                 => s = a + e
        OBVIOUS
      <3> HIDE DEF z, Sum
      <3> QED
        BY <2>2, <3>2, <3>3, <3>4, <3>5, <3>6
    <2> QED
      BY <2>2, <2>3
  <1>3. \A T \in SUBSET S : T \in U
    <2> HIDE DEF U
    <2> QED
      BY <1>2, SubsetInduction
  <1> QED
    BY <1>3

LEMMA SumAdd ==
    ASSUME NEW f, NEW S, IsFiniteSet(S), NEW x, x \notin S,
           \A y \in S \cup {x} : f[y] \in Nat
    PROVE  SumFunctionOnSet(f, S \cup {x}) = f[x] + SumFunctionOnSet(f, S)
  <1>1. (S \cup {x}) \ {x} = S
    OBVIOUS
  <1> QED
    BY <1>1, SumRemove, FS_AddElement

LEMMA SumSingleton ==
    ASSUME NEW f, NEW x, f[x] \in Nat
    PROVE  SumFunctionOnSet(f, {x}) = f[x]
  <1>1. SumFunctionOnSet(f, {} \cup {x}) = f[x] + SumFunctionOnSet(f, {})
    BY FS_EmptySet, SumAdd
  <1>2. {} \cup {x} = {x}
    OBVIOUS
  <1> QED
    BY <1>1, <1>2, SumEmpty

\* A sum depends on the values it adds up.
LEMMA SumMonotone ==
    ASSUME NEW S, IsFiniteSet(S),
           NEW f, \A x \in S : f[x] \in Nat,
           NEW g, \A x \in S : g[x] \in Nat,
           \A x \in S : f[x] <= g[x]
    PROVE  SumFunctionOnSet(f, S) <= SumFunctionOnSet(g, S)
  <1> DEFINE U == {T \in SUBSET S : SumFunctionOnSet(f, T) <= SumFunctionOnSet(g, T)}
  <1>1. {} \in U
    BY SumEmpty
  <1>2. ASSUME NEW T \in SUBSET S, NEW x \in S \ T, T \in U
        PROVE  T \cup {x} \in U
    <2>1. IsFiniteSet(T)
      BY FS_Subset
    <2>2. /\ SumFunctionOnSet(f, T \cup {x}) = f[x] + SumFunctionOnSet(f, T)
          /\ SumFunctionOnSet(g, T \cup {x}) = g[x] + SumFunctionOnSet(g, T)
      BY <2>1, SumAdd
    <2>3. SumFunctionOnSet(f, T) \in Nat /\ SumFunctionOnSet(g, T) \in Nat
      BY <2>1, SumType
    <2>4. f[x] \in Nat /\ g[x] \in Nat /\ f[x] <= g[x]
      OBVIOUS
    <2> QED
      BY <1>2, <2>2, <2>3, <2>4
  <1>3. S \in U
    <2> HIDE DEF U
    <2> QED
      BY <1>1, <1>2, ElementInduction
  <1> QED
    BY <1>3

LEMMA SumSame ==
    ASSUME NEW S, IsFiniteSet(S),
           NEW f, NEW g, \A x \in S : f[x] \in Nat /\ f[x] = g[x]
    PROVE  SumFunctionOnSet(f, S) = SumFunctionOnSet(g, S)
  <1>1. /\ SumFunctionOnSet(f, S) <= SumFunctionOnSet(g, S)
        /\ SumFunctionOnSet(g, S) <= SumFunctionOnSet(f, S)
    BY SumMonotone
  <1>2. SumFunctionOnSet(f, S) \in Nat /\ SumFunctionOnSet(g, S) \in Nat
    BY SumType
  <1> QED
    BY <1>1, <1>2

\* The sum over a set of sets none of which overlap is that of their sums; here
\* for two.
LEMMA SumUnion ==
    ASSUME NEW f, NEW S, IsFiniteSet(S), NEW T, IsFiniteSet(T), S \cap T = {},
           \A x \in S \cup T : f[x] \in Nat
    PROVE  SumFunctionOnSet(f, S \cup T) = SumFunctionOnSet(f, S) + SumFunctionOnSet(f, T)
  <1> DEFINE U == {V \in SUBSET T : SumFunctionOnSet(f, S \cup V) =
                      SumFunctionOnSet(f, S) + SumFunctionOnSet(f, V)}
  <1>1. {} \in U
    <2>1. S \cup {} = S
      OBVIOUS
    <2> QED
      BY <2>1, SumEmpty, SumType
  <1>2. ASSUME NEW V \in SUBSET T, NEW x \in T \ V, V \in U
        PROVE  V \cup {x} \in U
    <2>1. IsFiniteSet(V) /\ IsFiniteSet(S \cup V)
      BY FS_Subset, FS_Union
    <2>2. SumFunctionOnSet(f, V \cup {x}) = f[x] + SumFunctionOnSet(f, V)
      BY <2>1, SumAdd
    <2>3. SumFunctionOnSet(f, (S \cup V) \cup {x}) = f[x] + SumFunctionOnSet(f, S \cup V)
      BY <2>1, SumAdd
    <2>4. S \cup (V \cup {x}) = (S \cup V) \cup {x}
      OBVIOUS
    <2>5. SumFunctionOnSet(f, V) \in Nat /\ SumFunctionOnSet(f, S) \in Nat
      BY <2>1, SumType
    <2> QED
      BY <1>2, <2>2, <2>3, <2>4, <2>5
  <1>3. T \in U
    <2> HIDE DEF U
    <2> QED
      BY <1>1, <1>2, ElementInduction
  <1> QED
    BY <1>3

LEMMA SumSubset ==
    ASSUME NEW f, NEW S, IsFiniteSet(S), NEW T \in SUBSET S,
           \A x \in S : f[x] \in Nat
    PROVE  SumFunctionOnSet(f, T) <= SumFunctionOnSet(f, S)
  <1>1. S = T \cup (S \ T) /\ T \cap (S \ T) = {}
    OBVIOUS
  <1>2. IsFiniteSet(T) /\ IsFiniteSet(S \ T)
    BY FS_Subset
  <1>3. /\ SumFunctionOnSet(f, S) = SumFunctionOnSet(f, T) + SumFunctionOnSet(f, S \ T)
        /\ SumFunctionOnSet(f, T) \in Nat /\ SumFunctionOnSet(f, S \ T) \in Nat
    BY <1>1, <1>2, SumUnion, SumType
  <1> QED
    BY <1>3

LEMMA SumZero ==
    ASSUME NEW f, NEW S, IsFiniteSet(S), \A x \in S : f[x] \in Nat
    PROVE  SumFunctionOnSet(f, S) = 0 <=> \A x \in S : f[x] = 0
  <1>1. ASSUME SumFunctionOnSet(f, S) = 0, NEW x \in S
        PROVE  f[x] = 0
    <2>1. SumFunctionOnSet(f, S) = f[x] + SumFunctionOnSet(f, S \ {x})
      BY SumRemove
    <2>2. SumFunctionOnSet(f, S \ {x}) \in Nat
      BY SumType, FS_RemoveElement
    <2> QED
      BY <1>1, <2>1, <2>2
  <1>2. ASSUME \A x \in S : f[x] = 0
        PROVE  SumFunctionOnSet(f, S) = 0
    <2> DEFINE U == {T \in SUBSET S : SumFunctionOnSet(f, T) = 0}
    <2>1. {} \in U
      BY SumEmpty
    <2>2. ASSUME NEW T \in SUBSET S, NEW x \in S \ T, T \in U
          PROVE  T \cup {x} \in U
      BY <1>2, <2>2, SumAdd, FS_Subset
    <2>3. S \in U
      <3> HIDE DEF U
      <3> QED
        BY <2>1, <2>2, ElementInduction
    <2> QED
      BY <2>3
  <1> QED
    BY <1>1, <1>2

\* A sum of numbers none of which is above m is at most m for each.
LEMMA SumBounded ==
    ASSUME NEW f, NEW S, IsFiniteSet(S), NEW m \in Nat,
           \A x \in S : f[x] \in Nat /\ f[x] <= m
    PROVE  SumFunctionOnSet(f, S) <= Cardinality(S) * m
  <1> DEFINE U == {T \in SUBSET S : SumFunctionOnSet(f, T) <= Cardinality(T) * m}
  <1>1. {} \in U
    BY SumEmpty, FS_EmptySet
  <1>2. ASSUME NEW T \in SUBSET S, NEW x \in S \ T, T \in U
        PROVE  T \cup {x} \in U
    <2>1. IsFiniteSet(T)
      BY FS_Subset
    <2> DEFINE n == Cardinality(T)
    <2>2. n \in Nat /\ Cardinality(T \cup {x}) = n + 1
      BY <2>1, FS_CardinalityType, FS_AddElement
    <2>3. /\ SumFunctionOnSet(f, T \cup {x}) = f[x] + SumFunctionOnSet(f, T)
          /\ SumFunctionOnSet(f, T) \in Nat
      BY <2>1, SumAdd, SumType
    <2>4. (n + 1) * m = n * m + m /\ n * m \in Nat
      <3> HIDE DEF n
      <3> QED
        BY <2>2
    <2>5. f[x] \in Nat /\ f[x] <= m /\ SumFunctionOnSet(f, T) <= n * m
      BY <1>2
    <2>6. SumFunctionOnSet(f, T \cup {x}) <= (n + 1) * m
      <3> HIDE DEF n
      <3> QED
        BY <2>3, <2>4, <2>5
    <2> QED
      BY <2>2, <2>6
  <1>3. S \in U
    <2> HIDE DEF U
    <2> QED
      BY <1>1, <1>2, ElementInduction
  <1> QED
    BY <1>3

\* ... and one of numbers none of which is below m is at least m for each.
LEMMA SumAtLeast ==
    ASSUME NEW f, NEW S, IsFiniteSet(S), NEW m \in Nat,
           \A x \in S : f[x] \in Nat /\ m <= f[x]
    PROVE  Cardinality(S) * m <= SumFunctionOnSet(f, S)
  <1> DEFINE U == {T \in SUBSET S : Cardinality(T) * m <= SumFunctionOnSet(f, T)}
  <1>1. {} \in U
    BY SumEmpty, FS_EmptySet
  <1>2. ASSUME NEW T \in SUBSET S, NEW x \in S \ T, T \in U
        PROVE  T \cup {x} \in U
    <2>1. IsFiniteSet(T)
      BY FS_Subset
    <2> DEFINE n == Cardinality(T)
    <2>2. n \in Nat /\ Cardinality(T \cup {x}) = n + 1
      BY <2>1, FS_CardinalityType, FS_AddElement
    <2>3. /\ SumFunctionOnSet(f, T \cup {x}) = f[x] + SumFunctionOnSet(f, T)
          /\ SumFunctionOnSet(f, T) \in Nat
      BY <2>1, SumAdd, SumType
    <2>4. (n + 1) * m = n * m + m /\ n * m \in Nat
      <3> HIDE DEF n
      <3> QED
        BY <2>2
    <2>5. f[x] \in Nat /\ m <= f[x] /\ n * m <= SumFunctionOnSet(f, T)
      BY <1>2
    <2>6. (n + 1) * m <= SumFunctionOnSet(f, T \cup {x})
      <3> HIDE DEF n
      <3> QED
        BY <2>3, <2>4, <2>5
    <2> QED
      BY <2>2, <2>6
  <1>3. S \in U
    <2> HIDE DEF U
    <2> QED
      BY <1>1, <1>2, ElementInduction
  <1> QED
    BY <1>3

LEMMA SumElement ==
    ASSUME NEW f, NEW S, IsFiniteSet(S), \A x \in S : f[x] \in Nat, NEW x \in S
    PROVE  f[x] <= SumFunctionOnSet(f, S)
  <1>1. SumFunctionOnSet(f, S \ {x}) \in Nat
    BY SumType, FS_RemoveElement
  <1> QED
    BY <1>1, SumRemove

\* Zeros may be left out.
LEMMA SumSupport ==
    ASSUME NEW f, NEW S, IsFiniteSet(S), NEW T \in SUBSET S,
           \A x \in T : f[x] \in Nat, \A x \in S \ T : f[x] = 0
    PROVE  SumFunctionOnSet(f, S) = SumFunctionOnSet(f, T)
  <1>1. S = T \cup (S \ T) /\ T \cap (S \ T) = {} /\ \A x \in S : f[x] \in Nat
    OBVIOUS
  <1>2. IsFiniteSet(T) /\ IsFiniteSet(S \ T)
    BY FS_Subset
  <1>3. /\ SumFunctionOnSet(f, S) = SumFunctionOnSet(f, T) + SumFunctionOnSet(f, S \ T)
        /\ SumFunctionOnSet(f, T) \in Nat
    BY <1>1, <1>2, SumUnion, SumType
  <1>4. SumFunctionOnSet(f, S \ T) = 0
    BY <1>1, <1>2, SumZero
  <1> QED
    BY <1>3, <1>4

-----------------------------------------------------------------------------
(* Images, maxima and quotients.                                           *)

LEMMA FiniteImage ==
    ASSUME NEW S, IsFiniteSet(S), NEW b
    PROVE  IsFiniteSet({b[x] : x \in S})
  <1> DEFINE T == {b[x] : x \in S}
             c == [x \in S |-> b[x]]
  <1>1. c \in Surjection(S, T)
    BY DEF Surjection
  <1> QED
    BY <1>1, FS_Surjection

\* A sum over an image, none of whose elements has two origins.
LEMMA SumImage ==
    ASSUME NEW S, IsFiniteSet(S), NEW b,
           \A x \in S : \A y \in S : b[x] = b[y] => x = y,
           NEW f, NEW g, \A x \in S : f[x] \in Nat /\ g[b[x]] = f[x],
           NEW V, V = {b[x] : x \in S}
    PROVE  /\ Cardinality(V) = Cardinality(S)
           /\ SumFunctionOnSet(g, V) = SumFunctionOnSet(f, S)
  <1> DEFINE Image(T) == {b[x] : x \in T}
             U == {T \in SUBSET S :
                     /\ Cardinality(Image(T)) = Cardinality(T)
                     /\ SumFunctionOnSet(g, Image(T)) = SumFunctionOnSet(f, T)}
  <1>1. {} \in U
    <2>1. Image({}) = {}
      OBVIOUS
    <2> QED
      BY <2>1, SumEmpty
  <1>2. ASSUME NEW T \in SUBSET S, NEW x \in S \ T, T \in U
        PROVE  T \cup {x} \in U
    <2>1. IsFiniteSet(T) /\ IsFiniteSet(Image(T))
      <3>1. IsFiniteSet(T)
        BY FS_Subset
      <3> QED
        BY <3>1, FiniteImage
    <2>2. Image(T \cup {x}) = Image(T) \cup {b[x]} /\ b[x] \notin Image(T)
      BY <1>2
    <2>3. \A y \in Image(T) \cup {b[x]} : g[y] \in Nat
      OBVIOUS
    <2>4. Cardinality(Image(T \cup {x})) = Cardinality(T \cup {x})
      <3>1. Cardinality(Image(T)) = Cardinality(T)
        BY <1>2
      <3> HIDE DEF Image
      <3>2. Cardinality(Image(T) \cup {b[x]}) = Cardinality(Image(T)) + 1
        BY <2>1, <2>2, FS_AddElement
      <3>3. Cardinality(T \cup {x}) = Cardinality(T) + 1
        BY <2>1, FS_AddElement
      <3> QED
        BY <2>2, <3>1, <3>2, <3>3
    <2>5. SumFunctionOnSet(f, T \cup {x}) = f[x] + SumFunctionOnSet(f, T)
      BY <2>1, SumAdd
    <2>6. SumFunctionOnSet(g, Image(T) \cup {b[x]}) = g[b[x]] + SumFunctionOnSet(g, Image(T))
      <3> HIDE DEF Image
      <3> QED
        BY <2>1, <2>2, <2>3, SumAdd
    <2> QED
      BY <1>2, <2>2, <2>4, <2>5, <2>6
  <1>3. S \in U
    <2> HIDE DEF U
    <2> QED
      BY <1>1, <1>2, ElementInduction
  <1> QED
    BY <1>3

LEMMA MaxExists ==
    ASSUME NEW S, IsFiniteSet(S), S # {}, S \subseteq Nat
    PROVE  \E x \in S : \A y \in S : x >= y
  <1> DEFINE U == {T \in SUBSET S : T = {} \/ \E x \in T : \A y \in T : x >= y}
  <1>1. {} \in U
    OBVIOUS
  <1>2. ASSUME NEW T \in SUBSET S, NEW z \in S \ T, T \in U
        PROVE  T \cup {z} \in U
    <2>1. CASE T = {}
      BY <2>1
    <2>2. ASSUME NEW x \in T, \A y \in T : x >= y
          PROVE  T \cup {z} \in U
      <3>1. CASE x >= z
        BY <2>2, <3>1
      <3>2. CASE z >= x
        BY <2>2, <3>2
      <3> QED
        BY <3>1, <3>2
    <2> QED
      BY <1>2, <2>1, <2>2
  <1>3. S \in U
    <2> HIDE DEF U
    <2> QED
      BY <1>1, <1>2, ElementInduction
  <1> QED
    BY <1>3

LEMMA MinExists ==
    ASSUME NEW S, IsFiniteSet(S), S # {}, S \subseteq Nat
    PROVE  \E x \in S : \A y \in S : x <= y
  <1> DEFINE U == {T \in SUBSET S : T = {} \/ \E x \in T : \A y \in T : x <= y}
  <1>1. {} \in U
    OBVIOUS
  <1>2. ASSUME NEW T \in SUBSET S, NEW z \in S \ T, T \in U
        PROVE  T \cup {z} \in U
    <2>1. CASE T = {}
      BY <2>1
    <2>2. ASSUME NEW x \in T, \A y \in T : x <= y
          PROVE  T \cup {z} \in U
      <3>1. CASE x <= z
        BY <2>2, <3>1
      <3>2. CASE z <= x
        BY <2>2, <3>2
      <3> QED
        BY <3>1, <3>2
    <2> QED
      BY <1>2, <2>1, <2>2
  <1>3. S \in U
    <2> HIDE DEF U
    <2> QED
      BY <1>1, <1>2, ElementInduction
  <1> QED
    BY <1>3

LEMMA MaxIs ==
    ASSUME NEW S, IsFiniteSet(S), S # {}, S \subseteq Nat
    PROVE  Max(S) \in S /\ \A y \in S : y <= Max(S)
  BY MaxExists DEF Max

LEMMA MinIs ==
    ASSUME NEW S, IsFiniteSet(S), S # {}, S \subseteq Nat
    PROVE  Min(S) \in S /\ \A y \in S : Min(S) <= y
  BY MinExists DEF Min

LEMMA Quotients ==
    ASSUME NEW a \in Nat, NEW d \in Nat \ {0}, NEW m \in Nat
    PROVE  /\ a \div d \in Nat
           /\ a <= d * m => a \div d <= m
           /\ d * m <= a => m <= a \div d
  OBVIOUS

LEMMA QuotientMonotone ==
    ASSUME NEW a \in Nat, NEW b \in Nat, a <= b, NEW d \in Nat \ {0}
    PROVE  a \div d <= b \div d
  OBVIOUS
=============================================================================
