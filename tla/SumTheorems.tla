------------------------------ MODULE SumTheorems ------------------------------
(***************************************************************************)
(* Sums over finite sets.  MapThenSumSet takes the elements in the order   *)
(* CHOOSE gives them; shown here is that it depends on the elements only,  *)
(* and how it changes with one of them.  The induction over the size of a  *)
(* set is stated about sets of sets, so that it can be cited by name, and  *)
(* the summand is a function rather than an operator for the same reason.  *)
(***************************************************************************)
EXTENDS Integers, FiniteSetsExt, FiniteSetTheorems, TLAPS

\* What a sum of integers amounts to, when f has a value for each x of S.
Sum(f, S) == MapThenSumSet(LAMBDA x : f[x], S)

Summable(f, S) == IsFiniteSet(S) /\ \A x \in S : f[x] \in Int

-----------------------------------------------------------------------------
(***************************************************************************)
(* Induction.                                                              *)
(***************************************************************************)

\* A set of naturals that is not empty has a least element.
LEMMA LeastNatural ==
    ASSUME NEW T \in SUBSET Nat, T # {}
    PROVE  \E m \in T : \A k \in T : m <= k
  <1> DEFINE R == OpToRel(<, Nat)
  <1>1. \E x \in T : \A y \in T : <<y, x>> \notin R
    <2>1. IsWellFoundedOn(R, Nat)
      BY NatLessThanWellFounded
    <2> HIDE DEF R
    <2> QED
      BY <2>1, WFMin
  <1>2. \A x, y \in Nat : y < x => <<y, x>> \in R
    BY DEF OpToRel
  <1> HIDE DEF R
  <1>3. PICK m \in T : \A y \in T : <<y, m>> \notin R
    BY <1>1
  <1>4. \A k \in T : m \in Nat /\ k \in Nat /\ ~(k < m)
    BY <1>2, <1>3
  <1>5. \A k \in T : m <= k
    BY <1>4
  <1> QED
    BY <1>5

\* Induction over the naturals, for a set of them.
LEMMA NaturalsReached ==
    ASSUME NEW N \in SUBSET Nat, 0 \in N, \A n \in N : n + 1 \in N
    PROVE  N = Nat
  <1>1. SUFFICES ASSUME Nat \ N # {} PROVE FALSE
    OBVIOUS
  <1>2. PICK m \in Nat \ N : \A k \in Nat \ N : m <= k
    BY <1>1, LeastNatural
  <1>3. m \in Nat /\ m # 0
    BY <1>2
  <1>4. m - 1 \in Nat /\ m - 1 \in N
    BY <1>2, <1>3
  <1>5. (m - 1) + 1 \in N
    BY <1>4
  <1>6. (m - 1) + 1 = m
    BY <1>3
  <1> QED
    BY <1>2, <1>5, <1>6

\* Induction over the subsets of a finite set: a claim that holds of a set
\* whenever it holds of its proper subsets holds of them all.
LEMMA SubsetsReached ==
    ASSUME NEW S, IsFiniteSet(S), NEW C,
           \A T \in SUBSET S : (\A U \in SUBSET T : U # T => U \in C) => T \in C
    PROVE  SUBSET S \subseteq C
  <1>1. SUFFICES ASSUME NEW T \in SUBSET S, T \notin C PROVE FALSE
    OBVIOUS
  <1> DEFINE Sizes == {Cardinality(U) : U \in {V \in SUBSET S : V \notin C}}
  <1>2. \A U \in SUBSET S : IsFiniteSet(U) /\ Cardinality(U) \in Nat
    BY FS_Subset, FS_CardinalityType
  <1>3. Sizes \in SUBSET Nat /\ Sizes # {}
    BY <1>1, <1>2
  <1>4. PICK m \in Sizes : \A k \in Sizes : m <= k
    <2> HIDE DEF Sizes
    <2> QED
      BY <1>3, LeastNatural
  <1>5. PICK U \in SUBSET S : U \notin C /\ m = Cardinality(U)
    BY <1>4
  <1>6. PICK V \in SUBSET U : V # U /\ V \notin C
    BY <1>5
  <1>7. V \in SUBSET S /\ Cardinality(V) \in Sizes
    BY <1>5, <1>6
  <1>8. Cardinality(V) <= Cardinality(U) /\ Cardinality(V) # Cardinality(U)
    BY <1>2, <1>5, <1>6, FS_Subset
  <1>9. m <= Cardinality(V)
    BY <1>4, <1>7
  <1> QED
    BY <1>2, <1>5, <1>7, <1>8, <1>9

\* The same, one element at a time.
LEMMA FiniteSetsReached ==
    ASSUME NEW S, IsFiniteSet(S), NEW C,
           {} \in C,
           \A T \in SUBSET S : \A x \in T : T \ {x} \in C => T \in C
    PROVE  SUBSET S \subseteq C
  <1>1. ASSUME NEW T \in SUBSET S, \A U \in SUBSET T : U # T => U \in C
        PROVE  T \in C
    <2>1. CASE T = {}
      BY <2>1
    <2>2. ASSUME NEW x \in T PROVE T \in C
      <3>1. T \ {x} \in SUBSET T /\ T \ {x} # T
        BY <2>2
      <3> QED
        BY <1>1, <2>2, <3>1
    <2> QED
      BY <2>1, <2>2
  <1> QED
    BY <1>1, SubsetsReached

-----------------------------------------------------------------------------
(***************************************************************************)
(* The function MapThenSumSet is computed with.                            *)
(***************************************************************************)

Pick(s) == CHOOSE x \in s : TRUE

\* g adds up, for each set in D, the summands of f in the order of Pick.
Adds(g, f, D) ==
    g = [s \in D |-> IF s = {} THEN 0 ELSE f[Pick(s)] + g[s \ {Pick(s)}]]

\* The element a sum takes next is one of the set.
LEMMA PickIn == \A s : s # {} => Pick(s) \in s
  BY DEF Pick

\* There is such a function: it is built up by the size of the sets.
LEMMA AddsExists ==
    ASSUME NEW S, IsFiniteSet(S), NEW f
    PROVE  \E g : Adds(g, f, SUBSET S)
  <1> DEFINE Layer(n) == {s \in SUBSET S : Cardinality(s) <= n}
             N == {n \in Nat : \E g : Adds(g, f, Layer(n))}
  <1>1. \A s \in SUBSET S : IsFiniteSet(s) /\ Cardinality(s) \in Nat /\ Cardinality(s) <= Cardinality(S)
    BY FS_Subset, FS_CardinalityType
  <1>2. \A s \in SUBSET S : Cardinality(s) = 0 <=> s = {}
    BY <1>1, FS_EmptySet
  <1>3. \A s \in SUBSET S : s # {} =>
            /\ s \ {Pick(s)} \in SUBSET S
            /\ Cardinality(s \ {Pick(s)}) = Cardinality(s) - 1
    BY <1>1, PickIn, FS_RemoveElement
  <1>4. 0 \in N
    <2>1. Layer(0) = {{}}
      <3>1. \A s \in SUBSET S : Cardinality(s) <= 0 <=> s = {}
        BY <1>1, <1>2
      <3> QED
        BY <3>1
    <2>2. Adds([s \in Layer(0) |-> 0], f, Layer(0))
      BY <2>1 DEF Adds
    <2> QED
      BY <2>2
  <1>5. ASSUME NEW n \in N PROVE n + 1 \in N
    <2>1. PICK g : Adds(g, f, Layer(n))
      OBVIOUS
    <2> DEFINE h == [s \in Layer(n + 1) |-> IF s = {} THEN 0 ELSE f[Pick(s)] + g[s \ {Pick(s)}]]
    <2>2. \A s \in Layer(n) : s \in Layer(n + 1)
      BY <1>1
    <2>3. \A s \in Layer(n) : h[s] = g[s]
      BY <2>1, <2>2 DEF Adds
    <2>4. \A s \in Layer(n + 1) : s # {} => s \ {Pick(s)} \in Layer(n)
      BY <1>1, <1>3
    <2>5. \A s \in Layer(n + 1) : s # {} => h[s \ {Pick(s)}] = g[s \ {Pick(s)}]
      BY <2>3, <2>4
    <2>6. h = [s \in Layer(n + 1) |-> IF s = {} THEN 0 ELSE f[Pick(s)] + h[s \ {Pick(s)}]]
      <3> HIDE DEF h
      <3> SUFFICES ASSUME NEW s \in Layer(n + 1)
                   PROVE  (IF s = {} THEN 0 ELSE f[Pick(s)] + g[s \ {Pick(s)}])
                            = (IF s = {} THEN 0 ELSE f[Pick(s)] + h[s \ {Pick(s)}])
        BY DEF h
      <3> QED
        BY <2>5
    <2>7. Adds(h, f, Layer(n + 1))
      <3> HIDE DEF h, Layer
      <3> QED
        BY <2>6 DEF Adds
    <2>8. n + 1 \in Nat
      OBVIOUS
    <2> QED
      BY <2>7, <2>8
  <1>6. N = Nat
    <2>1. N \in SUBSET Nat
      OBVIOUS
    <2> HIDE DEF N
    <2> QED
      BY <1>4, <1>5, <2>1, NaturalsReached
  <1>7. Cardinality(S) \in N
    BY <1>1, <1>6
  <1>8. Layer(Cardinality(S)) = SUBSET S
    BY <1>1
  <1> QED
    BY <1>7, <1>8

\* And only one, also when the sets come from a larger one.
LEMMA AddsUnique ==
    ASSUME NEW S, IsFiniteSet(S), NEW T \in SUBSET S, NEW e, NEW f, NEW g, NEW h,
           Adds(g, f, SUBSET S), Adds(h, e, SUBSET T), \A x \in T : e[x] = f[x]
    PROVE  \A U \in SUBSET T : g[U] = h[U]
  <1> DEFINE C == {U \in SUBSET T : g[U] = h[U]}
  <1>1. ASSUME NEW U \in SUBSET T, \A V \in SUBSET U : V # U => V \in C
        PROVE  U \in C
    <2>1. CASE U = {}
      BY <2>1 DEF Adds
    <2>2. CASE U # {}
      <3>1. Pick(U) \in U /\ U \ {Pick(U)} \in SUBSET U /\ U \ {Pick(U)} # U
        BY <2>2, PickIn
      <3>2. g[U \ {Pick(U)}] = h[U \ {Pick(U)}]
        BY <1>1, <3>1
      <3>3. g[U] = f[Pick(U)] + g[U \ {Pick(U)}]
        BY <2>2 DEF Adds
      <3>4. h[U] = e[Pick(U)] + h[U \ {Pick(U)}]
        BY <2>2 DEF Adds
      <3> QED
        BY <3>1, <3>2, <3>3, <3>4
    <2> QED
      BY <2>1, <2>2
  <1>2. IsFiniteSet(T)
    BY FS_Subset
  <1>3. SUBSET T \subseteq C
    <2> HIDE DEF C
    <2> QED
      BY <1>1, <1>2, SubsetsReached
  <1> QED
    BY <1>3

\* So the sum is what any such function says.
LEMMA SumIs ==
    ASSUME NEW S, IsFiniteSet(S), NEW e, NEW f, NEW g, Adds(g, f, SUBSET S),
           NEW T \in SUBSET S, \A x \in T : e[x] = f[x]
    PROVE  Sum(e, T) = g[T]
  <1> DEFINE h == CHOOSE a : Adds(a, e, SUBSET T)
  <1>1. Sum(e, T) = h[T]
    BY DEF Sum, MapThenSumSet, MapThenFoldSet, Adds, Pick
  <1>2. IsFiniteSet(T)
    BY FS_Subset
  <1>3. Adds(h, e, SUBSET T)
    BY <1>2, AddsExists
  <1> HIDE DEF h
  <1> QED
    BY <1>1, <1>3, AddsUnique, SMTT(30)

-----------------------------------------------------------------------------
(***************************************************************************)
(* Sums of integers.                                                       *)
(***************************************************************************)

\* The value does not depend on the order: any element can be taken first.
LEMMA AddsTakesAny ==
    ASSUME NEW S, NEW f, Summable(f, S), NEW g, Adds(g, f, SUBSET S)
    PROVE  \A T \in SUBSET S : g[T] \in Int /\ \A x \in T : g[T] = f[x] + g[T \ {x}]
  <1> DEFINE C == {T \in SUBSET S : g[T] \in Int /\ \A x \in T : g[T] = f[x] + g[T \ {x}]}
  <1>1. ASSUME NEW T \in SUBSET S, \A U \in SUBSET T : U # T => U \in C
        PROVE  T \in C
    <2> DEFINE y == Pick(T)
    <2>1. CASE T = {}
      BY <2>1 DEF Adds
    <2>2. CASE T # {}
      <3>1. y \in T /\ g[T] = f[y] + g[T \ {y}]
        BY <2>2, PickIn DEF Adds
      <3> HIDE DEF y
      <3>2. \A x \in T : f[x] \in Int /\ T \ {x} \in SUBSET T /\ T \ {x} # T
        BY DEF Summable
      <3>3. \A x \in T : T \ {x} \in C
        BY <1>1, <3>2
      <3>4. \A x \in T : g[T \ {x}] \in Int
        BY <3>3
      <3>5. ASSUME NEW x \in T, x # y PROVE g[T] = f[x] + g[T \ {x}]
        <4>1. x \in T \ {y} /\ y \in T \ {x} /\ (T \ {y}) \ {x} = (T \ {x}) \ {y}
          BY <3>1, <3>5
        <4>2. g[T \ {y}] = f[x] + g[(T \ {y}) \ {x}]
          BY <3>1, <3>3, <4>1
        <4>3. g[T \ {x}] = f[y] + g[(T \ {y}) \ {x}]
          BY <3>3, <4>1
        <4>4. (T \ {y}) \ {x} \in SUBSET T /\ (T \ {y}) \ {x} # T
          BY <3>5
        <4>5. g[(T \ {y}) \ {x}] \in Int
          BY <1>1, <4>4
        <4> QED
          BY <3>1, <3>2, <4>2, <4>3, <4>5
      <3>6. g[T] \in Int
        BY <3>1, <3>2, <3>4
      <3> QED
        BY <3>1, <3>5, <3>6
    <2> QED
      BY <2>1, <2>2
  <1>2. SUBSET S \subseteq C
    <2>1. IsFiniteSet(S)
      BY DEF Summable
    <2> HIDE DEF C
    <2> QED
      BY <1>1, <2>1, SubsetsReached
  <1> QED
    BY <1>2

\* The sum over no elements: the counters of a pool start from it.
THEOREM SumEmpty == \A f : Sum(f, {}) = 0
  <1>1. SUFFICES ASSUME NEW f PROVE Sum(f, {}) = 0
    OBVIOUS
  <1>2. IsFiniteSet({})
    BY FS_EmptySet
  <1>3. PICK g : Adds(g, f, SUBSET {})
    BY <1>2, AddsExists
  <1>4. Sum(f, {}) = g[{}] /\ {} \in SUBSET {}
    BY <1>2, <1>3, SumIs
  <1> QED
    BY <1>3, <1>4 DEF Adds

\* Two functions that agree on a set have the same sum.
THEOREM SumSame ==
    ASSUME NEW S, IsFiniteSet(S), NEW e, NEW f, \A x \in S : e[x] = f[x]
    PROVE  Sum(e, S) = Sum(f, S)
  <1>1. PICK g : Adds(g, f, SUBSET S)
    BY AddsExists
  <1> QED
    BY <1>1, SumIs

\* A sum of integers is an integer.
THEOREM SumInt ==
    ASSUME NEW S, NEW f, Summable(f, S)
    PROVE  Sum(f, S) \in Int
  <1>1. IsFiniteSet(S)
    BY DEF Summable
  <1>2. PICK g : Adds(g, f, SUBSET S)
    BY <1>1, AddsExists
  <1>3. Sum(f, S) = g[S] /\ S \in SUBSET S
    BY <1>1, <1>2, SumIs
  <1> QED
    BY <1>2, <1>3, AddsTakesAny

\* One element taken out.
THEOREM SumTake ==
    ASSUME NEW S, NEW f, Summable(f, S), NEW x \in S
    PROVE  /\ Summable(f, S \ {x})
           /\ f[x] \in Int
           /\ Sum(f, S \ {x}) \in Int
           /\ Sum(f, S) = f[x] + Sum(f, S \ {x})
  <1>1. IsFiniteSet(S) /\ S \ {x} \in SUBSET S /\ S \in SUBSET S
    BY DEF Summable
  <1>2. PICK g : Adds(g, f, SUBSET S)
    BY <1>1, AddsExists
  <1>3. Sum(f, S) = g[S] /\ Sum(f, S \ {x}) = g[S \ {x}]
    BY <1>1, <1>2, SumIs
  <1>4. g[S] = f[x] + g[S \ {x}]
    BY <1>1, <1>2, AddsTakesAny
  <1>5. Summable(f, S \ {x}) /\ f[x] \in Int
    BY <1>1, FS_Subset DEF Summable
  <1> QED
    BY <1>3, <1>4, <1>5, SumInt

\* One element added.
THEOREM SumAdd ==
    ASSUME NEW S, NEW f, Summable(f, S), NEW x, x \notin S, f[x] \in Int
    PROVE  /\ Summable(f, S \cup {x})
           /\ Sum(f, S) \in Int
           /\ Sum(f, S \cup {x}) = Sum(f, S) + f[x]
  <1>1. Summable(f, S \cup {x})
    BY FS_AddElement DEF Summable
  <1>2. (S \cup {x}) \ {x} = S
    OBVIOUS
  <1>3. Sum(f, S \cup {x}) = f[x] + Sum(f, S) /\ Sum(f, S) \in Int
    BY <1>1, <1>2, SumTake
  <1> QED
    BY <1>1, <1>3

\* One summand changed.
THEOREM SumChanged ==
    ASSUME NEW S, NEW e, NEW f, Summable(e, S), Summable(f, S), NEW x \in S,
           \A y \in S : y # x => e[y] = f[y]
    PROVE  Sum(e, S) = Sum(f, S) + (e[x] - f[x])
  <1>1. Sum(e, S \ {x}) = Sum(f, S \ {x})
    <2>1. IsFiniteSet(S \ {x})
      BY FS_Subset DEF Summable
    <2> QED
      BY <2>1, SumSame
  <1>2. /\ Sum(e, S) = e[x] + Sum(e, S \ {x})
        /\ Sum(f, S) = f[x] + Sum(f, S \ {x})
        /\ e[x] \in Int /\ f[x] \in Int /\ Sum(f, S \ {x}) \in Int
    BY SumTake
  <1> QED
    BY <1>1, <1>2

\* Larger summands, larger sum.
THEOREM SumAtMost ==
    ASSUME NEW S, NEW e, NEW f, Summable(e, S), Summable(f, S),
           \A x \in S : e[x] <= f[x]
    PROVE  Sum(e, S) <= Sum(f, S)
  <1> DEFINE C == {T \in SUBSET S : Sum(e, T) <= Sum(f, T)}
  <1>1. {} \in C
    BY SumEmpty
  <1>2. ASSUME NEW T \in SUBSET S, NEW x \in T, T \ {x} \in C
        PROVE  T \in C
    <2>1. Summable(e, T) /\ Summable(f, T)
      BY FS_Subset DEF Summable
    <2>2. /\ Sum(e, T) = e[x] + Sum(e, T \ {x})
          /\ Sum(f, T) = f[x] + Sum(f, T \ {x})
          /\ e[x] \in Int /\ f[x] \in Int
          /\ Sum(e, T \ {x}) \in Int /\ Sum(f, T \ {x}) \in Int
      BY <2>1, SumTake
    <2>3. Sum(e, T \ {x}) <= Sum(f, T \ {x}) /\ e[x] <= f[x]
      BY <1>2
    <2> QED
      BY <2>2, <2>3
  <1>3. SUBSET S \subseteq C
    <2>1. IsFiniteSet(S)
      BY DEF Summable
    <2> HIDE DEF C
    <2> QED
      BY <1>1, <1>2, <2>1, FiniteSetsReached
  <1> QED
    BY <1>3

\* Naturals: a part has at most the sum of the whole.
THEOREM SumOfPart ==
    ASSUME NEW S, NEW f, IsFiniteSet(S), \A x \in S : f[x] \in Nat, NEW T \in SUBSET S
    PROVE  /\ Sum(f, T) \in Nat /\ Sum(f, S) \in Nat
           /\ Sum(f, T) <= Sum(f, S)
  <1> DEFINE C == {U \in SUBSET S : \A V \in SUBSET U : 0 <= Sum(f, V) /\ Sum(f, V) <= Sum(f, U)}
  <1>0. \A U \in SUBSET S : Summable(f, U) /\ Sum(f, U) \in Int
    <2>1. \A U \in SUBSET S : Summable(f, U)
      BY FS_Subset DEF Summable
    <2> QED
      BY <2>1, SumInt
  <1>1. {} \in C
    <2>1. \A V \in SUBSET {} : V = {}
      OBVIOUS
    <2>2. Sum(f, {}) = 0
      BY SumEmpty
    <2> QED
      BY <2>1, <2>2
  <1>2. ASSUME NEW U \in SUBSET S, NEW x \in U, U \ {x} \in C
        PROVE  U \in C
    <2>1. Sum(f, U) = f[x] + Sum(f, U \ {x}) /\ f[x] \in Nat
      BY <1>0, SumTake
    <2>2. ASSUME NEW V \in SUBSET U, x \in V
          PROVE  0 <= Sum(f, V) /\ Sum(f, V) <= Sum(f, U)
      <3>1. V \in SUBSET S /\ V \ {x} \in SUBSET S /\ U \ {x} \in SUBSET S /\ V \ {x} \in SUBSET (U \ {x})
        OBVIOUS
      <3>2. Sum(f, V) = f[x] + Sum(f, V \ {x})
        BY <1>0, <2>2, <3>1, SumTake
      <3>3. 0 <= Sum(f, V \ {x}) /\ Sum(f, V \ {x}) <= Sum(f, U \ {x})
        BY <1>2, <3>1
      <3>4. Sum(f, V \ {x}) \in Int /\ Sum(f, U \ {x}) \in Int
        BY <1>0, <3>1
      <3> QED
        BY <2>1, <3>2, <3>3, <3>4
    <2>3. ASSUME NEW V \in SUBSET U, x \notin V
          PROVE  0 <= Sum(f, V) /\ Sum(f, V) <= Sum(f, U)
      <3>1. V \in SUBSET S /\ U \ {x} \in SUBSET S /\ V \in SUBSET (U \ {x})
        BY <2>3
      <3>2. 0 <= Sum(f, V) /\ Sum(f, V) <= Sum(f, U \ {x})
        BY <1>2, <3>1
      <3>3. Sum(f, V) \in Int /\ Sum(f, U \ {x}) \in Int
        BY <1>0, <3>1
      <3> QED
        BY <2>1, <3>2, <3>3
    <2> QED
      BY <2>2, <2>3
  <1>3. SUBSET S \subseteq C
    <2> HIDE DEF C
    <2> QED
      BY <1>1, <1>2, FiniteSetsReached
  <1>4. S \in C /\ S \in SUBSET S
    BY <1>3
  <1>5. 0 <= Sum(f, T) /\ Sum(f, T) <= Sum(f, S) /\ Sum(f, T) \in Int /\ Sum(f, S) \in Int
    BY <1>0, <1>4
  <1> QED
    BY <1>5

\* Two functions added.
THEOREM SumPlus ==
    ASSUME NEW S, NEW d, NEW e, NEW f, Summable(e, S), Summable(f, S),
           \A x \in S : d[x] = e[x] + f[x]
    PROVE  Summable(d, S) /\ Sum(d, S) = Sum(e, S) + Sum(f, S)
  <1> DEFINE C == {T \in SUBSET S : Sum(d, T) = Sum(e, T) + Sum(f, T)}
  <1>1. \A T \in SUBSET S : Summable(d, T) /\ Summable(e, T) /\ Summable(f, T)
    BY FS_Subset DEF Summable
  <1>2. {} \in C
    BY SumEmpty
  <1>3. ASSUME NEW T \in SUBSET S, NEW x \in T, T \ {x} \in C
        PROVE  T \in C
    <2>1. /\ Sum(d, T) = d[x] + Sum(d, T \ {x})
          /\ Sum(e, T) = e[x] + Sum(e, T \ {x})
          /\ Sum(f, T) = f[x] + Sum(f, T \ {x})
          /\ e[x] \in Int /\ Sum(e, T \ {x}) \in Int
          /\ f[x] \in Int /\ Sum(f, T \ {x}) \in Int
      BY <1>1, SumTake
    <2>2. Sum(d, T \ {x}) = Sum(e, T \ {x}) + Sum(f, T \ {x}) /\ d[x] = e[x] + f[x]
      BY <1>3
    <2> QED
      BY <2>1, <2>2
  <1>4. SUBSET S \subseteq C
    <2>1. IsFiniteSet(S)
      BY DEF Summable
    <2> HIDE DEF C
    <2> QED
      BY <1>2, <1>3, <2>1, FiniteSetsReached
  <1> QED
    BY <1>1, <1>4

\* A common factor.
THEOREM SumTimes ==
    ASSUME NEW S, NEW e, NEW f, Summable(f, S), NEW c \in Int,
           \A x \in S : e[x] = c * f[x]
    PROVE  Summable(e, S) /\ Sum(e, S) = c * Sum(f, S)
  <1> DEFINE C == {T \in SUBSET S : Sum(e, T) = c * Sum(f, T)}
  <1>1. \A T \in SUBSET S : Summable(e, T) /\ Summable(f, T)
    BY FS_Subset DEF Summable
  <1>2. {} \in C
    <2>1. Sum(e, {}) = 0 /\ Sum(f, {}) = 0
      BY SumEmpty
    <2>2. c * 0 = 0
      OBVIOUS
    <2> QED
      BY <2>1, <2>2
  <1>3. ASSUME NEW T \in SUBSET S, NEW x \in T, T \ {x} \in C
        PROVE  T \in C
    <2>1. /\ Sum(e, T) = e[x] + Sum(e, T \ {x})
          /\ Sum(f, T) = f[x] + Sum(f, T \ {x})
          /\ f[x] \in Int /\ Sum(f, T \ {x}) \in Int
      BY <1>1, SumTake
    <2>2. Sum(e, T \ {x}) = c * Sum(f, T \ {x}) /\ e[x] = c * f[x]
      BY <1>3
    <2>3. \A a, b \in Int : c * a + c * b = c * (a + b)
      OBVIOUS
    <2>4. c * f[x] + c * Sum(f, T \ {x}) = c * (f[x] + Sum(f, T \ {x}))
      BY <2>1, <2>3
    <2> QED
      BY <2>1, <2>2, <2>4
  <1>4. SUBSET S \subseteq C
    <2>1. IsFiniteSet(S)
      BY DEF Summable
    <2> HIDE DEF C
    <2> QED
      BY <1>2, <1>3, <2>1, FiniteSetsReached
  <1> QED
    BY <1>1, <1>4

\* The same added to every summand.
THEOREM SumShifted ==
    ASSUME NEW S, NEW e, NEW f, Summable(f, S), NEW c \in Int,
           \A x \in S : e[x] = f[x] + c
    PROVE  Summable(e, S) /\ Sum(e, S) = Sum(f, S) + c * Cardinality(S)
  <1> DEFINE C == {T \in SUBSET S : Sum(e, T) = Sum(f, T) + c * Cardinality(T)}
  <1>1. \A T \in SUBSET S : Summable(e, T) /\ Summable(f, T)
    BY FS_Subset DEF Summable
  <1>2. {} \in C
    <2>1. Sum(e, {}) = 0 /\ Sum(f, {}) = 0 /\ Cardinality({}) = 0
      BY SumEmpty, FS_EmptySet
    <2>2. c * 0 = 0
      OBVIOUS
    <2> QED
      BY <2>1, <2>2
  <1>3. ASSUME NEW T \in SUBSET S, NEW x \in T, T \ {x} \in C
        PROVE  T \in C
    <2>1. /\ Sum(e, T) = e[x] + Sum(e, T \ {x})
          /\ Sum(f, T) = f[x] + Sum(f, T \ {x})
          /\ f[x] \in Int /\ Sum(f, T \ {x}) \in Int
      BY <1>1, SumTake
    <2>2. PICK n \in Nat : n = Cardinality(T \ {x}) /\ Cardinality(T) = n + 1
      <3>1. IsFiniteSet(T) /\ IsFiniteSet(T \ {x})
        BY <1>1 DEF Summable
      <3>2. Cardinality(T \ {x}) = Cardinality(T) - 1 /\ Cardinality(T) \in Nat
            /\ Cardinality(T \ {x}) \in Nat
        BY <3>1, FS_RemoveElement, FS_CardinalityType
      <3> QED
        BY <3>2
    <2>3. Sum(e, T \ {x}) = Sum(f, T \ {x}) + c * n /\ e[x] = f[x] + c
      BY <1>3, <2>2
    <2>4. c * (n + 1) = c * n + c /\ c * n \in Int
      OBVIOUS
    <2> QED
      BY <2>1, <2>2, <2>3, <2>4
  <1>4. SUBSET S \subseteq C
    <2>1. IsFiniteSet(S)
      BY DEF Summable
    <2> HIDE DEF C
    <2> QED
      BY <1>2, <1>3, <2>1, FiniteSetsReached
  <1> QED
    BY <1>1, <1>4

\* The summands carried to another set by h, which names each once.
THEOREM SumOfImage ==
    ASSUME NEW S, NEW e, NEW f, NEW h, Summable(f, S),
           \A x, y \in S : h[x] = h[y] => x = y,
           \A x \in S : e[h[x]] = f[x]
    PROVE  LET I == {h[x] : x \in S} IN Summable(e, I) /\ Sum(e, I) = Sum(f, S)
  <1> DEFINE Image(T) == {h[x] : x \in T}
             C == {T \in SUBSET S : Summable(e, Image(T)) /\ Sum(e, Image(T)) = Sum(f, T)}
  <1>1. {} \in C
    <2>1. Image({}) = {} /\ Summable(e, {})
      BY FS_EmptySet DEF Summable
    <2> HIDE DEF Image
    <2>2. Sum(e, Image({})) = 0 /\ Sum(f, {}) = 0
      BY <2>1, SumEmpty
    <2> QED
      BY <2>1, <2>2
  <1>2. ASSUME NEW T \in SUBSET S, NEW x \in T, T \ {x} \in C
        PROVE  T \in C
    <2>1. h[x] \notin Image(T \ {x}) /\ Image(T) = Image(T \ {x}) \cup {h[x]}
      OBVIOUS
    <2>2. Summable(e, Image(T \ {x})) /\ Sum(e, Image(T \ {x})) = Sum(f, T \ {x})
      BY <1>2
    <2> HIDE DEF Image, C
    <2>3. Summable(f, T)
      BY FS_Subset DEF Summable
    <2>4. Sum(f, T) = f[x] + Sum(f, T \ {x}) /\ f[x] \in Int /\ Sum(f, T \ {x}) \in Int
      BY <2>3, SumTake
    <2>5. e[h[x]] = f[x]
      OBVIOUS
    <2>6. Summable(e, Image(T)) /\ Sum(e, Image(T)) = Sum(e, Image(T \ {x})) + e[h[x]]
      <3>1. PICK I : I = Image(T \ {x})
        OBVIOUS
      <3>2. PICK y : y = h[x]
        OBVIOUS
      <3>3. Summable(e, I) /\ y \notin I /\ e[y] \in Int
        BY <2>1, <2>2, <2>4, <2>5, <3>1, <3>2
      <3>4. Summable(e, I \cup {y}) /\ Sum(e, I \cup {y}) = Sum(e, I) + e[y]
        BY <3>3, SumAdd
      <3> QED
        BY <2>1, <3>1, <3>2, <3>4
    <2> QED
      BY <2>2, <2>4, <2>5, <2>6 DEF C
  <1>3. SUBSET S \subseteq C
    <2>1. IsFiniteSet(S)
      BY DEF Summable
    <2> HIDE DEF C
    <2> QED
      BY <1>1, <1>2, <2>1, FiniteSetsReached
  <1>4. S \in C
    BY <1>3
  <1> QED
    BY <1>4
=============================================================================
