------------------------------ MODULE SumProofs ------------------------------
(***************************************************************************)
(* What SumFunction of the community modules returns, for the theorems     *)
(* about the decision engine, which adds up the impacts of pending tasks   *)
(* and the observations of a task.                                         *)
(*                                                                         *)
(* A sum is a recursive function on the subsets of a finite set.  Each     *)
(* induction here is a least counterexample: a set of natural numbers that *)
(* is not empty has a least element, and so has a set of finite sets one   *)
(* of least cardinality.                                                   *)
(***************************************************************************)
EXTENDS Functions, FiniteSetTheorems, TLAPS

LEMMA LeastNatural ==
    ASSUME NEW T, T \subseteq Nat, T # {}
    PROVE  \E n \in T : \A m \in T : n <= m
  <1> DEFINE R == {ss \in Nat \X Nat : ss[1] < ss[2]}
  <1>1. IsWellFoundedOn(R, Nat)
    BY NatLessThanWellFounded DEF OpToRel
  <1>2. PICK n \in T : \A m \in T : <<m, n>> \notin R
    <2> HIDE DEF R
    <2> QED
      BY <1>1, WFMin
  <1>3. \A m \in T : ~(m < n)
    BY <1>2
  <1>4. QED
    BY <1>3

\* Of some finite sets, one that has no proper subset among them: without its
\* element x it is not one of them.
LEMMA SmallestSet ==
    ASSUME NEW F, F # {}, \A s \in F : IsFiniteSet(s)
    PROVE  \E s \in F : \A x \in s : s \ {x} \notin F
  <1> DEFINE N == {Cardinality(s) : s \in F}
  <1>1. \A s \in F : Cardinality(s) \in Nat
    BY FS_CardinalityType
  <1>2. N # {} /\ N \subseteq Nat
    BY <1>1
  <1>3. PICK n \in N : \A m \in N : n <= m
    <2> HIDE DEF N
    <2> QED
      BY <1>2, LeastNatural
  <1>4. PICK s \in F : Cardinality(s) = n
    BY <1>3
  <1>5. ASSUME NEW x \in s, s \ {x} \in F
        PROVE  FALSE
    <2>1. Cardinality(s \ {x}) = Cardinality(s) - 1
      BY FS_RemoveElement
    <2>2. n <= Cardinality(s \ {x})
      BY <1>3, <1>5
    <2>3. QED
      BY <1>1, <1>4, <2>1, <2>2
  <1>6. QED
    BY <1>5
-----------------------------------------------------------------------------
(* The recursion.                                                          *)

\* The element of a set that the sum takes first.
First(s) == CHOOSE x \in s : TRUE

LEMMA FirstIsIn == \A s : s # {} => First(s) \in s
  BY DEF First

\* One unfolding of the sum of fun over s, when sum gives those of smaller sets.
Unfold(fun, sum, s) == IF s = {} THEN 0 ELSE fun[First(s)] + sum[s \ {First(s)}]

\* The function that SumFunctionOnSet(fun, S) is a value of.
Sums(fun, S) ==
    CHOOSE sum : sum = [s \in SUBSET S |-> Unfold(fun, sum, s)]

LEMMA SumIsOfSums ==
    ASSUME NEW fun, NEW S
    PROVE  SumFunctionOnSet(fun, S) = Sums(fun, S)[S]
  BY DEF SumFunctionOnSet, FoldFunctionOnSet, MapThenFoldSet, Sums, Unfold, First

\* There is such a function: first of the sets with at most n elements.
LEMMA SumsUnfold ==
    ASSUME NEW fun, NEW S, IsFiniteSet(S)
    PROVE  \A s \in SUBSET S : Sums(fun, S)[s] = Unfold(fun, Sums(fun, S), s)
  <1> DEFINE UpTo(n) == {s \in SUBSET S : Cardinality(s) <= n}
             Good(n) == \E g : g = [s \in UpTo(n) |-> Unfold(fun, g, s)]
             Bad == {n \in Nat : ~Good(n)}
  <1>1. \A s \in SUBSET S : IsFiniteSet(s) /\ Cardinality(s) \in Nat
    BY FS_Subset, FS_CardinalityType
  <1>2. Good(0)
    <2> DEFINE g == [s \in UpTo(0) |-> 0]
    <2>1. \A s \in UpTo(0) : s = {}
      BY <1>1, FS_EmptySet
    <2>2. g = [s \in UpTo(0) |-> Unfold(fun, g, s)]
      BY <2>1 DEF Unfold
    <2>3. QED
      BY <2>2
  <1>3. ASSUME NEW n \in Nat, Good(n)
        PROVE  Good(n + 1)
    <2>1. PICK g : g = [s \in UpTo(n) |-> Unfold(fun, g, s)]
      BY <1>3
    <2> DEFINE h == [s \in UpTo(n + 1) |-> Unfold(fun, g, s)]
    <2>2. ASSUME NEW s \in UpTo(n)
          PROVE  h[s] = g[s]
      <3>1. s \in UpTo(n + 1)
        BY <1>1
      <3>2. QED
        BY <2>1, <3>1
    <2>3. ASSUME NEW s \in UpTo(n + 1), s # {}
          PROVE  s \ {First(s)} \in UpTo(n)
      <3>1. Cardinality(s \ {First(s)}) = Cardinality(s) - 1
        BY <1>1, <2>3, FirstIsIn, FS_RemoveElement
      <3>2. QED
        BY <1>1, <3>1
    <2>4. ASSUME NEW s \in UpTo(n + 1)
          PROVE  Unfold(fun, g, s) = Unfold(fun, h, s)
      <3> HIDE DEF h, UpTo
      <3>1. QED
        BY <2>2, <2>3 DEF Unfold
    <2>5. h = [s \in UpTo(n + 1) |-> Unfold(fun, h, s)]
      BY <2>4, Zenon
    <2>6. QED
      BY <2>5
  <1>4. Bad = {}
    <2> SUFFICES ASSUME Bad # {} PROVE FALSE
      OBVIOUS
    <2>1. PICK n \in Bad : \A m \in Bad : n <= m
      <3>1. Bad \subseteq Nat
        OBVIOUS
      <3> HIDE DEF Bad
      <3>2. QED
        BY <3>1, LeastNatural
    <2> HIDE DEF Good
    <2>2. n # 0 /\ n - 1 \in Nat /\ n \in Nat
      BY <1>2
    <2>3. Good(n - 1)
      BY <2>1, <2>2
    <2>4. Good((n - 1) + 1)
      BY <1>3, <2>2, <2>3
    <2>5. QED
      BY <2>2, <2>4
  <1>5. Good(Cardinality(S))
    BY <1>1, <1>4
  <1>6. UpTo(Cardinality(S)) = SUBSET S
    BY <1>1, FS_Subset
  <1>7. \E g : g = [s \in SUBSET S |-> Unfold(fun, g, s)]
    BY <1>5, <1>6
  <1> DEFINE g == Sums(fun, S)
  <1>8. g = [s \in SUBSET S |-> Unfold(fun, g, s)]
    BY <1>7 DEF Sums
  <1> HIDE DEF g
  <1>9. \A s \in SUBSET S : g[s] = Unfold(fun, g, s)
    BY <1>8
  <1>10. QED
    BY <1>9 DEF g

\* The sums over the subsets of T do not depend on the set T is taken from.
LEMMA SumsAgree ==
    ASSUME NEW fun, NEW S, IsFiniteSet(S), NEW T \in SUBSET S, NEW s \in SUBSET T
    PROVE  Sums(fun, T)[s] = Sums(fun, S)[s]
  <1> DEFINE F == {t \in SUBSET T : Sums(fun, T)[t] # Sums(fun, S)[t]}
  <1>1. IsFiniteSet(T) /\ \A t \in F : IsFiniteSet(t)
    BY FS_Subset
  <1>2. ASSUME NEW t \in SUBSET T, t # {} => t \ {First(t)} \notin F
        PROVE  t \notin F
    <2>1. Sums(fun, T)[t] = Unfold(fun, Sums(fun, T), t)
      BY <1>1, SumsUnfold
    <2>2. Sums(fun, S)[t] = Unfold(fun, Sums(fun, S), t)
      BY SumsUnfold
    <2>3. t # {} => Sums(fun, T)[t \ {First(t)}] = Sums(fun, S)[t \ {First(t)}]
      BY <1>2
    <2>4. Unfold(fun, Sums(fun, T), t) = Unfold(fun, Sums(fun, S), t)
      BY <2>3 DEF Unfold
    <2>5. QED
      BY <2>1, <2>2, <2>4
  <1>3. F = {}
    <2> SUFFICES ASSUME F # {} PROVE FALSE
      OBVIOUS
    <2>1. PICK t \in F : \A x \in t : t \ {x} \notin F
      <3> HIDE DEF F
      <3> QED
        BY <1>1, SmallestSet
    <2>2. t \in SUBSET T
      OBVIOUS
    <2> HIDE DEF F
    <2>3. QED
      BY <1>2, <2>1, <2>2, FirstIsIn
  <1>4. QED
    BY <1>3

\* A sum is 0 or its first term and the sum of the others.
LEMMA SumUnfolds ==
    ASSUME NEW fun, NEW S, IsFiniteSet(S)
    PROVE  /\ S = {} => SumFunctionOnSet(fun, S) = 0
           /\ S # {} => SumFunctionOnSet(fun, S)
                            = fun[First(S)] + SumFunctionOnSet(fun, S \ {First(S)})
  <1>1. Sums(fun, S)[S] = Unfold(fun, Sums(fun, S), S)
    BY SumsUnfold
  <1> DEFINE T == S \ {First(S)}
  <1>2. T \in SUBSET S /\ T \in SUBSET T
    OBVIOUS
  <1> HIDE DEF T
  <1>3. Sums(fun, T)[T] = Sums(fun, S)[T]
    BY <1>2, SumsAgree
  <1>4. SumFunctionOnSet(fun, T) = Sums(fun, S)[T]
    BY <1>3, SumIsOfSums
  <1>5. QED
    BY <1>1, <1>4, SumIsOfSums DEF Unfold, T
-----------------------------------------------------------------------------
(* Sums of integers.                                                       *)

LEMMA SumIsInt ==
    ASSUME NEW fun, NEW S, IsFiniteSet(S), \A x \in S : fun[x] \in Int
    PROVE  SumFunctionOnSet(fun, S) \in Int
  <1> DEFINE F == {s \in SUBSET S : SumFunctionOnSet(fun, s) \notin Int}
  <1>1. \A s \in F : IsFiniteSet(s)
    BY FS_Subset
  <1>2. ASSUME NEW s \in F, s # {} => s \ {First(s)} \notin F
        PROVE  FALSE
    <2>1. IsFiniteSet(s)
      BY <1>1
    <2>2. s # {}
      <3>1. SumFunctionOnSet(fun, {}) = 0
        BY FS_EmptySet, SumUnfolds
      <3>2. QED
        BY <3>1
    <2>3. SumFunctionOnSet(fun, s \ {First(s)}) \in Int
      BY <1>2, <2>2
    <2>4. fun[First(s)] \in Int
      BY <2>2, FirstIsIn
    <2>5. SumFunctionOnSet(fun, s) \in Int
      BY <2>1, <2>2, <2>3, <2>4, SumUnfolds
    <2>6. QED
      BY <2>5
  <1>3. F = {}
    <2> HIDE DEF F
    <2> QED
      BY <1>1, <1>2, SmallestSet, FirstIsIn
  <1>4. QED
    BY <1>3

\* Two functions that are the same on a set but for k at one of its elements.
LEMMA SumMoves ==
    ASSUME NEW f, NEW g, NEW S, IsFiniteSet(S), \A x \in S : f[x] \in Int,
           NEW b, NEW k \in Int,
           \A x \in S : g[x] = IF x = b THEN f[x] + k ELSE f[x]
    PROVE  SumFunctionOnSet(g, S) = SumFunctionOnSet(f, S) + (IF b \in S THEN k ELSE 0)
  <1> DEFINE Moved(s) == SumFunctionOnSet(f, s) + (IF b \in s THEN k ELSE 0)
             F == {s \in SUBSET S : SumFunctionOnSet(g, s) # Moved(s)}
  <1>1. \A s \in SUBSET S : IsFiniteSet(s)
    BY FS_Subset
  <1>2. \A s \in SUBSET S : SumFunctionOnSet(f, s) \in Int
    BY <1>1, SumIsInt
  <1>3. ASSUME NEW s \in F, s # {} => s \ {First(s)} \notin F
        PROVE  FALSE
    <2>1. s # {}
      <3>1. SumFunctionOnSet(f, {}) = 0 /\ SumFunctionOnSet(g, {}) = 0
        BY FS_EmptySet, SumUnfolds
      <3>2. Moved({}) = 0
        BY <3>1
      <3>3. SumFunctionOnSet(g, s) # Moved(s)
        OBVIOUS
      <3> HIDE DEF Moved
      <3>4. QED
        BY <3>1, <3>2, <3>3
    <2> DEFINE x == First(s)
               t == s \ {x}
    <2>2. x \in S /\ x \in s /\ t \in SUBSET S /\ s \in SUBSET S
      BY <2>1, FirstIsIn
    <2>3. SumFunctionOnSet(g, t) = Moved(t)
      BY <1>3, <2>1, <2>2
    <2>4. /\ SumFunctionOnSet(f, s) = f[x] + SumFunctionOnSet(f, t)
          /\ SumFunctionOnSet(g, s) = g[x] + SumFunctionOnSet(g, t)
      BY <1>1, <2>1, <2>2, SumUnfolds
    <2>5. /\ f[x] \in Int /\ SumFunctionOnSet(f, t) \in Int
          /\ g[x] = IF x = b THEN f[x] + k ELSE f[x]
          /\ b \in s <=> (x = b \/ b \in t)
          /\ x \notin t
      BY <1>2, <2>2
    <2> HIDE DEF x, t
    <2>6. SumFunctionOnSet(g, s) = Moved(s)
      BY <2>3, <2>4, <2>5
    <2>7. QED
      BY <2>6
  <1>4. F = {}
    <2>1. \A s \in F : IsFiniteSet(s)
      BY <1>1
    <2> HIDE DEF F
    <2>2. QED
      BY <1>3, <2>1, SmallestSet, FirstIsIn
  <1>5. QED
    BY <1>4

\* One term moves by k.
LEMMA TermMoves ==
    ASSUME NEW S, IsFiniteSet(S), NEW f, \A c \in S : f[c] \in Int, NEW b \in S, NEW k \in Int,
           NEW g, \A c \in S : g[c] = IF c = b THEN f[c] + k ELSE f[c]
    PROVE  SumFunctionOnSet(g, S) = SumFunctionOnSet(f, S) + k
  <1>1. SumFunctionOnSet(g, S) = SumFunctionOnSet(f, S) + (IF b \in S THEN k ELSE 0)
    BY SumMoves
  <1>2. QED
    BY <1>1

\* A sum of zeros.
LEMMA SumOfZeros ==
    ASSUME NEW f, NEW S, IsFiniteSet(S), \A x \in S : f[x] = 0
    PROVE  SumFunctionOnSet(f, S) = 0
  <1> DEFINE F == {s \in SUBSET S : SumFunctionOnSet(f, s) # 0}
  <1>1. \A s \in F : IsFiniteSet(s)
    BY FS_Subset
  <1>2. ASSUME NEW s \in F, s # {} => s \ {First(s)} \notin F
        PROVE  FALSE
    <2>1. s # {} /\ IsFiniteSet(s)
      BY <1>1, SumUnfolds
    <2>2. SumFunctionOnSet(f, s \ {First(s)}) = 0 /\ f[First(s)] = 0
      BY <1>2, <2>1, FirstIsIn
    <2>3. SumFunctionOnSet(f, s) = 0
      BY <2>1, <2>2, SumUnfolds
    <2>4. QED
      BY <2>3
  <1>3. F = {}
    <2> HIDE DEF F
    <2> QED
      BY <1>1, <1>2, SmallestSet, FirstIsIn
  <1>4. QED
    BY <1>3

\* A sum of sums, one of them taken k times.
LEMMA SumIsLinear ==
    ASSUME NEW f, NEW g, NEW h, NEW S, IsFiniteSet(S), NEW k \in Int,
           \A x \in S : f[x] \in Int /\ g[x] \in Int /\ h[x] = f[x] + k * g[x]
    PROVE  SumFunctionOnSet(h, S) = SumFunctionOnSet(f, S) + k * SumFunctionOnSet(g, S)
  <1> DEFINE Both(s) == SumFunctionOnSet(f, s) + k * SumFunctionOnSet(g, s)
             F == {s \in SUBSET S : SumFunctionOnSet(h, s) # Both(s)}
  <1>1. \A s \in SUBSET S : IsFiniteSet(s)
    BY FS_Subset
  <1>2. \A s \in SUBSET S : SumFunctionOnSet(f, s) \in Int /\ SumFunctionOnSet(g, s) \in Int
    BY <1>1, SumIsInt
  <1>3. ASSUME NEW s \in F, s # {} => s \ {First(s)} \notin F
        PROVE  FALSE
    <2>1. s # {}
      <3>1. /\ SumFunctionOnSet(f, {}) = 0 /\ SumFunctionOnSet(g, {}) = 0
            /\ SumFunctionOnSet(h, {}) = 0
        BY FS_EmptySet, SumUnfolds
      <3>2. Both({}) = 0
        BY <3>1
      <3>3. SumFunctionOnSet(h, s) # Both(s)
        OBVIOUS
      <3> HIDE DEF Both
      <3>4. QED
        BY <3>1, <3>2, <3>3
    <2> DEFINE x == First(s)
               t == s \ {x}
               a == SumFunctionOnSet(f, t)
               b == SumFunctionOnSet(g, t)
    <2>2. x \in S /\ x \in s /\ t \in SUBSET S /\ s \in SUBSET S
      BY <2>1, FirstIsIn
    <2>3. SumFunctionOnSet(h, t) = a + k * b
      BY <1>3, <2>1, <2>2
    <2>4. /\ SumFunctionOnSet(f, s) = f[x] + a
          /\ SumFunctionOnSet(g, s) = g[x] + b
          /\ SumFunctionOnSet(h, s) = h[x] + SumFunctionOnSet(h, t)
      BY <1>1, <2>1, <2>2, SumUnfolds
    <2>5. f[x] \in Int /\ g[x] \in Int /\ h[x] = f[x] + k * g[x] /\ a \in Int /\ b \in Int
      BY <1>2, <2>2
    <2> HIDE DEF x, t, a, b
    <2>6. h[x] + (a + k * b) = (f[x] + a) + k * (g[x] + b)
      BY <2>5
    <2>7. SumFunctionOnSet(h, s) = Both(s)
      BY <2>3, <2>4, <2>6
    <2>8. QED
      BY <2>7
  <1>4. F = {}
    <2>1. \A s \in F : IsFiniteSet(s)
      BY <1>1
    <2> HIDE DEF F
    <2>2. QED
      BY <1>3, <2>1, SmallestSet, FirstIsIn
  <1>5. QED
    BY <1>4

\* A sum of natural numbers is none of them less.
LEMMA SumOfNats ==
    ASSUME NEW f, NEW S, IsFiniteSet(S), \A x \in S : f[x] \in Nat
    PROVE  /\ SumFunctionOnSet(f, S) \in Nat
           /\ \A x \in S : f[x] <= SumFunctionOnSet(f, S)
  <1> DEFINE Bounds(s) == /\ SumFunctionOnSet(f, s) \in Nat
                          /\ \A x \in s : f[x] <= SumFunctionOnSet(f, s)
             F == {s \in SUBSET S : ~Bounds(s)}
  <1>1. \A s \in SUBSET S : IsFiniteSet(s)
    BY FS_Subset
  <1>2. ASSUME NEW s \in F, s # {} => s \ {First(s)} \notin F
        PROVE  FALSE
    <2>1. SumFunctionOnSet(f, {}) = 0
      BY FS_EmptySet, SumUnfolds
    <2>2. s # {}
      BY <2>1
    <2> DEFINE y == First(s)
               t == s \ {y}
    <2>3. y \in S /\ y \in s /\ t \in SUBSET S /\ s \in SUBSET S
      BY <2>2, FirstIsIn
    <2>4. Bounds(t)
      BY <1>2, <2>2, <2>3
    <2>5. SumFunctionOnSet(f, s) = f[y] + SumFunctionOnSet(f, t)
      BY <1>1, <2>2, <2>3, SumUnfolds
    <2>6. f[y] \in Nat /\ \A x \in s : x = y \/ x \in t
      BY <2>3
    <2> HIDE DEF y, t
    <2>7. SumFunctionOnSet(f, s) \in Nat
      BY <2>4, <2>5, <2>6
    <2>8. ASSUME NEW x \in s
          PROVE  f[x] <= SumFunctionOnSet(f, s)
      <3>1. f[x] \in Nat
        BY <2>3
      <3>2. CASE x = y
        BY <2>4, <2>5, <2>6, <3>2
      <3>3. CASE x \in t
        BY <2>4, <2>5, <2>6, <3>1, <3>3
      <3>4. QED
        BY <2>6, <3>2, <3>3
    <2>9. QED
      BY <2>7, <2>8
  <1>3. F = {}
    <2>1. \A s \in F : IsFiniteSet(s)
      BY <1>1
    <2> HIDE DEF F
    <2>2. QED
      BY <1>2, <2>1, SmallestSet, FirstIsIn
  <1>4. QED
    BY <1>3
=============================================================================
