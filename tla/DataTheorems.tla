---------------------------- MODULE DataTheorems ----------------------------
(***************************************************************************)
(* Induction without an operator parameter, and what it gives of sums.     *)
(*                                                                         *)
(* The library states induction for an operator P(_), which no installed   *)
(* prover instantiates.  The same principles hold of a set, the set of     *)
(* all those for which P is true, and follow from the well-founded orders  *)
(* that the library has.  The sum of f over S is SumFunctionOnSet(f, S).   *)
(***************************************************************************)
EXTENDS Integers, Functions, FiniteSetTheorems, WellFoundedInduction, TLAPS

(* Natural numbers. *)
Less == {ss \in Nat \X Nat : ss[1] < ss[2]}

LEMMA LessIsWellFounded == IsWellFoundedOn(Less, Nat)
  <1>1. OpToRel(<, Nat) = Less
    BY Zenon DEF OpToRel, Less
  <1> QED
    BY <1>1, NatLessThanWellFounded, Zenon

(* A set of natural numbers has a least one. *)
LEMMA LeastOf ==
  ASSUME NEW T, T \subseteq Nat, T # {}
  PROVE  \E n \in T : \A m \in T : n <= m
  <1>1. PICK n \in T : \A m \in T : ~(<<m, n>> \in Less)
    BY LessIsWellFounded, WFMin
  <1>2. n \in Nat
    BY <1>1
  <1>3. \A m \in T : m \in Nat /\ ~(m < n)
    BY <1>1, <1>2 DEF Less
  <1>4. \A m \in T : n <= m
    BY <1>2, <1>3
  <1> QED
    BY <1>4

(* A set that has zero and each successor has all. *)
LEMMA NumberInduction ==
  ASSUME NEW S, 0 \in S, \A n \in Nat : n \in S => n + 1 \in S
  PROVE  Nat \subseteq S
  <1> SUFFICES ASSUME Nat \ S # {} PROVE FALSE
    OBVIOUS
  <1>1. PICK n \in Nat \ S : \A m \in Nat \ S : n <= m
    BY LeastOf
  <1>2. n # 0 /\ n - 1 \in Nat
    BY <1>1
  <1>3. n - 1 \in S
    BY <1>1, <1>2
  <1> QED
    BY <1>1, <1>2, <1>3

(* Finite sets: sets that have T whenever they have all its strict subsets.*)
LEMMA SubsetInduction ==
  ASSUME NEW S, IsFiniteSet(S), NEW F,
         \A T \in SUBSET S : (\A U \in SUBSET T : U # T => U \in F) => T \in F
  PROVE  (SUBSET S) \subseteq F
  <1> SUFFICES ASSUME (SUBSET S) \ F # {} PROVE FALSE
    OBVIOUS
  <1>1. IsWellFoundedOn(StrictSubsetOrdering(S), SUBSET S)
    <2>1. FiniteSubsetsOf(S) = SUBSET S
      BY FS_FiniteSubsetsOfFinite
    <2>2. IsWellFoundedOn(StrictSubsetOrdering(S), FiniteSubsetsOf(S))
      BY FS_StrictSubsetOrderingWellFounded
    <2> QED
      BY <2>1, <2>2
  <1> DEFINE Bad == (SUBSET S) \ F
  <1>2. PICK T \in Bad : \A U \in Bad : ~(<<U, T>> \in StrictSubsetOrdering(S))
    <2>1. Bad \subseteq SUBSET S /\ Bad # {}
      OBVIOUS
    <2> HIDE DEF Bad
    <2> QED
      BY <1>1, <2>1, WFMin
  <1>3. ASSUME NEW U \in SUBSET T, U # T
        PROVE  U \in F
    <2>1. <<U, T>> \in StrictSubsetOrdering(S)
      BY <1>3 DEF StrictSubsetOrdering
    <2> QED
      BY <1>2, <2>1
  <1> QED
    BY <1>2, <1>3

-----------------------------------------------------------------------------
(* The recursion of the folds: g gives the sum of f over each subset of S. *)
Pick(T) == CHOOSE x \in T : TRUE
Adds(f, S, g) == g = [T \in SUBSET S |-> IF T = {} THEN 0 ELSE f[Pick(T)] + g[T \ {Pick(T)}]]

LEMMA SumIsAFold ==
  ASSUME NEW f, NEW S
  PROVE  SumFunctionOnSet(f, S) = (CHOOSE g : Adds(f, S, g))[S]
  BY DEF SumFunctionOnSet, FoldFunctionOnSet, MapThenFoldSet, Adds, Pick

LEMMA Picked == ASSUME NEW T, T # {} PROVE Pick(T) \in T
  BY DEF Pick

(* The recursion has one solution at most, and it does not depend on S. *)
LEMMA AddsAgree ==
  ASSUME NEW f, NEW S, IsFiniteSet(S), NEW R \in SUBSET S,
         NEW g, Adds(f, S, g), NEW h, Adds(f, R, h)
  PROVE  \A T \in SUBSET R : g[T] = h[T]
  <1> DEFINE F == {T \in SUBSET R : g[T] = h[T]}
  <1>1. IsFiniteSet(R)
    BY FS_Subset
  <1>2. ASSUME NEW T \in SUBSET R, \A U \in SUBSET T : U # T => U \in F
        PROVE  T \in F
    <2>1. /\ g[T] = IF T = {} THEN 0 ELSE f[Pick(T)] + g[T \ {Pick(T)}]
          /\ h[T] = IF T = {} THEN 0 ELSE f[Pick(T)] + h[T \ {Pick(T)}]
      BY DEF Adds
    <2>2. CASE T = {}
      BY <2>1, <2>2
    <2>3. CASE T # {}
      <3>1. T \ {Pick(T)} \in SUBSET T /\ T \ {Pick(T)} # T
        BY <2>3, Picked
      <3>2. g[T \ {Pick(T)}] = h[T \ {Pick(T)}]
        BY <1>2, <3>1
      <3> QED
        BY <2>1, <3>2
    <2> QED
      BY <2>2, <2>3
  <1> HIDE DEF F
  <1>3. (SUBSET R) \subseteq F
    BY <1>1, <1>2, SubsetInduction
  <1> QED
    BY <1>3 DEF F

LEMMA AddsExists ==
  ASSUME NEW f, NEW S, IsFiniteSet(S)
  PROVE  \E g : Adds(f, S, g)
  <1> DEFINE F == {T \in SUBSET S : \E g : Adds(f, T, g)}
             sum(T) == (CHOOSE g : Adds(f, T, g))[T]
  <1>1. ASSUME NEW T \in SUBSET S, \A U \in SUBSET T : U # T => U \in F
        PROVE  T \in F
    <2> DEFINE g == [U \in SUBSET T |-> IF U = {} THEN 0 ELSE f[Pick(U)] + sum(U \ {Pick(U)})]
    <2>1. ASSUME NEW W \in SUBSET T, W # T
          PROVE  g[W] = sum(W)
      <3>1. PICK h : h = (CHOOSE x : Adds(f, W, x)) /\ Adds(f, W, h)
        BY <1>1, <2>1
      <3>2. sum(W) = h[W]
        BY <3>1
      <3>3. h[W] = IF W = {} THEN 0 ELSE f[Pick(W)] + h[W \ {Pick(W)}]
        BY <3>1 DEF Adds
      <3>4. ASSUME W # {}
            PROVE  h[W \ {Pick(W)}] = sum(W \ {Pick(W)})
        <4> DEFINE V == W \ {Pick(W)}
        <4>1. V \in SUBSET W /\ V \in SUBSET T /\ V # T
          BY <2>1, <3>4, Picked
        <4>2. PICK k : k = (CHOOSE x : Adds(f, V, x)) /\ Adds(f, V, k)
          BY <1>1, <4>1
        <4>3. IsFiniteSet(W)
          BY FS_Subset
        <4> HIDE DEF V
        <4>4. h[V] = k[V]
          BY <3>1, <4>1, <4>2, <4>3, AddsAgree
        <4> QED
          BY <4>2, <4>4 DEF V
      <3> HIDE DEF sum
      <3> QED
        BY <3>2, <3>3, <3>4
    <2>2. ASSUME NEW U \in SUBSET T, U # {}
          PROVE  g[U \ {Pick(U)}] = sum(U \ {Pick(U)})
      <3>1. U \ {Pick(U)} \in SUBSET T /\ U \ {Pick(U)} # T
        BY <2>2, Picked
      <3> HIDE DEF g, sum
      <3> QED
        BY <2>1, <3>1
    <2>3. Adds(f, T, g)
      <3>1. \A U \in SUBSET T : (IF U = {} THEN 0 ELSE f[Pick(U)] + sum(U \ {Pick(U)}))
                                = IF U = {} THEN 0 ELSE f[Pick(U)] + g[U \ {Pick(U)}]
        <4> HIDE DEF g, sum
        <4> QED
          BY <2>2
      <3> HIDE DEF sum
      <3> QED
        BY <3>1 DEF Adds
    <2> QED
      BY <2>3
  <1> HIDE DEF F
  <1>2. (SUBSET S) \subseteq F
    BY <1>1, SubsetInduction
  <1> QED
    BY <1>2 DEF F

LEMMA SumOf ==
  ASSUME NEW f, NEW S, IsFiniteSet(S), NEW g, Adds(f, S, g), NEW T \in SUBSET S
  PROVE  SumFunctionOnSet(f, T) = g[T]
  <1>1. IsFiniteSet(T)
    BY FS_Subset
  <1>2. PICK h : h = (CHOOSE x : Adds(f, T, x)) /\ Adds(f, T, h)
    BY <1>1, AddsExists
  <1>3. h[T] = g[T]
    BY <1>2, AddsAgree
  <1> QED
    BY <1>2, <1>3, SumIsAFold

-----------------------------------------------------------------------------
(* What a sum is: nothing over no elements, ... *)
LEMMA SumEmpty == \A f : SumFunctionOnSet(f, {}) = 0
  <1> SUFFICES ASSUME NEW f PROVE SumFunctionOnSet(f, {}) = 0
    OBVIOUS
  <1>1. IsFiniteSet({})
    BY FS_EmptySet
  <1>2. PICK g : Adds(f, {}, g)
    BY <1>1, AddsExists
  <1>3. g[{}] = 0
    BY <1>2 DEF Adds
  <1> QED
    BY <1>1, <1>2, <1>3, SumOf

(* ... a number, if the terms are, ... *)
LEMMA SumType ==
  ASSUME NEW S, IsFiniteSet(S), NEW f, \A x \in S : f[x] \in Int
  PROVE  /\ SumFunctionOnSet(f, S) \in Int
         /\ (\A x \in S : f[x] >= 0) => SumFunctionOnSet(f, S) >= 0
  <1>1. PICK g : Adds(f, S, g)
    BY AddsExists
  <1> DEFINE F == {T \in SUBSET S : g[T] \in Int /\ ((\A x \in S : f[x] >= 0) => g[T] >= 0)}
  <1>2. ASSUME NEW T \in SUBSET S, \A U \in SUBSET T : U # T => U \in F
        PROVE  T \in F
    <2>1. g[T] = IF T = {} THEN 0 ELSE f[Pick(T)] + g[T \ {Pick(T)}]
      BY <1>1 DEF Adds
    <2>2. CASE T = {}
      BY <2>1, <2>2
    <2>3. CASE T # {}
      <3>1. Pick(T) \in S /\ T \ {Pick(T)} \in SUBSET T /\ T \ {Pick(T)} # T
        BY <2>3, Picked
      <3>2. T \ {Pick(T)} \in F
        BY <1>2, <3>1
      <3> QED
        BY <2>1, <2>3, <3>1, <3>2
    <2> QED
      BY <2>2, <2>3
  <1> HIDE DEF F
  <1>3. S \in F
    BY <1>2, SubsetInduction
  <1> QED
    BY <1>1, <1>3, SumOf DEF F

(* ... and any element may be taken first, whichever the fold picks. *)
LEMMA SumRemove ==
  ASSUME NEW S, IsFiniteSet(S), NEW f, \A x \in S : f[x] \in Int, NEW y \in S
  PROVE  SumFunctionOnSet(f, S) = f[y] + SumFunctionOnSet(f, S \ {y})
  <1>1. PICK g : Adds(f, S, g)
    BY AddsExists
  <1>2. ASSUME NEW T \in SUBSET S
        PROVE  g[T] \in Int /\ SumFunctionOnSet(f, T) = g[T]
    <2>1. SumFunctionOnSet(f, T) = g[T]
      BY <1>1, SumOf
    <2>2. IsFiniteSet(T)
      BY FS_Subset
    <2>3. SumFunctionOnSet(f, T) \in Int
      BY <2>2, SumType
    <2> QED
      BY <2>1, <2>3
  <1> DEFINE F == {T \in SUBSET S : \A x \in T : g[T] = f[x] + g[T \ {x}]}
  <1>3. ASSUME NEW T \in SUBSET S, \A U \in SUBSET T : U # T => U \in F
        PROVE  T \in F
    <2> SUFFICES ASSUME NEW x \in T PROVE g[T] = f[x] + g[T \ {x}]
      OBVIOUS
    <2>1. PICK p \in T : g[T] = f[p] + g[T \ {p}]
      <3>1. Pick(T) \in T
        BY Picked
      <3> QED
        BY <1>1, <3>1 DEF Adds
    <2>2. CASE x = p
      BY <2>1, <2>2
    <2>3. CASE x # p
      <3>1. g[T \ {p}] = f[x] + g[(T \ {p}) \ {x}]
        BY <1>3, <2>1, <2>3
      <3>2. g[T \ {x}] = f[p] + g[(T \ {x}) \ {p}]
        BY <1>3, <2>1, <2>3
      <3> DEFINE rest == g[(T \ {p}) \ {x}]
      <3>3. (T \ {x}) \ {p} = (T \ {p}) \ {x}
        OBVIOUS
      <3>4. rest \in Int /\ f[x] \in Int /\ f[p] \in Int
        BY <1>2
      <3>5. g[T \ {p}] = f[x] + rest /\ g[T \ {x}] = f[p] + rest
        BY <3>1, <3>2, <3>3
      <3> HIDE DEF F, rest
      <3> QED
        BY <2>1, <3>4, <3>5
    <2> QED
      BY <2>2, <2>3
  <1> HIDE DEF F
  <1>4. S \in F
    BY <1>3, SubsetInduction
  <1> QED
    BY <1>2, <1>4 DEF F

(* Two disjoint sets. *)
LEMMA SumUnion ==
  ASSUME NEW S, IsFiniteSet(S), NEW f, \A x \in S : f[x] \in Int, NEW R \in SUBSET S
  PROVE  SumFunctionOnSet(f, S) = SumFunctionOnSet(f, R) + SumFunctionOnSet(f, S \ R)
  <1> DEFINE sum(T) == SumFunctionOnSet(f, T)
             F == {T \in SUBSET R : sum(S) = sum(T) + sum(S \ T)}
  <1>1. \A T \in SUBSET S : IsFiniteSet(T) /\ sum(T) \in Int
    <2> SUFFICES ASSUME NEW T \in SUBSET S PROVE IsFiniteSet(T) /\ sum(T) \in Int
      OBVIOUS
    <2>1. IsFiniteSet(T)
      BY FS_Subset
    <2> QED
      BY <2>1, SumType
  <1>2. ASSUME NEW T \in SUBSET R, \A U \in SUBSET T : U # T => U \in F
        PROVE  T \in F
    <2>1. CASE T = {}
      <3>1. sum({}) = 0 /\ S \ T = S
        BY <2>1, SumEmpty
      <3> HIDE DEF sum
      <3> QED
        BY <1>1, <2>1, <3>1
    <2>2. CASE T # {}
      <3>1. PICK y : y \in T
        BY <2>2
      <3> DEFINE U == T \ {y}
      <3>2. U \in SUBSET T /\ U # T /\ U \in SUBSET S /\ y \in S
        BY <3>1
      <3>3. sum(S) = sum(U) + sum(S \ U)
        BY <1>2, <3>2
      <3>4. sum(T) = f[y] + sum(U)
        BY <1>1, <3>1, SumRemove
      <3>5. (S \ U) \ {y} = S \ T /\ y \in S \ U
        BY <3>1
      <3>6. sum(S \ U) = f[y] + sum((S \ U) \ {y})
        BY <1>1, <3>5, SumRemove
      <3>7. sum(U) \in Int /\ sum(S \ T) \in Int /\ f[y] \in Int
        BY <1>1, <3>2
      <3>8. sum(S \ U) = f[y] + sum(S \ T)
        BY <3>5, <3>6
      <3> HIDE DEF sum, U
      <3>9. sum(S) = sum(T) + sum(S \ T)
        BY <3>3, <3>4, <3>7, <3>8
      <3> QED
        BY <3>9
    <2> QED
      BY <2>1, <2>2
  <1>3. IsFiniteSet(R)
    BY FS_Subset
  <1> HIDE DEF F
  <1>4. R \in F
    BY <1>2, <1>3, SubsetInduction
  <1> QED
    BY <1>4 DEF F

(* Terms that are the same give the same sum, greater ones a greater one. *)
LEMMA SumMonotone ==
  ASSUME NEW S, IsFiniteSet(S), NEW f, \A x \in S : f[x] \in Int,
         NEW h, \A x \in S : h[x] \in Int /\ f[x] <= h[x]
  PROVE  SumFunctionOnSet(f, S) <= SumFunctionOnSet(h, S)
  <1> DEFINE F == {T \in SUBSET S : SumFunctionOnSet(f, T) <= SumFunctionOnSet(h, T)}
  <1>1. ASSUME NEW T \in SUBSET S, \A U \in SUBSET T : U # T => U \in F
        PROVE  T \in F
    <2>1. IsFiniteSet(T)
      BY FS_Subset
    <2>2. CASE T = {}
      BY <2>2, SumEmpty
    <2>3. CASE T # {}
      <3>1. PICK y : y \in T
        BY <2>3
      <3> DEFINE U == T \ {y}
      <3>2. /\ SumFunctionOnSet(f, T) = f[y] + SumFunctionOnSet(f, U)
            /\ SumFunctionOnSet(h, T) = h[y] + SumFunctionOnSet(h, U)
        BY <2>1, <3>1, SumRemove
      <3>3. U \in SUBSET T /\ U # T /\ y \in S
        BY <3>1
      <3>4. SumFunctionOnSet(f, U) <= SumFunctionOnSet(h, U)
        BY <1>1, <3>3
      <3>5. IsFiniteSet(U)
        BY <2>1, FS_Subset
      <3>6. SumFunctionOnSet(f, U) \in Int /\ SumFunctionOnSet(h, U) \in Int
        BY <3>3, <3>5, SumType
      <3>7. f[y] \in Int /\ h[y] \in Int /\ f[y] <= h[y]
        BY <3>3
      <3> HIDE DEF U
      <3> QED
        BY <3>2, <3>4, <3>6, <3>7
    <2> QED
      BY <2>2, <2>3
  <1> HIDE DEF F
  <1>2. S \in F
    BY <1>1, SubsetInduction
  <1> QED
    BY <1>2 DEF F

LEMMA SumSame ==
  ASSUME NEW S, IsFiniteSet(S), NEW f, \A x \in S : f[x] \in Int,
         NEW h, \A x \in S : h[x] = f[x]
  PROVE  SumFunctionOnSet(f, S) = SumFunctionOnSet(h, S)
  <1>1. \A x \in S : h[x] \in Int /\ f[x] <= h[x] /\ h[x] <= f[x]
    OBVIOUS
  <1>2. SumFunctionOnSet(f, S) \in Int /\ SumFunctionOnSet(h, S) \in Int
    BY <1>1, SumType
  <1>3. SumFunctionOnSet(f, S) <= SumFunctionOnSet(h, S)
    BY <1>1, SumMonotone
  <1>4. SumFunctionOnSet(h, S) <= SumFunctionOnSet(f, S)
    BY <1>1, SumMonotone
  <1> QED
    BY <1>2, <1>3, <1>4

(* The sum of sums. *)
LEMMA SumAdd ==
  ASSUME NEW S, IsFiniteSet(S), NEW f, NEW g, NEW h,
         \A x \in S : f[x] \in Int /\ g[x] \in Int /\ h[x] = f[x] + g[x]
  PROVE  SumFunctionOnSet(h, S) = SumFunctionOnSet(f, S) + SumFunctionOnSet(g, S)
  <1> DEFINE F == {T \in SUBSET S : SumFunctionOnSet(h, T) =
                                      SumFunctionOnSet(f, T) + SumFunctionOnSet(g, T)}
  <1>1. ASSUME NEW T \in SUBSET S, \A U \in SUBSET T : U # T => U \in F
        PROVE  T \in F
    <2>1. IsFiniteSet(T)
      BY FS_Subset
    <2>2. CASE T = {}
      <3>1. /\ SumFunctionOnSet(f, T) = 0 /\ SumFunctionOnSet(g, T) = 0
            /\ SumFunctionOnSet(h, T) = 0
        BY <2>2, SumEmpty
      <3> QED
        BY <3>1
    <2>3. CASE T # {}
      <3>1. PICK y : y \in T
        BY <2>3
      <3> DEFINE U == T \ {y}
      <3>2. U \in SUBSET T /\ U # T /\ y \in S
        BY <3>1
      <3>3. \A x \in T : f[x] \in Int /\ g[x] \in Int /\ h[x] \in Int
        OBVIOUS
      <3>4. /\ SumFunctionOnSet(f, T) = f[y] + SumFunctionOnSet(f, U)
            /\ SumFunctionOnSet(g, T) = g[y] + SumFunctionOnSet(g, U)
            /\ SumFunctionOnSet(h, T) = h[y] + SumFunctionOnSet(h, U)
        BY <2>1, <3>1, <3>3, SumRemove
      <3>5. SumFunctionOnSet(h, U) = SumFunctionOnSet(f, U) + SumFunctionOnSet(g, U)
        BY <1>1, <3>2
      <3>6. IsFiniteSet(U) /\ \A x \in U : f[x] \in Int /\ g[x] \in Int
        BY <2>1, <3>3, FS_Subset
      <3>7. SumFunctionOnSet(f, U) \in Int /\ SumFunctionOnSet(g, U) \in Int
        BY <3>6, SumType
      <3>8. f[y] \in Int /\ g[y] \in Int /\ h[y] = f[y] + g[y]
        BY <3>2
      <3> HIDE DEF U
      <3> QED
        BY <3>4, <3>5, <3>7, <3>8
    <2> QED
      BY <2>2, <2>3
  <1> HIDE DEF F
  <1>2. S \in F
    BY <1>1, SubsetInduction
  <1> QED
    BY <1>2 DEF F

LEMMA SumZero ==
  ASSUME NEW S, IsFiniteSet(S), NEW f, \A x \in S : f[x] = 0
  PROVE  SumFunctionOnSet(f, S) = 0
  <1>1. SumFunctionOnSet(f, S) \in Int
    BY SumType
  <1>2. SumFunctionOnSet(f, S) = SumFunctionOnSet(f, S) + SumFunctionOnSet(f, S)
    BY SumAdd
  <1>3. \A n \in Int : n = n + n => n = 0
    OBVIOUS
  <1> QED
    BY <1>1, <1>2, <1>3, Zenon

(* What is zero elsewhere may be summed over a part. *)
LEMMA SumOverPart ==
  ASSUME NEW S, IsFiniteSet(S), NEW R \in SUBSET S, NEW f, NEW h,
         \A x \in R : f[x] \in Int /\ h[x] = f[x],
         \A x \in S \ R : h[x] = 0
  PROVE  SumFunctionOnSet(h, S) = SumFunctionOnSet(f, R)
  <1>1. IsFiniteSet(R) /\ IsFiniteSet(S \ R)
    BY FS_Subset
  <1>2. \A x \in S : h[x] \in Int
    OBVIOUS
  <1>3. SumFunctionOnSet(h, S) = SumFunctionOnSet(h, R) + SumFunctionOnSet(h, S \ R)
    BY <1>2, SumUnion
  <1>4. SumFunctionOnSet(h, S \ R) = 0
    BY <1>1, SumZero
  <1>5. SumFunctionOnSet(h, R) = SumFunctionOnSet(f, R)
    BY <1>1, SumSame
  <1>6. SumFunctionOnSet(f, R) \in Int
    BY <1>1, SumType
  <1> QED
    BY <1>3, <1>4, <1>5, <1>6

(* The sum over a part of what is never negative is no greater. *)
LEMMA SumOfPart ==
  ASSUME NEW S, IsFiniteSet(S), NEW R \in SUBSET S, NEW f, \A x \in S : f[x] \in Nat
  PROVE  /\ SumFunctionOnSet(f, R) \in Nat /\ SumFunctionOnSet(f, S) \in Nat
         /\ SumFunctionOnSet(f, R) <= SumFunctionOnSet(f, S)
  <1>1. IsFiniteSet(R) /\ IsFiniteSet(S \ R)
    BY FS_Subset
  <1>2. SumFunctionOnSet(f, S) = SumFunctionOnSet(f, R) + SumFunctionOnSet(f, S \ R)
    BY SumUnion
  <1>3. /\ SumFunctionOnSet(f, R) \in Int /\ SumFunctionOnSet(f, R) >= 0
        /\ SumFunctionOnSet(f, S \ R) \in Int /\ SumFunctionOnSet(f, S \ R) >= 0
    BY <1>1, SumType
  <1> QED
    BY <1>2, <1>3

(* One term more, or another one: the sum changes by as much. *)
LEMMA SumReplace ==
  ASSUME NEW S, IsFiniteSet(S), NEW y \in S, NEW f, \A x \in S : f[x] \in Int,
         NEW h, h[y] \in Int, \A x \in S \ {y} : h[x] = f[x]
  PROVE  SumFunctionOnSet(h, S) = SumFunctionOnSet(f, S) + (h[y] - f[y])
  <1> DEFINE R == S \ {y}
  <1>1. IsFiniteSet(R) /\ R \subseteq S
    BY FS_Subset
  <1>2. \A x \in S : h[x] \in Int
    OBVIOUS
  <1>3. /\ SumFunctionOnSet(f, S) = f[y] + SumFunctionOnSet(f, R)
        /\ SumFunctionOnSet(h, S) = h[y] + SumFunctionOnSet(h, R)
    BY <1>2, SumRemove
  <1>4. SumFunctionOnSet(h, R) = SumFunctionOnSet(f, R)
    BY <1>1, SumSame
  <1>5. SumFunctionOnSet(f, R) \in Int /\ f[y] \in Int
    BY <1>1, SumType
  <1> HIDE DEF R
  <1> QED
    BY <1>3, <1>4, <1>5

-----------------------------------------------------------------------------
(* Structures, whose parts are of less depth: what holds of one when it    *)
(* holds of all those below holds of all.                                  *)
LEMMA DepthInduction ==
  ASSUME NEW S, NEW depth \in [S -> Nat], NEW F,
         \A x \in S : (\A y \in S : depth[y] < depth[x] => y \in F) => x \in F
  PROVE  S \subseteq F
  <1> SUFFICES ASSUME S \ F # {} PROVE FALSE
    OBVIOUS
  <1> DEFINE T == {depth[x] : x \in S \ F}
  <1>1. T \subseteq Nat /\ T # {}
    OBVIOUS
  <1>2. PICK n \in T : \A m \in T : n <= m
    <2> HIDE DEF T
    <2> QED
      BY <1>1, LeastOf
  <1>3. PICK x \in S \ F : n = depth[x]
    OBVIOUS
  <1>4. ASSUME NEW y \in S, depth[y] < depth[x], y \notin F
        PROVE  FALSE
    <2>1. depth[y] \in T
      BY <1>4
    <2>2. depth[x] \in Nat /\ depth[y] \in Nat /\ depth[x] <= depth[y]
      BY <1>2, <1>3, <2>1
    <2> QED
      BY <1>4, <2>2
  <1> QED
    BY <1>3, <1>4

(* Recursion: a step that gives each structure a value, and looks only at  *)
(* the values of what is of less depth.                                    *)
Recurses(S, depth, V, step) ==
    /\ depth \in [S -> Nat] /\ V # {} /\ step \in [S \X [S -> V] -> V]
    /\ \A x \in S : \A f, g \in [S -> V] :
          (\A y \in S : depth[y] < depth[x] => f[y] = g[y]) => step[<<x, f>>] = step[<<x, g>>]

(* f solves it up to depth n. *)
Below(S, depth, step, f, n) == \A x \in S : depth[x] < n => f[x] = step[<<x, f>>]

LEMMA SolutionsAgree ==
  ASSUME NEW S, NEW depth, NEW V, NEW step, Recurses(S, depth, V, step),
         NEW n \in Nat, NEW m \in Nat, n <= m, NEW f \in [S -> V], NEW g \in [S -> V],
         Below(S, depth, step, f, n), Below(S, depth, step, g, m)
  PROVE  \A x \in S : depth[x] < n => f[x] = g[x]
  <1> DEFINE A == {x \in S : depth[x] < n => f[x] = g[x]}
  <1>1. depth \in [S -> Nat]
    BY DEF Recurses
  <1>2. ASSUME NEW x \in S, \A y \in S : depth[y] < depth[x] => y \in A
        PROVE  x \in A
    <2> SUFFICES ASSUME depth[x] < n PROVE f[x] = g[x]
      OBVIOUS
    <2>1. \A y \in S : depth[y] < depth[x] => f[y] = g[y]
      BY <1>1, <1>2
    <2>2. depth[x] < m
      BY <1>1
    <2>3. f[x] = step[<<x, f>>] /\ g[x] = step[<<x, g>>]
      BY <2>2 DEF Below
    <2>4. step[<<x, f>>] = step[<<x, g>>]
      BY <2>1 DEF Recurses
    <2> QED
      BY <2>3, <2>4
  <1>3. S \subseteq A
    <2> HIDE DEF A
    <2> QED
      BY <1>1, <1>2, DepthInduction
  <1> QED
    BY <1>3

LEMMA SolvedBelow ==
  ASSUME NEW S, NEW depth, NEW V, NEW step, Recurses(S, depth, V, step)
  PROVE  \A n \in Nat : \E f \in [S -> V] : Below(S, depth, step, f, n)
  <1> DEFINE F == {n \in Nat : \E f \in [S -> V] : Below(S, depth, step, f, n)}
  <1>1. depth \in [S -> Nat] /\ V # {} /\ step \in [S \X [S -> V] -> V]
    BY DEF Recurses
  <1>2. 0 \in F
    <2>1. PICK v \in V : TRUE
      BY <1>1
    <2>2. [x \in S |-> v] \in [S -> V]
      OBVIOUS
    <2>3. Below(S, depth, step, [x \in S |-> v], 0)
      BY <1>1 DEF Below
    <2> QED
      BY <2>2, <2>3
  <1>3. ASSUME NEW n \in Nat, n \in F
        PROVE  n + 1 \in F
    <2>1. PICK f \in [S -> V] : Below(S, depth, step, f, n)
      BY <1>3
    <2> DEFINE g == [x \in S |-> IF depth[x] = n THEN step[<<x, f>>] ELSE f[x]]
    <2>2. g \in [S -> V]
      BY <1>1
    <2>3. \A x \in S : g[x] = IF depth[x] = n THEN step[<<x, f>>] ELSE f[x]
      OBVIOUS
    <2> HIDE DEF g
    <2>4. ASSUME NEW x \in S, depth[x] < n + 1
          PROVE  g[x] = step[<<x, g>>]
      <3>1. \A y \in S : depth[y] < depth[x] => f[y] = g[y]
        <4>1. \A y \in S : depth[y] < depth[x] => depth[y] # n
          BY <1>1, <2>4
        <4> QED
          BY <2>3, <4>1
      <3>2. step[<<x, f>>] = step[<<x, g>>]
        BY <2>2, <3>1 DEF Recurses
      <3>3. CASE depth[x] = n
        BY <2>3, <3>2, <3>3
      <3>4. CASE depth[x] # n
        <4>1. depth[x] < n
          BY <1>1, <2>4, <3>4
        <4>2. f[x] = step[<<x, f>>]
          BY <2>1, <4>1 DEF Below
        <4> QED
          BY <2>3, <3>2, <3>4, <4>2
      <3> QED
        BY <3>3, <3>4
    <2>5. Below(S, depth, step, g, n + 1)
      BY <2>4 DEF Below
    <2> QED
      BY <2>2, <2>5
  <1>4. Nat \subseteq F
    <2> HIDE DEF F
    <2> QED
      BY <1>2, <1>3, NumberInduction
  <1> QED
    BY <1>4

LEMMA Recursion ==
  ASSUME NEW S, NEW depth, NEW V, NEW step, Recurses(S, depth, V, step)
  PROVE  \E f \in [S -> V] : \A x \in S : f[x] = step[<<x, f>>]
  <1> DEFINE at(n) == CHOOSE f \in [S -> V] : Below(S, depth, step, f, n)
             f == [x \in S |-> at(depth[x] + 1)[x]]
  <1>1. \A n \in Nat : at(n) \in [S -> V] /\ Below(S, depth, step, at(n), n)
    BY SolvedBelow
  <1> HIDE DEF at
  <1>2. depth \in [S -> Nat]
    BY DEF Recurses
  <1>3. f \in [S -> V]
    BY <1>1, <1>2
  <1>4. ASSUME NEW x \in S
        PROVE  f[x] = step[<<x, f>>]
    <2>1. PICK n \in Nat : n = depth[x] + 1
      BY <1>2
    <2>2. depth[x] < n
      BY <1>2, <2>1
    <2>3. ASSUME NEW y \in S, depth[y] < n
          PROVE  f[y] = at(n)[y]
      <3>1. PICK m \in Nat : m = depth[y] + 1
        BY <1>2
      <3>2. m <= n /\ depth[y] < m
        BY <1>2, <2>3, <3>1
      <3>3. /\ at(m) \in [S -> V] /\ Below(S, depth, step, at(m), m)
            /\ at(n) \in [S -> V] /\ Below(S, depth, step, at(n), n)
        BY <1>1
      <3>4. at(m)[y] = at(n)[y]
        BY <3>2, <3>3, SolutionsAgree
      <3> QED
        BY <3>1, <3>4
    <2> HIDE DEF f
    <2>4. at(n)[x] = step[<<x, at(n)>>]
      BY <1>1, <2>2 DEF Below
    <2>5. \A y \in S : depth[y] < depth[x] => f[y] = at(n)[y]
      BY <1>2, <2>1, <2>3
    <2>6. step[<<x, f>>] = step[<<x, at(n)>>]
      BY <1>1, <1>3, <2>5 DEF Recurses
    <2> QED
      BY <2>2, <2>3, <2>4, <2>6
  <1> QED
    BY <1>3, <1>4
=============================================================================
