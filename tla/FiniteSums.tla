---------------------------- MODULE FiniteSums ----------------------------
(***************************************************************************)
(* Lemmas the proofs about amounts share: induction over sets, finite sums *)
(* as the community modules define them, recursion over a sequence, and    *)
(* the method of the largest remainder, by which both the allocation of a  *)
(* bill and the page of expenses hand out the VND that rounding leaves     *)
(* over (allocation.go, ListExpenseRows).                                  *)
(*                                                                         *)
(* The library's theorems on induction take the statement as an operator,  *)
(* which no prover here can instantiate; taken as a set of numbers, or of  *)
(* subsets, it can be used, and a least counterexample comes from WFMin.   *)
(***************************************************************************)
EXTENDS Integers, FiniteSets, Functions, FiniteSetTheorems, WellFoundedInduction, TLAPS

\* Induction over the natural numbers, for a set.
LEMMA NatSetInduction ==
  ASSUME NEW N \in SUBSET Nat, 0 \in N, \A n \in N : n + 1 \in N
  PROVE  N = Nat
<1> SUFFICES ASSUME Nat \ N # {} PROVE FALSE
  OBVIOUS
<1> DEFINE Less == OpToRel(<, Nat)
<1>1. IsWellFoundedOn(Less, Nat)
  BY NatLessThanWellFounded
<1>2. PICK n \in Nat \ N : \A m \in Nat \ N : ~ (<<m, n>> \in Less)
  <2> HIDE DEF Less
  <2> QED BY <1>1, WFMin
<1>3. \A m \in Nat \ N : ~ (m < n)
  BY <1>2 DEF OpToRel
<1>4. n # 0 /\ n - 1 \in Nat /\ n - 1 < n /\ n = (n - 1) + 1
  OBVIOUS
<1>5. n - 1 \in N
  BY <1>3, <1>4
<1> QED
  BY <1>4, <1>5

\* A set of numbers that is not empty has a least element.
LEMMA LeastExists ==
  ASSUME NEW N \in SUBSET Nat, N # {}
  PROVE  \E n \in N : \A m \in N : n <= m
<1> DEFINE Less == OpToRel(<, Nat)
<1>1. IsWellFoundedOn(Less, Nat)
  BY NatLessThanWellFounded
<1>2. PICK n \in N : \A m \in N : ~ (<<m, n>> \in Less)
  <2> HIDE DEF Less
  <2> QED BY <1>1, WFMin
<1>3. \A m \in N : ~ (m < n)
  BY <1>2 DEF OpToRel
<1> QED
  BY <1>3

\* Induction over the subsets of a finite set.
LEMMA SubsetInduction ==
  ASSUME NEW S, IsFiniteSet(S), NEW F \in SUBSET (SUBSET S),
         {} \in F, \A T \in F : \A x \in S \ T : T \cup {x} \in F
  PROVE  S \in F
<1> DEFINE N == {n \in Nat : \A T \in SUBSET S : Cardinality(T) = n => T \in F}
<1>1. \A T \in SUBSET S : IsFiniteSet(T) /\ Cardinality(T) \in Nat
  BY FS_Subset, FS_CardinalityType
<1>2. 0 \in N
  BY <1>1, FS_EmptySet
<1>3. ASSUME NEW n \in N PROVE n + 1 \in N
  <2> SUFFICES ASSUME NEW T \in SUBSET S, Cardinality(T) = n + 1 PROVE T \in F
    OBVIOUS
  <2>1. PICK x : x \in T
    BY <1>1, FS_EmptySet
  <2>2. Cardinality(T \ {x}) = n
    <3>1. Cardinality(T \ {x}) = Cardinality(T) - 1
      BY <1>1, <2>1, FS_RemoveElement
    <3>2. n \in Nat
      OBVIOUS
    <3> QED
      BY <3>1, <3>2
  <2>3. T \ {x} \in F
    BY <2>2
  <2>4. T = (T \ {x}) \cup {x} /\ x \in S \ (T \ {x})
    BY <2>1
  <2> QED
    BY <2>3, <2>4
<1>4. N = Nat
  <2>1. N \in SUBSET Nat
    OBVIOUS
  <2> HIDE DEF N
  <2> QED BY <1>2, <1>3, <2>1, NatSetInduction
<1>5. Cardinality(S) \in N /\ S \in SUBSET S
  BY <1>1, <1>4
<1> QED
  BY <1>5

\* A total of f over the subsets of S, in whatever order it is added up.
IsTotal(g, f, S) ==
  /\ g \in [SUBSET S -> Int]
  /\ g[{}] = 0
  /\ \A T \in SUBSET S : \A x \in T : g[T] = f[x] + g[T \ {x}]

LEMMA TotalExists ==
  ASSUME NEW S, IsFiniteSet(S), NEW f, \A x \in S : f[x] \in Int
  PROVE  \E g : IsTotal(g, f, S)
<1> DEFINE F == {T \in SUBSET S : \E g : IsTotal(g, f, T)}
<1>1. {} \in F
  <2> DEFINE g == [T \in SUBSET {} |-> 0]
  <2>1. IsTotal(g, f, {})
    BY DEF IsTotal
  <2> QED
    BY <2>1
<1>2. ASSUME NEW T \in F, NEW x \in S \ T PROVE T \cup {x} \in F
  <2>1. PICK g : IsTotal(g, f, T)
    OBVIOUS
  <2> DEFINE U == T \cup {x}
             h == [R \in SUBSET U |-> IF x \in R THEN f[x] + g[R \ {x}] ELSE g[R]]
  <2>2. \A R \in SUBSET U : R \ {x} \in SUBSET T
    OBVIOUS
  <2>3. h \in [SUBSET U -> Int]
    BY <2>1, <2>2 DEF IsTotal
  <2>4. h[{}] = 0
    BY <2>1 DEF IsTotal
  <2>5. ASSUME NEW R \in SUBSET U, NEW y \in R PROVE h[R] = f[y] + h[R \ {y}]
    <3>1. CASE y = x
      BY <3>1
    <3>2. CASE y # x /\ x \notin R
      <4>1. R \in SUBSET T /\ R \ {y} \in SUBSET U
        BY <3>2
      <4> QED
        BY <2>1, <3>2, <4>1 DEF IsTotal
    <3>3. CASE y # x /\ x \in R
      <4>1. R \ {x} \in SUBSET T /\ y \in R \ {x} /\ R \ {y} \in SUBSET U /\ x \in R \ {y}
        BY <3>3
      <4>2. (R \ {x}) \ {y} = (R \ {y}) \ {x}
        OBVIOUS
      <4>3. g[R \ {x}] = f[y] + g[(R \ {y}) \ {x}]
        <5>1. g[R \ {x}] = f[y] + g[(R \ {x}) \ {y}]
          BY <2>1, <4>1 DEF IsTotal
        <5> QED
          BY <4>2, <5>1
      <4>4. h[R] = f[x] + g[R \ {x}] /\ h[R \ {y}] = f[x] + g[(R \ {y}) \ {x}]
        BY <3>3, <4>1
      <4>5. f[x] \in Int /\ f[y] \in Int /\ g[(R \ {y}) \ {x}] \in Int
        BY <2>1, <4>1, <4>2 DEF IsTotal
      <4> QED
        BY <4>3, <4>4, <4>5
    <3> QED
      BY <3>1, <3>2, <3>3
  <2> HIDE DEF h
  <2>6. IsTotal(h, f, U)
    BY <2>3, <2>4, <2>5 DEF IsTotal
  <2> QED
    BY <2>6
<1>3. S \in F
  <2> HIDE DEF F
  <2>1. F \in SUBSET (SUBSET S)
    BY DEF F
  <2> QED BY <1>1, <1>2, <2>1, SubsetInduction
<1> QED
  BY <1>3

\* The fold of the community modules is the total.
LEMMA SumIsTotal ==
  ASSUME NEW S, IsFiniteSet(S), NEW f, \A x \in S : f[x] \in Int,
         NEW g, IsTotal(g, f, S)
  PROVE  SumFunctionOnSet(f, S) = g[S]
<1> DEFINE Rec(h) == h = [s \in SUBSET S |-> IF s = {} THEN 0
                           ELSE f[CHOOSE x \in s : TRUE] + h[s \ {CHOOSE x \in s : TRUE}]]
           iter == CHOOSE h : Rec(h)
<1>1. SumFunctionOnSet(f, S) = iter[S]
  BY DEF SumFunctionOnSet, FoldFunctionOnSet, MapThenFoldSet
<1>2. Rec(g)
  <2> DEFINE h == [s \in SUBSET S |-> IF s = {} THEN 0
                    ELSE f[CHOOSE x \in s : TRUE] + g[s \ {CHOOSE x \in s : TRUE}]]
  <2>1. ASSUME NEW s \in SUBSET S PROVE g[s] = h[s]
    <3>1. CASE s = {}
      BY <3>1 DEF IsTotal
    <3>2. CASE s # {}
      <4>1. (CHOOSE x \in s : TRUE) \in s
        BY <3>2
      <4> QED
        BY <3>2, <4>1 DEF IsTotal
    <3> QED
      BY <3>1, <3>2
  <2>2. g = h
    <3>1. DOMAIN g = SUBSET S /\ g = [s \in SUBSET S |-> g[s]]
      BY DEF IsTotal
    <3> QED
      BY <2>1, <3>1
  <2> QED
    BY <2>2
<1>3. Rec(iter)
  <2>1. \E h : Rec(h)
    BY <1>2
  <2> HIDE DEF Rec
  <2> QED
    BY <2>1
<1> HIDE DEF iter
<1> DEFINE N == {n \in Nat : \A s \in SUBSET S : Cardinality(s) = n => iter[s] = g[s]}
<1>4. \A s \in SUBSET S : IsFiniteSet(s) /\ Cardinality(s) \in Nat
  BY FS_Subset, FS_CardinalityType
<1>5. 0 \in N
  <2>1. iter[{}] = 0
    BY <1>3
  <2>2. \A s \in SUBSET S : Cardinality(s) = 0 => s = {}
    BY <1>4, FS_EmptySet
  <2> QED
    BY <2>1, <2>2 DEF IsTotal
<1>6. ASSUME NEW n \in N PROVE n + 1 \in N
  <2> SUFFICES ASSUME NEW s \in SUBSET S, Cardinality(s) = n + 1 PROVE iter[s] = g[s]
    OBVIOUS
  <2> DEFINE x == CHOOSE x \in s : TRUE
  <2>1. s # {}
    <3>1. n + 1 # 0
      OBVIOUS
    <3> QED
      BY <3>1, FS_EmptySet
  <2>2. x \in s
    BY <2>1
  <2>3. iter[s] = f[x] + iter[s \ {x}]
    BY <1>3, <2>1
  <2> HIDE DEF x
  <2>4. Cardinality(s \ {x}) = n
    <3>1. n \in Nat
      OBVIOUS
    <3>2. Cardinality(s \ {x}) = Cardinality(s) - 1
      BY <1>4, <2>2, FS_RemoveElement
    <3> QED
      BY <3>1, <3>2
  <2>5. iter[s \ {x}] = g[s \ {x}]
    BY <2>4
  <2> QED
    BY <2>2, <2>3, <2>5 DEF IsTotal
<1>7. N = Nat
  <2>1. N \in SUBSET Nat
    OBVIOUS
  <2> HIDE DEF N
  <2> QED BY <1>5, <1>6, <2>1, NatSetInduction
<1>8. Cardinality(S) \in N /\ S \in SUBSET S
  BY <1>4, <1>7
<1> QED
  BY <1>1, <1>8

\* What sums are reasoned with.
LEMMA SumEmpty == \A f : SumFunctionOnSet(f, {}) = 0
<1> SUFFICES ASSUME NEW f PROVE SumFunctionOnSet(f, {}) = 0
  OBVIOUS
<1>1. PICK g : IsTotal(g, f, {})
  BY FS_EmptySet, TotalExists
<1> QED
  BY <1>1, FS_EmptySet, SumIsTotal DEF IsTotal

LEMMA SumRemove ==
  ASSUME NEW S, IsFiniteSet(S), NEW f, \A x \in S : f[x] \in Int
  PROVE  /\ SumFunctionOnSet(f, S) \in Int
         /\ \A x \in S : SumFunctionOnSet(f, S) = f[x] + SumFunctionOnSet(f, S \ {x})
<1>1. PICK g : IsTotal(g, f, S)
  BY TotalExists
<1>2. ASSUME NEW T \in SUBSET S PROVE SumFunctionOnSet(f, T) = g[T]
  <2>1. IsFiniteSet(T)
    BY FS_Subset
  <2> DEFINE h == [R \in SUBSET T |-> g[R]]
  <2>2. IsTotal(h, f, T)
    BY <1>1 DEF IsTotal
  <2> HIDE DEF h
  <2>3. SumFunctionOnSet(f, T) = h[T]
    BY <2>1, <2>2, SumIsTotal
  <2> QED
    BY <2>3 DEF h
<1> QED
  BY <1>1, <1>2 DEF IsTotal

LEMMA SumNat ==
  ASSUME NEW S, IsFiniteSet(S), NEW f, \A x \in S : f[x] \in Nat
  PROVE  SumFunctionOnSet(f, S) \in Nat
<1> DEFINE F == {T \in SUBSET S : SumFunctionOnSet(f, T) \in Nat}
<1>1. {} \in F
  BY SumEmpty
<1>2. ASSUME NEW T \in F, NEW x \in S \ T PROVE T \cup {x} \in F
  <2> DEFINE U == T \cup {x}
  <2>1. IsFiniteSet(U) /\ U \ {x} = T
    BY FS_Subset
  <2>2. x \in U /\ (\A y \in U : f[y] \in Int) /\ f[x] \in Nat
    OBVIOUS
  <2>3. SumFunctionOnSet(f, T) \in Nat
    OBVIOUS
  <2> HIDE DEF U
  <2>4. SumFunctionOnSet(f, U) = f[x] + SumFunctionOnSet(f, T)
    BY <2>1, <2>2, SumRemove
  <2>5. SumFunctionOnSet(f, U) \in Nat
    BY <2>2, <2>3, <2>4
  <2> QED
    BY <2>5 DEF U
<1>3. S \in F
  <2> HIDE DEF F
  <2>1. F \in SUBSET (SUBSET S)
    BY DEF F
  <2> QED
    BY <1>1, <1>2, <2>1, SubsetInduction
<1> QED
  BY <1>3

LEMMA SumSame ==
  ASSUME NEW S, IsFiniteSet(S), NEW f, NEW h, \A x \in S : f[x] \in Int /\ f[x] = h[x]
  PROVE  SumFunctionOnSet(f, S) = SumFunctionOnSet(h, S)
<1>1. PICK g : IsTotal(g, f, S)
  BY TotalExists
<1>2. IsTotal(g, h, S)
  BY <1>1 DEF IsTotal
<1> QED
  BY <1>1, <1>2, SumIsTotal

LEMMA SumUnion ==
  ASSUME NEW S, NEW T, IsFiniteSet(S), IsFiniteSet(T), S \cap T = {},
         NEW f, \A x \in S \cup T : f[x] \in Int
  PROVE  SumFunctionOnSet(f, S \cup T) = SumFunctionOnSet(f, S) + SumFunctionOnSet(f, T)
<1> DEFINE F == {R \in SUBSET S : SumFunctionOnSet(f, R \cup T) =
                    SumFunctionOnSet(f, R) + SumFunctionOnSet(f, T)}
<1>1. {} \in F
  <2>1. SumFunctionOnSet(f, T) \in Int
    BY SumRemove
  <2> QED
    BY <2>1, SumEmpty
<1>2. ASSUME NEW R \in F, NEW x \in S \ R PROVE R \cup {x} \in F
  <2> DEFINE U == R \cup {x}
  <2>1. IsFiniteSet(R)
    BY FS_Subset
  <2>2. IsFiniteSet(U)
    BY <2>1, FS_AddElement
  <2>3. IsFiniteSet(U \cup T)
    BY <2>2, FS_Union
  <2>4. U \ {x} = R /\ (U \cup T) \ {x} = R \cup T
    OBVIOUS
  <2>5. SumFunctionOnSet(f, U) = f[x] + SumFunctionOnSet(f, R)
    BY <2>2, <2>4, SumRemove
  <2>6. SumFunctionOnSet(f, U \cup T) = f[x] + SumFunctionOnSet(f, R \cup T)
    BY <2>3, <2>4, SumRemove
  <2>7. f[x] \in Int /\ SumFunctionOnSet(f, R) \in Int /\ SumFunctionOnSet(f, T) \in Int
    BY <2>1, SumRemove
  <2> QED
    BY <2>5, <2>6, <2>7
<1>3. S \in F
  <2> HIDE DEF F
  <2>1. F \in SUBSET (SUBSET S)
    BY DEF F
  <2> QED
    BY <1>1, <1>2, <2>1, SubsetInduction
<1> QED
  BY <1>3

LEMMA SumSingle ==
  ASSUME NEW x, NEW f, f[x] \in Int
  PROVE  SumFunctionOnSet(f, {x}) = f[x]
<1>1. IsFiniteSet({x}) /\ {x} \ {x} = {}
  BY FS_Singleton
<1>2. SumFunctionOnSet(f, {x}) = f[x] + SumFunctionOnSet(f, {})
  BY <1>1, SumRemove
<1> QED
  BY <1>2, SumEmpty

\* Sums are linear.
LEMMA SumLinear ==
  ASSUME NEW S, IsFiniteSet(S), NEW f, NEW g, NEW h, NEW k \in Int,
         \A x \in S : f[x] \in Int /\ g[x] \in Int /\ h[x] = f[x] + k * g[x]
  PROVE  SumFunctionOnSet(h, S) = SumFunctionOnSet(f, S) + k * SumFunctionOnSet(g, S)
<1> DEFINE F == {T \in SUBSET S : SumFunctionOnSet(h, T) =
                    SumFunctionOnSet(f, T) + k * SumFunctionOnSet(g, T)}
<1>1. {} \in F
  BY SumEmpty
<1>2. ASSUME NEW T \in F, NEW x \in S \ T PROVE T \cup {x} \in F
  <2> DEFINE U == T \cup {x}
  <2>1. IsFiniteSet(T) /\ IsFiniteSet(U) /\ U \ {x} = T
    BY FS_Subset
  <2>2. \A y \in U : f[y] \in Int /\ g[y] \in Int /\ h[y] \in Int
    OBVIOUS
  <2>3. /\ SumFunctionOnSet(f, U) = f[x] + SumFunctionOnSet(f, T)
        /\ SumFunctionOnSet(f, T) \in Int
    BY <2>1, <2>2, SumRemove
  <2>4. /\ SumFunctionOnSet(g, U) = g[x] + SumFunctionOnSet(g, T)
        /\ SumFunctionOnSet(g, T) \in Int
    BY <2>1, <2>2, SumRemove
  <2>5. SumFunctionOnSet(h, U) = h[x] + SumFunctionOnSet(h, T)
    BY <2>1, <2>2, SumRemove
  <2>6. f[x] \in Int /\ g[x] \in Int /\ h[x] = f[x] + k * g[x]
    OBVIOUS
  <2>7. SumFunctionOnSet(h, T) = SumFunctionOnSet(f, T) + k * SumFunctionOnSet(g, T)
    OBVIOUS
  <2>8. SumFunctionOnSet(h, U) = SumFunctionOnSet(f, U) + k * SumFunctionOnSet(g, U)
    BY <2>3, <2>4, <2>5, <2>6, <2>7
  <2> QED
    BY <2>8
<1>3. S \in F
  <2> HIDE DEF F
  <2>1. F \in SUBSET (SUBSET S)
    BY DEF F
  <2> QED
    BY <1>1, <1>2, <2>1, SubsetInduction
<1> QED
  BY <1>3

LEMMA SumZero ==
  ASSUME NEW S, IsFiniteSet(S), NEW f, \A x \in S : f[x] = 0
  PROVE  SumFunctionOnSet(f, S) = 0
<1>1. SumFunctionOnSet(f, S) = SumFunctionOnSet(f, S) + 1 * SumFunctionOnSet(f, S)
  BY SumLinear
<1>2. SumFunctionOnSet(f, S) \in Int
  BY SumRemove
<1> DEFINE s == SumFunctionOnSet(f, S)
<1>3. s \in Int /\ s = s + 1 * s
  BY <1>1, <1>2
<1> HIDE DEF s
<1>4. s = 0
  BY <1>3
<1> QED
  BY <1>4 DEF s

LEMMA SumMonotone ==
  ASSUME NEW S, IsFiniteSet(S), NEW f, NEW g,
         \A x \in S : f[x] \in Int /\ g[x] \in Int /\ f[x] <= g[x]
  PROVE  SumFunctionOnSet(f, S) <= SumFunctionOnSet(g, S)
<1> DEFINE d == [x \in S |-> g[x] - f[x]]
<1>1. SumFunctionOnSet(d, S) \in Nat
  BY SumNat
<1>2. SumFunctionOnSet(d, S) = SumFunctionOnSet(g, S) + (-1) * SumFunctionOnSet(f, S)
  <2>1. \A x \in S : d[x] = g[x] + (-1) * f[x]
    OBVIOUS
  <2> HIDE DEF d
  <2> QED
    BY <2>1, SumLinear
<1>3. SumFunctionOnSet(f, S) \in Int /\ SumFunctionOnSet(g, S) \in Int
  BY SumRemove
<1> QED
  BY <1>1, <1>2, <1>3

\* A sum of numbers that are not negative is no less than any of them.
LEMMA SumAtLeast ==
  ASSUME NEW S, IsFiniteSet(S), NEW f, \A x \in S : f[x] \in Nat, NEW y \in S
  PROVE  f[y] <= SumFunctionOnSet(f, S)
<1>1. IsFiniteSet(S \ {y}) /\ (\A x \in S : f[x] \in Int) /\ \A x \in S \ {y} : f[x] \in Nat
  BY FS_Subset
<1>2. SumFunctionOnSet(f, S) = f[y] + SumFunctionOnSet(f, S \ {y})
  BY <1>1, SumRemove
<1>3. SumFunctionOnSet(f, S \ {y}) \in Nat
  BY <1>1, SumNat
<1>4. f[y] \in Nat
  OBVIOUS
<1> QED
  BY <1>2, <1>3, <1>4

\* Members outside T bear nothing.
LEMMA SumOutside ==
  ASSUME NEW S, IsFiniteSet(S), NEW T \in SUBSET S, NEW f,
         \A x \in T : f[x] \in Int, \A x \in S \ T : f[x] = 0
  PROVE  SumFunctionOnSet(f, S) = SumFunctionOnSet(f, T)
<1>1. IsFiniteSet(T) /\ IsFiniteSet(S \ T) /\ (S \ T) \cup T = S /\ (S \ T) \cap T = {}
  BY FS_Subset
<1>2. SumFunctionOnSet(f, S \ T) = 0
  BY <1>1, SumZero
<1>3. SumFunctionOnSet(f, (S \ T) \cup T) = SumFunctionOnSet(f, S \ T) + SumFunctionOnSet(f, T)
  BY <1>1, SumUnion
<1>4. SumFunctionOnSet(f, T) \in Int
  BY <1>1, SumRemove
<1> QED
  BY <1>1, <1>2, <1>3, <1>4

\* Adding up k once for every element.
LEMMA SumConstant ==
  ASSUME NEW S, IsFiniteSet(S), NEW k \in Int, NEW f, \A x \in S : f[x] = k
  PROVE  SumFunctionOnSet(f, S) = k * Cardinality(S)
<1> DEFINE F == {T \in SUBSET S : SumFunctionOnSet(f, T) = k * Cardinality(T)}
<1>1. {} \in F
  BY SumEmpty, FS_EmptySet
<1>2. ASSUME NEW T \in F, NEW x \in S \ T PROVE T \cup {x} \in F
  <2> DEFINE U == T \cup {x}
  <2>1. IsFiniteSet(T) /\ IsFiniteSet(U) /\ U \ {x} = T
    BY FS_Subset
  <2>2. Cardinality(U) = Cardinality(T) + 1 /\ Cardinality(T) \in Nat
    BY <2>1, FS_AddElement, FS_CardinalityType
  <2>3. \A y \in U : f[y] \in Int
    OBVIOUS
  <2>4. SumFunctionOnSet(f, U) = f[x] + SumFunctionOnSet(f, T)
    BY <2>1, <2>3, SumRemove
  <2>5. SumFunctionOnSet(f, T) = k * Cardinality(T) /\ f[x] = k
    OBVIOUS
  <2>6. SumFunctionOnSet(f, U) = k * Cardinality(U)
    BY <2>2, <2>4, <2>5
  <2> QED
    BY <2>6
<1>3. S \in F
  <2> HIDE DEF F
  <2>1. F \in SUBSET (SUBSET S)
    BY DEF F
  <2> QED
    BY <1>1, <1>2, <2>1, SubsetInduction
<1> QED
  BY <1>3

\* A table is added up by its rows or by its columns.
IsTable(f, S, T) == \A x \in S, y \in T : f[x][y] \in Int
AreRows(rows, f, S, T) == \A x \in S : rows[x] = SumFunctionOnSet(f[x], T)
AreColumns(columns, f, S, T) ==
  \A y \in T : columns[y] = SumFunctionOnSet([x \in S |-> f[x][y]], S)

LEMMA SumSwap ==
  ASSUME NEW S, NEW T, IsFiniteSet(S), IsFiniteSet(T), NEW f, NEW rows, NEW columns,
         IsTable(f, S, T), AreRows(rows, f, S, T), AreColumns(columns, f, S, T)
  PROVE  SumFunctionOnSet(rows, S) = SumFunctionOnSet(columns, T)
<1> USE DEF IsTable, AreRows, AreColumns
<1> DEFINE C(R) == [y \in T |-> SumFunctionOnSet([x \in S |-> f[x][y]], R)]
           F == {R \in SUBSET S : SumFunctionOnSet(rows, R) = SumFunctionOnSet(C(R), T)}
<1>1. {} \in F
  <2>1. \A y \in T : C({})[y] = 0
    BY SumEmpty
  <2>2. SumFunctionOnSet(C({}), T) = 0
    <3> HIDE DEF C
    <3> QED BY <2>1, SumZero
  <2> QED
    BY <2>2, SumEmpty
<1>2. ASSUME NEW R \in F, NEW x \in S \ R PROVE R \cup {x} \in F
  <2> DEFINE U == R \cup {x}
  <2>1. IsFiniteSet(R) /\ IsFiniteSet(U) /\ U \ {x} = R
    BY FS_Subset
  <2>2. \A z \in S : rows[z] \in Int
    BY SumRemove
  <2>3. SumFunctionOnSet(rows, U) = rows[x] + SumFunctionOnSet(rows, R)
    BY <2>1, <2>2, SumRemove
  <2>4. ASSUME NEW y \in T
        PROVE  C(R)[y] \in Int /\ C(U)[y] = C(R)[y] + 1 * f[x][y]
    <3> DEFINE c == [z \in S |-> f[z][y]]
    <3>1. \A z \in U : c[z] \in Int
      OBVIOUS
    <3>2. c[x] = f[x][y] /\ C(R)[y] = SumFunctionOnSet(c, R) /\ C(U)[y] = SumFunctionOnSet(c, U)
      OBVIOUS
    <3> HIDE DEF c, C
    <3>3. SumFunctionOnSet(c, U) = c[x] + SumFunctionOnSet(c, R) /\ SumFunctionOnSet(c, R) \in Int
      BY <2>1, <3>1, SumRemove
    <3> QED
      BY <3>1, <3>2, <3>3
  <2> HIDE DEF C
  <2>50. \A y \in T : f[x][y] \in Int
    OBVIOUS
  <2>5. SumFunctionOnSet(C(U), T) = SumFunctionOnSet(C(R), T) + 1 * SumFunctionOnSet(f[x], T)
    <3> DEFINE a == C(R)
               b == f[x]
               c == C(U)
    <3>1. \A y \in T : a[y] \in Int /\ b[y] \in Int /\ c[y] = a[y] + 1 * b[y]
      BY <2>4, <2>50
    <3> HIDE DEF a, b, c
    <3>2. SumFunctionOnSet(c, T) = SumFunctionOnSet(a, T) + 1 * SumFunctionOnSet(b, T)
      BY <3>1, SumLinear
    <3> QED
      BY <3>2 DEF a, b, c
  <2>6. SumFunctionOnSet(C(R), T) \in Int /\ rows[x] \in Int /\ rows[x] = SumFunctionOnSet(f[x], T)
    BY <2>2, <2>4, SumRemove
  <2>7. SumFunctionOnSet(rows, R) = SumFunctionOnSet(C(R), T)
    OBVIOUS
  <2>8. SumFunctionOnSet(rows, U) = SumFunctionOnSet(C(U), T)
    BY <2>3, <2>5, <2>6, <2>7
  <2> QED
    BY <2>8
<1>3. S \in F
  <2> HIDE DEF F
  <2>1. F \in SUBSET (SUBSET S)
    BY DEF F
  <2> QED
    BY <1>1, <1>2, <2>1, SubsetInduction
<1>4. SumFunctionOnSet(rows, S) = SumFunctionOnSet(C(S), T)
  BY <1>3
<1>5. SumFunctionOnSet(C(S), T) = SumFunctionOnSet(columns, T)
  <2>1. \A y \in T : C(S)[y] = columns[y]
    OBVIOUS
  <2>2. \A y \in T : C(S)[y] \in Int
    <3> SUFFICES ASSUME NEW y \in T PROVE C(S)[y] \in Int
      OBVIOUS
    <3> DEFINE c == [z \in S |-> f[z][y]]
    <3>1. \A z \in S : c[z] \in Int
      OBVIOUS
    <3>2. C(S)[y] = SumFunctionOnSet(c, S)
      OBVIOUS
    <3> HIDE DEF c, C
    <3> QED
      BY <3>1, <3>2, SumRemove
  <2> HIDE DEF C
  <2> QED
    BY <2>1, <2>2, SumSame
<1> QED
  BY <1>4, <1>5

-----------------------------------------------------------------------------
(* Products and quotients. *)

LEMMA MulMonotone ==
  ASSUME NEW a \in Int, NEW b \in Int, NEW c \in Nat, a <= b
  PROVE  a * c <= b * c
OBVIOUS

LEMMA MulCancel ==
  ASSUME NEW a \in Int, NEW b \in Int, NEW c \in Nat, a * c < b * c
  PROVE  a < b
OBVIOUS

LEMMA DivMod ==
  ASSUME NEW a \in Int, NEW c \in Nat, c > 0
  PROVE  /\ a \div c \in Int /\ a % c \in 0..(c - 1)
         /\ a = (a \div c) * c + (a % c)
OBVIOUS

LEMMA DivMul ==
  ASSUME NEW a \in Int, NEW c \in Nat, c > 0
  PROVE  (a * c) \div c = a
OBVIOUS

LEMMA DivNat ==
  ASSUME NEW a \in Nat, NEW c \in Nat, c > 0
  PROVE  a \div c \in Nat
OBVIOUS

-----------------------------------------------------------------------------
(* The method of the largest remainder: the elements of S are ranked by an *)
(* order R, and those of the first ranks get one more.                     *)

IsOrder(R, S) ==
  /\ \A x \in S : <<x, x>> \notin R
  /\ \A x, y, z \in S : <<x, y>> \in R /\ <<y, z>> \in R => <<x, z>> \in R
  /\ \A x, y \in S : x # y => <<x, y>> \in R \/ <<y, x>> \in R

Before(R, S, x) == {y \in S : <<y, x>> \in R}
FirstOf(R, S, n) == {x \in S : Cardinality(Before(R, S, x)) < n}

\* A finite set that is ordered has a first element.
LEMMA FirstExists ==
  ASSUME NEW S, IsFiniteSet(S), NEW R, IsOrder(R, S), S # {}
  PROVE  \E x \in S : \A y \in S \ {x} : <<x, y>> \in R
<1> DEFINE F == {T \in SUBSET S : T # {} =>
                   \E x \in T : \A y \in T \ {x} : <<x, y>> \in R}
<1>1. {} \in F
  OBVIOUS
<1>2. ASSUME NEW T \in F, NEW z \in S \ T PROVE T \cup {z} \in F
  <2>1. CASE T = {}
    BY <2>1
  <2>2. CASE T # {}
    <3>1. PICK x \in T : \A y \in T \ {x} : <<x, y>> \in R
      BY <2>2
    <3>2. x \in S /\ z \in S /\ x # z /\ T \subseteq S
      OBVIOUS
    <3>3. CASE <<x, z>> \in R
      BY <3>1, <3>2, <3>3
    <3>4. CASE <<z, x>> \in R
      <4>1. \A y \in T : <<z, y>> \in R
        BY <3>1, <3>2, <3>4 DEF IsOrder
      <4> QED
        BY <3>2, <4>1
    <3> QED
      BY <3>2, <3>3, <3>4 DEF IsOrder
  <2> QED
    BY <2>1, <2>2
<1>3. S \in F
  <2> HIDE DEF F
  <2>1. F \in SUBSET (SUBSET S)
    BY DEF F
  <2> QED
    BY <1>1, <1>2, <2>1, SubsetInduction
<1> QED
  BY <1>3

\* Of n ranks there are n elements.
LEMMA FirstOfCount ==
  ASSUME NEW S, IsFiniteSet(S), NEW R, IsOrder(R, S),
         NEW n \in Nat, n <= Cardinality(S)
  PROVE  IsFiniteSet(FirstOf(R, S, n)) /\ Cardinality(FirstOf(R, S, n)) = n
<1> DEFINE N == {k \in Nat : k <= Cardinality(S) => Cardinality(FirstOf(R, S, k)) = k}
<1>1. /\ \A T \in SUBSET S : IsFiniteSet(T) /\ Cardinality(T) \in Nat
      /\ \A T \in SUBSET S : \A U \in SUBSET T :
           /\ Cardinality(U) <= Cardinality(T)
           /\ Cardinality(U) = Cardinality(T) => U = T
  BY FS_Subset, FS_CardinalityType
<1>2. \A x \in S : Before(R, S, x) \in SUBSET S
  BY DEF Before
<1>3. \A k \in Nat : FirstOf(R, S, k) \in SUBSET S
  BY DEF FirstOf
<1>4. 0 \in N
  <2>1. FirstOf(R, S, 0) = {}
    <3>1. \A x \in S : ~ (Cardinality(Before(R, S, x)) < 0)
      BY <1>1, <1>2
    <3> QED
      BY <3>1 DEF FirstOf
  <2> QED
    BY <2>1, FS_EmptySet
<1>5. ASSUME NEW k \in N PROVE k + 1 \in N
  <2> SUFFICES ASSUME k + 1 <= Cardinality(S)
               PROVE  Cardinality(FirstOf(R, S, k + 1)) = k + 1
    OBVIOUS
  <2> DEFINE A == FirstOf(R, S, k)
  <2>1. k \in Nat /\ A \in SUBSET S /\ Cardinality(S) \in Nat
    BY <1>1, <1>3
  <2>2. Cardinality(A) = k
    BY <2>1
  <2>3. S \ A # {} /\ IsFiniteSet(S \ A)
    <3>1. S # A
      BY <2>1, <2>2
    <3> QED
      BY <1>1, <2>1, <3>1
  <2>4. IsOrder(R, S \ A)
    BY DEF IsOrder
  <2>5. PICK x \in S \ A : \A y \in (S \ A) \ {x} : <<x, y>> \in R
    <3> HIDE DEF A
    <3> QED
      BY <2>3, <2>4, FirstExists
  <2>6. Before(R, S, x) = A
    <3>1. ASSUME NEW y \in S, <<y, x>> \in R PROVE y \in A
      <4>1. y # x /\ ~ (<<x, y>> \in R)
        BY <3>1 DEF IsOrder
      <4> QED
        BY <2>5, <4>1
    <3>2. ASSUME NEW y \in A PROVE <<y, x>> \in R
      <4>1. SUFFICES ASSUME <<x, y>> \in R PROVE FALSE
        BY <2>1 DEF IsOrder
      <4>2. Before(R, S, x) \subseteq Before(R, S, y)
        BY <2>1, <4>1 DEF IsOrder, Before
      <4>3. Cardinality(Before(R, S, y)) < k /\ ~ (Cardinality(Before(R, S, x)) < k)
        BY <2>1, <2>5 DEF FirstOf
      <4>4. Cardinality(Before(R, S, x)) <= Cardinality(Before(R, S, y))
        BY <1>1, <1>2, <2>1, <4>2
      <4>5. Cardinality(Before(R, S, x)) \in Nat /\ Cardinality(Before(R, S, y)) \in Nat
        BY <1>1, <1>2, <2>1
      <4> QED
        BY <2>1, <4>3, <4>4, <4>5
    <3> QED
      BY <2>1, <3>1, <3>2 DEF Before
  <2>7. FirstOf(R, S, k + 1) = A \cup {x}
    <3>1. x \in FirstOf(R, S, k + 1)
      BY <2>1, <2>2, <2>5, <2>6 DEF FirstOf
    <3>2. A \subseteq FirstOf(R, S, k + 1)
      <4> SUFFICES ASSUME NEW y \in A PROVE y \in FirstOf(R, S, k + 1)
        OBVIOUS
      <4>1. y \in S /\ Cardinality(Before(R, S, y)) < k /\ Cardinality(Before(R, S, y)) \in Nat
        BY <1>1, <1>2, <2>1 DEF FirstOf
      <4>2. Cardinality(Before(R, S, y)) < k + 1
        BY <2>1, <4>1
      <4> QED
        BY <4>1, <4>2 DEF FirstOf
    <3>3. ASSUME NEW y \in FirstOf(R, S, k + 1), y \notin A, y # x PROVE FALSE
      <4>1. y \in S /\ <<x, y>> \in R
        BY <2>5, <3>3 DEF FirstOf
      <4>2. A \cup {x} \subseteq Before(R, S, y)
        BY <2>1, <2>5, <2>6, <4>1 DEF IsOrder, Before
      <4>3. Cardinality(A \cup {x}) = k + 1
        BY <1>1, <2>1, <2>2, <2>5, FS_AddElement
      <4>4. A \cup {x} \in SUBSET S /\ A \cup {x} \in SUBSET Before(R, S, y)
        BY <2>1, <4>2
      <4>5. Cardinality(A \cup {x}) <= Cardinality(Before(R, S, y))
        BY <1>1, <1>2, <4>1, <4>4
      <4>6. Cardinality(Before(R, S, y)) < k + 1 /\ Cardinality(Before(R, S, y)) \in Nat
        BY <1>1, <1>2, <4>1 DEF FirstOf
      <4> QED
        BY <2>1, <4>3, <4>5, <4>6
    <3> QED
      BY <3>1, <3>2, <3>3
  <2>8. Cardinality(A \cup {x}) = Cardinality(A) + 1
    <3> HIDE DEF A
    <3> QED
      BY <1>1, <2>1, <2>5, FS_AddElement
  <2> QED
    BY <2>2, <2>7, <2>8
<1>6. N = Nat
  <2>1. N \in SUBSET Nat
    OBVIOUS
  <2> HIDE DEF N
  <2> QED
    BY <1>4, <1>5, <2>1, NatSetInduction
<1> QED
  BY <1>1, <1>3, <1>6

\* Whoever comes before one of the first is one of the first.
LEMMA FirstsAreFirst ==
  ASSUME NEW S, IsFiniteSet(S), NEW R, IsOrder(R, S), NEW n \in Int,
         NEW x \in FirstOf(R, S, n), NEW y \in S, <<y, x>> \in R
  PROVE  y \in FirstOf(R, S, n)
<1>1. x \in S /\ Before(R, S, y) \in SUBSET Before(R, S, x) /\ Before(R, S, x) \in SUBSET S
  BY DEF FirstOf, Before, IsOrder
<1>2. IsFiniteSet(Before(R, S, x))
  BY <1>1, FS_Subset
<1>3. /\ Cardinality(Before(R, S, y)) <= Cardinality(Before(R, S, x))
      /\ Cardinality(Before(R, S, x)) \in Nat /\ Cardinality(Before(R, S, y)) \in Nat
  BY <1>1, <1>2, FS_Subset, FS_CardinalityType
<1> QED
  BY <1>3 DEF FirstOf

\* The fractions f, in parts of c, are ranked, larger ones first.  If they add up
\* to n and less than one more, then n is a number of elements, and whoever is of
\* the first n ranks has a fraction.
LEMMA LargestRemainder ==
  ASSUME NEW S, IsFiniteSet(S), NEW R, IsOrder(R, S),
         NEW c \in Nat, NEW f, \A x \in S : f[x] \in 0..(c - 1), c > 0,
         \A x, y \in S : f[y] > f[x] => <<y, x>> \in R,
         NEW n \in Int, n * c <= SumFunctionOnSet(f, S),
         SumFunctionOnSet(f, S) < (n + 1) * c
  PROVE  /\ n \in Nat /\ n <= Cardinality(S)
         /\ \A x \in FirstOf(R, S, n) : f[x] > 0
<1>1. SumFunctionOnSet(f, S) \in Nat
  BY SumNat
<1>2. n \in Nat
  <2>1. 0 * c < (n + 1) * c
    BY <1>1
  <2>2. 0 < n + 1
    BY <2>1, MulCancel
  <2> QED
    BY <2>2
<1> DEFINE g == [x \in S |-> c - 1]
<1>3. \A T \in SUBSET S : SumFunctionOnSet(f, T) <= (c - 1) * Cardinality(T)
  <2> SUFFICES ASSUME NEW T \in SUBSET S
               PROVE  SumFunctionOnSet(f, T) <= (c - 1) * Cardinality(T)
    OBVIOUS
  <2>1. IsFiniteSet(T)
    BY FS_Subset
  <2>2. \A x \in T : f[x] \in Int /\ g[x] \in Int /\ f[x] <= g[x] /\ g[x] = c - 1
    OBVIOUS
  <2> HIDE DEF g
  <2>3. SumFunctionOnSet(f, T) <= SumFunctionOnSet(g, T)
    BY <2>1, <2>2, SumMonotone
  <2>4. c - 1 \in Int
    OBVIOUS
  <2>5. SumFunctionOnSet(g, T) = (c - 1) * Cardinality(T)
    BY <2>1, <2>2, <2>4, SumConstant
  <2> QED
    BY <2>3, <2>5
<1>4. \A T \in SUBSET S : Cardinality(T) \in Nat /\ IsFiniteSet(T)
  BY FS_Subset, FS_CardinalityType
<1>5. n <= Cardinality(S)
  <2> DEFINE k == Cardinality(S)
  <2>1. k \in Nat /\ n * c <= (c - 1) * k
    BY <1>1, <1>3, <1>4
  <2> HIDE DEF k
  <2>2. (c - 1) * k < (k + 1) * c
    BY <2>1
  <2>3. n * c < (k + 1) * c
    BY <1>2, <2>1, <2>2
  <2>4. n < k + 1
    BY <1>2, <2>1, <2>3, MulCancel
  <2> QED
    BY <1>2, <2>1, <2>4 DEF k
<1>6. ASSUME NEW x \in FirstOf(R, S, n), ~ (f[x] > 0) PROVE FALSE
  <2> DEFINE P == Before(R, S, x)
             k == Cardinality(P)
  <2>1. P \in SUBSET S /\ x \in S /\ k \in Nat /\ k < n
    BY <1>4 DEF Before, FirstOf
  <2>2. f[x] = 0
    BY <1>6, <2>1
  <2>3. \A y \in S \ P : f[y] = 0
    BY <2>1, <2>2 DEF Before
  <2>4. \A y \in P : f[y] \in Int
    BY <2>1
  <2>5. SumFunctionOnSet(f, S) = SumFunctionOnSet(f, P)
    <3> HIDE DEF P
    <3> QED
      BY <2>1, <2>3, <2>4, SumOutside
  <2>6. n * c <= (c - 1) * k
    BY <1>1, <1>2, <1>3, <2>1, <2>5
  <2> HIDE DEF k
  <2>7. (c - 1) * k < (k + 1) * c
    BY <2>1
  <2>8. n * c < (k + 1) * c
    BY <1>2, <2>1, <2>6, <2>7
  <2>9. n < k + 1
    BY <1>2, <2>1, <2>8, MulCancel
  <2> QED
    BY <1>2, <2>1, <2>9
<1> QED
  BY <1>2, <1>5, <1>6

\* One more for each of the first n ranks makes n more.
LEMMA HandedOut ==
  ASSUME NEW S, IsFiniteSet(S), NEW R, IsOrder(R, S),
         NEW n \in Nat, n <= Cardinality(S),
         NEW base, NEW shares, \A x \in S : base[x] \in Int,
         \A x \in S : shares[x] = IF x \in FirstOf(R, S, n) THEN base[x] + 1 ELSE base[x]
  PROVE  SumFunctionOnSet(shares, S) = SumFunctionOnSet(base, S) + n
<1> DEFINE A == FirstOf(R, S, n)
           one == [x \in S |-> IF x \in A THEN 1 ELSE 0]
<1>1. IsFiniteSet(A) /\ Cardinality(A) = n /\ A \in SUBSET S
  BY FirstOfCount DEF FirstOf
<1> HIDE DEF A
<1>2. SumFunctionOnSet(one, S) = n
  <2>1. (\A x \in A : one[x] = 1 /\ one[x] \in Int) /\ \A x \in S \ A : one[x] = 0
    BY <1>1
  <2> HIDE DEF one
  <2>2. SumFunctionOnSet(one, S) = SumFunctionOnSet(one, A)
    BY <1>1, <2>1, SumOutside
  <2>3. SumFunctionOnSet(one, A) = 1 * Cardinality(A)
    BY <1>1, <2>1, SumConstant
  <2> QED
    BY <1>1, <2>2, <2>3
<1>3. \A x \in S : base[x] \in Int /\ one[x] \in Int /\ shares[x] = base[x] + 1 * one[x]
  BY DEF A
<1> HIDE DEF one
<1>4. SumFunctionOnSet(shares, S) = SumFunctionOnSet(base, S) + 1 * SumFunctionOnSet(one, S)
  BY <1>3, SumLinear
<1>5. SumFunctionOnSet(base, S) \in Int
  BY SumRemove
<1> QED
  BY <1>2, <1>4, <1>5

-----------------------------------------------------------------------------
(* Recursion over the first n numbers, in the form that FoldLeft has: h    *)
(* is defined on all subsets and takes the largest number away.            *)

LargestOf(T) == CHOOSE x \in T : \A y \in T : x >= y

LEMMA LargestIsLast ==
  ASSUME NEW n \in Nat, NEW T \in SUBSET (1..n), n \in T
  PROVE  LargestOf(T) = n
<1>1. \A y \in T : n >= y
  OBVIOUS
<1>2. \A x \in T : (\A y \in T : x >= y) => x = n
  OBVIOUS
<1> QED
  BY <1>1, <1>2 DEF LargestOf

LEMMA LargestIsIn ==
  ASSUME NEW n \in Nat, NEW T \in SUBSET (1..n), T # {}
  PROVE  LargestOf(T) \in T
<1> DEFINE N == {m \in Nat : \A U \in SUBSET (1..m) : U # {} => LargestOf(U) \in U}
<1>1. 0 \in N
  <2>1. \A U \in SUBSET (1..0) : U = {}
    OBVIOUS
  <2> QED
    BY <2>1
<1>2. ASSUME NEW m \in N PROVE m + 1 \in N
  <2> SUFFICES ASSUME NEW U \in SUBSET (1..(m + 1)), U # {} PROVE LargestOf(U) \in U
    OBVIOUS
  <2>1. CASE m + 1 \in U
    BY <2>1, LargestIsLast
  <2>2. CASE m + 1 \notin U
    <3>1. U \in SUBSET (1..m)
      BY <2>2
    <3> QED
      BY <3>1
  <2> QED
    BY <2>1, <2>2
<1>3. N = Nat
  <2>1. N \in SUBSET Nat
    OBVIOUS
  <2> HIDE DEF N
  <2> QED
    BY <1>1, <1>2, <2>1, NatSetInduction
<1> QED
  BY <1>3

\* The values h takes on subsets when step[x][i] is what the i-th element makes of x.
IsRecursion(h, b, step, n) ==
  \A T \in SUBSET (1..n) :
    h[T] = IF T = {} THEN b ELSE step[h[T \ {LargestOf(T)}]][LargestOf(T)]

LEMMA RecursionExists ==
  ASSUME NEW X, NEW b \in X, NEW n \in Nat, NEW step,
         \A x \in X : \A i \in 1..n : step[x][i] \in X
  PROVE  \E h \in [SUBSET (1..n) -> X] : IsRecursion(h, b, step, n)
<1> DEFINE Solved(m) == \E h \in [SUBSET (1..m) -> X] : IsRecursion(h, b, step, m)
           N == {m \in Nat : m <= n => Solved(m)}
<1>1. 0 \in N
  <2> DEFINE h == [T \in SUBSET (1..0) |-> b]
  <2>1. \A T \in SUBSET (1..0) : T = {}
    OBVIOUS
  <2>2. IsRecursion(h, b, step, 0) /\ h \in [SUBSET (1..0) -> X]
    BY <2>1 DEF IsRecursion
  <2>3. Solved(0)
    BY <2>2
  <2> QED
    BY <2>3
<1>2. ASSUME NEW m \in Nat, Solved(m), m + 1 <= n PROVE Solved(m + 1)
  <2>1. m + 1 \in 1..n /\ m <= n
    BY <1>2
  <2>2. PICK g \in [SUBSET (1..m) -> X] : IsRecursion(g, b, step, m)
    BY <1>2
  <2> DEFINE h == [T \in SUBSET (1..(m + 1)) |->
                     IF m + 1 \in T THEN step[g[T \ {m + 1}]][m + 1] ELSE g[T]]
  <2>3. \A T \in SUBSET (1..(m + 1)) : T \ {m + 1} \in SUBSET (1..m)
    OBVIOUS
  <2>4. \A T \in SUBSET (1..(m + 1)) : m + 1 \notin T => T \in SUBSET (1..m)
    OBVIOUS
  <2>5. h \in [SUBSET (1..(m + 1)) -> X]
    BY <2>1, <2>3, <2>4
  <2>6. ASSUME NEW T \in SUBSET (1..(m + 1))
        PROVE  h[T] = IF T = {} THEN b ELSE step[h[T \ {LargestOf(T)}]][LargestOf(T)]
    <3>1. CASE m + 1 \in T
      <4>1. LargestOf(T) = m + 1
        BY <2>1, <3>1, LargestIsLast
      <4>2. T \ {m + 1} \in SUBSET (1..(m + 1)) /\ m + 1 \notin T \ {m + 1} /\ T # {}
        BY <3>1
      <4>3. h[T \ {m + 1}] = g[T \ {m + 1}] /\ h[T] = step[g[T \ {m + 1}]][m + 1]
        BY <3>1, <4>2
      <4> QED
        BY <4>1, <4>2, <4>3
    <3>2. CASE m + 1 \notin T
      <4>1. T \in SUBSET (1..m) /\ h[T] = g[T]
        BY <2>4, <3>2
      <4>2. CASE T = {}
        BY <2>2, <4>1, <4>2 DEF IsRecursion
      <4>3. CASE T # {}
        <5> DEFINE l == LargestOf(T)
        <5>1. l \in T
          BY <2>1, <4>1, <4>3, LargestIsIn
        <5>2. T \ {l} \in SUBSET (1..(m + 1)) /\ m + 1 \notin T \ {l}
          BY <3>2
        <5>3. h[T \ {l}] = g[T \ {l}]
          BY <5>2
        <5>4. g[T] = step[g[T \ {l}]][l]
          BY <2>2, <4>1, <4>3 DEF IsRecursion
        <5> QED
          BY <4>1, <4>3, <5>3, <5>4
      <4> QED
        BY <4>2, <4>3
    <3> QED
      BY <3>1, <3>2
  <2> HIDE DEF h
  <2>7. IsRecursion(h, b, step, m + 1)
    BY <2>6 DEF IsRecursion
  <2> QED
    BY <2>5, <2>7
<1> HIDE DEF Solved
<1>3. N = Nat
  <2>1. N \in SUBSET Nat
    OBVIOUS
  <2>2. \A m \in N : m + 1 \in N
    BY <1>2
  <2> HIDE DEF N
  <2> QED
    BY <1>1, <2>1, <2>2, NatSetInduction
<1>4. n \in N /\ n <= n
  BY <1>3
<1>5. Solved(n)
  BY <1>4
<1> QED
  BY <1>5 DEF Solved

\* What a recursion makes of the first k elements, for every k; h is known to
\* take a step only from a value of X.
StepsIn(step, X, n) == \A x \in X : \A i \in 1..n : step[x][i] \in X

RecursIn(h, b, step, X, n) ==
  /\ h[{}] = b
  /\ \A T \in SUBSET (1..n) : T # {} /\ h[T \ {LargestOf(T)}] \in X =>
       h[T] = step[h[T \ {LargestOf(T)}]][LargestOf(T)]

LEMMA RecursionFollows ==
  ASSUME NEW X, NEW b \in X, NEW n \in Nat, NEW step, StepsIn(step, X, n),
         NEW h, RecursIn(h, b, step, X, n)
  PROVE  /\ h[1..0] = b
         /\ \A k \in 0..n : h[1..k] \in X
         /\ \A k \in 1..n : h[1..k] = step[h[1..(k - 1)]][k]
<1>1. 1..0 = {} /\ h[{}] = b
  BY DEF RecursIn
<1> DEFINE Good(m) == m <= n => h[1..m] \in X
           N == {m \in Nat : Good(m)}
<1>2. ASSUME NEW m \in Nat, m + 1 <= n, h[1..m] \in X
      PROVE  h[1..(m + 1)] = step[h[1..m]][m + 1] /\ h[1..(m + 1)] \in X
  <2> DEFINE T == 1..(m + 1)
  <2>1. m + 1 \in T /\ T \in SUBSET (1..n) /\ T \ {m + 1} = 1..m /\ m + 1 \in 1..n
    BY <1>2
  <2>2. LargestOf(T) = m + 1
    <3>1. m + 1 \in Nat /\ T \in SUBSET (1..(m + 1))
      OBVIOUS
    <3> QED
      BY <2>1, <3>1, LargestIsLast
  <2> HIDE DEF T
  <2>3. h[T] = step[h[1..m]][m + 1]
    BY <1>2, <2>1, <2>2 DEF RecursIn
  <2>4. step[h[1..m]][m + 1] \in X
    BY <1>2, <2>1 DEF StepsIn
  <2> QED
    BY <2>3, <2>4 DEF T
<1>3. N = Nat
  <2>1. 0 \in N
    BY <1>1
  <2>2. \A m \in N : m + 1 \in N
    BY <1>2
  <2>3. N \in SUBSET Nat
    OBVIOUS
  <2> HIDE DEF N
  <2> QED
    BY <2>1, <2>2, <2>3, NatSetInduction
<1>4. \A k \in 0..n : h[1..k] \in X
  BY <1>3
<1>5. ASSUME NEW k \in 1..n PROVE h[1..k] = step[h[1..(k - 1)]][k]
  <2>1. k - 1 \in Nat /\ k - 1 \in 0..n /\ (k - 1) + 1 = k /\ k <= n
    OBVIOUS
  <2>2. h[1..(k - 1)] \in X
    BY <1>4, <2>1
  <2> QED
    BY <1>2, <2>1, <2>2
<1> QED
  BY <1>1, <1>4, <1>5
=============================================================================
