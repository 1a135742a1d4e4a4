------------------------------ MODULE Induction ------------------------------
(***************************************************************************)
(* Induction over the natural numbers and the laws of finite sums, for the *)
(* proofs of this project.  The library's induction theorems take the      *)
(* induction hypothesis as an operator; here it is a set.                  *)
(***************************************************************************)
EXTENDS Integers, Functions, FiniteSetTheorems, WellFoundedInduction, TLAPS

\* Every nonempty set of natural numbers has a least member.
LEMMA LeastNumber ==
    ASSUME NEW T \in SUBSET Nat, T # {}
    PROVE  \E x \in T : \A y \in T : x <= y
<1> DEFINE R == {ss \in Nat \X Nat : ss[1] < ss[2]}
<1>1. IsWellFoundedOn(R, Nat)
  BY NatLessThanWellFounded DEF OpToRel
<1>2. \A x, y \in Nat : x <= y \/ <<y, x>> \in R
  OBVIOUS
<1> HIDE DEF R
<1>3. \E x \in T : \A y \in T : ~(<<y, x>> \in R)
  BY <1>1, WFMin
<1> QED BY <1>2, <1>3

\* A set with 0 and with the successor of each of its numbers has all natural numbers.
LEMMA SetInduction ==
    ASSUME NEW T, 0 \in T, \A n \in Nat : n \in T => n + 1 \in T
    PROVE  Nat \subseteq T
<1> SUFFICES ASSUME Nat \ T # {} PROVE FALSE
  OBVIOUS
<1>1. PICK n \in Nat \ T : \A y \in Nat \ T : n <= y
  BY LeastNumber
<1>2. n # 0 /\ n - 1 \in Nat /\ n - 1 \notin Nat \ T
  BY <1>1
<1> QED BY <1>1, <1>2

-----------------------------------------------------------------------------
(* Sums.  SumFunctionOnSet folds over a set in an order nobody knows. *)

\* The element that the fold takes next, one step of it, and the fold on all subsets of a set.
PickOne(s) == CHOOSE x \in s : TRUE
FoldStep(f, g, s) == IF s = {} THEN 0 ELSE f[PickOne(s)] + g[s \ {PickOne(s)}]
FoldOf(f, S) == CHOOSE g : g = [s \in SUBSET S |-> FoldStep(f, g, s)]
Folds(g, f, S) == \A s \in SUBSET S : g[s] = FoldStep(f, g, s)
Agree(f, f2, S) == \A x \in S : f[x] = f2[x]

\* The sum is the fold on the whole set.
LEMMA SumIsFold ==
    ASSUME NEW f, NEW S
    PROVE  SumFunctionOnSet(f, S) = FoldOf(f, S)[S]
BY Zenon DEF SumFunctionOnSet, FoldFunctionOnSet, MapThenFoldSet, FoldOf, FoldStep, PickOne

\* Taking one element from a finite set leaves a smaller one.
LEMMA PickedSet ==
    ASSUME NEW s, IsFiniteSet(s), s # {}
    PROVE  /\ PickOne(s) \in s /\ IsFiniteSet(s \ {PickOne(s)})
           /\ Cardinality(s \ {PickOne(s)}) = Cardinality(s) - 1
           /\ Cardinality(s) \in Nat /\ Cardinality(s \ {PickOne(s)}) \in Nat
<1>1. PickOne(s) \in s
  BY DEF PickOne
<1> QED BY <1>1, FS_RemoveElement, FS_CardinalityType

\* On a finite set the recursion that defines the fold has a solution.
LEMMA FoldExists ==
    ASSUME NEW f, NEW S, IsFiniteSet(S)
    PROVE  Folds(FoldOf(f, S), f, S)
<1> DEFINE Small(n) == {s \in SUBSET S : Cardinality(s) <= n}
           Found == {n \in Nat : \E g : g = [s \in Small(n) |-> FoldStep(f, g, s)]}
<1>0. \A s \in SUBSET S : IsFiniteSet(s) /\ Cardinality(s) \in Nat /\ Cardinality(s) <= Cardinality(S)
  BY FS_Subset, FS_CardinalityType
<1>1. 0 \in Found
  <2> DEFINE g == [s \in Small(0) |-> 0]
  <2>1. \A s \in Small(0) : s = {}
    BY <1>0, FS_EmptySet
  <2>2. g = [s \in Small(0) |-> FoldStep(f, g, s)]
    BY <2>1 DEF FoldStep
  <2> QED BY <2>2
<1>2. ASSUME NEW n \in Nat, n \in Found PROVE n + 1 \in Found
  <2>1. PICK g : g = [s \in Small(n) |-> FoldStep(f, g, s)]
    BY <1>2
  <2> DEFINE h == [s \in Small(n + 1) |-> FoldStep(f, g, s)]
  <2>2. \A s \in Small(n) : s \in Small(n + 1) /\ h[s] = g[s]
    <3>1. \A s \in Small(n) : s \in Small(n + 1)
      BY <1>0
    <3> QED BY <2>1, <3>1
  <2>3. ASSUME NEW s \in Small(n + 1) PROVE FoldStep(f, g, s) = FoldStep(f, h, s)
    <3>1. CASE s = {}
      BY <3>1 DEF FoldStep
    <3>2. CASE s # {}
      <4>1. s \ {PickOne(s)} \in Small(n)
        <5>1. IsFiniteSet(s) /\ Cardinality(s) <= n + 1
          BY <1>0
        <5>2. Cardinality(s \ {PickOne(s)}) = Cardinality(s) - 1 /\ Cardinality(s) \in Nat
          BY <3>2, <5>1, PickedSet
        <5> QED BY <5>1, <5>2
      <4> HIDE DEF h, Small
      <4> QED BY <2>2, <3>2, <4>1 DEF FoldStep
    <3> QED BY <3>1, <3>2
  <2>4. h = [s \in Small(n + 1) |-> FoldStep(f, h, s)]
    BY <2>3
  <2> HIDE DEF h
  <2> QED BY <2>4
<1> DEFINE N == Cardinality(S)
<1>3. N \in Nat /\ Small(N) = SUBSET S
  BY <1>0, FS_CardinalityType
<1> HIDE DEF Found, N
<1>4. N \in Found
  BY <1>1, <1>2, <1>3, SetInduction
<1>5. \E g : g = [s \in SUBSET S |-> FoldStep(f, g, s)]
  BY <1>3, <1>4 DEF Found
<1>6. FoldOf(f, S) = [s \in SUBSET S |-> FoldStep(f, FoldOf(f, S), s)]
  BY <1>5 DEF FoldOf
<1> QED BY <1>6 DEF Folds

\* Two solutions on the subsets of a finite set are the same.
LEMMA FoldUnique ==
    ASSUME NEW f, NEW f2, NEW S, IsFiniteSet(S), NEW g, NEW h,
           Agree(f, f2, S), Folds(g, f, S), Folds(h, f2, S)
    PROVE  g[S] = h[S]
<1> USE DEF Folds, Agree
<1> DEFINE Same == {n \in Nat : \A s \in SUBSET S : Cardinality(s) = n => g[s] = h[s]}
<1>0. \A s \in SUBSET S : IsFiniteSet(s) /\ Cardinality(s) \in Nat
  BY FS_Subset, FS_CardinalityType
<1>1. 0 \in Same
  <2>1. \A s \in SUBSET S : Cardinality(s) = 0 => s = {}
    BY <1>0, FS_EmptySet
  <2> QED BY <2>1 DEF FoldStep
<1>2. ASSUME NEW n \in Nat, n \in Same PROVE n + 1 \in Same
  <2> SUFFICES ASSUME NEW s \in SUBSET S, Cardinality(s) = n + 1 PROVE g[s] = h[s]
    OBVIOUS
  <2>1. s # {} /\ IsFiniteSet(s)
    BY <1>0, FS_EmptySet
  <2>2. PickOne(s) \in S /\ s \ {PickOne(s)} \in SUBSET S /\ Cardinality(s \ {PickOne(s)}) = n
    <3>1. /\ PickOne(s) \in s /\ Cardinality(s \ {PickOne(s)}) = Cardinality(s) - 1
          /\ Cardinality(s) \in Nat
      BY <2>1, PickedSet
    <3> QED BY <3>1
  <2>3. g[s \ {PickOne(s)}] = h[s \ {PickOne(s)}]
    BY <1>2, <2>2
  <2> QED BY <2>1, <2>2, <2>3 DEF FoldStep
<1>3. Cardinality(S) \in Nat /\ S \in SUBSET S
  BY <1>0
<1> HIDE DEF Same
<1>4. Cardinality(S) \in Same
  BY <1>1, <1>2, <1>3, SetInduction
<1> QED BY <1>3, <1>4 DEF Same

\* The sum of nothing, and of what the fold takes first with the rest.
LEMMA SumUnfolds ==
    ASSUME NEW f, NEW S, IsFiniteSet(S)
    PROVE  SumFunctionOnSet(f, S) =
               IF S = {} THEN 0 ELSE f[PickOne(S)] + SumFunctionOnSet(f, S \ {PickOne(S)})
<1>1. Folds(FoldOf(f, S), f, S)
  BY FoldExists
<1>2. FoldOf(f, S)[S] = FoldStep(f, FoldOf(f, S), S)
  BY <1>1 DEF Folds
<1>3. CASE S = {}
  BY <1>2, <1>3, SumIsFold DEF FoldStep
<1>4. CASE S # {}
  <2> DEFINE R == S \ {PickOne(S)}
  <2>1. IsFiniteSet(R) /\ R \subseteq S
    BY <1>4, PickedSet
  <2> HIDE DEF R
  <2>2. Folds(FoldOf(f, R), f, R)
    BY <2>1, FoldExists
  <2>3. Folds(FoldOf(f, S), f, R)
    BY <1>1, <2>1 DEF Folds
  <2>4. FoldOf(f, S)[R] = FoldOf(f, R)[R]
    <3>1. Agree(f, f, R) /\ IsFiniteSet(R)
      BY <2>1 DEF Agree
    <3> QED BY <2>2, <2>3, <3>1, FoldUnique
  <2> QED BY <1>2, <1>4, <2>4, SumIsFold DEF FoldStep, R
<1> QED BY <1>3, <1>4

\* The sum of nothing.
LEMMA SumOfNothing ==
    ASSUME NEW f
    PROVE  SumFunctionOnSet(f, {}) = 0
BY SumUnfolds, FS_EmptySet

\* What summands have in common, the sum has, if 0 has it and addition keeps it.
LEMMA SumType ==
    ASSUME NEW f, NEW S, IsFiniteSet(S), NEW D, 0 \in D,
           \A a, b \in D : a + b \in D, \A x \in S : f[x] \in D
    PROVE  SumFunctionOnSet(f, S) \in D
<1> DEFINE Sum(s) == SumFunctionOnSet(f, s)
           Typed == {n \in Nat : \A s \in SUBSET S : Cardinality(s) = n => Sum(s) \in D}
<1>0. \A s \in SUBSET S : IsFiniteSet(s) /\ Cardinality(s) \in Nat
  BY FS_Subset, FS_CardinalityType
<1>1. 0 \in Typed
  <2>1. \A s \in SUBSET S : Cardinality(s) = 0 => s = {}
    BY <1>0, FS_EmptySet
  <2> QED BY <2>1, SumOfNothing
<1>2. ASSUME NEW n \in Nat, n \in Typed PROVE n + 1 \in Typed
  <2> SUFFICES ASSUME NEW s \in SUBSET S, Cardinality(s) = n + 1 PROVE Sum(s) \in D
    OBVIOUS
  <2> DEFINE x == PickOne(s)  rest == s \ {PickOne(s)}
  <2>1. s # {} /\ IsFiniteSet(s)
    BY <1>0, FS_EmptySet
  <2>2. Sum(s) = f[x] + Sum(rest)
    BY <2>1, SumUnfolds
  <2>3. x \in s /\ Cardinality(rest) = Cardinality(s) - 1 /\ Cardinality(s) \in Nat
    BY <2>1, PickedSet
  <2>4. x \in S /\ rest \in SUBSET S /\ Cardinality(rest) = n
    BY <2>3
  <2> HIDE DEF x, rest, Sum
  <2>5. Sum(rest) \in D
    BY <1>2, <2>4
  <2> QED BY <2>2, <2>4, <2>5
<1>3. Cardinality(S) \in Nat
  BY <1>0
<1> HIDE DEF Typed
<1>4. Cardinality(S) \in Typed
  BY <1>1, <1>2, <1>3, SetInduction
<1> QED BY <1>4 DEF Typed

\* Any element can be taken first.
LEMMA SumRemove ==
    ASSUME NEW f, NEW S, IsFiniteSet(S), \A x \in S : f[x] \in Int, NEW y \in S
    PROVE  SumFunctionOnSet(f, S) = f[y] + SumFunctionOnSet(f, S \ {y})
<1> DEFINE Sum(s) == SumFunctionOnSet(f, s)
           Free == {n \in Nat : \A s \in SUBSET S : Cardinality(s) = n =>
                                    \A x \in s : Sum(s) = f[x] + Sum(s \ {x})}
<1>0. \A s \in SUBSET S : IsFiniteSet(s) /\ Cardinality(s) \in Nat /\ Sum(s) \in Int
  <2>1. ASSUME NEW s \in SUBSET S PROVE IsFiniteSet(s) /\ Cardinality(s) \in Nat
    BY FS_Subset, FS_CardinalityType
  <2>2. ASSUME NEW s \in SUBSET S PROVE Sum(s) \in Int
    <3>1. 0 \in Int /\ (\A a, b \in Int : a + b \in Int) /\ (\A x \in s : f[x] \in Int)
      OBVIOUS
    <3> QED BY <2>1, <3>1, SumType
  <2> QED BY <2>1, <2>2
<1>1. 0 \in Free
  <2>1. \A s \in SUBSET S : Cardinality(s) = 0 => s = {}
    BY <1>0, FS_EmptySet
  <2> QED BY <2>1
<1>2. ASSUME NEW n \in Nat, n \in Free PROVE n + 1 \in Free
  <2> SUFFICES ASSUME NEW s \in SUBSET S, Cardinality(s) = n + 1, NEW x \in s
               PROVE  Sum(s) = f[x] + Sum(s \ {x})
    OBVIOUS
  <2> DEFINE p == PickOne(s)
  <2>1. s # {} /\ IsFiniteSet(s)
    BY <1>0
  <2>2. Sum(s) = f[p] + Sum(s \ {p}) /\ p \in s
    BY <2>1, SumUnfolds, PickedSet
  <2> HIDE DEF p
  <2>3. CASE x = p
    BY <2>2, <2>3
  <2>4. CASE x # p
    <3>1. Cardinality(s \ {p}) = Cardinality(s) - 1 /\ Cardinality(s \ {x}) = Cardinality(s) - 1
      BY <2>1, <2>2, FS_RemoveElement
    <3>2. Cardinality(s \ {p}) = n /\ Cardinality(s \ {x}) = n
      BY <3>1
    <3>3. s \ {p} \in SUBSET S /\ x \in s \ {p} /\ s \ {x} \in SUBSET S /\ p \in s \ {x}
      BY <2>2, <2>4
    <3>4. Sum(s \ {p}) = f[x] + Sum((s \ {p}) \ {x}) /\ Sum(s \ {x}) = f[p] + Sum((s \ {x}) \ {p})
      BY <1>2, <3>2, <3>3
    <3> DEFINE rest == (s \ {p}) \ {x}
    <3>5. (s \ {x}) \ {p} = rest /\ rest \in SUBSET S
      OBVIOUS
    <3>6. Sum(rest) \in Int /\ f[x] \in Int /\ f[p] \in Int
      BY <1>0, <2>2, <3>5
    <3> HIDE DEF Sum
    <3>7. Sum(s \ {p}) = f[x] + Sum(rest) /\ Sum(s \ {x}) = f[p] + Sum(rest)
      BY <3>4, <3>5
    <3> HIDE DEF rest
    <3> QED BY <2>2, <3>6, <3>7
  <2> QED BY <2>3, <2>4
<1>3. Cardinality(S) \in Nat
  BY <1>0
<1> HIDE DEF Free
<1>4. Cardinality(S) \in Free
  BY <1>1, <1>2, <1>3, SetInduction
<1>5. \A x \in S : Sum(S) = f[x] + Sum(S \ {x})
  BY <1>4 DEF Free
<1> QED BY <1>5

\* An element that is added adds its summand.
LEMMA SumAdd ==
    ASSUME NEW f, NEW S, IsFiniteSet(S), NEW y, y \notin S, \A x \in S \cup {y} : f[x] \in Int
    PROVE  SumFunctionOnSet(f, S \cup {y}) = f[y] + SumFunctionOnSet(f, S)
<1>1. IsFiniteSet(S \cup {y}) /\ (S \cup {y}) \ {y} = S
  BY FS_AddElement
<1>2. SumFunctionOnSet(f, S \cup {y}) = f[y] + SumFunctionOnSet(f, (S \cup {y}) \ {y})
  BY <1>1, SumRemove
<1> QED BY <1>1, <1>2

\* Only the summands of the set count.
LEMMA SumCongruence ==
    ASSUME NEW f, NEW g, NEW S, IsFiniteSet(S), \A x \in S : f[x] = g[x]
    PROVE  SumFunctionOnSet(f, S) = SumFunctionOnSet(g, S)
<1> DEFINE F == FoldOf(f, S)  G == FoldOf(g, S)
<1>1. Folds(F, f, S)
  BY FoldExists
<1>2. Folds(G, g, S)
  BY FoldExists
<1>3. SumFunctionOnSet(f, S) = F[S] /\ SumFunctionOnSet(g, S) = G[S]
  BY SumIsFold
<1> HIDE DEF F, G
<1>4. Agree(f, g, S)
  BY DEF Agree
<1>5. F[S] = G[S]
  BY <1>1, <1>2, <1>4, FoldUnique
<1> QED BY <1>3, <1>5

\* Raising by at most c, and on the elements of B only, raises a sum by c for each of them.
LEMMA SumRaised ==
    ASSUME NEW f, NEW g, NEW S, IsFiniteSet(S), NEW B, NEW c \in Nat,
           \A x \in S : f[x] \in Nat /\ g[x] \in Nat,
           \A x \in S \ B : g[x] <= f[x], \A x \in S \cap B : g[x] <= f[x] + c
    PROVE  SumFunctionOnSet(g, S) <= SumFunctionOnSet(f, S) + c * Cardinality(S \cap B)
<1> DEFINE F(s) == SumFunctionOnSet(f, s)
           G(s) == SumFunctionOnSet(g, s)
           N(s) == Cardinality(s \cap B)
           Raised == {n \in Nat : \A s \in SUBSET S :
                                      Cardinality(s) = n => G(s) <= F(s) + c * N(s)}
<1>0. \A s \in SUBSET S : IsFiniteSet(s) /\ Cardinality(s) \in Nat
  BY FS_Subset, FS_CardinalityType
<1>a. ASSUME NEW s \in SUBSET S
      PROVE  IsFiniteSet(s \cap B) /\ N(s) \in Nat /\ F(s) \in Int /\ G(s) \in Int
  <2>1. IsFiniteSet(s)
    BY <1>0
  <2>2. IsFiniteSet(s \cap B)
    BY <2>1, FS_Subset
  <2>3. 0 \in Int /\ \A a, b \in Int : a + b \in Int
    OBVIOUS
  <2>4. \A x \in s : f[x] \in Int /\ g[x] \in Int
    OBVIOUS
  <2>5. F(s) \in Int
    BY <2>1, <2>3, <2>4, SumType
  <2>6. G(s) \in Int
    BY <2>1, <2>3, <2>4, SumType
  <2> QED BY <2>2, <2>5, <2>6, FS_CardinalityType
<1>1. 0 \in Raised
  <2>1. \A s \in SUBSET S : Cardinality(s) = 0 => s = {}
    BY <1>0, FS_EmptySet
  <2>2. F({}) = 0 /\ G({}) = 0
    BY SumOfNothing
  <2>3. N({}) = 0
    BY FS_EmptySet, {} \cap B = {}
  <2> HIDE DEF F, G, N
  <2> QED BY <2>1, <2>2, <2>3
<1>2. ASSUME NEW n \in Nat, n \in Raised PROVE n + 1 \in Raised
  <2> SUFFICES ASSUME NEW s \in SUBSET S, Cardinality(s) = n + 1
               PROVE  G(s) <= F(s) + c * N(s)
    OBVIOUS
  <2>1. s # {} /\ IsFiniteSet(s)
    BY <1>0, FS_EmptySet
  <2>2. PICK x : x \in s
    BY <2>1
  <2> DEFINE rest == s \ {x}
  <2>3. Cardinality(rest) = Cardinality(s) - 1
    BY <2>1, <2>2, FS_RemoveElement
  <2>4. rest \in SUBSET S /\ Cardinality(rest) = n
    BY <2>3
  <2>5. G(rest) <= F(rest) + c * N(rest)
    BY <1>2, <2>4
  <2>6. \A e \in s : f[e] \in Int /\ g[e] \in Int
    OBVIOUS
  <2>7. F(s) = f[x] + F(rest)
    BY <2>1, <2>2, <2>6, SumRemove
  <2>8. G(s) = g[x] + G(rest)
    BY <2>1, <2>2, <2>6, SumRemove
  <2>9. IF x \in B THEN N(s) = N(rest) + 1 ELSE N(s) = N(rest)
    <3>1. CASE x \in B
      <4>1. x \in s \cap B /\ (s \cap B) \ {x} = rest \cap B /\ IsFiniteSet(s \cap B)
        BY <1>a, <2>2, <3>1
      <4>2. Cardinality((s \cap B) \ {x}) = Cardinality(s \cap B) - 1
        BY <4>1, FS_RemoveElement
      <4>3. N(s) \in Nat
        BY <1>a
      <4>4. N(rest) = N(s) - 1
        BY <4>1, <4>2
      <4> HIDE DEF N, rest
      <4> QED BY <3>1, <4>3, <4>4
    <3>2. CASE x \notin B
      <4>1. s \cap B = rest \cap B
        BY <3>2
      <4> QED BY <3>2, <4>1
    <3> QED BY <3>1, <3>2
  <2>10. /\ F(rest) \in Int /\ G(rest) \in Int /\ N(rest) \in Nat
         /\ f[x] \in Int /\ g[x] \in Int
    <3>1. F(rest) \in Int /\ G(rest) \in Int /\ N(rest) \in Nat
      BY <1>a, <2>4
    <3> HIDE DEF F, G, N
    <3> QED BY <2>2, <3>1
  <2>11. IF x \in B THEN g[x] <= f[x] + c ELSE g[x] <= f[x]
    BY <2>2
  <2> HIDE DEF F, G, N, rest
  <2>12. CASE x \in B
    <3>1. c * N(s) = c * N(rest) + c
      BY <2>9, <2>10, <2>12
    <3>2. c * N(rest) \in Int
      BY <2>10
    <3> QED BY <2>5, <2>7, <2>8, <2>10, <2>11, <2>12, <3>1, <3>2
  <2>13. CASE x \notin B
    <3>2. c * N(rest) \in Int /\ N(s) = N(rest)
      BY <2>9, <2>10, <2>13
    <3> QED BY <2>5, <2>7, <2>8, <2>10, <2>11, <2>13, <3>2
  <2> QED BY <2>12, <2>13
<1>3. Cardinality(S) \in Nat
  BY <1>0
<1> HIDE DEF Raised
<1>4. Cardinality(S) \in Raised
  BY <1>1, <1>2, <1>3, SetInduction
<1> QED BY <1>4 DEF Raised

\* A part of a set sums up to no more than the whole.
LEMMA SumOfPart ==
    ASSUME NEW f, NEW S, IsFiniteSet(S), NEW T \in SUBSET S, \A x \in S : f[x] \in Nat
    PROVE  SumFunctionOnSet(f, T) <= SumFunctionOnSet(f, S)
<1> DEFINE F(s) == SumFunctionOnSet(f, s)
           Less == {n \in Nat : \A s \in SUBSET S :
                                    Cardinality(s) = n => \A p \in SUBSET s : F(p) <= F(s)}
<1>0. ASSUME NEW s \in SUBSET S
      PROVE  IsFiniteSet(s) /\ Cardinality(s) \in Nat /\ F(s) \in Nat
  <2>1. IsFiniteSet(s)
    BY FS_Subset
  <2>2. 0 \in Nat /\ (\A a, b \in Nat : a + b \in Nat) /\ \A x \in s : f[x] \in Nat
    OBVIOUS
  <2>3. F(s) \in Nat
    BY <2>1, <2>2, SumType
  <2> QED BY <2>1, <2>3, FS_CardinalityType
<1>1. 0 \in Less
  <2>1. \A s \in SUBSET S : Cardinality(s) = 0 => s = {}
    BY <1>0, FS_EmptySet
  <2>2. F({}) = 0
    BY SumOfNothing
  <2> HIDE DEF F
  <2> QED BY <2>1, <2>2
<1>2. ASSUME NEW n \in Nat, n \in Less PROVE n + 1 \in Less
  <2> SUFFICES ASSUME NEW s \in SUBSET S, Cardinality(s) = n + 1, NEW p \in SUBSET s
               PROVE  F(p) <= F(s)
    OBVIOUS
  <2>1. s # {} /\ IsFiniteSet(s)
    BY <1>0, FS_EmptySet
  <2>2. CASE p = s
    <3>1. F(s) \in Nat
      BY <1>0
    <3> HIDE DEF F
    <3> QED BY <2>2, <3>1
  <2>3. CASE p # s
    <3>1. PICK x : x \in s /\ x \notin p
      BY <2>3
    <3> DEFINE rest == s \ {x}
    <3>2. Cardinality(rest) = Cardinality(s) - 1
      BY <2>1, <3>1, FS_RemoveElement
    <3>3. rest \in SUBSET S /\ p \in SUBSET rest /\ Cardinality(rest) = n
      BY <3>1, <3>2
    <3>4. F(p) <= F(rest)
      BY <1>2, <3>3
    <3>5. \A e \in s : f[e] \in Int
      OBVIOUS
    <3>6. F(s) = f[x] + F(rest)
      BY <2>1, <3>1, <3>5, SumRemove
    <3>7. f[x] \in Nat /\ F(rest) \in Nat /\ F(p) \in Nat
      BY <1>0, <3>1, <3>3
    <3> HIDE DEF F, rest
    <3> QED BY <3>4, <3>6, <3>7
  <2> QED BY <2>2, <2>3
<1>3. Cardinality(S) \in Nat
  BY <1>0
<1> HIDE DEF Less
<1>4. Cardinality(S) \in Less
  BY <1>1, <1>2, <1>3, SetInduction
<1> QED BY <1>4 DEF Less


\* Summands of 0 can be left out.
LEMMA SumOutside ==
    ASSUME NEW f, NEW S, IsFiniteSet(S), NEW T \in SUBSET S, \A x \in S : f[x] \in Int,
           \A x \in S \ T : f[x] = 0
    PROVE  SumFunctionOnSet(f, S) = SumFunctionOnSet(f, T)
<1> DEFINE F(s) == SumFunctionOnSet(f, s)
           Same == {n \in Nat : \A s \in SUBSET S : (Cardinality(s) = n /\ T \subseteq s) => F(s) = F(T)}
<1>0. \A s \in SUBSET S : IsFiniteSet(s) /\ Cardinality(s) \in Nat
  BY FS_Subset, FS_CardinalityType
<1>1. 0 \in Same
  <2>1. \A s \in SUBSET S : Cardinality(s) = 0 => s = {}
    BY <1>0, FS_EmptySet
  <2>2. \A s \in SUBSET S : (Cardinality(s) = 0 /\ T \subseteq s) => s = T
    BY <2>1
  <2> QED BY <2>2
<1>2. ASSUME NEW n \in Nat, n \in Same PROVE n + 1 \in Same
  <2> SUFFICES ASSUME NEW s \in SUBSET S, Cardinality(s) = n + 1, T \subseteq s
               PROVE  F(s) = F(T)
    OBVIOUS
  <2>1. CASE s = T
    BY <2>1
  <2>2. CASE s # T
    <3>1. PICK x : x \in s /\ x \notin T
      BY <2>2
    <3> DEFINE rest == s \ {x}
    <3>2. IsFiniteSet(s)
      BY <1>0
    <3>3. Cardinality(rest) = Cardinality(s) - 1
      BY <3>1, <3>2, FS_RemoveElement
    <3>4. rest \in SUBSET S /\ T \subseteq rest /\ Cardinality(rest) = n
      BY <3>1, <3>3
    <3>5. F(rest) = F(T)
      BY <1>2, <3>4
    <3>6. \A e \in s : f[e] \in Int
      OBVIOUS
    <3>7. F(s) = f[x] + F(rest)
      BY <3>1, <3>2, <3>6, SumRemove
    <3>8. 0 \in Int /\ \A a, b \in Int : a + b \in Int
      OBVIOUS
    <3>9. \A e \in T : f[e] \in Int
      OBVIOUS
    <3>10. IsFiniteSet(T)
      BY <1>0
    <3>11. F(T) \in Int
      BY <3>8, <3>9, <3>10, SumType
    <3>12. f[x] = 0
      BY <3>1
    <3> HIDE DEF F, rest
    <3> QED BY <3>5, <3>7, <3>11, <3>12
  <2> QED BY <2>1, <2>2
<1>3. Cardinality(S) \in Nat
  BY <1>0
<1> HIDE DEF Same
<1>4. Cardinality(S) \in Same
  BY <1>1, <1>2, <1>3, SetInduction
<1> QED BY <1>4 DEF Same

=============================================================================
