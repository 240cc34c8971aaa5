---------------------------- MODULE Allocation_proofs ----------------------------
(***************************************************************************)
(* What the allocation arithmetic returns, for every ledger, every sale    *)
(* and every order of the rows; before that, what sums over finite sets    *)
(* are.                                                                    *)
(***************************************************************************)
EXTENDS Allocation, FiniteSetTheorems, NaturalsInduction, WellFoundedInduction, TLAPS

-------------------------------------------------------------------------------
(* SumFunctionOnSet over a finite set *)

Pick(s) == CHOOSE x \in s : TRUE

Recursion(f, g, s) == IF s = {} THEN 0 ELSE f[Pick(s)] + g[s \ {Pick(s)}]

IsSumOver(f, g, S) == g = [s \in S |-> Recursion(f, g, s)]

LEMMA SumUnfolds ==
    ASSUME NEW f, NEW S
    PROVE  SumFunctionOnSet(f, S) = (CHOOSE g : IsSumOver(f, g, SUBSET S))[S]
BY DEF SumFunctionOnSet, FoldFunctionOnSet, MapThenFoldSet, IsSumOver, Recursion, Pick

\* Every nonempty collection of subsets of a finite set has a member no other member of
\* it is strictly inside.
LEMMA MinimalSubset ==
    ASSUME NEW S, IsFiniteSet(S), NEW T \in SUBSET (SUBSET S), T # {}
    PROVE  \E x \in T : \A y \in T : y \subseteq x => y = x
<1>1. T \subseteq FiniteSubsetsOf(S)
  BY FS_Subset DEF FiniteSubsetsOf
<1>2. PICK x \in T : \A y \in T : ~(<<y, x>> \in StrictSubsetOrdering(S))
  BY <1>1, FS_StrictSubsetOrderingWellFounded, WFMin
<1>3. ASSUME NEW y \in T, y \subseteq x
      PROVE  y = x
  BY <1>1, <1>2, <1>3 DEF StrictSubsetOrdering
<1> QED
  BY <1>3

\* The recursion that MapThenFoldSet states has a solution over the subsets of a finite
\* set, one of integers when the summands are.
LEMMA SumExists ==
    ASSUME NEW S, IsFiniteSet(S), NEW f, \A x \in S : f[x] \in Int
    PROVE  \E g \in [SUBSET S -> Int] : IsSumOver(f, g, SUBSET S)
<1> DEFINE Small(n) == {s \in SUBSET S : Cardinality(s) <= n}
           Solved(n) == \E g \in [Small(n) -> Int] : IsSumOver(f, g, Small(n))
           Unsolved == {n \in Nat : ~Solved(n)}
<1>1. \A s \in SUBSET S : IsFiniteSet(s) /\ Cardinality(s) \in Nat
  BY FS_Subset, FS_CardinalityType
<1>2. \A s \in SUBSET S : s # {} =>
            /\ Pick(s) \in s
            /\ s \ {Pick(s)} \in SUBSET S
            /\ Cardinality(s \ {Pick(s)}) = Cardinality(s) - 1
  BY <1>1, FS_RemoveElement DEF Pick
<1>3. Solved(0)
  <2> DEFINE g == [s \in Small(0) |-> 0]
  <2>1. \A s \in Small(0) : s = {}
    BY <1>1, FS_EmptySet
  <2>2. g \in [Small(0) -> Int] /\ IsSumOver(f, g, Small(0))
    BY <2>1 DEF IsSumOver, Recursion
  <2> QED
    BY <2>2
<1>4. ASSUME NEW n \in Nat, Solved(n)
      PROVE  Solved(n + 1)
  <2>1. PICK g \in [Small(n) -> Int] : IsSumOver(f, g, Small(n))
    BY <1>4
  <2> DEFINE h == [s \in Small(n + 1) |-> Recursion(f, g, s)]
  <2>2. \A s \in Small(n + 1) : s # {} => s \ {Pick(s)} \in Small(n)
    BY <1>1, <1>2
  <2>3. \A s \in Small(n) : s \in Small(n + 1) /\ h[s] = g[s]
    BY <1>1, <2>1 DEF IsSumOver
  <2>4. h \in [Small(n + 1) -> Int]
    BY <1>2, <2>2 DEF Recursion
  <2>5. \A s \in Small(n + 1) : Recursion(f, g, s) = Recursion(f, h, s)
    BY <2>2, <2>3 DEF Recursion
  <2>6. IsSumOver(f, h, Small(n + 1))
    BY <2>5 DEF IsSumOver
  <2> QED
    BY <2>4, <2>6
<1>5. Unsolved = {}
  <2>1. SUFFICES ASSUME Unsolved # {}
                 PROVE  FALSE
    OBVIOUS
  <2>2. PICK m \in Unsolved : \A n \in Unsolved : ~(<<n, m>> \in OpToRel(<, Nat))
    BY <2>1, NatLessThanWellFounded, WFMin
  <2>3. m # 0
    BY <1>3
  <2>4. m - 1 \in Nat /\ <<m - 1, m>> \in OpToRel(<, Nat)
    BY <2>3 DEF OpToRel
  <2>5. Solved(m - 1)
    BY <2>2, <2>4
  <2>6. Solved((m - 1) + 1)
    BY <1>4, <2>4, <2>5
  <2>7. m \in Nat
    OBVIOUS
  <2> HIDE DEF Unsolved, Solved
  <2>8. (m - 1) + 1 = m
    BY <2>7
  <2> QED
    BY <2>6, <2>8 DEF Unsolved
<1>6. Small(Cardinality(S)) = SUBSET S
  BY <1>1, FS_Subset
<1> QED
  BY <1>1, <1>5, <1>6

\* A sum is a solution of the recursion, taken at the whole set.
LEMMA SumSolves ==
    ASSUME NEW S, IsFiniteSet(S), NEW f, \A x \in S : f[x] \in Int
    PROVE  \E g : IsSumOver(f, g, SUBSET S) /\ SumFunctionOnSet(f, S) = g[S]
BY SumExists, SumUnfolds

\* Two solutions of the recursion agree wherever both are defined.
LEMMA SolutionsAgree ==
    ASSUME NEW S, IsFiniteSet(S), NEW f, NEW R \in SUBSET S,
           NEW g, IsSumOver(f, g, SUBSET S), NEW h, IsSumOver(f, h, SUBSET R)
    PROVE  g[R] = h[R]
<1> DEFINE Different == {s \in SUBSET R : g[s] # h[s]}
<1>1. ASSUME Different # {}
      PROVE  FALSE
  <2>1. Different \in SUBSET (SUBSET S)
    OBVIOUS
  <2> HIDE DEF Different
  <2>2. PICK s \in Different : \A y \in Different : y \subseteq s => y = s
    BY <1>1, <2>1, MinimalSubset
  <2> USE DEF Different
  <2>3. g[s] = Recursion(f, g, s) /\ h[s] = Recursion(f, h, s)
    BY DEF IsSumOver
  <2>4. s # {}
    BY <2>3 DEF Recursion
  <2>5. Pick(s) \in s
    BY <2>4 DEF Pick
  <2>6. g[s \ {Pick(s)}] = h[s \ {Pick(s)}]
    BY <2>2, <2>5
  <2> QED
    BY <2>3, <2>6 DEF Recursion
<1> QED
  BY <1>1

\* The sum over the empty set is zero.
LEMMA SumEmpty ==
    ASSUME NEW f
    PROVE  SumFunctionOnSet(f, {}) = 0
<1>1. PICK g : IsSumOver(f, g, SUBSET {}) /\ SumFunctionOnSet(f, {}) = g[{}]
  BY SumSolves, FS_EmptySet
<1> QED
  BY <1>1 DEF IsSumOver, Recursion

\* The sum over a set is that of the picked element and the sum over the others.
LEMMA SumPick ==
    ASSUME NEW S, IsFiniteSet(S), S # {}, NEW f, \A x \in S : f[x] \in Int
    PROVE  SumFunctionOnSet(f, S) = f[Pick(S)] + SumFunctionOnSet(f, S \ {Pick(S)})
<1> DEFINE R == S \ {Pick(S)}
<1>1. PICK g : IsSumOver(f, g, SUBSET S) /\ SumFunctionOnSet(f, S) = g[S]
  BY SumSolves
<1>2. IsFiniteSet(R)
  BY FS_Subset
<1>3. PICK h : IsSumOver(f, h, SUBSET R) /\ SumFunctionOnSet(f, R) = h[R]
  BY <1>2, SumSolves
<1>4. g[R] = h[R]
  <2>1. R \in SUBSET S
    OBVIOUS
  <2> HIDE DEF R
  <2> QED
    BY <2>1, <1>1, <1>3, SolutionsAgree
<1>5. g[S] = Recursion(f, g, S)
  BY <1>1 DEF IsSumOver
<1> QED
  BY <1>1, <1>3, <1>4, <1>5 DEF Recursion

\* A sum of integers is an integer.
THEOREM SumType ==
    ASSUME NEW S, IsFiniteSet(S), NEW f, \A x \in S : f[x] \in Int
    PROVE  SumFunctionOnSet(f, S) \in Int
<1>1. PICK g \in [SUBSET S -> Int] : IsSumOver(f, g, SUBSET S)
  BY SumExists
<1>2. PICK h : IsSumOver(f, h, SUBSET S) /\ SumFunctionOnSet(f, S) = h[S]
  BY SumSolves
<1>3. g[S] = h[S]
  BY <1>1, <1>2, SolutionsAgree
<1> QED
  BY <1>1, <1>2, <1>3

\* A sum of zeros is zero.
LEMMA SumOfZeros ==
    ASSUME NEW S, IsFiniteSet(S), NEW f, \A x \in S : f[x] = 0
    PROVE  SumFunctionOnSet(f, S) = 0
<1> DEFINE Wrong == {R \in SUBSET S : SumFunctionOnSet(f, R) # 0}
<1>1. ASSUME Wrong # {}
      PROVE  FALSE
  <2>1. Wrong \in SUBSET (SUBSET S)
    OBVIOUS
  <2> HIDE DEF Wrong
  <2>2. PICK R \in Wrong : \A y \in Wrong : y \subseteq R => y = R
    BY <1>1, <2>1, MinimalSubset
  <2> USE DEF Wrong
  <2>3. R \in SUBSET S /\ R # {} /\ IsFiniteSet(R)
    BY SumEmpty, FS_Subset
  <2>4. Pick(R) \in R
    BY <2>3 DEF Pick
  <2>5. SumFunctionOnSet(f, R \ {Pick(R)}) = 0
    BY <2>2, <2>3, <2>4
  <2>6. \A x \in R : f[x] \in Int
    BY <2>3
  <2>7. SumFunctionOnSet(f, R) = f[Pick(R)] + SumFunctionOnSet(f, R \ {Pick(R)})
    BY <2>3, <2>6, SumPick
  <2> QED
    BY <2>3, <2>4, <2>5, <2>7
<1> QED
  BY <1>1

\* The sum over a set is that of any one element and the sum over the others.
LEMMA SumRemove ==
    ASSUME NEW S, IsFiniteSet(S), NEW f, \A y \in S : f[y] \in Int, NEW x \in S
    PROVE  SumFunctionOnSet(f, S) = f[x] + SumFunctionOnSet(f, S \ {x})
<1> DEFINE Sum(R) == SumFunctionOnSet(f, R)
           Wrong == {R \in SUBSET S : \E y \in R : Sum(R) # f[y] + Sum(R \ {y})}
<1>1. ASSUME Wrong # {}
      PROVE  FALSE
  <2>1. Wrong \in SUBSET (SUBSET S)
    OBVIOUS
  <2> HIDE DEF Wrong
  <2>2. PICK R \in Wrong : \A T \in Wrong : T \subseteq R => T = R
    BY <1>1, <2>1, MinimalSubset
  <2> USE DEF Wrong
  <2>3. PICK y \in R : Sum(R) # f[y] + Sum(R \ {y})
    BY <2>2
  <2>4. \A T \in SUBSET R : IsFiniteSet(T) /\ (\A z \in T : f[z] \in Int) /\ Sum(T) \in Int
    BY FS_Subset, SumType
  <2> DEFINE p == Pick(R)
  <2>5. p \in R /\ Sum(R) = f[p] + Sum(R \ {p})
    BY <2>4, SumPick DEF Pick
  <2> HIDE DEF p
  <2>6. p # y /\ y \in R \ {p} /\ p \in R \ {y}
    BY <2>3, <2>5
  <2>7. Sum(R \ {p}) = f[y] + Sum((R \ {p}) \ {y})
    BY <2>2, <2>5, <2>6
  <2>8. Sum(R \ {y}) = f[p] + Sum((R \ {y}) \ {p})
    <3>1. R \ {y} \in SUBSET S /\ R \ {y} \subseteq R /\ R \ {y} # R
      BY <2>3
    <3> QED  BY <2>2, <2>6, <3>1
  <2>9. (R \ {p}) \ {y} = (R \ {y}) \ {p}
    OBVIOUS
  <2>10. f[p] \in Int /\ f[y] \in Int /\ Sum((R \ {p}) \ {y}) \in Int
    <3>1. (R \ {p}) \ {y} \in SUBSET R
      OBVIOUS
    <3> QED  BY <2>4, <2>5, <3>1
  <2> HIDE DEF Sum
  <2> QED
    BY <2>3, <2>5, <2>7, <2>8, <2>9, <2>10
<1> QED
  BY <1>1

\* The sum over one element is the element's.
LEMMA SumOfOne ==
    ASSUME NEW f, NEW x, f[x] \in Int
    PROVE  SumFunctionOnSet(f, {x}) = f[x]
<1>1. SumFunctionOnSet(f, {x}) = f[x] + SumFunctionOnSet(f, {x} \ {x})
  BY SumRemove, FS_Singleton
<1>2. {x} \ {x} = {}
  OBVIOUS
<1> QED
  BY <1>1, <1>2, SumEmpty

\* The sum of the differences is the difference of the sums.
LEMMA SumOfDifferences ==
    ASSUME NEW S, IsFiniteSet(S), NEW f, NEW g, NEW h,
           \A x \in S : f[x] \in Int /\ g[x] \in Int /\ h[x] = f[x] - g[x]
    PROVE  SumFunctionOnSet(h, S) = SumFunctionOnSet(f, S) - SumFunctionOnSet(g, S)
<1> DEFINE Wrong == {R \in SUBSET S : SumFunctionOnSet(h, R)
                        # SumFunctionOnSet(f, R) - SumFunctionOnSet(g, R)}
<1>1. ASSUME Wrong # {}
      PROVE  FALSE
  <2>1. Wrong \in SUBSET (SUBSET S)
    OBVIOUS
  <2> HIDE DEF Wrong
  <2>2. PICK R \in Wrong : \A T \in Wrong : T \subseteq R => T = R
    BY <1>1, <2>1, MinimalSubset
  <2> USE DEF Wrong
  <2>3. R \in SUBSET S /\ IsFiniteSet(R) /\ R # {}
    <3>1. R \in SUBSET S /\ IsFiniteSet(R)
      BY <2>2, FS_Subset
    <3>2. /\ SumFunctionOnSet(f, {}) = 0 /\ SumFunctionOnSet(g, {}) = 0
          /\ SumFunctionOnSet(h, {}) = 0
      BY SumEmpty
    <3>3. SumFunctionOnSet(h, R) # SumFunctionOnSet(f, R) - SumFunctionOnSet(g, R)
      BY <2>2
    <3>4. ASSUME R = {} PROVE FALSE
      <4>1. SumFunctionOnSet(h, {}) # SumFunctionOnSet(f, {}) - SumFunctionOnSet(g, {})
        BY <3>3, <3>4
      <4> QED  BY <3>2, <4>1
    <3> QED  BY <3>1, <3>4
  <2>4. \A x \in R : f[x] \in Int /\ g[x] \in Int /\ h[x] \in Int
    BY <2>3
  <2> DEFINE p == Pick(R)
             T == R \ {p}
  <2>5. p \in R /\ T \in SUBSET S /\ T # R /\ T \subseteq R /\ IsFiniteSet(T)
    BY <2>3, FS_Subset DEF Pick
  <2>6. /\ SumFunctionOnSet(f, R) = f[p] + SumFunctionOnSet(f, T)
        /\ SumFunctionOnSet(g, R) = g[p] + SumFunctionOnSet(g, T)
        /\ SumFunctionOnSet(h, R) = h[p] + SumFunctionOnSet(h, T)
    BY <2>4, <2>3, SumPick
  <2>7. SumFunctionOnSet(f, T) \in Int /\ SumFunctionOnSet(g, T) \in Int
    BY <2>5, SumType
  <2> HIDE DEF p, T
  <2>8. SumFunctionOnSet(h, T) = SumFunctionOnSet(f, T) - SumFunctionOnSet(g, T)
    BY <2>2, <2>5
  <2> QED
    BY <2>2, <2>3, <2>5, <2>6, <2>7, <2>8
<1> QED
  BY <1>1

\* A sum of natural numbers is one.
LEMMA SumOfNaturals ==
    ASSUME NEW S, IsFiniteSet(S), NEW f, \A x \in S : f[x] \in Nat
    PROVE  SumFunctionOnSet(f, S) \in Nat
<1> DEFINE Wrong == {R \in SUBSET S : SumFunctionOnSet(f, R) \notin Nat}
<1>1. ASSUME Wrong # {}
      PROVE  FALSE
  <2>1. Wrong \in SUBSET (SUBSET S)
    OBVIOUS
  <2> HIDE DEF Wrong
  <2>2. PICK R \in Wrong : \A T \in Wrong : T \subseteq R => T = R
    BY <1>1, <2>1, MinimalSubset
  <2> USE DEF Wrong
  <2>3. R \in SUBSET S /\ IsFiniteSet(R) /\ R # {}
    <3>1. R \in SUBSET S /\ IsFiniteSet(R) /\ SumFunctionOnSet(f, R) \notin Nat
      BY <2>2, FS_Subset
    <3>2. SumFunctionOnSet(f, {}) \in Nat
      BY SumEmpty
    <3> QED  BY <3>1, <3>2
  <2>4. Pick(R) \in R /\ SumFunctionOnSet(f, R \ {Pick(R)}) \in Nat
    BY <2>2, <2>3 DEF Pick
  <2>5. \A x \in R : f[x] \in Nat
    BY <2>3
  <2>6. SumFunctionOnSet(f, R) = f[Pick(R)] + SumFunctionOnSet(f, R \ {Pick(R)})
    BY <2>3, <2>5, SumPick
  <2> QED
    BY <2>2, <2>4, <2>5, <2>6
<1> QED
  BY <1>1

\* Functions that agree on a set have the same sum over it.
LEMMA SumOfSame ==
    ASSUME NEW S, IsFiniteSet(S), NEW f, NEW g, \A x \in S : f[x] \in Int /\ g[x] = f[x]
    PROVE  SumFunctionOnSet(g, S) = SumFunctionOnSet(f, S)
<1> DEFINE zero == [x \in S |-> 0]
<1>1. \A x \in S : zero[x] \in Int /\ g[x] = f[x] - zero[x]
  OBVIOUS
<1>2. SumFunctionOnSet(zero, S) = 0
  BY SumOfZeros
<1>3. SumFunctionOnSet(f, S) \in Int
  BY SumType
<1> HIDE DEF zero
<1>4. SumFunctionOnSet(g, S) = SumFunctionOnSet(f, S) - SumFunctionOnSet(zero, S)
  BY <1>1, SumOfDifferences
<1> QED
  BY <1>2, <1>3, <1>4

\* Elements that count nothing may be left out of a sum.
LEMMA SumOfSupport ==
    ASSUME NEW S, IsFiniteSet(S), NEW f, \A x \in S : f[x] \in Int, NEW T \in SUBSET S,
           \A x \in S \ T : f[x] = 0
    PROVE  SumFunctionOnSet(f, S) = SumFunctionOnSet(f, T)
<1> DEFINE Sum(R) == SumFunctionOnSet(f, R)
           Wrong == {R \in SUBSET S : Sum(R) # Sum(R \cap T)}
<1>1. ASSUME Wrong # {}
      PROVE  FALSE
  <2>1. Wrong \in SUBSET (SUBSET S)
    OBVIOUS
  <2> HIDE DEF Wrong
  <2>2. PICK R \in Wrong : \A U \in Wrong : U \subseteq R => U = R
    BY <1>1, <2>1, MinimalSubset
  <2> USE DEF Wrong
  <2>3. R \in SUBSET S /\ Sum(R) # Sum(R \cap T)
    BY <2>2
  <2>4. PICK p \in R : TRUE
    <3>1. {} \cap T = {}
      OBVIOUS
    <3> QED  BY <2>3, <3>1
  <2> DEFINE U == R \ {p}
  <2>5. U \in SUBSET S /\ U \subseteq R /\ U # R
    BY <2>3, <2>4
  <2>6. Sum(U) = Sum(U \cap T)
    BY <2>2, <2>5
  <2>7. /\ IsFiniteSet(R) /\ \A x \in R : f[x] \in Int
        /\ IsFiniteSet(R \cap T) /\ \A x \in R \cap T : f[x] \in Int
        /\ IsFiniteSet(U \cap T) /\ \A x \in U \cap T : f[x] \in Int
    BY <2>3, FS_Subset
  <2>8. Sum(R) = f[p] + Sum(U)
    BY <2>4, <2>7, SumRemove
  <2>9. CASE p \in T
    <3>1. U \cap T = (R \cap T) \ {p}
      OBVIOUS
    <3>2. Sum(R \cap T) = f[p] + Sum(U \cap T)
      BY <2>4, <2>7, <2>9, <3>1, SumRemove
    <3> QED  BY <2>3, <2>6, <2>8, <3>2
  <2>10. CASE p \notin T
    <3>1. U \cap T = R \cap T /\ f[p] = 0
      BY <2>3, <2>4, <2>10
    <3>2. Sum(U \cap T) \in Int
      BY <2>7, SumType
    <3> HIDE DEF U, Sum, Wrong
    <3>3. Sum(U \cap T) = Sum(R \cap T)
      BY <3>1
    <3> QED  BY <2>3, <2>6, <2>8, <3>1, <3>2, <3>3
  <2> QED  BY <2>9, <2>10
<1>2. S \cap T = T
  OBVIOUS
<1>3. Sum(S) = Sum(S \cap T)
  BY <1>1
<1> QED  BY <1>2, <1>3

\* A sum over the values of an injection is one over its arguments.
LEMMA SumOfImage ==
    ASSUME NEW S, IsFiniteSet(S), NEW k, \A x, y \in S : k[x] = k[y] => x = y,
           NEW f, NEW g, \A x \in S : f[x] \in Int /\ g[k[x]] = f[x]
    PROVE  SumFunctionOnSet(g, {k[x] : x \in S}) = SumFunctionOnSet(f, S)
<1> DEFINE Image(R) == {k[x] : x \in R}
           Wrong == {R \in SUBSET S : SumFunctionOnSet(g, Image(R)) # SumFunctionOnSet(f, R)}
<1>1. ASSUME Wrong # {}
      PROVE  FALSE
  <2>1. Wrong \in SUBSET (SUBSET S)
    OBVIOUS
  <2> HIDE DEF Wrong
  <2>2. PICK R \in Wrong : \A U \in Wrong : U \subseteq R => U = R
    BY <1>1, <2>1, MinimalSubset
  <2> USE DEF Wrong
  <2>3. R \in SUBSET S /\ SumFunctionOnSet(g, Image(R)) # SumFunctionOnSet(f, R)
    BY <2>2
  <2>4. PICK p \in R : TRUE
    <3>1. Image({}) = {}
      OBVIOUS
    <3>2. SumFunctionOnSet(g, {}) = 0 /\ SumFunctionOnSet(f, {}) = 0
      BY SumEmpty
    <3> HIDE DEF Image
    <3> QED  BY <2>3, <3>1, <3>2
  <2> DEFINE U == R \ {p}
  <2>5. U \in SUBSET S /\ U \subseteq R /\ U # R
    BY <2>3, <2>4
  <2>6. SumFunctionOnSet(g, Image(U)) = SumFunctionOnSet(f, U)
    BY <2>2, <2>5
  <2>7. IsFiniteSet(R) /\ (\A x \in R : f[x] \in Int) /\ p \in S
    BY <2>3, FS_Subset
  <2>8. SumFunctionOnSet(f, R) = f[p] + SumFunctionOnSet(f, U)
    BY <2>4, <2>7, SumRemove
  <2>9. IsFiniteSet(Image(R))
    <3> DEFINE onR == [x \in R |-> k[x]]
    <3>1. onR \in Surjection(R, Image(R))
      BY DEF Surjection
    <3> QED  BY <2>7, <3>1, FS_Surjection
  <2>10. k[p] \in Image(R) /\ \A y \in Image(R) : g[y] \in Int
    BY <2>3, <2>4
  <2>11. Image(R) \ {k[p]} = Image(U)
    BY <2>3, <2>4
  <2>12. g[k[p]] = f[p]
    BY <2>7
  <2> HIDE DEF Image, U
  <2>13. SumFunctionOnSet(g, Image(R)) = g[k[p]] + SumFunctionOnSet(g, Image(R) \ {k[p]})
    BY <2>9, <2>10, SumRemove
  <2> QED  BY <2>3, <2>6, <2>8, <2>11, <2>12, <2>13
<1>2. SumFunctionOnSet(g, Image(S)) = SumFunctionOnSet(f, S)
  BY <1>1
<1> QED  BY <1>2

-------------------------------------------------------------------------------
(* Ledgers *)

\* Sums of partitions are integers.
LEMMA ChannelSumType ==
    ASSUME NEW held \in [Channel -> Int], NEW S \in SUBSET Channel
    PROVE  SumFunctionOnSet(held, S) \in Int
BY SumType, FS_Subset, ChannelAssumption

LEMMA PartitionType ==
    ASSUME NEW ledger \in LedgerView
    PROVE  Partition(ledger) \in [Channel -> Int]
BY NullAssumption DEF Partition, Fixed, Allocated, LedgerView, AllocationView, OrZero

\* Every channel advertises a natural number of units.
THEOREM DesiredType ==
    ASSUME NEW ledger \in LedgerView
    PROVE  Desired(ledger) \in [Channel -> Nat]
<1>1. SumFixedPartitions(ledger) \in Int
  BY PartitionType, ChannelSumType DEF SumFixedPartitions
<1>2. ComputePool(ledger) \in Nat
  BY <1>1 DEF ComputePool, Larger, LedgerView
<1>3. ASSUME NEW row \in AllocationView
      PROVE  ComputeListedQuantity(row, ComputePool(ledger)) \in Nat
  BY <1>2, NullAssumption
     DEF ComputeListedQuantity, Larger, Smaller, OrZero, AllocationView
<1> QED
  BY <1>3 DEF Desired, LedgerView

LEMMA HeldType ==
    ASSUME NEW ledger \in LedgerView, NEW seller \in Channel, NEW quantity \in Int
    PROVE  PartitionAfterSelling(ledger, seller, quantity) \in [Channel -> Int]
BY PartitionType DEF PartitionAfterSelling, Larger

\* What a sale reclaims is integers, whatever order the rows come in.
LEMMA ReclaimType ==
    ASSUME NEW ledger \in LedgerView, NEW seller \in Channel, NEW quantity \in Int, NEW rank
    PROVE  /\ Reclaim(ledger, seller, quantity, rank).reserve \in Int
           /\ Reclaim(ledger, seller, quantity, rank).partitions \in [Channel -> Int]
<1> DEFINE held == PartitionAfterSelling(ledger, seller, quantity)
           excess == Larger(0, SumFunctionOnSet(held, Channel)
                               + ledger.reserveQuantity
                               - Larger(0, ledger.quantityOnHand - quantity))
           fromReserve == Smaller(excess, Larger(0, ledger.reserveQuantity))
<1>1. held \in [Channel -> Int]
  BY HeldType
<1>2. SumFunctionOnSet(held, Channel) \in Int
  BY <1>1, ChannelSumType
<1>3. \A c \in Channel : SumFunctionOnSet(held, TrimmedBefore(held, c, rank)) \in Int
  BY <1>1, ChannelSumType DEF TrimmedBefore
<1> HIDE DEF held
<1>4. excess \in Int /\ fromReserve \in Int
  BY <1>2 DEF Larger, Smaller, LedgerView
<1> HIDE DEF excess, fromReserve
<1>5. Trimmed(held, excess - fromReserve, rank) \in [Channel -> Int]
  BY <1>1, <1>3, <1>4 DEF Trimmed, Larger, Smaller
<1> QED
  BY <1>4, <1>5 DEF Reclaim, excess, fromReserve, held

LEMMA AfterSaleType ==
    ASSUME NEW ledger \in LedgerView, NEW seller \in Channel, NEW quantity \in Int, NEW rank
    PROVE  LedgerAfterSale(ledger, seller, quantity, rank) \in LedgerView
<1> DEFINE reclaimed == Reclaim(ledger, seller, quantity, rank)
           held == PartitionAfterSelling(ledger, seller, quantity)
<1>1. reclaimed.reserve \in Int /\ reclaimed.partitions \in [Channel -> Int]
  BY ReclaimType
<1>2. held \in [Channel -> Int]
  BY HeldType
<1> HIDE DEF reclaimed, held
<1>3. \A c \in Channel :
        c \in Fixed(ledger) =>
          [ledger.allocations[c] EXCEPT !.quantityAllocated = held[c] - reclaimed.partitions[c]]
            \in AllocationView
  BY <1>1, <1>2 DEF LedgerView, AllocationView, Fixed, Allocated
<1> QED
  BY <1>1, <1>3 DEF LedgerAfterSale, LedgerView, Larger, reclaimed, held

-------------------------------------------------------------------------------
(* Trimming the partitions *)

\* Rows are trimmed in a strict order, and of two rows one comes first.
LEMMA TrimOrder ==
    ASSUME NEW held \in [Channel -> Int], NEW rank \in RowRank, NEW c \in Channel,
           NEW d \in Channel
    PROVE  /\ c \notin TrimmedBefore(held, c, rank)
           /\ d \in TrimmedBefore(held, c, rank) =>
                TrimmedBefore(held, d, rank) \subseteq TrimmedBefore(held, c, rank)
           /\ c # d => d \in TrimmedBefore(held, c, rank) \/ c \in TrimmedBefore(held, d, rank)
<1>1. rank \in [Channel -> Int] /\ (rank[c] = rank[d] => c = d)
  <2>1. Cardinality(Channel) \in Nat
    BY ChannelAssumption, FS_CardinalityType
  <2> QED  BY <2>1 DEF RowRank
<1> QED  BY <1>1 DEF TrimmedBefore

\* Of some rows, one is trimmed last.
LEMMA LastTrimmed ==
    ASSUME NEW held \in [Channel -> Int], NEW rank \in RowRank,
           NEW S \in SUBSET Channel, S # {}
    PROVE  \E c \in S : S \ {c} \subseteq TrimmedBefore(held, c, rank)
<1> DEFINE After(c) == {d \in S : c \in TrimmedBefore(held, d, rank)}
           Tails == {After(c) : c \in S}
<1>1. IsFiniteSet(S) /\ Tails \in SUBSET (SUBSET S) /\ Tails # {}
  <2>1. IsFiniteSet(S)
    BY ChannelAssumption, FS_Subset
  <2>2. \A c \in S : After(c) \in SUBSET S
    OBVIOUS
  <2> HIDE DEF After
  <2> QED  BY <2>1, <2>2
<1> HIDE DEF Tails
<1>2. PICK tail \in Tails : \A t \in Tails : t \subseteq tail => t = tail
  BY <1>1, MinimalSubset
<1>3. PICK c \in S : tail = After(c)
  BY <1>2 DEF Tails
<1>4. ASSUME NEW d \in S \ {c}, d \notin TrimmedBefore(held, c, rank)
      PROVE  FALSE
  <2>1. d \in After(c)
    BY <1>4, TrimOrder
  <2>2. After(d) \subseteq After(c)
    <3>1. ASSUME NEW e \in After(d) PROVE e \in After(c)
      <4>1. e \in S /\ e \in Channel /\ d \in TrimmedBefore(held, e, rank)
        OBVIOUS
      <4>2. TrimmedBefore(held, d, rank) \subseteq TrimmedBefore(held, e, rank)
        BY <4>1, TrimOrder
      <4> QED  BY <2>1, <4>1, <4>2
    <3> QED  BY <3>1
  <2>3. After(d) \in Tails
    BY <1>4 DEF Tails
  <2>4. d \in After(d)
    BY <1>2, <1>3, <2>1, <2>2, <2>3
  <2> QED  BY <2>4, TrimOrder
<1> QED  BY <1>4

\* The rows trimmed up to some row give up all that is missing, or all they have.
LEMMA TrimmedSum ==
    ASSUME NEW held \in [Channel -> Nat], NEW excess \in Nat, NEW rank \in RowRank,
           NEW S \in SUBSET Channel, \A c \in S : TrimmedBefore(held, c, rank) \subseteq S
    PROVE  SumFunctionOnSet(Trimmed(held, excess, rank), S)
                = Smaller(excess, SumFunctionOnSet(held, S))
<1> DEFINE trimmed == Trimmed(held, excess, rank)
           Initial(R) == \A c \in R : TrimmedBefore(held, c, rank) \subseteq R
           Right(R) == SumFunctionOnSet(trimmed, R) = Smaller(excess, SumFunctionOnSet(held, R))
           Wrong == {R \in SUBSET Channel : Initial(R) /\ ~Right(R)}
<1>1. \A R \in SUBSET Channel : IsFiniteSet(R) /\ SumFunctionOnSet(held, R) \in Nat
  BY ChannelAssumption, FS_Subset, SumOfNaturals
<1>2. \A c \in Channel : trimmed[c] = Smaller(held[c], Larger(0,
            excess - SumFunctionOnSet(held, TrimmedBefore(held, c, rank))))
  BY DEF Trimmed
<1>3. \A c \in Channel : trimmed[c] \in Int
  <2>1. \A c \in Channel : TrimmedBefore(held, c, rank) \in SUBSET Channel
    BY DEF TrimmedBefore
  <2> QED  BY <1>1, <1>2, <2>1 DEF Smaller, Larger
<1> HIDE DEF trimmed
<1>4. ASSUME Wrong # {}
      PROVE  FALSE
  <2>1. Wrong \in SUBSET (SUBSET Channel)
    OBVIOUS
  <2> HIDE DEF Wrong
  <2>2. PICK R \in Wrong : \A T \in Wrong : T \subseteq R => T = R
    BY <1>4, <2>1, ChannelAssumption, MinimalSubset
  <2>3. R \in SUBSET Channel /\ Initial(R) /\ ~Right(R)
    BY <2>2 DEF Wrong
  <2>4. R # {}
    <3>1. SumFunctionOnSet(trimmed, {}) = 0 /\ SumFunctionOnSet(held, {}) = 0
      BY SumEmpty
    <3>2. Right({})
      BY <3>1 DEF Smaller
    <3> QED  BY <2>3, <3>2
  <2>5. PICK c \in R : R \ {c} \subseteq TrimmedBefore(held, c, rank)
    BY <2>3, <2>4, LastTrimmed
  <2> DEFINE before == R \ {c}
  <2>6. c \in Channel /\ before = TrimmedBefore(held, c, rank)
    BY <2>3, <2>5, TrimOrder
  <2>7. before \in SUBSET Channel /\ before \subseteq R /\ before # R
    BY <2>3, <2>5
  <2>8. Initial(before)
    <3>1. \A d \in before : TrimmedBefore(held, d, rank) \subseteq before
      BY <2>6, <2>7, TrimOrder
    <3> QED  BY <3>1
  <2>9. /\ SumFunctionOnSet(held, R) = held[c] + SumFunctionOnSet(held, before)
        /\ SumFunctionOnSet(trimmed, R) = trimmed[c] + SumFunctionOnSet(trimmed, before)
    BY <1>1, <1>3, <2>3, <2>5, SumRemove
  <2> HIDE DEF before, Initial, Right
  <2>10. Right(before)
    BY <2>2, <2>7, <2>8 DEF Wrong
  <2>11. trimmed[c] = Smaller(held[c], Larger(0, excess - SumFunctionOnSet(held, before)))
    BY <1>2, <2>6
  <2>12. SumFunctionOnSet(held, before) \in Nat /\ held[c] \in Nat
    BY <1>1, <2>6, <2>7
  <2>13. Right(R)
    BY <2>9, <2>10, <2>11, <2>12 DEF Right, Smaller, Larger
  <2> QED  BY <2>3, <2>13
<1> QED  BY <1>4 DEF trimmed

-------------------------------------------------------------------------------
(* A sale from a ledger that keeps the rules *)

\* What it is to keep the rules.
LEMMA RulesSay ==
    ASSUME NEW ledger \in LedgerView
    PROVE  IsLedgerValid(ledger) <=>
              /\ ledger.quantityOnHand \in Nat /\ ledger.reserveQuantity \in Nat
              /\ SumFixedPartitions(ledger) + ledger.reserveQuantity <= ledger.quantityOnHand
              /\ \A c \in Allocated(ledger) : RowIssues(ledger.allocations[c]) = {}
<1>1. SumFixedPartitions(ledger) \in Int
  BY PartitionType, ChannelSumType DEF SumFixedPartitions
<1> DEFINE onHand == When(ledger.quantityOnHand < 0, "negative_on_hand")
           reserve == When(ledger.reserveQuantity < 0, "negative_reserve")
           over == When(SumFixedPartitions(ledger) + ledger.reserveQuantity
                          > ledger.quantityOnHand, "over_allocated")
           rows == UNION {RowIssues(ledger.allocations[c]) : c \in Allocated(ledger)}
<1>2. ValidateLedger(ledger) = onHand \cup reserve \cup over \cup rows
  BY Zenon DEF ValidateLedger
<1>3. rows = {} <=> \A c \in Allocated(ledger) : RowIssues(ledger.allocations[c]) = {}
  OBVIOUS
<1>4. /\ onHand = {} <=> ~(ledger.quantityOnHand < 0)
      /\ reserve = {} <=> ~(ledger.reserveQuantity < 0)
      /\ over = {} <=> ~(SumFixedPartitions(ledger) + ledger.reserveQuantity
                            > ledger.quantityOnHand)
  BY DEF When
<1> HIDE DEF onHand, reserve, over, rows
<1>5. (onHand \cup reserve \cup over \cup rows = {})
        <=> (onHand = {} /\ reserve = {} /\ over = {} /\ rows = {})
  OBVIOUS
<1>6. IsLedgerValid(ledger) <=> (onHand = {} /\ reserve = {} /\ over = {} /\ rows = {})
  BY <1>2, <1>5 DEF IsLedgerValid
<1>7. ledger.quantityOnHand \in Int /\ ledger.reserveQuantity \in Int
  BY DEF LedgerView
<1>8. /\ ~(ledger.quantityOnHand < 0) <=> ledger.quantityOnHand \in Nat
      /\ ~(ledger.reserveQuantity < 0) <=> ledger.reserveQuantity \in Nat
      /\ ~(SumFixedPartitions(ledger) + ledger.reserveQuantity > ledger.quantityOnHand)
            <=> SumFixedPartitions(ledger) + ledger.reserveQuantity <= ledger.quantityOnHand
  BY <1>1, <1>7
<1> QED  BY Zenon, <1>3, <1>4, <1>6, <1>8

\* A row that breaks no rule has a quantity if it is fixed, and perhaps a cap if not.
LEMMA RowRules ==
    ASSUME NEW row \in AllocationView
    PROVE  RowIssues(row) = {} <=>
              IF row.mode = "fixed"
              THEN row.quantityAllocated \in Nat /\ row.maxQuantity = Null
              ELSE row.quantityAllocated = Null /\ row.maxQuantity \in Nat \cup {Null}
<1>1. /\ row.quantityAllocated \in Int \/ row.quantityAllocated = Null
      /\ row.maxQuantity \in Int \/ row.maxQuantity = Null
  BY DEF AllocationView
<1>2. CASE row.mode = "fixed"
  BY <1>1, <1>2, NullAssumption DEF RowIssues, When
<1>3. CASE row.mode # "fixed"
  BY <1>1, <1>3, NullAssumption DEF RowIssues, When
<1> QED  BY <1>2, <1>3

\* Under the rules no partition is negative.
LEMMA PartitionsAreNatural ==
    ASSUME NEW ledger \in LedgerView, IsLedgerValid(ledger)
    PROVE  /\ Partition(ledger) \in [Channel -> Nat]
           /\ \A c \in Fixed(ledger) :
                 Partition(ledger)[c] = ledger.allocations[c].quantityAllocated
<1>1. ASSUME NEW c \in Fixed(ledger)
      PROVE  ledger.allocations[c].quantityAllocated \in Nat
  <2>1. c \in Allocated(ledger) /\ c \in Channel /\ ledger.allocations[c].mode = "fixed"
    BY DEF Fixed, Allocated
  <2>2. ledger.allocations[c] \in AllocationView
    BY <2>1 DEF Allocated, LedgerView
  <2>3. RowIssues(ledger.allocations[c]) = {}
    BY <2>1, RulesSay
  <2> QED  BY <2>1, <2>2, <2>3, RowRules
<1> QED  BY <1>1, NullAssumption DEF Partition, OrZero, Fixed, Allocated

\* What a sale takes from the reserve and the partitions is what is missing, the reserve
\* first.
LEMMA ReclaimAmounts ==
    ASSUME NEW ledger \in LedgerView, IsLedgerValid(ledger), NEW seller \in Channel,
           NEW quantity \in Nat, NEW rank \in RowRank
    PROVE  LET held == PartitionAfterSelling(ledger, seller, quantity)
               total == SumFunctionOnSet(held, Channel)
               excess == Larger(0, total + ledger.reserveQuantity
                                     - Larger(0, ledger.quantityOnHand - quantity))
               reclaimed == Reclaim(ledger, seller, quantity, rank)
           IN  /\ held \in [Channel -> Nat]
               /\ total \in Nat
               /\ reclaimed.reserve = Smaller(excess, ledger.reserveQuantity)
               /\ reclaimed.partitions \in [Channel -> Nat]
               /\ \A c \in Channel : reclaimed.partitions[c] <= held[c]
               /\ SumFunctionOnSet(reclaimed.partitions, Channel)
                    = Smaller(excess - reclaimed.reserve, total)
<1> DEFINE held == PartitionAfterSelling(ledger, seller, quantity)
           total == SumFunctionOnSet(held, Channel)
           excess == Larger(0, total + ledger.reserveQuantity
                                 - Larger(0, ledger.quantityOnHand - quantity))
           reserve == Smaller(excess, ledger.reserveQuantity)
           partitions == Trimmed(held, excess - reserve, rank)
<1>1. ledger.quantityOnHand \in Nat /\ ledger.reserveQuantity \in Nat
  BY RulesSay
<1>2. held \in [Channel -> Nat]
  BY PartitionsAreNatural DEF PartitionAfterSelling, Larger
<1> HIDE DEF held
<1>3. total \in Nat
  BY <1>2, ChannelAssumption, SumOfNaturals
<1>4. Reclaim(ledger, seller, quantity, rank) = [reserve |-> reserve, partitions |-> partitions]
  BY <1>1 DEF Reclaim, held, Larger
<1> HIDE DEF total
<1>5. excess \in Nat /\ reserve \in Nat /\ excess - reserve \in Nat
  BY <1>1, <1>3 DEF Larger, Smaller
<1> HIDE DEF excess, reserve
<1>6. partitions \in [Channel -> Nat] /\ \A c \in Channel : partitions[c] <= held[c]
  <2>1. \A c \in Channel : SumFunctionOnSet(held, TrimmedBefore(held, c, rank)) \in Int
    BY <1>2, ChannelSumType DEF TrimmedBefore
  <2> QED  BY <1>2, <1>5, <2>1 DEF Trimmed, Smaller, Larger
<1>7. SumFunctionOnSet(partitions, Channel) = Smaller(excess - reserve, total)
  <2>1. \A c \in Channel : TrimmedBefore(held, c, rank) \subseteq Channel
    BY DEF TrimmedBefore
  <2> QED  BY <1>2, <1>5, <2>1, TrimmedSum DEF total
<1> QED  BY <1>2, <1>3, <1>4, <1>6, <1>7 DEF reserve, excess, total, held

\* The rows a sale leaves: those there were, a fixed one with what is left to it.
LEMMA RowsAfterSale ==
    ASSUME NEW ledger \in LedgerView, IsLedgerValid(ledger), NEW seller \in Channel,
           NEW quantity \in Nat, NEW rank \in RowRank
    PROVE  LET after == LedgerAfterSale(ledger, seller, quantity, rank)
               held == PartitionAfterSelling(ledger, seller, quantity)
               reclaimed == Reclaim(ledger, seller, quantity, rank)
           IN  /\ Allocated(after) = Allocated(ledger) /\ Fixed(after) = Fixed(ledger)
               /\ \A c \in Channel \ Fixed(ledger) :
                     after.allocations[c] = ledger.allocations[c]
               /\ \A c \in Fixed(ledger) :
                     after.allocations[c] = [ledger.allocations[c] EXCEPT
                        !.quantityAllocated = held[c] - reclaimed.partitions[c]]
               /\ Partition(after) = [c \in Channel |-> held[c] - reclaimed.partitions[c]]
<1> DEFINE after == LedgerAfterSale(ledger, seller, quantity, rank)
           held == PartitionAfterSelling(ledger, seller, quantity)
           parts == Reclaim(ledger, seller, quantity, rank).partitions
<1>1. /\ held \in [Channel -> Nat] /\ parts \in [Channel -> Nat]
      /\ \A c \in Channel : parts[c] <= held[c]
  BY ReclaimAmounts
<1>2. after.allocations = [c \in Channel |->
            IF c \in Fixed(ledger) /\ (c = seller \/ parts[c] > 0)
            THEN [ledger.allocations[c] EXCEPT !.quantityAllocated = held[c] - parts[c]]
            ELSE ledger.allocations[c]]
  BY DEF LedgerAfterSale
<1>3. /\ Partition(ledger) \in [Channel -> Nat]
      /\ \A c \in Fixed(ledger) :
            Partition(ledger)[c] = ledger.allocations[c].quantityAllocated
  BY PartitionsAreNatural
<1>4. \A c \in Channel : c # seller => held[c] = Partition(ledger)[c]
  BY <1>3 DEF PartitionAfterSelling
<1>5. \A c \in Channel : c \notin Fixed(ledger) => held[c] = 0
  BY <1>3 DEF PartitionAfterSelling, Partition, Larger
<1> HIDE DEF after, held, parts
<1>6. \A c \in Channel \ Fixed(ledger) : after.allocations[c] = ledger.allocations[c]
  BY <1>2
<1>7. ASSUME NEW c \in Fixed(ledger)
      PROVE  /\ ledger.allocations[c] \in AllocationView
             /\ after.allocations[c] = [ledger.allocations[c] EXCEPT
                    !.quantityAllocated = held[c] - parts[c]]
  <2>1. c \in Channel /\ ledger.allocations[c] \in AllocationView
    BY DEF Fixed, Allocated, LedgerView
  <2>2. CASE c = seller \/ parts[c] > 0
    BY <1>2, <2>1, <2>2
  <2>3. CASE ~(c = seller \/ parts[c] > 0)
    <3>1. held[c] - parts[c] = ledger.allocations[c].quantityAllocated
      BY <1>1, <1>3, <1>4, <2>1, <2>3
    <3>2. after.allocations[c] = ledger.allocations[c]
      BY <1>2, <2>1, <2>3
    <3> QED  BY <2>1, <3>1, <3>2 DEF AllocationView
  <2> QED  BY <2>1, <2>2, <2>3
<1>8. ASSUME NEW c \in Fixed(ledger)
      PROVE  /\ after.allocations[c] \in AllocationView
             /\ after.allocations[c].mode = "fixed"
             /\ after.allocations[c].quantityAllocated = held[c] - parts[c]
  <2>1. c \in Channel /\ ledger.allocations[c].mode = "fixed" /\ held[c] - parts[c] \in Int
    BY <1>1 DEF Fixed, Allocated
  <2> QED  BY <1>7, <2>1 DEF AllocationView
<1>9. Allocated(after) = Allocated(ledger) /\ Fixed(after) = Fixed(ledger)
  <2>1. \A c \in Channel : after.allocations[c] # Null <=> ledger.allocations[c] # Null
    BY <1>6, <1>7, <1>8, NullAssumption
  <2>2. Allocated(after) = Allocated(ledger)
    BY <2>1 DEF Allocated
  <2>3. \A c \in Allocated(ledger) : c \notin Fixed(ledger) => after.allocations[c].mode # "fixed"
    BY <1>6 DEF Fixed, Allocated
  <2> QED  BY <1>8, <2>2, <2>3 DEF Fixed
<1>10. Partition(after) = [c \in Channel |-> held[c] - parts[c]]
  <2>1. \A c \in Channel \ Fixed(ledger) : held[c] - parts[c] = 0
    BY <1>1, <1>5
  <2>2. \A c \in Fixed(ledger) : OrZero(after.allocations[c].quantityAllocated) = held[c] - parts[c]
    BY <1>1, <1>8, NullAssumption DEF OrZero, Fixed, Allocated
  <2> QED  BY <1>9, <2>1, <2>2 DEF Partition
<1> QED  BY <1>6, <1>7, <1>9, <1>10 DEF after, held, parts

\* The partitions together, before and after the selling channel gave up what it sold.
LEMMA HeldSum ==
    ASSUME NEW ledger \in LedgerView, IsLedgerValid(ledger), NEW seller \in Channel,
           NEW quantity \in Nat
    PROVE  LET own == Partition(ledger)[seller]
           IN  /\ own \in Nat /\ SumFixedPartitions(ledger) \in Nat
               /\ own <= SumFixedPartitions(ledger)
               /\ SumFunctionOnSet(PartitionAfterSelling(ledger, seller, quantity), Channel)
                    = SumFixedPartitions(ledger) - own + Larger(0, own - quantity)
<1> DEFINE own == Partition(ledger)[seller]
           held == PartitionAfterSelling(ledger, seller, quantity)
           others == Channel \ {seller}
<1>1. Partition(ledger) \in [Channel -> Nat] /\ own \in Nat
  BY PartitionsAreNatural
<1>2. held = [Partition(ledger) EXCEPT ![seller] = Larger(0, own - quantity)]
  BY <1>1 DEF PartitionAfterSelling
<1>3. held \in [Channel -> Nat]
  BY <1>1, <1>2 DEF Larger
<1> HIDE DEF held, own
<1>4. /\ held[seller] = Larger(0, own - quantity)
      /\ \A c \in others : held[c] = Partition(ledger)[c]
  BY <1>1, <1>2
<1>5. /\ SumFixedPartitions(ledger) = own + SumFunctionOnSet(Partition(ledger), others)
      /\ SumFunctionOnSet(held, Channel) = held[seller] + SumFunctionOnSet(held, others)
  BY <1>1, <1>3, ChannelAssumption, SumRemove DEF SumFixedPartitions, own
<1>6. IsFiniteSet(others) /\ \A c \in others : Partition(ledger)[c] \in Nat
  BY <1>1, ChannelAssumption, FS_Subset
<1>7. /\ SumFunctionOnSet(held, others) = SumFunctionOnSet(Partition(ledger), others)
      /\ SumFunctionOnSet(Partition(ledger), others) \in Nat
  <2> HIDE DEF others
  <2> QED  BY <1>4, <1>6, SumOfSame, SumOfNaturals
<1>8. own \in Nat /\ Larger(0, own - quantity) \in Int
  BY <1>1 DEF Larger
<1> HIDE DEF others
<1> QED  BY <1>4, <1>5, <1>7, <1>8 DEF held, own

\* The figures a sale leaves: the selling partition gives up what it sold, on-hand falls to
\* zero at most, and what is missing comes out of the reserve and then of the partitions.
LEMMA FiguresAfterSale ==
    ASSUME NEW ledger \in LedgerView, IsLedgerValid(ledger), NEW seller \in Channel,
           NEW quantity \in Nat, NEW rank \in RowRank
    PROVE  LET after == LedgerAfterSale(ledger, seller, quantity, rank)
               own == Partition(ledger)[seller]
               total == SumFixedPartitions(ledger) - own + Larger(0, own - quantity)
               onHand == Larger(0, ledger.quantityOnHand - quantity)
               excess == Larger(0, total + ledger.reserveQuantity - onHand)
               reserve == Smaller(excess, ledger.reserveQuantity)
           IN  /\ own \in Nat /\ SumFixedPartitions(ledger) \in Nat /\ total \in Nat
               /\ after.quantityOnHand = onHand
               /\ after.reserveQuantity = ledger.reserveQuantity - reserve
               /\ SumFixedPartitions(after) = total - Smaller(excess - reserve, total)
<1> DEFINE after == LedgerAfterSale(ledger, seller, quantity, rank)
           own == Partition(ledger)[seller]
           held == PartitionAfterSelling(ledger, seller, quantity)
           parts == Reclaim(ledger, seller, quantity, rank).partitions
           total == SumFixedPartitions(ledger) - own + Larger(0, own - quantity)
<1>1. /\ own \in Nat /\ SumFixedPartitions(ledger) \in Nat
      /\ SumFunctionOnSet(held, Channel) = total
  BY HeldSum
<1>2. /\ held \in [Channel -> Nat] /\ parts \in [Channel -> Nat]
      /\ SumFunctionOnSet(held, Channel) \in Nat
  BY ReclaimAmounts
<1> HIDE DEF held, parts, own, after, total
<1> DEFINE onHand == Larger(0, ledger.quantityOnHand - quantity)
           excess == Larger(0, total + ledger.reserveQuantity - onHand)
           reserve == Smaller(excess, ledger.reserveQuantity)
<1>3. /\ Reclaim(ledger, seller, quantity, rank).reserve = reserve
      /\ SumFunctionOnSet(parts, Channel) = Smaller(excess - reserve, total)
  BY <1>1, ReclaimAmounts DEF held, parts
<1>4. SumFixedPartitions(after) = total - SumFunctionOnSet(parts, Channel)
  <2>1. Partition(after) = [c \in Channel |-> held[c] - parts[c]]
    BY RowsAfterSale DEF after, held, parts
  <2>2. \A c \in Channel : /\ held[c] \in Int /\ parts[c] \in Int
                           /\ Partition(after)[c] = held[c] - parts[c]
    BY <1>2, <2>1
  <2>3. SumFunctionOnSet(Partition(after), Channel)
          = SumFunctionOnSet(held, Channel) - SumFunctionOnSet(parts, Channel)
    BY <2>2, ChannelAssumption, SumOfDifferences
  <2> QED  BY <1>1, <2>3 DEF SumFixedPartitions
<1>5. after.quantityOnHand = onHand /\ after.reserveQuantity = ledger.reserveQuantity - reserve
  BY <1>3 DEF after, LedgerAfterSale
<1> QED  BY <1>1, <1>2, <1>3, <1>4, <1>5 DEF own, after, total

\* A sale from a ledger that keeps the rules leaves one that keeps them, however much was
\* oversold and in whatever order the database returned the rows (applySale).
THEOREM SaleKeepsRules ==
    ASSUME NEW ledger \in LedgerView, IsLedgerValid(ledger), NEW seller \in Channel,
           NEW quantity \in Nat, NEW rank \in RowRank
    PROVE  IsLedgerValid(LedgerAfterSale(ledger, seller, quantity, rank))
<1> DEFINE after == LedgerAfterSale(ledger, seller, quantity, rank)
           held == PartitionAfterSelling(ledger, seller, quantity)
           parts == Reclaim(ledger, seller, quantity, rank).partitions
<1>1. after \in LedgerView
  BY AfterSaleType
<1>2. /\ ledger.quantityOnHand \in Nat /\ ledger.reserveQuantity \in Nat
      /\ \A c \in Allocated(ledger) : RowIssues(ledger.allocations[c]) = {}
  BY RulesSay
<1>3. /\ after.quantityOnHand \in Nat /\ after.reserveQuantity \in Nat
      /\ SumFixedPartitions(after) + after.reserveQuantity <= after.quantityOnHand
  BY <1>2, FiguresAfterSale DEF Larger, Smaller
<1>4. /\ held \in [Channel -> Nat] /\ parts \in [Channel -> Nat]
      /\ \A c \in Channel : parts[c] <= held[c]
  BY ReclaimAmounts
<1>5. /\ Allocated(after) = Allocated(ledger)
      /\ \A c \in Channel \ Fixed(ledger) : after.allocations[c] = ledger.allocations[c]
      /\ \A c \in Fixed(ledger) : after.allocations[c] =
            [ledger.allocations[c] EXCEPT !.quantityAllocated = held[c] - parts[c]]
  BY RowsAfterSale
<1> HIDE DEF after, held, parts
<1>6. ASSUME NEW c \in Allocated(after) PROVE RowIssues(after.allocations[c]) = {}
  <2>1. c \in Allocated(ledger) /\ c \in Channel /\ RowIssues(ledger.allocations[c]) = {}
    BY <1>2, <1>5 DEF Allocated
  <2>2. CASE c \notin Fixed(ledger)
    BY <1>5, <2>1, <2>2
  <2>3. CASE c \in Fixed(ledger)
    <3> DEFINE row == ledger.allocations[c]
               left == held[c] - parts[c]
    <3>1. row \in AllocationView /\ row.mode = "fixed" /\ row.maxQuantity = Null
      <4>1. row \in AllocationView /\ row.mode = "fixed"
        BY <2>1, <2>3 DEF Fixed, Allocated, LedgerView
      <4> QED  BY <2>1, <4>1, RowRules
    <3>2. left \in Nat
      BY <1>4, <2>1
    <3> HIDE DEF row, left
    <3>3. after.allocations[c] = [row EXCEPT !.quantityAllocated = left]
      BY <1>5, <2>3 DEF row, left
    <3>4. /\ after.allocations[c] \in AllocationView /\ after.allocations[c].mode = "fixed"
          /\ after.allocations[c].quantityAllocated \in Nat
          /\ after.allocations[c].maxQuantity = Null
      BY <3>1, <3>2, <3>3 DEF AllocationView
    <3> QED  BY <3>4, RowRules
  <2> QED  BY <2>2, <2>3
<1> QED  BY <1>1, <1>3, <1>6, RulesSay DEF after

\* A sale makes no channel advertise more than it did, whether its row is fixed or pooled:
\* what the sale frees never reaches the pool.
THEOREM SaleListsNoMore ==
    ASSUME NEW ledger \in LedgerView, IsLedgerValid(ledger), NEW seller \in Channel,
           NEW quantity \in Nat, NEW rank \in RowRank, NEW c \in Channel
    PROVE  Desired(LedgerAfterSale(ledger, seller, quantity, rank))[c] <= Desired(ledger)[c]
<1> DEFINE after == LedgerAfterSale(ledger, seller, quantity, rank)
           held == PartitionAfterSelling(ledger, seller, quantity)
           parts == Reclaim(ledger, seller, quantity, rank).partitions
           pool == ComputePool(ledger)
           poolAfter == ComputePool(after)
<1>1. /\ ledger.quantityOnHand \in Nat /\ ledger.reserveQuantity \in Nat
      /\ SumFixedPartitions(ledger) + ledger.reserveQuantity <= ledger.quantityOnHand
  BY RulesSay
<1>2. pool \in Nat /\ poolAfter \in Nat /\ poolAfter <= pool
  <2>1. /\ Partition(ledger)[seller] \in Nat /\ SumFixedPartitions(ledger) \in Nat
        /\ SumFixedPartitions(ledger) >= Partition(ledger)[seller]
    BY HeldSum
  <2> DEFINE own == Partition(ledger)[seller]
             sum == SumFixedPartitions(ledger)
             total == sum - own + Larger(0, own - quantity)
             onHand == Larger(0, ledger.quantityOnHand - quantity)
             excess == Larger(0, total + ledger.reserveQuantity - onHand)
             reserve == Smaller(excess, ledger.reserveQuantity)
  <2>2. /\ total \in Nat /\ after.quantityOnHand = onHand
        /\ after.reserveQuantity = ledger.reserveQuantity - reserve
        /\ SumFixedPartitions(after) = total - Smaller(excess - reserve, total)
    BY FiguresAfterSale
  <2>3. pool = ledger.quantityOnHand - sum - ledger.reserveQuantity
    BY <1>1, <2>1 DEF ComputePool, Larger
  <2>4. onHand \in Nat /\ onHand >= ledger.quantityOnHand - quantity
        /\ (onHand = ledger.quantityOnHand - quantity \/ onHand = 0)
    BY <1>1 DEF Larger
  <2>5. total >= sum - own /\ total >= sum - quantity
    BY <2>1 DEF Larger
  <2>6. poolAfter = Larger(0, onHand - SumFixedPartitions(after) - after.reserveQuantity)
    BY <2>2 DEF ComputePool
  <2> HIDE DEF after, own, sum, total, onHand, pool, poolAfter
  <2>7. CASE total + ledger.reserveQuantity <= onHand
    <3>1. excess = 0
      BY <1>1, <2>2, <2>4, <2>7 DEF Larger
    <3>2. SumFixedPartitions(after) = total /\ after.reserveQuantity = ledger.reserveQuantity
      BY <1>1, <2>2, <3>1 DEF Smaller
    <3>3. poolAfter = onHand - total - ledger.reserveQuantity
      BY <1>1, <2>2, <2>4, <2>6, <2>7, <3>2 DEF Larger
    <3> QED  BY <1>1, <2>1, <2>2, <2>3, <2>4, <2>5, <2>7, <3>3 DEF own, sum
  <2>8. CASE total + ledger.reserveQuantity > onHand
    <3>1. excess = total + ledger.reserveQuantity - onHand /\ excess \in Nat
      BY <1>1, <2>2, <2>4, <2>8 DEF Larger
    <3>2. SumFixedPartitions(after) + after.reserveQuantity = onHand
      BY <1>1, <2>2, <2>4, <3>1 DEF Smaller
    <3>3. SumFixedPartitions(after) \in Int /\ after.reserveQuantity \in Int
      BY <1>1, <2>2, <3>1 DEF Smaller
    <3>4. poolAfter = 0
      BY <2>4, <2>6, <3>2, <3>3 DEF Larger
    <3> QED  BY <1>1, <2>1, <2>3, <3>4 DEF sum
  <2> QED  BY <1>1, <2>2, <2>4, <2>7, <2>8
<1>3. /\ \A d \in Channel \ Fixed(ledger) : after.allocations[d] = ledger.allocations[d]
      /\ \A d \in Fixed(ledger) : after.allocations[d] =
            [ledger.allocations[d] EXCEPT !.quantityAllocated = held[d] - parts[d]]
  BY RowsAfterSale
<1>4. /\ held \in [Channel -> Nat] /\ parts \in [Channel -> Nat]
      /\ held[c] <= Partition(ledger)[c] /\ Partition(ledger) \in [Channel -> Nat]
  <2>1. Partition(ledger) \in [Channel -> Nat]
    BY PartitionsAreNatural
  <2>2. held[c] <= Partition(ledger)[c]
    BY <2>1 DEF PartitionAfterSelling, Larger
  <2> QED  BY <2>1, <2>2, ReclaimAmounts
<1>5. /\ Desired(after)[c] = IF after.allocations[c] = Null THEN 0
                             ELSE ComputeListedQuantity(after.allocations[c], poolAfter)
      /\ Desired(ledger)[c] = IF ledger.allocations[c] = Null THEN 0
                              ELSE ComputeListedQuantity(ledger.allocations[c], pool)
  BY DEF Desired
<1> HIDE DEF after, held, parts, pool, poolAfter
<1>6. CASE ledger.allocations[c] = Null
  <2>1. after.allocations[c] = Null
    BY <1>3, <1>6 DEF Fixed, Allocated
  <2> QED  BY <1>5, <1>6, <2>1 DEF after
<1>7. CASE c \in Fixed(ledger)
  <2> DEFINE row == ledger.allocations[c]
             left == held[c] - parts[c]
  <2>1. row \in AllocationView /\ row.mode = "fixed" /\ row # Null
    BY <1>7 DEF Fixed, Allocated, LedgerView
  <2>2. row.quantityAllocated = Partition(ledger)[c] /\ Partition(ledger)[c] \in Nat
    BY <1>4, <1>7, PartitionsAreNatural
  <2>3. left \in Int /\ left <= Partition(ledger)[c]
    BY <1>4, <2>2
  <2> HIDE DEF row, left
  <2>4. after.allocations[c] = [row EXCEPT !.quantityAllocated = left]
    BY <1>3, <1>7 DEF row, left
  <2>5. /\ after.allocations[c] \in AllocationView /\ after.allocations[c].mode = "fixed"
        /\ after.allocations[c].quantityAllocated = left
    BY <2>1, <2>3, <2>4 DEF AllocationView
  <2>6. Desired(after)[c] = Larger(0, left)
    BY <1>5, <2>3, <2>5, NullAssumption DEF ComputeListedQuantity, OrZero
  <2>7. Desired(ledger)[c] = Larger(0, Partition(ledger)[c])
    BY <1>5, <2>1, <2>2, NullAssumption DEF ComputeListedQuantity, OrZero, row
  <2> QED  BY <2>2, <2>3, <2>6, <2>7 DEF Larger, after
<1>8. CASE ledger.allocations[c] # Null /\ c \notin Fixed(ledger)
  <2> DEFINE row == ledger.allocations[c]
  <2>1. row \in AllocationView /\ row.mode # "fixed" /\ row # Null
    BY <1>8 DEF Fixed, Allocated, LedgerView
  <2>2. row.maxQuantity \in Int \/ row.maxQuantity = Null
    BY <2>1 DEF AllocationView
  <2>3. after.allocations[c] = row
    BY <1>3, <1>8
  <2> HIDE DEF row
  <2>4. ComputeListedQuantity(row, poolAfter) <= ComputeListedQuantity(row, pool)
    BY <1>2, <2>1, <2>2 DEF ComputeListedQuantity, Larger, Smaller
  <2> QED  BY <1>5, <2>1, <2>3, <2>4 DEF row, after
<1> QED  BY <1>6, <1>7, <1>8

\* The units a sale's conflicts of one kind report.
Reported(conflicts, code) ==
    SumFunctionOnSet([x \in conflicts |-> x.shortfall], {x \in conflicts : x.code = code})

\* The only conflict of its kind reports what there is to report, and none reports nothing.
LEMMA ReportedByOne ==
    ASSUME NEW conflicts, NEW code, NEW channel, NEW shortfall \in Int,
           {x \in conflicts : x.code = code}
              = When(shortfall > 0,
                     [code |-> code, channel |-> channel, shortfall |-> shortfall])
    PROVE  Reported(conflicts, code) = Larger(0, shortfall)
<1> DEFINE amount == [x \in conflicts |-> x.shortfall]
           it == [code |-> code, channel |-> channel, shortfall |-> shortfall]
           these == {x \in conflicts : x.code = code}
<1>1. CASE shortfall > 0
  <2>1. these = {it}
    BY <1>1 DEF When
  <2>2. it \in conflicts
    BY <2>1
  <2>3. amount[it] = shortfall
    BY <2>2
  <2> HIDE DEF amount, it, these
  <2>4. SumFunctionOnSet(amount, {it}) = shortfall
    BY <2>3, SumOfOne
  <2>5. SumFunctionOnSet(amount, these) = shortfall
    BY <2>1, <2>4
  <2> QED  BY <1>1, <2>5 DEF Reported, amount, these, Larger
<1>2. CASE ~(shortfall > 0)
  <2>1. these = {}
    BY <1>2 DEF When
  <2> HIDE DEF amount, these
  <2>2. SumFunctionOnSet(amount, these) = 0
    BY <2>1, SumEmpty
  <2> QED  BY <1>2, <2>2 DEF Reported, amount, these, Larger
<1> QED  BY <1>1, <1>2

\* What a sale reports, kind by kind.
LEMMA ReportsOfASale ==
    ASSUME NEW ledger \in LedgerView, IsLedgerValid(ledger), NEW seller \in Channel,
           NEW quantity \in Nat, NEW rank \in RowRank
    PROVE  LET conflicts == SaleConflicts(ledger, seller, quantity, rank)
               reclaimed == Reclaim(ledger, seller, quantity, rank)
           IN  /\ Reported(conflicts, "oversell_on_hand")
                    = Larger(0, quantity - ledger.quantityOnHand)
               /\ seller \in Fixed(ledger) =>
                    Reported(conflicts, "oversell_partition")
                        = Larger(0, quantity - Partition(ledger)[seller])
               /\ Reported(conflicts, "reserve_reduced") = Larger(0, reclaimed.reserve)
               /\ Reported(conflicts, "partition_reduced")
                    = SumFunctionOnSet(reclaimed.partitions, Channel)
<1> DEFINE conflicts == SaleConflicts(ledger, seller, quantity, rank)
           reserve == Reclaim(ledger, seller, quantity, rank).reserve
           parts == Reclaim(ledger, seller, quantity, rank).partitions
           own == Partition(ledger)[seller]
           Conflict(code, channel, shortfall) ==
              [code |-> code, channel |-> channel, shortfall |-> shortfall]
           onHand == When(quantity - ledger.quantityOnHand > 0,
                          Conflict("oversell_on_hand", Null, quantity - ledger.quantityOnHand))
           partition == IF seller \in Fixed(ledger)
                        THEN When(quantity - own > 0,
                                  Conflict("oversell_partition", seller, quantity - own))
                        ELSE {}
           reduced == When(reserve > 0, Conflict("reserve_reduced", Null, reserve))
           Trim(c) == When(parts[c] > 0, Conflict("partition_reduced", c, parts[c]))
           trims == UNION {Trim(c) : c \in Channel}
           Of(code) == {x \in conflicts : x.code = code}
<1>1. conflicts = onHand \cup partition \cup reduced \cup trims
  BY Zenon DEF SaleConflicts
<1>2. /\ \A x \in onHand : x.code = "oversell_on_hand"
      /\ \A x \in partition : x.code = "oversell_partition"
      /\ \A x \in reduced : x.code = "reserve_reduced"
  BY DEF When
<1>3. \A x : x \in trims <=> \E c \in Channel : parts[c] > 0 /\ x = Conflict("partition_reduced", c, parts[c])
  BY DEF When
<1>4. \A x \in trims : x.code = "partition_reduced"
  BY <1>3
<1>5. /\ quantity - ledger.quantityOnHand \in Int /\ reserve \in Int /\ own \in Int
      /\ parts \in [Channel -> Nat]
  BY ReclaimType, ReclaimAmounts, PartitionType DEF LedgerView
<1> HIDE DEF conflicts, onHand, partition, reduced, trims
<1>6. /\ Of("oversell_on_hand") = onHand /\ Of("oversell_partition") = partition
      /\ Of("reserve_reduced") = reduced /\ Of("partition_reduced") = trims
  BY <1>1, <1>2, <1>4
<1>7. Reported(conflicts, "oversell_on_hand") = Larger(0, quantity - ledger.quantityOnHand)
  BY <1>5, <1>6, ReportedByOne DEF onHand
<1>8. ASSUME seller \in Fixed(ledger)
      PROVE  Reported(conflicts, "oversell_partition") = Larger(0, quantity - own)
  <2>1. partition = When(quantity - own > 0,
                         Conflict("oversell_partition", seller, quantity - own))
    BY <1>8 DEF partition
  <2> QED  BY <1>5, <1>6, <2>1, ReportedByOne
<1>9. Reported(conflicts, "reserve_reduced") = Larger(0, reserve)
  BY <1>5, <1>6, ReportedByOne DEF reduced
<1>10. Reported(conflicts, "partition_reduced") = SumFunctionOnSet(parts, Channel)
  <2> DEFINE trimmed == {c \in Channel : parts[c] > 0}
             k == [c \in trimmed |-> Conflict("partition_reduced", c, parts[c])]
             amount == [x \in conflicts |-> x.shortfall]
  <2>1. trims = {k[c] : c \in trimmed}
    BY <1>3
  <2>2. \A c, d \in trimmed : k[c] = k[d] => c = d
    OBVIOUS
  <2>3. \A c \in trimmed : parts[c] \in Int /\ amount[k[c]] = parts[c]
    <3>1. ASSUME NEW c \in trimmed
          PROVE  /\ k[c] \in conflicts
                 /\ k[c].shortfall = parts[c]
                 /\ parts[c] \in Int
      <4>1. k[c] = Conflict("partition_reduced", c, parts[c])
        OBVIOUS
      <4>2. k[c] \in trims
        BY <2>1
      <4>3. k[c] \in conflicts
        BY <1>1, <4>2
      <4>4. k[c].shortfall = parts[c]
        BY <4>1
      <4>5. parts[c] \in Int
        BY <1>5
      <4> QED  BY <4>3, <4>4, <4>5
    <3> HIDE DEF k, trimmed
    <3> QED  BY <3>1
  <2>4. IsFiniteSet(trimmed)
    BY ChannelAssumption, FS_Subset
  <2> HIDE DEF k, amount
  <2>5. SumFunctionOnSet(amount, {k[c] : c \in trimmed}) = SumFunctionOnSet(parts, trimmed)
    <3> HIDE DEF trimmed
    <3> QED  BY <2>2, <2>3, <2>4, SumOfImage
  <2>6. SumFunctionOnSet(parts, Channel) = SumFunctionOnSet(parts, trimmed)
    <3>1. /\ trimmed \in SUBSET Channel /\ \A c \in Channel : parts[c] \in Int
          /\ \A c \in Channel \ trimmed : parts[c] = 0
      BY <1>5
    <3> HIDE DEF trimmed
    <3> QED  BY <3>1, ChannelAssumption, SumOfSupport
  <2>7. Reported(conflicts, "partition_reduced") = SumFunctionOnSet(amount, trims)
    BY <1>6 DEF Reported, amount
  <2> QED  BY <2>1, <2>5, <2>6, <2>7
<1> QED  BY <1>7, <1>8, <1>9, <1>10 DEF conflicts

\* The units by which on-hand and the commitments of the reserve and of the partitions fell,
\* and the units sold beyond on-hand, are all in the sale or in a conflict it reports.
THEOREM SaleIsAccountedFor ==
    ASSUME NEW ledger \in LedgerView, IsLedgerValid(ledger), NEW seller \in Channel,
           NEW quantity \in Nat, NEW rank \in RowRank
    PROVE  LET after == LedgerAfterSale(ledger, seller, quantity, rank)
               conflicts == SaleConflicts(ledger, seller, quantity, rank)
           IN  /\ ledger.quantityOnHand - after.quantityOnHand
                    + Reported(conflicts, "oversell_on_hand") = quantity
               /\ ledger.reserveQuantity - after.reserveQuantity
                    = Reported(conflicts, "reserve_reduced")
               /\ SumFixedPartitions(ledger) - SumFixedPartitions(after)
                    = Reported(conflicts, "partition_reduced")
                      + (IF seller \in Fixed(ledger)
                         THEN quantity - Reported(conflicts, "oversell_partition")
                         ELSE 0)
<1> DEFINE after == LedgerAfterSale(ledger, seller, quantity, rank)
           conflicts == SaleConflicts(ledger, seller, quantity, rank)
           reclaimed == Reclaim(ledger, seller, quantity, rank)
           own == Partition(ledger)[seller]
           sum == SumFixedPartitions(ledger)
           total == sum - own + Larger(0, own - quantity)
           onHand == Larger(0, ledger.quantityOnHand - quantity)
           excess == Larger(0, total + ledger.reserveQuantity - onHand)
           reserve == Smaller(excess, ledger.reserveQuantity)
           trimmed == SumFunctionOnSet(reclaimed.partitions, Channel)
<1>1. ledger.quantityOnHand \in Nat /\ ledger.reserveQuantity \in Nat
  BY RulesSay
<1>2. /\ own \in Nat /\ sum \in Nat /\ total \in Nat
      /\ after.quantityOnHand = onHand
      /\ after.reserveQuantity = ledger.reserveQuantity - reserve
      /\ SumFixedPartitions(after) = total - Smaller(excess - reserve, total)
  BY FiguresAfterSale
<1>3. /\ Reported(conflicts, "oversell_on_hand")
            = Larger(0, quantity - ledger.quantityOnHand)
      /\ seller \in Fixed(ledger) =>
            Reported(conflicts, "oversell_partition") = Larger(0, quantity - own)
      /\ Reported(conflicts, "reserve_reduced") = Larger(0, reclaimed.reserve)
      /\ Reported(conflicts, "partition_reduced") = trimmed
  BY ReportsOfASale
<1>4. /\ reserve \in Nat /\ excess - reserve \in Int
  BY <1>1, <1>2 DEF Larger, Smaller
<1>5. reclaimed.reserve = reserve /\ trimmed = Smaller(excess - reserve, total)
  <2> DEFINE held == PartitionAfterSelling(ledger, seller, quantity)
  <2>1. SumFunctionOnSet(held, Channel) = total
    BY HeldSum
  <2> QED  BY <2>1, ReclaimAmounts
<1>6. own = 0 \/ seller \in Fixed(ledger)
  BY DEF Partition
<1> HIDE DEF after, conflicts, reclaimed, own, sum, trimmed, reserve, excess, total
<1>7. sum - total = own - Larger(0, own - quantity)
  BY <1>2 DEF total, Larger
<1>8. trimmed \in Int /\ sum - SumFixedPartitions(after) = trimmed + (sum - total)
  BY <1>2, <1>4, <1>5 DEF Smaller
<1>9. sum - SumFixedPartitions(after)
        = Reported(conflicts, "partition_reduced")
          + (IF seller \in Fixed(ledger)
             THEN quantity - Reported(conflicts, "oversell_partition")
             ELSE 0)
  <2>1. CASE seller \in Fixed(ledger)
    <3>1. own - Larger(0, own - quantity) = quantity - Larger(0, quantity - own)
      BY <1>2 DEF Larger
    <3> QED  BY <1>3, <1>7, <1>8, <2>1, <3>1
  <2>2. CASE seller \notin Fixed(ledger)
    <3>1. own - Larger(0, own - quantity) = 0
      BY <1>6, <2>2 DEF Larger
    <3> QED  BY <1>3, <1>7, <1>8, <2>2, <3>1
  <2> QED  BY <2>1, <2>2
<1>10. ledger.quantityOnHand - after.quantityOnHand
          + Reported(conflicts, "oversell_on_hand") = quantity
  BY <1>1, <1>2, <1>3 DEF Larger
<1>11. ledger.reserveQuantity - after.reserveQuantity = Reported(conflicts, "reserve_reduced")
  BY <1>1, <1>2, <1>3, <1>4, <1>5 DEF Larger
<1> QED  BY <1>9, <1>10, <1>11 DEF after, conflicts, sum
===============================================================================
