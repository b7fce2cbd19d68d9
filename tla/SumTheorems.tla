----------------------------- MODULE SumTheorems ------------------------------
(***************************************************************************)
(* Theorems about SumFunctionOnSet for functions to natural numbers.       *)
(*                                                                         *)
(* A function that counts stands for a set: of every key k the copies      *)
(* 1 .. f[k].  The sum is the cardinality of that set, which at the same   *)
(* time shows that the recursion of the fold has a solution.  A theorem    *)
(* about Min, which both users of the sums need, is at the end.            *)
(***************************************************************************)
EXTENDS Integers, FiniteSets, FiniteSetsExt, Functions, FiniteSetTheorems, WellFoundedInduction,
        TLAPS

Sum(f, S) == SumFunctionOnSet(f, S)

Copies(f, S) == {c \in S \X Nat : 1 <= c[2] /\ c[2] <= f[c[1]]}

\* What holds of the empty set, and of a set with one element more, holds of every
\* finite set.
LEMMA SetInduction ==
    ASSUME NEW S, IsFiniteSet(S), NEW Good, {} \in Good,
           \A T \in Good, x \in S : T \in SUBSET S => T \union {x} \in Good
    PROVE  S \in Good
<1> DEFINE bad == {T \in SUBSET S : T \notin Good}
<1> SUFFICES ASSUME S \notin Good PROVE FALSE OBVIOUS
<1>1. FiniteSubsetsOf(S) = SUBSET S BY FS_FiniteSubsetsOfFinite
<1>2. IsWellFoundedOn(StrictSubsetOrdering(S), SUBSET S)
  BY <1>1, FS_StrictSubsetOrderingWellFounded
<1>3. \E T \in bad : \A U \in bad : ~ (<<U, T>> \in StrictSubsetOrdering(S))
  <2>1. bad \subseteq SUBSET S /\ bad # {} OBVIOUS
  <2> HIDE DEF bad
  <2> QED BY <1>2, <2>1, WFMin
<1>4. PICK T \in bad : \A U \in bad : ~ (<<U, T>> \in StrictSubsetOrdering(S)) BY <1>3
<1>5. T # {} OBVIOUS
<1>6. PICK x \in T : TRUE BY <1>5
<1>7. T \ {x} \in SUBSET S /\ T \ {x} # T /\ T \ {x} \subseteq T OBVIOUS
<1>8. <<T \ {x}, T>> \in StrictSubsetOrdering(S)
  BY <1>7 DEF StrictSubsetOrdering
<1>9. T \ {x} \in Good BY <1>4, <1>7, <1>8
<1>10. (T \ {x}) \union {x} = T BY <1>6
<1> QED BY <1>7, <1>9, <1>10

\* The copies of one key more.
LEMMA CopiesOfOneMore ==
    ASSUME NEW S, NEW x, x \notin S, NEW f, f[x] \in Nat, IsFiniteSet(Copies(f, S))
    PROVE  /\ IsFiniteSet(Copies(f, S \union {x}))
           /\ Cardinality(Copies(f, S \union {x})) = Cardinality(Copies(f, S)) + f[x]
<1> DEFINE new == {c \in {x} \X Nat : 1 <= c[2] /\ c[2] <= f[c[1]]}
           g   == [j \in 1 .. f[x] |-> <<x, j>>]
<1>1. Copies(f, S \union {x}) = Copies(f, S) \union new BY DEF Copies
<1>2. Copies(f, S) \intersect new = {} BY DEF Copies
<1>3. g \in Bijection(1 .. f[x], new)
  <2>1. g \in [1 .. f[x] -> new] /\ DOMAIN g = 1 .. f[x] OBVIOUS
  <2>2. \A c \in new : c[2] \in 1 .. f[x] /\ g[c[2]] = c OBVIOUS
  <2>3. \A c \in new : \E j \in 1 .. f[x] : g[j] = c BY <2>2
  <2>4. \A i, j \in 1 .. f[x] : g[i] = g[j] => i = j OBVIOUS
  <2> HIDE DEF g, new
  <2> QED BY <2>1, <2>3, <2>4 DEF Bijection, Injection, Surjection, IsInjective
<1>4. IsFiniteSet(1 .. f[x]) /\ Cardinality(1 .. f[x]) = f[x] BY FS_Interval
<1>5. IsFiniteSet(new) /\ Cardinality(new) = f[x]
  <2>1. ExistsBijection(1 .. f[x], new) BY <1>3 DEF ExistsBijection
  <2> HIDE DEF new
  <2> QED BY <1>4, <2>1, FS_Bijection
<1>6. Cardinality(Copies(f, S)) \in Nat BY FS_CardinalityType
<1> HIDE DEF new, g
<1>7. /\ IsFiniteSet(Copies(f, S) \union new)
      /\ Cardinality(Copies(f, S) \union new)
           = Cardinality(Copies(f, S)) + Cardinality(new) - Cardinality(Copies(f, S) \intersect new)
  BY <1>5, FS_Union
<1>8. Cardinality(Copies(f, S) \intersect new) = 0 BY <1>2, FS_EmptySet
<1>9. Cardinality(Copies(f, S) \union new) = Cardinality(Copies(f, S)) + f[x]
  BY <1>5, <1>6, <1>7, <1>8
<1> QED BY <1>1, <1>7, <1>9

\* Finitely many keys have finitely many copies.
LEMMA CopiesFinite ==
    ASSUME NEW S, IsFiniteSet(S), NEW f, \A k \in S : f[k] \in Nat
    PROVE  IsFiniteSet(Copies(f, S))
<1> DEFINE Good == {T \in SUBSET S : IsFiniteSet(Copies(f, T))}
<1>1. Copies(f, {}) = {} BY DEF Copies
<1>2. {} \in Good BY <1>1, FS_EmptySet
<1>3. ASSUME NEW T \in Good, NEW x \in S
      PROVE  T \union {x} \in Good
  <2>1. CASE x \in T
    <3>1. T \union {x} = T BY <2>1
    <3> QED BY <3>1
  <2>2. CASE x \notin T BY <2>2, CopiesOfOneMore
  <2> QED BY <2>1, <2>2
<1>4. S \in Good
  <2> HIDE DEF Good
  <2> QED BY <1>2, <1>3, SetInduction
<1> QED BY <1>4

(* The fold adds up what there is to count.                                 *)
THEOREM SumIsCount ==
    ASSUME NEW S, IsFiniteSet(S), NEW f, \A k \in S : f[k] \in Nat
    PROVE  Sum(f, S) = Cardinality(Copies(f, S))
<1> DEFINE pick(T) == CHOOSE x \in T : TRUE
           count == [T \in SUBSET S |-> Cardinality(Copies(f, T))]
           Folds(g) == g = [T \in SUBSET S |->
                              IF T = {} THEN 0 ELSE f[pick(T)] + g[T \ {pick(T)}]]
           iter == CHOOSE g : Folds(g)
<1>1. Sum(f, S) = iter[S]
  BY DEF Sum, SumFunctionOnSet, FoldFunctionOnSet, MapThenFoldSet
<1>2. ASSUME NEW T \in SUBSET S, T # {}
      PROVE  /\ pick(T) \in T /\ T \ {pick(T)} \in SUBSET S
             /\ count[T] = f[pick(T)] + count[T \ {pick(T)}]
  <2>1. pick(T) \in T BY <1>2
  <2> DEFINE rest == T \ {pick(T)}
  <2>2. rest \in SUBSET S /\ pick(T) \notin rest /\ rest \union {pick(T)} = T /\ pick(T) \in S
    BY <2>1
  <2>3. IsFiniteSet(rest) /\ \A k \in rest : f[k] \in Nat BY <2>2, FS_Subset
  <2> HIDE DEF rest
  <2>4. IsFiniteSet(Copies(f, rest)) BY <2>3, CopiesFinite
  <2>5. Cardinality(Copies(f, T)) = Cardinality(Copies(f, rest)) + f[pick(T)]
    BY <2>2, <2>4, CopiesOfOneMore
  <2>6. Cardinality(Copies(f, rest)) \in Nat /\ f[pick(T)] \in Nat
    BY <2>2, <2>4, FS_CardinalityType
  <2>7. Cardinality(Copies(f, T)) = f[pick(T)] + Cardinality(Copies(f, rest)) BY <2>5, <2>6
  <2> QED BY <2>1, <2>2, <2>7 DEF rest
<1>3. Folds(count)
  <2>1. Copies(f, {}) = {} BY DEF Copies
  <2>2. count[{}] = 0 BY <2>1, FS_EmptySet
  <2>3. \A T \in SUBSET S :
          count[T] = IF T = {} THEN 0 ELSE f[pick(T)] + count[T \ {pick(T)}]
    BY <1>2, <2>2
  <2>4. count = [T \in SUBSET S |-> count[T]] OBVIOUS
  <2> HIDE DEF count, pick
  <2> QED BY <2>3, <2>4
<1>4. Folds(iter)
  <2> HIDE DEF Folds
  <2> QED BY <1>3
<1> HIDE DEF count, pick, iter
<1>5. \A T \in SUBSET S : iter[T] = IF T = {} THEN 0 ELSE f[pick(T)] + iter[T \ {pick(T)}]
  <2> DEFINE rhs == [T \in SUBSET S |->
                       IF T = {} THEN 0 ELSE f[pick(T)] + iter[T \ {pick(T)}]]
  <2>1. iter = rhs BY <1>4
  <2>2. \A T \in SUBSET S : rhs[T] = IF T = {} THEN 0 ELSE f[pick(T)] + iter[T \ {pick(T)}]
    OBVIOUS
  <2> HIDE DEF rhs
  <2> QED BY <2>1, <2>2
<1>6. \A T \in SUBSET S : count[T] = IF T = {} THEN 0 ELSE f[pick(T)] + count[T \ {pick(T)}]
  <2> DEFINE rhs == [T \in SUBSET S |->
                       IF T = {} THEN 0 ELSE f[pick(T)] + count[T \ {pick(T)}]]
  <2>1. count = rhs BY <1>3
  <2>2. \A T \in SUBSET S : rhs[T] = IF T = {} THEN 0 ELSE f[pick(T)] + count[T \ {pick(T)}]
    OBVIOUS
  <2> HIDE DEF rhs
  <2> QED BY <2>1, <2>2
<1>7. iter[S] = count[S]
  <2> DEFINE bad == {T \in SUBSET S : iter[T] # count[T]}
  <2> SUFFICES ASSUME S \in bad PROVE FALSE OBVIOUS
  <2>1. IsWellFoundedOn(StrictSubsetOrdering(S), SUBSET S)
    BY FS_FiniteSubsetsOfFinite, FS_StrictSubsetOrderingWellFounded
  <2>2. \E T \in bad : \A U \in bad : ~ (<<U, T>> \in StrictSubsetOrdering(S))
    <3>1. bad \subseteq SUBSET S /\ bad # {} OBVIOUS
    <3> HIDE DEF bad
    <3> QED BY <2>1, <3>1, WFMin
  <2>3. PICK T \in bad : \A U \in bad : ~ (<<U, T>> \in StrictSubsetOrdering(S)) BY <2>2
  <2>4. T # {} BY <1>5, <1>6
  <2>5. pick(T) \in T /\ T \ {pick(T)} \in SUBSET S BY <1>2, <2>4
  <2>6. <<T \ {pick(T)}, T>> \in StrictSubsetOrdering(S)
    BY <2>5 DEF StrictSubsetOrdering
  <2>7. iter[T \ {pick(T)}] = count[T \ {pick(T)}] BY <2>3, <2>5, <2>6
  <2> QED BY <1>5, <1>6, <2>4, <2>7
<1> QED BY <1>1, <1>7 DEF count

-----------------------------------------------------------------------------
(* What sums are used for.                                                  *)

\* A sum of natural numbers is one.
LEMMA SumType ==
    ASSUME NEW S, IsFiniteSet(S), NEW f, \A k \in S : f[k] \in Nat
    PROVE  Sum(f, S) \in Nat
BY SumIsCount, CopiesFinite, FS_CardinalityType

\* No keys.
LEMMA SumEmpty ==
    ASSUME NEW f
    PROVE  Sum(f, {}) = 0
<1>1. Copies(f, {}) = {} BY DEF Copies
<1> QED BY <1>1, SumIsCount, FS_EmptySet

\* A key more.
LEMMA SumOneMore ==
    ASSUME NEW S, IsFiniteSet(S), NEW f, \A k \in S : f[k] \in Nat,
           NEW x, x \notin S, f[x] \in Nat
    PROVE  Sum(f, S \union {x}) = Sum(f, S) + f[x]
<1>1. IsFiniteSet(S \union {x}) /\ \A k \in S \union {x} : f[k] \in Nat BY FS_AddElement
<1>2. Sum(f, S \union {x}) = Cardinality(Copies(f, S \union {x})) BY <1>1, SumIsCount
<1>3. Sum(f, S) = Cardinality(Copies(f, S)) BY SumIsCount
<1>4. IsFiniteSet(Copies(f, S)) BY CopiesFinite
<1> QED BY <1>2, <1>3, <1>4, CopiesOfOneMore

\* One key.
LEMMA SumOfOne ==
    ASSUME NEW x, NEW f, f[x] \in Nat
    PROVE  Sum(f, {x}) = f[x]
<1>1. Sum(f, {} \union {x}) = Sum(f, {}) + f[x] BY SumOneMore, FS_EmptySet
<1>2. {} \union {x} = {x} OBVIOUS
<1> QED BY <1>1, <1>2, SumEmpty

\* Functions that agree on the keys have one sum.
LEMMA SumEqual ==
    ASSUME NEW S, IsFiniteSet(S), NEW f, NEW g, \A k \in S : f[k] \in Nat /\ f[k] = g[k]
    PROVE  Sum(f, S) = Sum(g, S)
<1>1. Copies(f, S) = Copies(g, S) BY DEF Copies
<1>2. \A k \in S : g[k] \in Nat OBVIOUS
<1> QED BY <1>1, <1>2, SumIsCount

\* Disjoint sets of keys.
LEMMA SumUnion ==
    ASSUME NEW S, NEW T, IsFiniteSet(S), IsFiniteSet(T), S \intersect T = {},
           NEW f, \A k \in S \union T : f[k] \in Nat
    PROVE  Sum(f, S \union T) = Sum(f, S) + Sum(f, T)
<1> DEFINE a == Copies(f, S)
           b == Copies(f, T)
<1>1. Copies(f, S \union T) = a \union b /\ a \intersect b = {} BY DEF Copies
<1>2. IsFiniteSet(a) /\ IsFiniteSet(b) BY CopiesFinite
<1>3. IsFiniteSet(S \union T) BY FS_Union
<1>4. Sum(f, S \union T) = Cardinality(Copies(f, S \union T)) BY <1>3, SumIsCount
<1>5. Sum(f, S) = Cardinality(a) /\ Sum(f, T) = Cardinality(b) BY SumIsCount
<1> HIDE DEF a, b
<1>6. Cardinality(a \union b) = Cardinality(a) + Cardinality(b) - Cardinality(a \intersect b)
  BY <1>2, FS_Union
<1>7. Cardinality(a \intersect b) = 0 BY <1>1, FS_EmptySet
<1>8. Cardinality(a) \in Nat /\ Cardinality(b) \in Nat BY <1>2, FS_CardinalityType
<1>9. Cardinality(a \union b) = Cardinality(a) + Cardinality(b) BY <1>6, <1>7, <1>8
<1> QED BY <1>1, <1>4, <1>5, <1>9

\* The sum of two functions.
LEMMA SumPlus ==
    ASSUME NEW S, IsFiniteSet(S), NEW f, NEW g, NEW h,
           \A k \in S : f[k] \in Nat /\ g[k] \in Nat /\ h[k] = f[k] + g[k]
    PROVE  Sum(h, S) = Sum(f, S) + Sum(g, S)
<1> DEFINE Good == {T \in SUBSET S : Sum(h, T) = Sum(f, T) + Sum(g, T)}
<1>1. {} \in Good BY SumEmpty
<1>2. ASSUME NEW T \in Good, NEW x \in S
      PROVE  T \union {x} \in Good
  <2>1. CASE x \in T
    <3>1. T \union {x} = T BY <2>1
    <3> QED BY <3>1
  <2>2. CASE x \notin T
    <3>1. /\ IsFiniteSet(T) /\ f[x] \in Nat /\ g[x] \in Nat /\ h[x] \in Nat
          /\ h[x] = f[x] + g[x]
          /\ \A k \in T : f[k] \in Nat /\ g[k] \in Nat /\ h[k] \in Nat
      BY FS_Subset
    <3>2. Sum(f, T \union {x}) = Sum(f, T) + f[x] BY <2>2, <3>1, SumOneMore
    <3>3. Sum(g, T \union {x}) = Sum(g, T) + g[x] BY <2>2, <3>1, SumOneMore
    <3>4. Sum(h, T \union {x}) = Sum(h, T) + h[x] BY <2>2, <3>1, SumOneMore
    <3>5. Sum(f, T) \in Nat /\ Sum(g, T) \in Nat BY <3>1, SumType
    <3>6. Sum(h, T) = Sum(f, T) + Sum(g, T) OBVIOUS
    <3>7. Sum(h, T \union {x}) = Sum(f, T \union {x}) + Sum(g, T \union {x})
      BY <3>1, <3>2, <3>3, <3>4, <3>5, <3>6
    <3> QED BY <3>7
  <2> QED BY <2>1, <2>2
<1>3. S \in Good
  <2> HIDE DEF Good
  <2> QED BY <1>1, <1>2, SetInduction
<1> QED BY <1>3

\* Keys whose values are sums over disjoint sets of other keys.
LEMMA SumOfSums ==
    ASSUME NEW S, IsFiniteSet(S), NEW E, IsFiniteSet(E), NEW f, NEW g,
           \A e \in E : g[e] \in Nat,
           NEW G, \A k \in S : G[k] \in SUBSET E /\ f[k] = Sum(g, G[k]),
           \A k, l \in S : k # l => G[k] \intersect G[l] = {}
    PROVE  Sum(f, S) = Sum(g, UNION {G[k] : k \in S})
<1> DEFINE all(T) == UNION {G[k] : k \in T}
           Good == {T \in SUBSET S : Sum(f, T) = Sum(g, all(T))}
<1>1. {} \in Good
  <2>1. all({}) = {} OBVIOUS
  <2> QED BY <2>1, SumEmpty
<1>2. ASSUME NEW T \in Good, NEW x \in S
      PROVE  T \union {x} \in Good
  <2>1. CASE x \in T
    <3>1. T \union {x} = T BY <2>1
    <3> QED BY <3>1
  <2>2. CASE x \notin T
    <3>1. all(T \union {x}) = all(T) \union G[x] OBVIOUS
    <3>2. all(T) \intersect G[x] = {} BY <2>2
    <3>3. all(T) \in SUBSET E /\ G[x] \in SUBSET E /\ T \in SUBSET S OBVIOUS
    <3>4. IsFiniteSet(T) /\ IsFiniteSet(all(T)) /\ IsFiniteSet(G[x])
      <4> HIDE DEF all, Good
      <4> QED BY <3>3, FS_Subset
    <3>5. \A e \in all(T) \union G[x] : g[e] \in Nat BY <3>3
    <3>6. Sum(f, T) = Sum(g, all(T)) OBVIOUS
    <3> HIDE DEF all, Good
    <3>7. Sum(g, all(T) \union G[x]) = Sum(g, all(T)) + Sum(g, G[x])
      BY <3>2, <3>4, <3>5, SumUnion
    <3>8. \A k \in T \union {x} : f[k] \in Nat
      <4> SUFFICES ASSUME NEW k \in T \union {x} PROVE f[k] \in Nat OBVIOUS
      <4>1. G[k] \in SUBSET E /\ f[k] = Sum(g, G[k]) BY <3>3
      <4>2. IsFiniteSet(G[k]) /\ \A e \in G[k] : g[e] \in Nat BY <4>1, FS_Subset
      <4> QED BY <4>1, <4>2, SumType
    <3>9. Sum(f, T \union {x}) = Sum(f, T) + f[x] BY <2>2, <3>4, <3>8, SumOneMore
    <3>10. f[x] = Sum(g, G[x]) OBVIOUS
    <3>11. Sum(f, T \union {x}) = Sum(g, all(T \union {x}))
      BY <3>1, <3>6, <3>7, <3>9, <3>10
    <3> QED BY <3>3, <3>11 DEF Good
  <2> QED BY <2>1, <2>2
<1>3. S \in Good
  <2> HIDE DEF Good
  <2> QED BY <1>1, <1>2, SetInduction
<1> QED BY <1>3

\* Where the members of T count one and the others nothing, the sum is a cardinality.
LEMMA SumOfMembers ==
    ASSUME NEW S, IsFiniteSet(S), NEW T, NEW f, \A k \in S : f[k] = IF k \in T THEN 1 ELSE 0
    PROVE  Sum(f, S) = Cardinality(S \intersect T)
<1> DEFINE Good == {U \in SUBSET S : Sum(f, U) = Cardinality(U \intersect T)}
<1>1. {} \in Good
  <2>1. {} \intersect T = {} OBVIOUS
  <2> QED BY <2>1, SumEmpty, FS_EmptySet
<1>2. ASSUME NEW U \in Good, NEW x \in S
      PROVE  U \union {x} \in Good
  <2>1. CASE x \in U
    <3>1. U \union {x} = U BY <2>1
    <3> QED BY <3>1
  <2>2. CASE x \notin U
    <3>1. /\ IsFiniteSet(U) /\ IsFiniteSet(U \intersect T)
          /\ \A k \in U : f[k] \in Nat
          /\ f[x] \in Nat /\ f[x] = IF x \in T THEN 1 ELSE 0
      BY FS_Subset
    <3>2. Sum(f, U \union {x}) = Sum(f, U) + f[x] BY <2>2, <3>1, SumOneMore
    <3>3. Sum(f, U) = Cardinality(U \intersect T) OBVIOUS
    <3>4. Cardinality(U \intersect T) \in Nat BY <3>1, FS_CardinalityType
    <3>5. CASE x \in T
      <4>1. (U \union {x}) \intersect T = (U \intersect T) \union {x} BY <3>5
      <4>2. Cardinality((U \intersect T) \union {x}) = Cardinality(U \intersect T) + 1
        BY <2>2, <3>1, FS_AddElement
      <4> QED BY <3>1, <3>2, <3>3, <3>5, <4>1, <4>2
    <3>6. CASE x \notin T
      <4>1. (U \union {x}) \intersect T = U \intersect T BY <3>6
      <4> QED BY <3>1, <3>2, <3>3, <3>4, <3>6, <4>1
    <3> QED BY <3>5, <3>6
  <2> QED BY <2>1, <2>2
<1>3. S \in Good
  <2> HIDE DEF Good
  <2> QED BY <1>1, <1>2, SetInduction
<1> QED BY <1>3

\* Keys that count nothing.
LEMMA SumOfZeros ==
    ASSUME NEW S, IsFiniteSet(S), NEW f, \A k \in S : f[k] = 0
    PROVE  Sum(f, S) = 0
<1>1. Sum(f, S) = Cardinality(S \intersect {}) BY SumOfMembers
<1>2. S \intersect {} = {} OBVIOUS
<1> QED BY <1>1, <1>2, FS_EmptySet

\* Keys that count nothing may be left out.
LEMMA SumOfPart ==
    ASSUME NEW S, IsFiniteSet(S), NEW T \in SUBSET S, NEW f,
           \A k \in S : f[k] \in Nat /\ (k \notin T => f[k] = 0)
    PROVE  Sum(f, S) = Sum(f, T)
<1>1. IsFiniteSet(T) /\ IsFiniteSet(S \ T) /\ T \intersect (S \ T) = {} /\ T \union (S \ T) = S
  BY FS_Subset
<1>2. Sum(f, T \union (S \ T)) = Sum(f, T) + Sum(f, S \ T) BY <1>1, SumUnion
<1>3. Sum(f, S \ T) = 0 BY <1>1, SumOfZeros
<1>4. Sum(f, T) \in Nat BY <1>1, SumType
<1>5. Sum(f, T \union (S \ T)) = Sum(f, T) BY <1>2, <1>3, <1>4
<1> QED BY <1>1, <1>5

-----------------------------------------------------------------------------
(* Minima.                                                                  *)

\* A set of natural numbers has a least one.
LEMMA MinOfNaturals ==
    ASSUME NEW S \in SUBSET Nat, S # {}
    PROVE  Min(S) \in S /\ \A x \in S : Min(S) <= x
<1> DEFINE less == {pair \in Nat \X Nat : pair[1] < pair[2]}
<1>1. IsWellFoundedOn(less, Nat) BY NatLessThanWellFounded DEF OpToRel
<1>2. \E x \in S : \A y \in S : ~ (<<y, x>> \in less)
  <2> HIDE DEF less
  <2> QED BY <1>1, WFMin
<1>3. PICK x \in S : \A y \in S : ~ (<<y, x>> \in less) BY <1>2
<1>4. \A y \in S : x <= y
  <2> TAKE y \in S
  <2>1. <<y, x>> \in Nat \X Nat OBVIOUS
  <2>2. ~ (y < x) BY <1>3, <2>1
  <2> QED BY <2>2
<1> QED BY <1>4 DEF Min
===============================================================================
