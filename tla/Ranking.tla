------------------------------- MODULE Ranking -------------------------------
(***************************************************************************)
(* Counting by rank: the n lowest elements of a finite set are n.  The     *)
(* scheduler removes the oldest terminal jobs of its history and the store *)
(* keeps the newest generations of a scope by counting the elements before *)
(* or after each.  Then induction over sets of numbers, from counting, and *)
(* what follows from it: a step can be iterated, a set that grows within a *)
(* finite one stops growing, and functions between finite sets are         *)
(* finitely many.                                                          *)
(***************************************************************************)
EXTENDS Integers, FiniteSetTheorems, TLAPS

\* The elements of S that have fewer than n elements of a lower value.
Lowest(S, value, n) == {x \in S : Cardinality({y \in S : value[y] < value[x]}) < n}

\* Whatever order the elements of S have, the n first are n: the number of elements
\* before one is a bijection from S to an initial interval of the numbers.
LEMMA FirstCount ==
  ASSUME NEW S, IsFiniteSet(S), NEW before \in [S -> SUBSET S],
         \A x \in S : x \notin before[x] /\ \A y \in before[x] : before[y] \subseteq before[x],
         \A x, y \in S : x = y \/ x \in before[y] \/ y \in before[x],
         NEW n \in Nat, n <= Cardinality(S)
  PROVE  Cardinality({x \in S : Cardinality(before[x]) < n}) = n
<1> DEFINE c == Cardinality(S)
           Below(x) == before[x]
           rank == [x \in S |-> Cardinality(Below(x))]
           L == {x \in S : Cardinality(Below(x)) < n}
           low == [x \in L |-> rank[x]]
<1> SUFFICES Cardinality(L) = n
  OBVIOUS
<1>1. c \in Nat
  BY FS_CardinalityType
<1>2. ASSUME NEW x \in S
      PROVE  /\ IsFiniteSet(Below(x))
             /\ rank[x] \in 0 .. c - 1
  <2>1. IsFiniteSet(S \ {x}) /\ Cardinality(S \ {x}) = c - 1
    BY FS_RemoveElement
  <2>2. Below(x) \in SUBSET (S \ {x})
    OBVIOUS
  <2>3. IsFiniteSet(Below(x)) /\ Cardinality(Below(x)) <= c - 1
    <3> HIDE DEF Below
    <3> QED  BY <2>1, <2>2, FS_Subset
  <2>4. Cardinality(Below(x)) \in Nat
    BY <2>3, FS_CardinalityType
  <2> QED
    BY <1>1, <2>3, <2>4
<1>3. ASSUME NEW x \in S, NEW y \in S, x \in before[y]
      PROVE  rank[x] < rank[y]
  <2>1. IsFiniteSet(Below(y)) /\ x \in Below(y)
    BY <1>2, <1>3
  <2>2. /\ IsFiniteSet(Below(y) \ {x})
        /\ Cardinality(Below(y) \ {x}) = Cardinality(Below(y)) - 1
    BY <2>1, FS_RemoveElement
  <2>3. Below(x) \in SUBSET (Below(y) \ {x})
    <3>1. \A z \in S : z \in before[x] => z \in before[y] /\ z # x
      BY <1>3
    <3> QED  BY <3>1
  <2>4. Cardinality(Below(x)) <= Cardinality(Below(y)) - 1
    <3> HIDE DEF Below
    <3> QED  BY <2>2, <2>3, FS_Subset
  <2>5. Cardinality(Below(x)) \in Nat /\ Cardinality(Below(y)) \in Nat
    BY <1>2, FS_CardinalityType
  <2> HIDE DEF Below
  <2> QED
    BY <2>4, <2>5
<1>4. L = {x \in S : rank[x] < n} /\ L \in SUBSET S
  OBVIOUS
<1>5. \A x \in S : rank[x] \in 0 .. c - 1
  BY <1>2
<1>6. \A x, y \in S : rank[x] = rank[y] => x = y
  <2>1. \A x, y \in S : x \in before[y] \/ y \in before[x] \/ x = y
    OBVIOUS
  <2>2. \A x \in S : rank[x] \in Int
    BY <1>5, <1>1
  <2> HIDE DEF Below, rank
  <2> SUFFICES ASSUME NEW x \in S, NEW y \in S, rank[x] = rank[y], x # y
               PROVE  FALSE
    OBVIOUS
  <2>3. rank[x] < rank[y] \/ rank[y] < rank[x]
    BY <1>3, <2>1
  <2> QED
    BY <2>2, <2>3
<1>7. rank \in [S -> 0 .. c - 1]
  BY <1>5
<1> HIDE DEF c, rank, Below, L
<1>8. rank \in Injection(S, 0 .. c - 1)
  BY <1>6, <1>7 DEF Injection, IsInjective
<1>9. IsFiniteSet(0 .. c - 1) /\ Cardinality(0 .. c - 1) = c
  <2>1. 0 \in Int /\ c - 1 \in Int /\ (0 > c - 1 => c = 0)
    BY <1>1
  <2> QED  BY <1>1, <2>1, FS_Interval
<1>10. rank \in Surjection(S, 0 .. c - 1)
  BY <1>8, <1>9, FS_Injection DEF c
<1>11. low \in [L -> 0 .. n - 1]
  <2>1. \A x \in L : rank[x] \in 0 .. n - 1
    BY <1>1, <1>4, <1>5
  <2> QED  BY <2>1
<1>12. low \in Injection(L, 0 .. n - 1)
  BY <1>4, <1>6, <1>11 DEF Injection, IsInjective
<1>13. low \in Surjection(L, 0 .. n - 1)
  <2>1. ASSUME NEW m \in 0 .. n - 1
        PROVE  \E x \in L : low[x] = m
    <3>1. m \in 0 .. c - 1
      BY <1>1 DEF c
    <3>2. PICK x \in S : rank[x] = m
      BY <3>1, <1>10 DEF Surjection
    <3> QED  BY <3>2, <1>4
  <2> QED
    BY <1>11, <2>1 DEF Surjection
<1>14. IsFiniteSet(0 .. n - 1) /\ Cardinality(0 .. n - 1) = n
  BY FS_Interval
<1>15. QED
  BY <1>12, <1>13, <1>14, FS_Injection

\* So it is with the elements of a lower value, if the values are distinct.
LEMMA LowestCount ==
  ASSUME NEW S, IsFiniteSet(S), NEW value \in [S -> Int],
         \A x, y \in S : value[x] = value[y] => x = y,
         NEW n \in Nat, n <= Cardinality(S)
  PROVE  Cardinality(Lowest(S, value, n)) = n
<1> DEFINE before == [x \in S |-> {y \in S : value[y] < value[x]}]
<1>1. \A x, y \in S : y \in before[x] <=> value[y] < value[x]
  OBVIOUS
<1>2. before \in [S -> SUBSET S] /\ \A x \in S : before[x] = {y \in S : value[y] < value[x]}
  OBVIOUS
<1>3. \A x \in S : value[x] \in Int
  OBVIOUS
<1> HIDE DEF before
<1>4. Lowest(S, value, n) = {x \in S : Cardinality(before[x]) < n}
  BY <1>2 DEF Lowest
<1>5. \A x \in S : x \notin before[x] /\ \A y \in before[x] : before[y] \subseteq before[x]
  BY <1>1, <1>2, <1>3
<1>6. \A x, y \in S : x = y \/ x \in before[y] \/ y \in before[x]
  BY <1>1, <1>3
<1> QED
  BY <1>2, <1>4, <1>5, <1>6, FirstCount

\* A finite set of numbers has a k-th element, k and no more of it being up to there.
LEMMA HasNth ==
  ASSUME NEW S, IsFiniteSet(S), S \subseteq Nat, NEW k \in Nat, 1 <= k, k <= Cardinality(S)
  PROVE  \E n \in S : Cardinality({m \in S : m <= n}) = k
<1> DEFINE First(before, j) == {n \in S : Cardinality(before[n]) < j}
<1>1. PICK before \in [S -> SUBSET S] : \A n \in S : before[n] = {m \in S : m < n}
  <2>1. [n \in S |-> {m \in S : m < n}] \in [S -> SUBSET S]
    OBVIOUS
  <2> QED  BY <2>1
<1>2. \A n \in S : n \notin before[n] /\ \A m \in before[n] : before[m] \subseteq before[n]
  <2>1. ASSUME NEW n \in S, NEW m \in before[n], NEW l \in before[m]
        PROVE  l \in before[n]
    <3>1. m \in S /\ m < n
      BY <1>1
    <3>2. l \in S /\ l < m
      BY <1>1, <3>1
    <3> QED  BY <1>1, <3>1, <3>2
  <2>2. \A n \in S : n \notin before[n]
    BY <1>1
  <2> QED  BY <2>1, <2>2
<1>3. \A n, m \in S : n = m \/ n \in before[m] \/ m \in before[n]
  BY <1>1
<1>4. k - 1 \in Nat /\ k - 1 <= Cardinality(S)
  BY FS_CardinalityType
<1>5. Cardinality(First(before, k)) = k /\ Cardinality(First(before, k - 1)) = k - 1
  BY <1>2, <1>3, <1>4, FirstCount
<1>6. First(before, k) # First(before, k - 1)
  <2> HIDE DEF First
  <2> QED  BY <1>4, <1>5
<1>7. \A n \in S : IsFiniteSet(before[n]) /\ Cardinality(before[n]) \in Nat
  BY <1>1, FS_Subset, FS_CardinalityType
<1>8. PICK n \in S : Cardinality(before[n]) < k /\ ~(Cardinality(before[n]) < k - 1)
  <2>1. \A n \in First(before, k - 1) : n \in First(before, k)
    BY <1>7
  <2> QED  BY <1>6, <2>1
<1>9. Cardinality(before[n]) = k - 1
  BY <1>7, <1>8
<1>10. {m \in S : m <= n} = before[n] \cup {n} /\ n \notin before[n]
  <2>1. before[n] = {m \in S : m < n} /\ n \in Nat /\ n \notin before[n]
    BY <1>1
  <2>2. \A m \in S : m <= n <=> m \in before[n] \cup {n}
    BY <2>1
  <2>3. before[n] \subseteq S
    BY <1>1
  <2> QED  BY <2>1, <2>2, <2>3
<1>11. Cardinality(before[n] \cup {n}) = Cardinality(before[n]) + 1
  BY <1>7, <1>10, FS_AddElement
<1> QED
  <2>1. k - 1 + 1 = k
    OBVIOUS
  <2> QED  BY <1>9, <1>10, <1>11, <2>1

-----------------------------------------------------------------------------
\* Induction: a set of numbers with 0 and the successors of its elements has them all.
\* Below a number that it lacks, n |-> n + 1 would map a finite set into a smaller one.
LEMMA SetInduction ==
  ASSUME NEW S, S \subseteq Nat, 0 \in S, \A n \in S : n + 1 \in S
  PROVE  S = Nat
<1> SUFFICES ASSUME NEW x \in Nat, x \notin S
             PROVE  FALSE
  OBVIOUS
<1> DEFINE U == S \cap (0..x)
           V == U \ {0}
           f == [n \in U |-> n + 1]
<1>1. IsFiniteSet(U) /\ Cardinality(U) \in Nat /\ 0 \in U
  <2>1. IsFiniteSet(0..x)
    BY FS_Interval
  <2> QED  BY <2>1, FS_Subset, FS_CardinalityType
<1>2. Cardinality(V) = Cardinality(U) - 1 /\ IsFiniteSet(V)
  <2> HIDE DEF U
  <2> QED  BY <1>1, FS_RemoveElement
<1>3. f \in Injection(U, V)
  <2>1. \A n \in U : n + 1 \in V
    OBVIOUS
  <2>2. f \in [U -> V]
    BY <2>1
  <2>3. \A a, b \in U : f[a] = f[b] => a = b
    OBVIOUS
  <2> QED  BY <2>2, <2>3 DEF Injection, IsInjective
<1>4. Cardinality(U) <= Cardinality(V)
  <2> HIDE DEF f, U, V
  <2> QED  BY <1>2, <1>3, FS_Injection
<1> QED
  BY <1>1, <1>2, <1>4

\* A set of numbers that is not empty has a least element.
LEMMA HasLeast ==
  ASSUME NEW S, S \subseteq Nat, S # {}
  PROVE  \E n \in S : \A m \in S : n <= m
<1> SUFFICES ASSUME \A n \in S : \E m \in S : ~(n <= m)
             PROVE  FALSE
  OBVIOUS
<1> DEFINE T == {n \in Nat : \A m \in S : n <= m}
<1>1. 0 \in T
  OBVIOUS
<1>2. \A n \in T : n + 1 \in T
  <2> SUFFICES ASSUME NEW n \in T, NEW m \in S
               PROVE  n + 1 <= m
    OBVIOUS
  <2>1. n <= m /\ n # m
    OBVIOUS
  <2> QED  BY <2>1
<1>3. T = Nat
  <2> HIDE DEF T
  <2> QED  BY <1>1, <1>2, SetInduction DEF T
<1>4. PICK m \in S : TRUE
  OBVIOUS
<1>5. m + 1 \in T
  BY <1>3
<1> QED
  BY <1>4, <1>5

\* The values of a function on a finite set are finitely many.
LEMMA ValuesAreFinite ==
  ASSUME NEW S, IsFiniteSet(S), NEW f, NEW T, \A y \in T : \E x \in S : y = f[x]
  PROVE  IsFiniteSet(T)
<1> DEFINE U == {f[x] : x \in S}
           g == [x \in S |-> f[x]]
<1>1. g \in Surjection(S, U)
  BY DEF Surjection
<1>2. T \subseteq U
  OBVIOUS
<1> HIDE DEF U, g
<1>3. IsFiniteSet(U)
  BY <1>1, FS_Surjection
<1> QED
  BY <1>2, <1>3, FS_Subset

\* Steps from a value on: there is the sequence of values that they lead through.
Iterates(X, next, x) == {f \in [Nat -> X] : f[0] = x /\ \A n \in Nat : f[n + 1] = next[f[n]]}
LEMMA HasIterates ==
  ASSUME NEW X, NEW next \in [X -> X], NEW x \in X
  PROVE  Iterates(X, next, x) # {}
<1> DEFINE Good(n, g) == g \in [0..n -> X] /\ g[0] = x /\ \A i \in 0..(n - 1) : g[i + 1] = next[g[i]]
           S == {n \in Nat : \E g : Good(n, g)}
           h == [n \in Nat |-> CHOOSE g : Good(n, g)]
           f == [n \in Nat |-> h[n][n]]
           T == {i \in Nat : \A n, m \in Nat : i <= n /\ i <= m => h[n][i] = h[m][i]}
<1>1. 0 \in S
  <2>1. Good(0, [i \in 0..0 |-> x])
    OBVIOUS
  <2> HIDE DEF Good
  <2> QED  BY <2>1
<1>2. ASSUME NEW n \in S
      PROVE  n + 1 \in S
  <2>1. PICK g : Good(n, g)
    OBVIOUS
  <2> DEFINE k == [i \in 0..(n + 1) |-> IF i <= n THEN g[i] ELSE next[g[n]]]
  <2>2. n \in Nat /\ n + 1 \in Nat /\ \A i \in 0..(n + 1) : i \in 0..n \/ i = n + 1
    OBVIOUS
  <2>3. \A i \in 0..n : g[i] \in X
    BY <2>1
  <2>4. next[g[n]] \in X
    BY <2>2, <2>3
  <2>5. k \in [0..(n + 1) -> X]
    BY <2>2, <2>3, <2>4
  <2>6. k[0] = x
    BY <2>1, <2>2
  <2>7. ASSUME NEW i \in 0..n
        PROVE  k[i + 1] = next[k[i]]
    <3>1. CASE i = n
      BY <2>2, <3>1
    <3>2. CASE i # n
      <4>1. i \in 0..(n - 1) /\ i + 1 \in 0..n /\ i \in Nat
        BY <2>2, <3>2
      <4>2. k[i] = g[i] /\ k[i + 1] = g[i + 1]
        BY <2>2, <4>1
      <4> QED  BY <2>1, <4>1, <4>2
    <3> QED  BY <3>1, <3>2
  <2>8. Good(n + 1, k)
    <3>1. (n + 1) - 1 = n
      BY <2>2
    <3> QED  BY <2>5, <2>6, <2>7, <3>1
  <2> HIDE DEF Good, k
  <2> QED  BY <2>2, <2>8
<1>3. S = Nat
  <2> HIDE DEF S
  <2>1. S \subseteq Nat
    BY DEF S
  <2> QED  BY <1>1, <1>2, <2>1, SetInduction
<1>4. \A n \in Nat : Good(n, h[n])
  <2> HIDE DEF Good
  <2> QED  BY <1>3
<1> HIDE DEF h
<1>5. 0 \in T
  BY <1>4
<1>6. ASSUME NEW i \in T
      PROVE  i + 1 \in T
  <2> SUFFICES ASSUME NEW n \in Nat, NEW m \in Nat, i + 1 <= n, i + 1 <= m
               PROVE  h[n][i + 1] = h[m][i + 1]
    OBVIOUS
  <2>1. i \in Nat /\ i <= n /\ i <= m /\ i \in 0..(n - 1) /\ i \in 0..(m - 1)
    OBVIOUS
  <2>2. h[n][i] = h[m][i]
    BY <2>1
  <2>3. h[n][i + 1] = next[h[n][i]] /\ h[m][i + 1] = next[h[m][i]]
    BY <1>4, <2>1
  <2> QED  BY <2>2, <2>3
<1>7. T = Nat
  <2>1. T \subseteq Nat
    OBVIOUS
  <2> HIDE DEF T
  <2> QED  BY <1>5, <1>6, <2>1, SetInduction
<1>8. f \in [Nat -> X]
  BY <1>4
<1>9. f[0] = x
  BY <1>4
<1>10. ASSUME NEW n \in Nat
       PROVE  f[n + 1] = next[f[n]]
  <2>1. n + 1 \in Nat /\ n \in 0..((n + 1) - 1) /\ n <= n + 1 /\ n <= n
    OBVIOUS
  <2>2. h[n + 1][n + 1] = next[h[n + 1][n]]
    BY <1>4, <2>1
  <2>3. h[n + 1][n] = h[n][n]
    BY <1>7, <2>1
  <2> QED  BY <2>1, <2>2, <2>3
<1> QED
  BY <1>8, <1>9, <1>10 DEF Iterates

\* A sequence of parts of a finite set that only grows stands still before it has grown
\* more often than the set has elements.
LEMMA GrowthEnds ==
  ASSUME NEW U, IsFiniteSet(U), NEW f \in [Nat -> SUBSET U], \A n \in Nat : f[n] \subseteq f[n + 1]
  PROVE  \E n \in 0..Cardinality(U) : f[n + 1] = f[n]
<1> SUFFICES ASSUME \A n \in 0..Cardinality(U) : f[n + 1] # f[n]
             PROVE  FALSE
  OBVIOUS
<1> DEFINE c == Cardinality(U)
           S == {n \in Nat : n <= c + 1 => n <= Cardinality(f[n])}
<1>1. c \in Nat
  BY FS_CardinalityType
<1>2. \A n \in Nat : /\ IsFiniteSet(f[n]) /\ Cardinality(f[n]) \in Nat
                     /\ Cardinality(f[n]) <= c
  <2> SUFFICES ASSUME NEW n \in Nat
               PROVE  IsFiniteSet(f[n]) /\ Cardinality(f[n]) \in Nat /\ Cardinality(f[n]) <= c
    OBVIOUS
  <2>1. f[n] \in SUBSET U
    OBVIOUS
  <2> QED  BY <2>1, FS_Subset, FS_CardinalityType
<1> HIDE DEF c
<1>3. 0 \in S
  BY <1>2
<1>4. ASSUME NEW n \in S
      PROVE  n + 1 \in S
  <2> SUFFICES ASSUME n + 1 <= c + 1
               PROVE  n + 1 <= Cardinality(f[n + 1])
    OBVIOUS
  <2>1. n \in Nat /\ n + 1 \in Nat /\ n \in 0..c /\ n <= Cardinality(f[n])
    BY <1>1
  <2>2. f[n] \in SUBSET f[n + 1] /\ f[n + 1] # f[n]
    BY <2>1 DEF c
  <2>3. Cardinality(f[n]) <= Cardinality(f[n + 1]) /\ Cardinality(f[n + 1]) # Cardinality(f[n])
    BY <1>2, <2>1, <2>2, FS_Subset
  <2> QED  BY <1>2, <2>1, <2>3
<1>5. S = Nat
  <2>1. S \subseteq Nat
    OBVIOUS
  <2> HIDE DEF S
  <2> QED  BY <1>3, <1>4, <2>1, SetInduction
<1>6. c + 1 \in Nat /\ c + 1 <= Cardinality(f[c + 1])
  BY <1>1, <1>5
<1> QED
  BY <1>1, <1>2, <1>6

\* There are finitely many functions between finite sets.
LEMMA FunctionsAreFinite ==
  ASSUME NEW A, IsFiniteSet(A), NEW B, IsFiniteSet(B)
  PROVE  IsFiniteSet([A -> B])
<1> DEFINE pairs == [f \in [A -> B] |-> {<<a, f[a]>> : a \in A}]
<1>1. IsFiniteSet(SUBSET (A \X B))
  BY FS_Product, FS_SUBSET
<1>2. pairs \in [[A -> B] -> SUBSET (A \X B)]
  OBVIOUS
<1>3. ASSUME NEW f \in [A -> B], NEW g \in [A -> B], pairs[f] = pairs[g]
      PROVE  f = g
  <2>1. ASSUME NEW a \in A
        PROVE  f[a] = g[a]
    <3>1. <<a, f[a]>> \in pairs[f]
      OBVIOUS
    <3>2. <<a, f[a]>> \in {<<b, g[b]>> : b \in A}
      BY <1>3, <3>1
    <3>3. PICK b \in A : <<a, f[a]>> = <<b, g[b]>>
      BY <3>2
    <3> QED  BY <3>3
  <2> QED  BY <2>1
<1> HIDE DEF pairs
<1>4. pairs \in Injection([A -> B], SUBSET (A \X B))
  <2>1. \A f, g \in [A -> B] : pairs[f] = pairs[g] => f = g
    BY <1>3
  <2> QED  BY <1>2, <2>1 DEF Injection, IsInjective
<1> QED
  BY <1>1, <1>4, FS_Injection
=============================================================================
