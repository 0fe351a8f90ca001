--------------------------- MODULE SequenceProofs ---------------------------
(***************************************************************************)
(* Lemmas about the sequences of the model: what a filter keeps, what a    *)
(* set of sizes adds up to, and the longest prefix within a budget.        *)
(***************************************************************************)
EXTENDS SequenceFilters, Totals, Integers, WellFoundedInduction,
        FiniteSetTheorems, SequenceTheorems, TLAPS

\* Every set of indices up to n has an increasing enumeration.
Enumerable(n) ==
  \A K \in SUBSET (1..n) : \E f \in [1..Cardinality(K) -> K] : Enumerates(f, K)

\* Every nonempty set of naturals has a least element.
LEMMA LeastNatural ==
  ASSUME NEW T \in SUBSET Nat, T # {}
  PROVE  \E n \in T : \A m \in T : n <= m
<1> DEFINE R == {ss \in Nat \X Nat : ss[1] < ss[2]}
<1>1. IsWellFoundedOn(R, Nat)
  BY NatLessThanWellFounded DEF OpToRel
<1>2. \E n \in T : \A m \in T : <<m, n>> \notin R
  <2> HIDE DEF R
  <2> QED BY <1>1, WFMin
<1>3. ASSUME NEW n \in T, \A m \in T : <<m, n>> \notin R, NEW m \in T
      PROVE  n <= m
  <2>1. n \in Nat /\ m \in Nat
    OBVIOUS
  <2>2. ~(m < n)
    BY <1>3, <2>1
  <2> QED BY <2>1, <2>2
<1> QED BY <1>2, <1>3

\* The empty set of indices is enumerated by the empty sequence.
LEMMA EnumerableBase == Enumerable(0)
<1> SUFFICES ASSUME NEW K \in SUBSET (1..0)
             PROVE  \E f \in [1..Cardinality(K) -> K] : Enumerates(f, K)
  BY DEF Enumerable
<1>1. K = {}
  OBVIOUS
<1>2. Cardinality(K) = 0
  BY <1>1, FS_EmptySet
<1> DEFINE f == [i \in 1..0 |-> i]
<1>3. f \in [1..Cardinality(K) -> K] /\ Enumerates(f, K)
  BY <1>1, <1>2 DEF Enumerates
<1> QED BY <1>3

\* An enumeration is extended by putting the largest index at its end.
LEMMA EnumerableStep ==
  ASSUME NEW n \in Nat, Enumerable(n)
  PROVE  Enumerable(n + 1)
<1> SUFFICES ASSUME NEW K \in SUBSET (1..(n+1))
             PROVE  \E f \in [1..Cardinality(K) -> K] : Enumerates(f, K)
  BY DEF Enumerable
<1>1. CASE n + 1 \notin K
  <2>1. K \in SUBSET (1..n)
    BY <1>1
  <2> QED BY <2>1 DEF Enumerable
<1>2. CASE n + 1 \in K
  <2> DEFINE L == K \ {n + 1}
             c == Cardinality(L)
  <2>1. L \in SUBSET (1..n)
    OBVIOUS
  <2>2. IsFiniteSet(K)
    <3>1. IsFiniteSet(1..(n+1))
      BY FS_Interval
    <3> QED BY <3>1, FS_Subset
  <2>3. IsFiniteSet(L) /\ Cardinality(L) = Cardinality(K) - 1
    BY <2>2, <1>2, FS_RemoveElement
  <2>4. c \in Nat /\ Cardinality(K) = c + 1
    BY <2>2, <2>3, FS_CardinalityType
  <2>5. PICK g \in [1..c -> L] : Enumerates(g, L)
    BY <2>1 DEF Enumerable
  <2> HIDE DEF c
  <2> DEFINE f == [i \in 1..(c+1) |-> IF i = c + 1 THEN n + 1 ELSE g[i]]
  <2>6. f \in [1..Cardinality(K) -> K]
    BY <2>4, <1>2
  <2>7. ASSUME NEW i \in 1..(c+1), NEW j \in 1..(c+1), i < j
        PROVE  f[i] < f[j]
    <3>0. i \in 1..c
      BY <2>4, <2>7
    <3>1. i \in 1..c /\ g[i] \in 1..n
      BY <3>0, <2>1
    <3>2. CASE j = c + 1
      BY <3>1, <3>2, <2>4
    <3>3. CASE j # c + 1
      BY <3>1, <3>3, <2>4, <2>5, <2>7 DEF Enumerates
    <3> QED BY <3>2, <3>3
  <2>8. ASSUME NEW k \in K
        PROVE  \E i \in 1..(c+1) : f[i] = k
    <3>1. CASE k = n + 1
      BY <3>1, <2>4
    <3>2. CASE k # n + 1
      <4>1. PICK i \in 1..c : g[i] = k
        BY <3>2, <2>5 DEF Enumerates
      <4>2. i \in 1..(c+1) /\ f[i] = k
        BY <4>1, <2>4
      <4> QED BY <4>2
    <3> QED BY <3>1, <3>2
  <2>9. Enumerates(f, K)
    BY <2>7, <2>8 DEF Enumerates
  <2> QED BY <2>6, <2>9
<1> QED BY <1>1, <1>2

\* Sets of indices of any size have increasing enumerations.
THEOREM EveryIndexSetIsEnumerable == \A n \in Nat : Enumerable(n)
<1> DEFINE T == {n \in Nat : ~Enumerable(n)}
<1> SUFFICES ASSUME T # {} PROVE FALSE
  OBVIOUS
<1>1. PICK n \in T : \A m \in T : n <= m
  BY LeastNatural
<1>2. n # 0
  BY EnumerableBase
<1>3. n - 1 \in Nat /\ n - 1 \notin T
  BY <1>1, <1>2
<1>4. Enumerable((n - 1) + 1)
  BY <1>3, EnumerableStep
<1> QED BY <1>4

\* Keep yields exactly the elements of q that are in S, each occurrence once
\* and in the order of q: what Redis LREM and Array.filter leave.
THEOREM KeepProperties ==
  ASSUME NEW T, NEW q \in Seq(T), NEW S
  PROVE  /\ Keep(q, S) \in Seq(T)
         /\ Range(Keep(q, S)) = Range(q) \cap S
         /\ \E f \in [DOMAIN Keep(q, S) -> Kept(q, S)] :
              /\ Enumerates(f, Kept(q, S))
              /\ \A i \in DOMAIN Keep(q, S) : Keep(q, S)[i] = q[f[i]]
<1> DEFINE K == Kept(q, S)
           f == Ascending(K)
           c == Cardinality(K)
<1>1. Len(q) \in Nat /\ DOMAIN q = 1..Len(q)
  BY LenProperties
<1>2. K \in SUBSET (1..Len(q))
  BY <1>1 DEF Kept
<1>3. IsFiniteSet(K) /\ c \in Nat
  <2>1. IsFiniteSet(1..Len(q))
    BY <1>1, FS_Interval
  <2>2. IsFiniteSet(K)
    BY <1>2, <2>1, FS_Subset
  <2> QED BY <2>2, FS_CardinalityType
<1>4. f \in [1..c -> K] /\ Enumerates(f, K)
  BY <1>1, <1>2, EveryIndexSetIsEnumerable DEF Enumerable, Ascending
<1>5. Keep(q, S) = [i \in 1..c |-> q[f[i]]]
  BY <1>4 DEF Keep
<1>6. \A k \in K : q[k] \in T /\ q[k] \in S
  BY <1>1, <1>2, ElementOfSeq DEF Kept
<1> HIDE DEF f, c
<1>7. Keep(q, S) \in Seq(T)
  BY <1>3, <1>4, <1>5, <1>6
<1>8. Range(Keep(q, S)) \subseteq Range(q) \cap S
  BY <1>1, <1>2, <1>4, <1>5, <1>6 DEF Range
<1>9. ASSUME NEW x \in Range(q) \cap S
      PROVE  x \in Range(Keep(q, S))
  <2>1. PICK k \in K : q[k] = x
    BY <1>1 DEF Range, Kept
  <2>2. PICK i \in 1..c : f[i] = k
    BY <1>4 DEF Enumerates
  <2> QED BY <2>1, <2>2, <1>5 DEF Range
<1>10. DOMAIN Keep(q, S) = 1..c
  BY <1>5
<1> QED BY <1>4, <1>5, <1>7, <1>8, <1>9, <1>10

-----------------------------------------------------------------------------

\* The first n numbers are n numbers.
LEMMA IntervalSize ==
  \A n \in Nat : IsFiniteSet(1..n) /\ Cardinality(1..n) = n
<1> TAKE n \in Nat
<1>1. 1 \in Int /\ n \in Int
  OBVIOUS
<1>2. IsFiniteSet(1..n) /\ Cardinality(1..n) = IF 1 > n THEN 0 ELSE n - 1 + 1
  BY <1>1, FS_Interval
<1>3. (IF 1 > n THEN 0 ELSE n - 1 + 1) = n
  OBVIOUS
<1> QED BY <1>2, <1>3

\* The size of one entry is its number of bytes.
LEMMA UnitsOfOne ==
  ASSUME NEW sizes, NEW i, sizes[i] \in Nat
  PROVE  IsFiniteSet(Units(sizes, {i})) /\ Total(sizes, {i}) = sizes[i]
<1>1. Units(sizes, {i}) = {i} \X (1..sizes[i])
  BY DEF Units
<1>2. IsFiniteSet({i}) /\ Cardinality({i}) = 1
  BY FS_Singleton
<1>3. IsFiniteSet(1..sizes[i]) /\ Cardinality(1..sizes[i]) = sizes[i]
  BY IntervalSize
<1> DEFINE one == {i}
           many == 1..sizes[i]
<1>4. IsFiniteSet(one) /\ IsFiniteSet(many)
  BY <1>2, <1>3
<1>5. Cardinality(one) = 1 /\ Cardinality(many) = sizes[i]
  BY <1>2, <1>3
<1>6. Units(sizes, {i}) = one \X many
  BY <1>1
<1> HIDE DEF one, many
<1>7. IsFiniteSet(one \X many) /\ Cardinality(one \X many) = Cardinality(one) * Cardinality(many)
  BY <1>4, FS_Product
<1>8. Total(sizes, {i}) = 1 * sizes[i]
  BY <1>5, <1>6, <1>7 DEF Total
<1>9. IsFiniteSet(Units(sizes, {i}))
  BY <1>6, <1>7
<1>10. 1 * sizes[i] = sizes[i]
  OBVIOUS
<1> QED BY <1>8, <1>9, <1>10

\* A total is a natural number.
LEMMA TotalType ==
  ASSUME NEW sizes, NEW places, IsFiniteSet(places), \A i \in places : sizes[i] \in Nat
  PROVE  IsFiniteSet(Units(sizes, places)) /\ Total(sizes, places) \in Nat
<1> DEFINE f == [i \in places |-> {i} \X (1..sizes[i])]
           parts == {{i} \X (1..sizes[i]) : i \in places}
<1>1. f \in Surjection(places, parts)
  BY DEF Surjection
<1>2. IsFiniteSet(parts)
  BY <1>1, FS_Surjection
<1>3. ASSUME NEW part \in parts
      PROVE  IsFiniteSet(part)
  <2>1. PICK i \in places : part = {i} \X (1..sizes[i])
    OBVIOUS
  <2>2. Units(sizes, {i}) = part
    BY <2>1 DEF Units
  <2> QED BY <2>2, UnitsOfOne
<1>4. IsFiniteSet(UNION parts)
  BY <1>2, <1>3, FS_UNION
<1>5. Units(sizes, places) = UNION parts
  BY DEF Units
<1> QED BY <1>4, <1>5, FS_CardinalityType DEF Total

\* Nothing adds up to nothing.
LEMMA TotalOfNone == \A sizes : Total(sizes, {}) = 0
BY FS_EmptySet DEF Total, Units

\* The totals of disjoint sets of entries add up.
LEMMA TotalOfUnion ==
  ASSUME NEW sizes, NEW P, NEW Q, IsFiniteSet(P), IsFiniteSet(Q), P \cap Q = {},
         \A i \in P \cup Q : sizes[i] \in Nat
  PROVE  Total(sizes, P \cup Q) = Total(sizes, P) + Total(sizes, Q)
<1>1. Units(sizes, P \cup Q) = Units(sizes, P) \cup Units(sizes, Q)
  BY DEF Units
<1>2. Units(sizes, P) \cap Units(sizes, Q) = {}
  BY DEF Units
<1>3. IsFiniteSet(Units(sizes, P)) /\ Total(sizes, P) \in Nat
  BY TotalType
<1>4. IsFiniteSet(Units(sizes, Q)) /\ Total(sizes, Q) \in Nat
  BY TotalType
<1>5. Cardinality(Units(sizes, P) \cap Units(sizes, Q)) = 0
  BY <1>2, FS_EmptySet
<1>6. Cardinality(Units(sizes, P) \cup Units(sizes, Q)) =
        Cardinality(Units(sizes, P)) + Cardinality(Units(sizes, Q))
          - Cardinality(Units(sizes, P) \cap Units(sizes, Q))
  BY <1>3, <1>4, FS_Union
<1>7. Total(sizes, P \cup Q) = Total(sizes, P) + Total(sizes, Q) - 0
  BY <1>1, <1>5, <1>6 DEF Total
<1> QED BY <1>3, <1>4, <1>7

\* The total of entries does not depend on where they stand.
LEMMA TotalMoved ==
  ASSUME NEW s, NEW t, NEW P, NEW Q, NEW g \in Bijection(P, Q), IsFiniteSet(P),
         \A i \in P : s[i] \in Nat /\ t[g[i]] = s[i]
  PROVE  Total(t, Q) = Total(s, P)
<1> DEFINE U == Units(s, P)
           V == Units(t, Q)
           h == [u \in U |-> <<g[u[1]], u[2]>>]
<1>0. /\ g \in [P -> Q]
      /\ \A i, j \in P : g[i] = g[j] => i = j
      /\ \A q \in Q : \E i \in P : g[i] = q
  BY DEF Bijection, Injection, Surjection, IsInjective
<1>1. ASSUME NEW u \in U
      PROVE  u[1] \in P /\ u[2] \in 1..s[u[1]] /\ u = <<u[1], u[2]>>
  BY DEF Units
<1>2. ASSUME NEW u \in U
      PROVE  h[u] \in V
  <2>1. g[u[1]] \in Q /\ u[2] \in 1..t[g[u[1]]]
    BY <1>0, <1>1
  <2>2. <<g[u[1]], u[2]>> \in {g[u[1]]} \X (1..t[g[u[1]]])
    BY <2>1
  <2> QED BY <2>1, <2>2 DEF Units
<1>3. ASSUME NEW u \in U, NEW v \in U, h[u] = h[v]
      PROVE  u = v
  <2>1. g[u[1]] = g[v[1]] /\ u[2] = v[2]
    BY <1>3
  <2>2. u[1] = v[1]
    BY <1>0, <1>1, <2>1
  <2> QED BY <1>1, <2>1, <2>2
<1>4. ASSUME NEW v \in V
      PROVE  \E u \in U : h[u] = v
  <2>1. PICK q \in Q : v \in {q} \X (1..t[q])
    BY DEF Units
  <2>2. PICK b \in 1..t[q] : v = <<q, b>>
    BY <2>1
  <2>3. PICK i \in P : g[i] = q
    BY <1>0
  <2>4. b \in 1..s[i]
    BY <2>2, <2>3
  <2>5. <<i, b>> \in U
    BY <2>4 DEF Units
  <2>6. h[<<i, b>>] = v
    BY <2>2, <2>3, <2>5
  <2> QED BY <2>5, <2>6
<1>5. IsFiniteSet(U)
  BY TotalType
<1> HIDE DEF U, V
<1>6. h \in [U -> V]
  BY <1>2
<1> HIDE DEF h
<1>7. h \in Bijection(U, V)
  BY <1>3, <1>4, <1>6 DEF Bijection, Injection, Surjection, IsInjective
<1>8. Cardinality(V) = Cardinality(U)
  BY <1>5, <1>7, FS_Bijection DEF ExistsBijection
<1> QED BY <1>8 DEF Total, U, V

\* The total of a prefix grows by the size of the next entry.
LEMMA TotalOfPrefix ==
  ASSUME NEW sizes, NEW n \in Nat, \A i \in 1..(n + 1) : sizes[i] \in Nat
  PROVE  Total(sizes, 1..(n + 1)) = Total(sizes, 1..n) + sizes[n + 1]
<1>1. IsFiniteSet(1..n)
  BY FS_Interval
<1>0. IsFiniteSet({n + 1})
  BY FS_Singleton
<1>2. 1..(n + 1) = (1..n) \cup {n + 1} /\ (1..n) \cap {n + 1} = {}
  OBVIOUS
<1>3. Total(sizes, (1..n) \cup {n + 1}) = Total(sizes, 1..n) + Total(sizes, {n + 1})
  BY <1>0, <1>1, <1>2, TotalOfUnion
<1>4. Total(sizes, {n + 1}) = sizes[n + 1]
  <2>1. sizes[n + 1] \in Nat
    OBVIOUS
  <2> QED BY <2>1, UnitsOfOne
<1> QED BY <1>2, <1>3, <1>4

\* The total of a set of entries is no larger than that of a larger set.
LEMMA TotalMonotone ==
  ASSUME NEW sizes, NEW P, NEW Q, IsFiniteSet(Q), P \subseteq Q,
         \A i \in Q : sizes[i] \in Nat
  PROVE  Total(sizes, P) <= Total(sizes, Q)
<1>1. Units(sizes, P) \subseteq Units(sizes, Q)
  BY DEF Units
<1>2. IsFiniteSet(Units(sizes, Q))
  BY TotalType
<1> QED BY <1>1, <1>2, FS_Subset DEF Total

\* Keep shortens a sequence that holds something it drops.
LEMMA KeepShortens ==
  ASSUME NEW T, NEW q \in Seq(T), NEW S, NEW i \in DOMAIN q, q[i] \notin S
  PROVE  Len(Keep(q, S)) < Len(q)
<1> DEFINE K == Kept(q, S)
           c == Cardinality(K)
<1>1. Len(q) \in Nat /\ DOMAIN q = 1..Len(q)
  BY LenProperties
<1>2. K \in SUBSET (1..Len(q)) /\ K # 1..Len(q)
  BY <1>1 DEF Kept
<1>3. IsFiniteSet(1..Len(q)) /\ Cardinality(1..Len(q)) = Len(q)
  BY <1>1, IntervalSize
<1>4. c \in Nat /\ c < Len(q)
  <2>1. IsFiniteSet(K) /\ c <= Len(q) /\ (c = Len(q) => K = 1..Len(q))
    BY <1>2, <1>3, FS_Subset
  <2>2. c \in Nat
    BY <2>1, FS_CardinalityType
  <2> QED BY <1>1, <1>2, <2>1, <2>2
<1>5. Ascending(K) \in [1..c -> K]
  BY <1>1, <1>2, EveryIndexSetIsEnumerable DEF Enumerable, Ascending
<1> HIDE DEF c
<1>6. DOMAIN Keep(q, S) = 1..c
  BY <1>5 DEF Keep
<1>7. Keep(q, S) \in Seq(T)
  BY KeepProperties
<1>8. Len(Keep(q, S)) = c
  BY <1>4, <1>6, <1>7, LenProperties
<1> QED BY <1>4, <1>8

-----------------------------------------------------------------------------

\* A longest prefix within the budget exists: the one that leaves out least.
LEMMA LongestExists ==
  ASSUME NEW sizes, NEW budget, Len(sizes) \in Nat
  PROVE  \E n \in 0..Len(sizes) :
           /\ Fits(sizes, n, budget)
           /\ \A m \in (n + 1)..Len(sizes) : ~Fits(sizes, m, budget)
<1> DEFINE T == {k \in Nat : k <= Len(sizes) /\ Fits(sizes, Len(sizes) - k, budget)}
<1>1. Len(sizes) \in T
  BY DEF Fits
<1>2. PICK k \in T : \A m \in T : k <= m
  BY <1>1, LeastNatural
<1>3. Len(sizes) - k \in 0..Len(sizes) /\ Fits(sizes, Len(sizes) - k, budget)
  OBVIOUS
<1>4. ASSUME NEW m \in (Len(sizes) - k + 1)..Len(sizes), Fits(sizes, m, budget)
      PROVE  FALSE
  <2>1. Len(sizes) - m \in Nat /\ Len(sizes) - (Len(sizes) - m) = m /\ Len(sizes) - m < k
    OBVIOUS
  <2>2. Len(sizes) - m \in T
    BY <1>4, <2>1
  <2> QED BY <1>2, <2>1, <2>2
<1> QED BY <1>3, <1>4

\* The longest prefix: it fits, and no longer one does.
LEMMA LongestProperties ==
  ASSUME NEW sizes, NEW budget, Len(sizes) \in Nat
  PROVE  /\ Longest(sizes, budget) \in 0..Len(sizes)
         /\ Fits(sizes, Longest(sizes, budget), budget)
         /\ \A m \in (Longest(sizes, budget) + 1)..Len(sizes) : ~Fits(sizes, m, budget)
         /\ Len(sizes) > 0 => Longest(sizes, budget) > 0
<1> DEFINE n == Longest(sizes, budget)
<1>1. /\ n \in 0..Len(sizes)
      /\ Fits(sizes, n, budget)
      /\ \A m \in (n + 1)..Len(sizes) : ~Fits(sizes, m, budget)
  BY LongestExists DEF Longest
<1> HIDE DEF n
<1>2. ASSUME Len(sizes) > 0, n = 0
      PROVE  FALSE
  <2>1. 1 \in (n + 1)..Len(sizes)
    BY <1>2
  <2>2. Fits(sizes, 1, budget)
    BY DEF Fits
  <2> QED BY <1>1, <2>1, <2>2
<1> USE DEF n
<1> QED BY <1>1, <1>2

\* There is one longest prefix.
LEMMA LongestUnique ==
  ASSUME NEW sizes, NEW budget, Len(sizes) \in Nat, NEW n \in 0..Len(sizes),
         Fits(sizes, n, budget),
         \A m \in (n + 1)..Len(sizes) : ~Fits(sizes, m, budget)
  PROVE  Longest(sizes, budget) = n
<1> DEFINE l == Longest(sizes, budget)
<1>1. /\ l \in 0..Len(sizes)
      /\ Fits(sizes, l, budget)
      /\ \A m \in (l + 1)..Len(sizes) : ~Fits(sizes, m, budget)
  BY LongestProperties
<1> HIDE DEF l
<1>2. ~(n < l)
  BY <1>1
<1>3. ~(l < n)
  BY <1>1
<1>4. l = n
  BY <1>1, <1>2, <1>3
<1> QED BY <1>4 DEF l
=============================================================================
