------------------------------ MODULE SetSums ------------------------------
(***************************************************************************)
(* The sum of a function over a finite set, as MapThenSumSet computes it:  *)
(* element by element, in an order nothing is known of.                    *)
(***************************************************************************)
EXTENDS FiniteSets, FiniteSetTheorems, BoundedRecursion

NextOf(s) == CHOOSE x \in s : TRUE

\* The sums over all subsets of K.
SumOver(f, K) ==
  LET sum[s \in SUBSET K] == IF s = {} THEN 0 ELSE f[NextOf(s)] + sum[s \ {NextOf(s)}]
  IN  sum

\* g obeys that recursion.
AreSums(g, f, K) ==
  \A s \in SUBSET K :
    g[s] = IF s = {} THEN 0 ELSE f[NextOf(s)] + g[s \ {NextOf(s)}]

SmallSubsets(K, m) == {s \in SUBSET K : Cardinality(s) <= m}

\* Taking the next element out of a finite set leaves one element less.
LEMMA OneLess ==
  ASSUME NEW K, IsFiniteSet(K), NEW s \in SUBSET K, s # {}
  PROVE  /\ NextOf(s) \in s
         /\ s \ {NextOf(s)} \in SUBSET K
         /\ Cardinality(s) \in Nat /\ Cardinality(s) > 0
         /\ Cardinality(s \ {NextOf(s)}) = Cardinality(s) - 1
<1>1. NextOf(s) \in s
  BY DEF NextOf
<1>2. IsFiniteSet(s)
  BY FS_Subset
<1>3. Cardinality(s \ {NextOf(s)}) = Cardinality(s) - 1
  BY <1>1, <1>2, FS_RemoveElement
<1>4. Cardinality(s) \in Nat /\ Cardinality(s) # 0
  BY <1>2, FS_CardinalityType, FS_EmptySet
<1> QED
  BY <1>1, <1>3, <1>4

\* A finite set has sums over its subsets, natural numbers for natural values
\* and integers for integer ones.
LEMMA SumsExist ==
  ASSUME NEW K, IsFiniteSet(K), NEW V \in {Nat, Int}, NEW f \in [K -> V]
  PROVE  \E g \in [SUBSET K -> V] : AreSums(g, f, K)
<1> DEFINE Sums(g, m) ==
             \A s \in SmallSubsets(K, m) :
               g[s] = IF s = {} THEN 0 ELSE f[NextOf(s)] + g[s \ {NextOf(s)}]
           S == {m \in Nat : \E g \in [SmallSubsets(K, m) -> V] : Sums(g, m)}
<1>1. \A s \in SUBSET K : /\ IsFiniteSet(s) /\ Cardinality(s) \in Nat
                          /\ Cardinality(s) <= Cardinality(K)
                          /\ Cardinality(s) = 0 <=> s = {}
  BY FS_Subset, FS_CardinalityType, FS_EmptySet
<1>2. 0 \in S
  <2> DEFINE g == [s \in SmallSubsets(K, 0) |-> 0]
  <2>1. \A s \in SmallSubsets(K, 0) : s = {}
    BY <1>1 DEF SmallSubsets
  <2>2. g \in [SmallSubsets(K, 0) -> V] /\ Sums(g, 0)
    BY <2>1
  <2> QED
    BY <2>2
<1>3. ASSUME NEW m \in Nat, m \in S
      PROVE  m + 1 \in S
  <2>1. PICK g \in [SmallSubsets(K, m) -> V] : Sums(g, m)
    BY <1>3
  <2> DEFINE Value(s) == IF s = {} THEN 0 ELSE f[NextOf(s)] + g[s \ {NextOf(s)}]
             h == [s \in SmallSubsets(K, m + 1) |-> Value(s)]
  <2>2. ASSUME NEW s \in SmallSubsets(K, m + 1), s # {}
        PROVE  /\ NextOf(s) \in K
               /\ s \ {NextOf(s)} \in SmallSubsets(K, m)
               /\ s \ {NextOf(s)} \in SmallSubsets(K, m + 1)
    <3>1. s \in SUBSET K /\ Cardinality(s) <= m + 1
      BY DEF SmallSubsets
    <3> HIDE DEF S
    <3> QED
      BY <2>2, <3>1, OneLess DEF SmallSubsets
  <2>3. \A s \in SmallSubsets(K, m + 1) : Value(s) \in V
    <3> SUFFICES ASSUME NEW s \in SmallSubsets(K, m + 1), s # {}
                 PROVE  f[NextOf(s)] + g[s \ {NextOf(s)}] \in V
      BY 0 \in V
    <3>1. f[NextOf(s)] \in V /\ g[s \ {NextOf(s)}] \in V
      BY <2>2
    <3> QED
      BY <3>1
  <2>4. \A s \in SmallSubsets(K, m) :
          s \in SmallSubsets(K, m + 1) /\ g[s] = Value(s)
    <3>1. \A s \in SmallSubsets(K, m) : s \in SmallSubsets(K, m + 1)
      BY <1>1 DEF SmallSubsets
    <3> QED
      BY <2>1, <3>1
  <2> HIDE DEF Value
  <2>5. h \in [SmallSubsets(K, m + 1) -> V]
    BY <2>3
  <2>6. \A s \in SmallSubsets(K, m) : h[s] = g[s]
    BY <2>4
  <2>7. Sums(h, m + 1)
    <3> SUFFICES ASSUME NEW s \in SmallSubsets(K, m + 1)
                 PROVE  h[s] = IF s = {} THEN 0 ELSE f[NextOf(s)] + h[s \ {NextOf(s)}]
      OBVIOUS
    <3>1. h[s] = Value(s)
      OBVIOUS
    <3> HIDE DEF h
    <3>2. s # {} => h[s \ {NextOf(s)}] = g[s \ {NextOf(s)}]
      BY <2>2, <2>6
    <3> QED
      BY <3>1, <3>2 DEF Value
  <2> HIDE DEF h, Sums
  <2>8. m + 1 \in Nat /\ \E p \in [SmallSubsets(K, m + 1) -> V] : Sums(p, m + 1)
    BY <2>5, <2>7
  <2> QED
    BY <2>8
<1>4. Cardinality(K) \in S
  <2> HIDE DEF S
  <2>1. Nat \subseteq S
    BY <1>2, <1>3, SetInduction
  <2> QED
    BY <2>1, FS_CardinalityType
<1>5. SmallSubsets(K, Cardinality(K)) = SUBSET K
  BY <1>1 DEF SmallSubsets
<1> QED
  BY <1>4, <1>5 DEF AreSums

\* Sums obey their recursion.
LEMMA SumsObey ==
  ASSUME NEW K, IsFiniteSet(K), NEW V \in {Nat, Int}, NEW f \in [K -> V]
  PROVE  AreSums(SumOver(f, K), f, K)
<1> DEFINE Obeys(g) == g = [s \in SUBSET K |->
                         IF s = {} THEN 0 ELSE f[NextOf(s)] + g[s \ {NextOf(s)}]]
           h == SumOver(f, K)
<1>1. PICK g \in [SUBSET K -> V] : AreSums(g, f, K)
  BY SumsExist
<1>2. Obeys(g)
  BY <1>1 DEF AreSums
<1>3. Obeys(h)
  BY <1>2 DEF SumOver
<1> HIDE DEF h
<1>4. AreSums(h, f, K)
  BY <1>3 DEF AreSums
<1> QED
  BY <1>4 DEF h

\* f and e differ at k at most.
DifferAt(k, f, e, K) == \A j \in K : j # k => e[j] = f[j]

\* new is old but for the difference that e makes at k.
Shifted(new, old, f, e, k, s, V) ==
  /\ old[s] \in V /\ new[s] \in V
  /\ k \in s => new[s] = old[s] + e[k] - f[k]
  /\ k \notin s => new[s] = old[s]

\* Changing one value changes the sums over the sets that contain its
\* argument by the difference, and no others.
LEMMA OneValueChanges ==
  ASSUME NEW K, IsFiniteSet(K), NEW V \in {Nat, Int},
         NEW f \in [K -> V], NEW e \in [K -> V], NEW k \in K, DifferAt(k, f, e, K)
  PROVE  \A s \in SUBSET K : Shifted(SumOver(e, K), SumOver(f, K), f, e, k, s, V)
<1> DEFINE old == SumOver(f, K)
           new == SumOver(e, K)
           S == {m \in Nat : \A r \in SUBSET K : Cardinality(r) = m =>
                   Shifted(new, old, f, e, k, r, V)}
<1>1. AreSums(old, f, K) /\ AreSums(new, e, K)
  BY SumsObey
<1> HIDE DEF old, new
<1>2. 0 \in S
  <2>1. \A r \in SUBSET K : Cardinality(r) = 0 => r = {}
    BY FS_Subset, FS_EmptySet
  <2>2. old[{}] = 0 /\ new[{}] = 0
    BY <1>1 DEF AreSums
  <2>3. Shifted(new, old, f, e, k, {}, V)
    BY <2>2 DEF Shifted
  <2> QED
    BY <2>1, <2>3
<1>3. ASSUME NEW m \in Nat, m \in S
      PROVE  m + 1 \in S
  <2> SUFFICES ASSUME NEW r \in SUBSET K, Cardinality(r) = m + 1
               PROVE  Shifted(new, old, f, e, k, r, V)
    OBVIOUS
  <2> DEFINE x == NextOf(r)
             q == r \ {x}
  <2>1. r # {}
    <3>1. Cardinality({}) = 0 /\ m + 1 # 0
      BY FS_EmptySet
    <3> QED
      BY <3>1
  <2>2. x \in r /\ x \in K /\ q \in SUBSET K /\ Cardinality(q) = m
    BY <2>1, OneLess
  <2>3. Shifted(new, old, f, e, k, q, V)
    BY <1>3, <2>2
  <2>4. old[r] = f[x] + old[q] /\ new[r] = e[x] + new[q]
    BY <1>1, <2>1 DEF AreSums
  <2>5. f[x] \in V /\ e[x] \in V /\ f[k] \in V /\ e[k] \in V
    BY <2>2
  <2>6. /\ k \in q <=> k \in r /\ k # x
        /\ x # k => e[x] = f[x]
    BY <2>2 DEF DifferAt
  <2> HIDE DEF x, q, S
  <2>7. CASE x = k
    BY <2>2, <2>3, <2>4, <2>5, <2>6, <2>7 DEF Shifted
  <2>8. CASE x # k
    BY <2>3, <2>4, <2>5, <2>6, <2>8 DEF Shifted
  <2> QED
    BY <2>7, <2>8
<1>4. Nat \subseteq S
  <2> HIDE DEF S
  <2> QED
    BY <1>2, <1>3, SetInduction
<1>5. \A s \in SUBSET K : Shifted(new, old, f, e, k, s, V)
  BY <1>4, FS_Subset, FS_CardinalityType
<1> QED
  BY <1>5 DEF old, new

\* The sum over the whole set changes by what the value changes.
LEMMA SumChanges ==
  ASSUME NEW K, IsFiniteSet(K), NEW f \in [K -> Nat], NEW e \in [K -> Nat], NEW k \in K,
         DifferAt(k, f, e, K)
  PROVE  /\ SumOver(f, K)[K] \in Nat
         /\ SumOver(e, K)[K] = SumOver(f, K)[K] + e[k] - f[k]
<1>1. Shifted(SumOver(e, K), SumOver(f, K), f, e, k, K, Nat)
  BY OneValueChanges
<1> QED
  BY <1>1 DEF Shifted

\* The same of integers.
LEMMA IntegerSumChanges ==
  ASSUME NEW K, IsFiniteSet(K), NEW f \in [K -> Int], NEW e \in [K -> Int], NEW k \in K,
         DifferAt(k, f, e, K)
  PROVE  /\ SumOver(f, K)[K] \in Int
         /\ SumOver(e, K)[K] = SumOver(f, K)[K] + e[k] - f[k]
<1>1. Shifted(SumOver(e, K), SumOver(f, K), f, e, k, K, Int)
  BY OneValueChanges
<1> QED
  BY <1>1 DEF Shifted

\* Nothing adds up to nothing.
LEMMA SumOfZeros ==
  ASSUME NEW K, IsFiniteSet(K)
  PROVE  SumOver([k \in K |-> 0], K)[K] = 0
<1> DEFINE f == [k \in K |-> 0]
           sum == SumOver(f, K)
           S == {m \in Nat : \A r \in SUBSET K : Cardinality(r) = m => sum[r] = 0}
<1>1. f \in [K -> Nat] /\ \A k \in K : f[k] = 0
  OBVIOUS
<1> HIDE DEF f
<1>2. AreSums(sum, f, K)
  BY <1>1, SumsObey
<1> HIDE DEF sum
<1>3. 0 \in S
  <2>1. \A r \in SUBSET K : Cardinality(r) = 0 => r = {}
    BY FS_Subset, FS_EmptySet
  <2>2. sum[{}] = 0
    BY <1>2 DEF AreSums
  <2> QED
    BY <2>1, <2>2
<1>4. ASSUME NEW m \in Nat, m \in S
      PROVE  m + 1 \in S
  <2> SUFFICES ASSUME NEW r \in SUBSET K, Cardinality(r) = m + 1
               PROVE  sum[r] = 0
    OBVIOUS
  <2> DEFINE x == NextOf(r)
             q == r \ {x}
  <2>1. r # {}
    <3>1. Cardinality({}) = 0 /\ m + 1 # 0
      BY FS_EmptySet
    <3> QED
      BY <3>1
  <2>2. x \in K /\ q \in SUBSET K /\ Cardinality(q) = m
    BY <2>1, OneLess
  <2>3. sum[q] = 0
    BY <1>4, <2>2
  <2>4. sum[r] = f[x] + sum[q]
    BY <1>2, <2>1 DEF AreSums
  <2> HIDE DEF x, q, S
  <2> QED
    BY <1>1, <2>2, <2>3, <2>4
<1>5. Cardinality(K) \in S
  <2>1. Nat \subseteq S
    <3> HIDE DEF S
    <3> QED
      BY <1>3, <1>4, SetInduction
  <2> QED
    BY <2>1, FS_CardinalityType
<1> QED
  BY <1>5 DEF sum, f

=============================================================================
